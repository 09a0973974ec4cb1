---------------------------- MODULE MCLiveUpdates ----------------------------
(***************************************************************************)
(* The live updates, in parts of their own: a legacy worker and its stream *)
(* (alone, and beside a runner), its push notifications, an API runner and *)
(* its grants, the three pages that follow runs, and the sign-in every     *)
(* page's requests rest on.                                                *)
(***************************************************************************)
EXTENDS LiveUpdates, RunPages, SignIn, TLC

CONSTANTS j1, j2, t1, t2, d1, w, r, s1, s2, ann, bob,
          Parts

VARIABLE part   \* what this behaviour is about

MCJobTeam    == [j \in Jobs |-> t1]
MCGroup      == [j \in Jobs |-> "deploys"]
MCConcurrency == w :> 2 @@ r :> 1
MCDeviceTeam == [d \in Devices |-> t1]
MCDeployments == {{w}, {r}, {w, r}}

\* All runs are of one selection; the other is empty.
MCRunSelection == [q \in Runs |-> t1]
MCHistory      == <<"running", "success">>

MCUserOf == s1 :> ann @@ s2 :> bob

vars == <<liveVars, pageVars, signInVars, part>>

\* The jobs are of one group, and succeed or are cancelled; the parts about the loops
\* leave the notices unread.  The worker claims twice in all, and is told of one
\* job; so it does with a runner beside it that runs the other, whose stream is closed;
\* the runner's own part has one job.
LoopsStep ==
  /\ UNCHANGED <<saw, devices>>
  /\ \A n \in Notices : notice'[n] \in {"none", "posted"} /\ (n[2] = "step" => notice'[n] = "none")
  /\ \A j \in Jobs : status'[j] # "failed"
  /\ part \in {"worker", "both"} =>
       UNCHANGED others /\ <<"available", j2>> \notin inbox'[w] /\ claims'[j1] + claims'[j2] <= 2
  /\ part = "worker" => stream'[w] # "ending" /\ <<j2, None>> \notin restarting'
  /\ part = "both" =>
       /\ stream'[r] = "down" /\ changes' <= 1 /\ t1 \in grants'
       /\ \A x \in Executions : (x \in tasks'[w] => x[1] = j1) /\ (x \in tasks'[r] => x[1] = j2)
       /\ loop'[r] # "backoff" /\ restarting' = {} /\ retry' = FALSE
  /\ part = "runner" => status'[j2] = "none"

\* The notices' part is about one job, claimed twice or restarted, whose restart
\* nobody claims; the stream is closed, the loop claims on, and two notices are on
\* their way at once.
NoticesStep ==
  /\ UNCHANGED <<stream, others>> /\ loop'[w] \in {"top", "claim"} /\ claims'[j2] = 0
  /\ status'[j2] # status[j2] => <<j1, j2>> \in restarting' /\ status[j2] = "none"
  /\ claims'[j1] = 2 => status'[j2] = "none" /\ restarting' = {} /\ notice'[<<<<j1, 2>>, "step">>] = "none"
  /\ Cardinality({n \in Notices : notice'[n] \notin {"none", "done"}}) <= 2

Live ==
  /\ LiveNext /\ UNCHANGED <<pageVars, signInVars, part>>
  /\ \/ part \in {"worker", "both", "runner"} /\ LoopsStep
     \/ part = "pushes" /\ NoticesStep

Pages ==
  /\ \/ \E q \in Runs : (part = "list" \/ q = 1) /\ Progress(q)
     \/ part = "list" /\ ListStep
     \/ part = "run" /\ RunStep
     \/ part = "invocation" /\ InvocationStep
  /\ UNCHANGED <<liveVars, signInVars, part>>

\* One session, opened in a tab or by the page's dialog, whose tokens age and
\* are refreshed; and two sessions, of two users, that the dialog opens.
Browser ==
  /\ SignInNext /\ UNCHANGED <<liveVars, pageVars, part>>
  /\ \/ part = "tokens" /\ window'["popup"] = Closed /\ window'["tab"].session # s2
     \/ part = "late" /\ window'["popup"].session # s2 /\ UNCHANGED restarts
     \/ part = "dialog" /\ UNCHANGED <<aged, restarts>>
  /\ part # "tokens" => /\ window'["tab"] = Closed
                        /\ \A s \in Sessions : honoured[s] # 0 => honoured'[s] # 0

Init ==
  /\ LiveInit /\ PagesInit /\ SignInInit /\ part \in Parts
  /\ deployed = CASE part = "runner" -> {r} [] part = "both" -> {w, r} [] OTHER -> {w}
  /\ part # "list" => selection = t1

Next ==
  \/ part \in {"worker", "both", "runner", "pushes"} /\ Live
  \/ part \in {"list", "run", "invocation"} /\ Pages
  \/ part \in {"tokens", "late", "dialog"} /\ Browser

Spec == Init /\ [][Next]_vars
=============================================================================
