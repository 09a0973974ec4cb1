----------------------------- MODULE RunPromise -----------------------------
(***************************************************************************)
(* What admission promises of the runs it was asked for: a job is started  *)
(* at most once for each, and the one verdict a run is given is final and  *)
(* agrees with that fact.                                                  *)
(***************************************************************************)
EXTENDS Naturals, Sequences

CONSTANT Runs
VARIABLES started,  \* the run each job was started for, by job id
          verdict   \* of each run: open, admitted or failed

IsStarted(run) == \E j \in DOMAIN started : started[j] = run

Init ==
    /\ started = <<>>
    /\ verdict = [run \in Runs |-> "open"]

Start(run) ==
    /\ verdict[run] = "open" /\ ~IsStarted(run)
    /\ started' = Append(started, run)
    /\ UNCHANGED verdict
Admit(run) ==
    /\ verdict[run] = "open" /\ IsStarted(run)
    /\ verdict' = [verdict EXCEPT ![run] = "admitted"]
    /\ UNCHANGED started
Fail(run) ==
    /\ verdict[run] = "open" /\ ~IsStarted(run)
    /\ verdict' = [verdict EXCEPT ![run] = "failed"]
    /\ UNCHANGED started

Next == \E run \in Runs : Start(run) \/ Admit(run) \/ Fail(run)
Spec == Init /\ [][Next]_<<started, verdict>>
=============================================================================
