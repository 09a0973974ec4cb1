----------------------------- MODULE LiveUpdates -----------------------------
(***************************************************************************)
(* The event broker of the server (src/events.ts), the two kinds of worker *)
(* process that listen to it, and the push notifications of finished jobs. *)
(*                                                                         *)
(* A legacy worker reads the database itself and sleeps between its claim  *)
(* rounds until something wakes it (worker.ts, startWorkerScheduler); an   *)
(* API runner asks the server for leases (api-worker.ts).  Both listen to  *)
(* a stream of events which may be lost, refused, cut, or end because its  *)
(* client is slow: an event only wakes a loop which the clock wakes too.   *)
(*                                                                         *)
(* A job is its row's status and lease; what a worker does with it is in   *)
(* JobExecution, the queue's statements are in JobQueue, updates of a      *)
(* runner's version in RunnerUpdates, and what the pages do with events in *)
(* RunPages.  Jobs are those whose tags both processes carry, in           *)
(* workspaces that are not being deleted; a lease and an hour lapse at any *)
(* time.                                                                   *)
(***************************************************************************)
EXTENDS Naturals, FiniteSets

CONSTANTS
  Jobs, Teams, Devices,
  JobTeam,          \* the workspace of each job
  Group,            \* its concurrency key, or None
  DeviceTeam,       \* the workspace whose jobs a subscribed device is told of
  Worker, Runner,   \* the legacy worker process and the API runner
  Deployments,      \* the sets of processes an installation may run
  None,
  Concurrency,      \* jobs each process runs at once
  MaxClients,       \* EventBroker.maxClients (1000)
  MaxClaims,        \* bound: claims of a job
  MaxGrantChanges   \* bound: grants given to and taken from the runner

ASSUME LiveConstants ==
  /\ JobTeam \in [Jobs -> Teams] /\ DeviceTeam \in [Devices -> Teams]
  /\ Worker # Runner /\ None \notin {Worker, Runner} \cup Teams \cup Jobs
  /\ Deployments \subseteq SUBSET {Worker, Runner}
  /\ Concurrency \in [{Worker, Runner} -> Nat \ {0}]
  /\ MaxClients \in Nat \ {0} /\ MaxClaims \in Nat \ {0} /\ MaxGrantChanges \in Nat

Processes  == {Worker, Runner}
Terminal   == {"success", "failed", "cancelled"}
Kinds      == {"available", "cancelled"}   \* the kinds a process acts upon
Executions == Jobs \X (1..MaxClaims)       \* a job, and which of its claims
\* notifyJobChange as an execution starts, once while it goes on, and as it ends.
Notices    == Executions \X {"start", "step", "end"}
JobOf(n)   == n[1][1]
\* A job and those of its concurrency group: of them one runs at a time.
Kin(j) == {j} \cup {k \in Jobs : Group[k] # None /\ Group[k] = Group[j] /\ JobTeam[k] = JobTeam[j]}

VARIABLES
  deployed,   \* the processes of this installation
  status,     \* jobs.status
  claims,     \* how often each job was claimed
  lease,      \* "none", "open", "completed", or "fenced"
  tasks,      \* activeJobs of each process
  wrote,      \* those of the worker that have written their job's status
  restarting, \* restarts that read their job as running, and the job they queued
  overwritten,\* jobs whose outcome was written over (history)
  \* the broker and its streams
  stream,     \* of each process: "down", "asked", "open", or "ending"
  scope,      \* runnerTeamIds of the runner's stream
  inbox,      \* events written to a stream and not yet read
  others,     \* streams of browsers
  \* the grants of the runner
  grants,     \* runner_team_grants
  changing,   \* the workspace whose grant changed before the streams are closed
  overlap,    \* the grants changed between the read of them and the stream's opening
  changes,
  \* the claim loops
  loop,       \* of each process: where it is
  news,       \* wakeVersion # observedWake
  retry,      \* the timer set by a failed claim
  told,       \* jobs the worker was told of
  freed,      \* jobs that others gave way to since the worker's last claim round (history)
  \* push notifications
  notice,     \* how far each notice has come
  saw,        \* the status the server holds for it
  delivered,  \* push_deliveries
  devices,    \* team_push_subscriptions
  sent        \* what was pushed: the notice, the device and the status told

rowVars    == <<status, claims, lease>>
workVars   == <<tasks, wrote>>
jobVars    == <<deployed, rowVars, workVars, restarting, overwritten>>
streamVars == <<stream, scope, inbox, others>>
grantVars  == <<grants, changing, overlap, changes>>
wakeVars   == <<loop, news, retry, told>>
loopVars   == <<wakeVars, freed>>
pushVars   == <<notice, saw, delivered, devices, sent>>
liveVars   == <<jobVars, streamVars, grantVars, loopVars, pushVars>>

LiveInit ==
  /\ deployed \in Deployments
  /\ status = [j \in Jobs |-> "none"] /\ claims = [j \in Jobs |-> 0] /\ lease = [j \in Jobs |-> "none"]
  /\ tasks = [p \in Processes |-> {}] /\ wrote = {} /\ restarting = {} /\ overwritten = {}
  /\ stream = [p \in Processes |-> "down"] /\ scope = {}
  /\ inbox = [p \in Processes |-> {}] /\ others = 0
  /\ grants = {} /\ changing = None /\ overlap = FALSE /\ changes = 0
  /\ loop = [p \in Processes |-> "top"]
  /\ news = FALSE /\ retry = FALSE /\ told = {} /\ freed = {}
  /\ notice = [n \in Notices |-> "none"] /\ saw = [n \in Notices |-> "none"]
  /\ delivered = {} /\ devices = {} /\ sent = {}

-----------------------------------------------------------------------------
\* The broker.

\* publish writes to the streams the event concerns: a legacy worker's only
\* hears of available jobs, a runner's only of the workspaces it had when it
\* opened.  Kinds which a process ignores are left out.
Reaches(p, kind, j) ==
  /\ stream[p] = "open"
  /\ p = Worker => kind = "available"
  /\ p = Runner => JobTeam[j] \in scope

\* The streams as a publication of events leaves them.  A client whose buffer
\* is full still gets the event, and its stream then ends.
Publish(events) ==
  LET heard(p) == {e \in events : Reaches(p, e[1], e[2])} IN
  /\ inbox' = [p \in Processes |-> inbox[p] \cup heard(p)]
  /\ \E slow \in {{}} \cup {{p} : p \in {q \in Processes : heard(q) # {}}} :
       stream' = [p \in Processes |-> IF p \in slow THEN "ending" ELSE stream[p]]
  /\ UNCHANGED <<scope, others>>

Room == others + Cardinality({p \in Processes : stream[p] = "open"}) < MaxClients

BrowserOpens ==
  /\ Room /\ others' = others + 1
  /\ UNCHANGED <<jobVars, stream, scope, inbox, grantVars, loopVars, pushVars>>

BrowserLeaves ==
  /\ others > 0 /\ others' = others - 1
  /\ UNCHANGED <<jobVars, stream, scope, inbox, grantVars, loopVars, pushVars>>

\* Only a loop that waits hears signalWake.
RunnerWakes ==
  loop' = [loop EXCEPT ![Runner] = IF @ = "wait" THEN "claim" ELSE @]

\* wake(): the version moves, and a loop that waits starts over.
WorkerWakes ==
  /\ news' = TRUE
  /\ loop' = [loop EXCEPT ![Worker] = IF @ = "wait" THEN "top" ELSE @]

\* The legacy worker's stream opens, and wakes its loop: what was published
\* while it was down is lost.
WorkerConnects ==
  /\ Worker \in deployed /\ stream[Worker] = "down" /\ Room
  /\ stream' = [stream EXCEPT ![Worker] = "open"]
  /\ WorkerWakes
  /\ UNCHANGED <<jobVars, scope, inbox, others, grantVars, retry, told, freed, pushVars>>

\* The runner asks for its stream (each retry wakes its loop first): the
\* server reads the runner's workspaces ...
RunnerAsks ==
  /\ Runner \in deployed /\ stream[Runner] = "down"
  /\ stream' = [stream EXCEPT ![Runner] = "asked"]
  /\ scope' = grants /\ overlap' = FALSE
  /\ RunnerWakes
  /\ UNCHANGED <<jobVars, inbox, others, grants, changing, changes,
                 news, retry, told, freed, pushVars>>

\* ... and subscribes the stream with what it read, unless the broker is full.
RunnerConnects ==
  /\ stream[Runner] = "asked"
  /\ stream' = [stream EXCEPT ![Runner] = IF Room THEN "open" ELSE "down"]
  /\ UNCHANGED <<jobVars, scope, inbox, others, grantVars, loopVars, pushVars>>

\* The connection breaks, with what it carried; or the client has read the
\* last event of a stream that ended.
Disconnects(p) ==
  /\ stream[p] \in {"open", "ending"}
  /\ stream' = [stream EXCEPT ![p] = "down"]
  /\ inbox' = [inbox EXCEPT ![p] = {}]
  /\ UNCHANGED <<jobVars, scope, others, grantVars, loopVars, pushVars>>

\* The worker's consumer reads an event (its tags match): it wakes the loop.
WorkerHears(j) ==
  /\ <<"available", j>> \in inbox[Worker]
  /\ inbox' = [inbox EXCEPT ![Worker] = @ \ {<<"available", j>>}]
  /\ told' = told \cup {j}
  /\ WorkerWakes
  /\ UNCHANGED <<jobVars, stream, scope, others, grantVars, retry, freed, pushVars>>

\* The runner's consumer reads an event: a cancelled lease's execution is
\* told to abort, which it does in its own time, and the loop is woken.
RunnerHears(e) ==
  /\ e \in inbox[Runner]
  /\ inbox' = [inbox EXCEPT ![Runner] = @ \ {e}]
  /\ RunnerWakes
  /\ UNCHANGED <<jobVars, stream, scope, others, grantVars, news, retry, told, freed, pushVars>>

-----------------------------------------------------------------------------
\* The jobs.  Where the worker is not the one that writes a job's row, what
\* may be claimed since is noted: the jobs that are queued again, and those
\* whose group no longer runs a job.
Frees ==
  freed' = freed \cup UNION {Kin(j) : j \in
    {k \in Jobs : status'[k] # status[k] /\ (status[k] = "running" \/ status'[k] = "queued")}}

\* Four statements write over a job's outcome; it is noted whose.
Overwrites ==
  overwritten' = overwritten \cup {j \in Jobs : status[j] \in Terminal /\ status'[j] # status[j]}

\* A job is enqueued: the dispatch of a run request publishes it, and so does the
\* restart of a job that is not running; the scheduler's process has no broker
\* to publish it with.
Enqueue(j) ==
  /\ status[j] = "none"
  /\ status' = [status EXCEPT ![j] = "queued"]
  /\ \/ Publish({<<"available", j>>})
     \/ UNCHANGED streamVars
  /\ UNCHANGED <<deployed, claims, lease, workVars, restarting, overwritten, grantVars, loopVars, pushVars>>

\* A user cancels a job that is not over; published is the lease, if it had one,
\* which the handler read before.
Cancel(j) ==
  /\ status[j] \in {"queued", "running"}
  /\ status' = [status EXCEPT ![j] = "cancelled"] /\ Frees
  /\ \/ claims[j] > 0 /\ Publish({<<"cancelled", j>>})
     \/ UNCHANGED streamVars
  /\ UNCHANGED <<deployed, claims, lease, workVars, restarting, overwritten, grantVars, wakeVars, pushVars>>

\* A user restarts a job that restartJob reads as running ...
RestartReads(j) ==
  /\ status[j] = "running" /\ restarting' = restarting \cup {<<j, None>>}
  /\ UNCHANGED <<deployed, rowVars, workVars, overwritten, streamVars, grantVars, loopVars, pushVars>>

\* ... another job of its group is queued ...
RestartInserts(j, k) ==
  /\ <<j, None>> \in restarting /\ restarting' = (restarting \ {<<j, None>>}) \cup {<<j, k>>}
  /\ status[k] = "none" /\ Group[k] = Group[j] /\ JobTeam[k] = JobTeam[j]
  /\ status' = [status EXCEPT ![k] = "queued"]
  /\ UNCHANGED <<deployed, claims, lease, workVars, overwritten, streamVars, grantVars, loopVars, pushVars>>

\* ... and the first is cancelled, whatever has become of it; the new one is published.
RestartCancels(j, k) ==
  /\ <<j, k>> \in restarting /\ k # None /\ restarting' = restarting \ {<<j, k>>}
  /\ status' = [status EXCEPT ![j] = "cancelled"] /\ Frees /\ Overwrites
  /\ Publish({<<"available", k>>})
  /\ UNCHANGED <<deployed, claims, lease, workVars, grantVars, wakeVars, pushVars>>

\* The restart ends with an error on the way.
RestartFails(a) ==
  /\ a \in restarting /\ restarting' = restarting \ {a}
  /\ UNCHANGED <<deployed, rowVars, workVars, overwritten, streamVars, grantVars, loopVars, pushVars>>

\* The sweep of a server that starts, and before each claim of a runner: a
\* cancelled lease that lapsed is completed; a job whose lease lapsed while it
\* ran, that ran for an hour without one, or that was fenced, is queued again.
\* (So is a job at once whose revision the claiming runner's server cannot find.)
ClearStaleJobs(j) ==
  /\ \/ /\ status[j] = "cancelled" /\ lease[j] = "open"
        /\ lease' = [lease EXCEPT ![j] = "completed"] /\ UNCHANGED status
     \/ /\ status[j] = "running" \/ (status[j] = "cancelled" /\ lease[j] = "fenced")
        /\ claims[j] < MaxClaims
        /\ status' = [status EXCEPT ![j] = "queued"] /\ lease' = [lease EXCEPT ![j] = "none"]
  /\ Frees /\ Overwrites
  /\ UNCHANGED <<deployed, claims, workVars, restarting, streamVars, grantVars, wakeVars, pushVars>>

-----------------------------------------------------------------------------
\* The grants of the runner: the table first, the streams after.

CloseRunnerStreams ==
  stream' = [stream EXCEPT ![Runner] = IF @ = "open" THEN "ending" ELSE @]

ChangeGrants(t, after) ==
  /\ Runner \in deployed /\ changing = None /\ changes < MaxGrantChanges
  /\ grants' = after /\ changing' = t /\ changes' = changes + 1
  /\ overlap' = (overlap \/ stream[Runner] = "asked")
  /\ UNCHANGED <<jobVars, streamVars, loopVars, pushVars>>

Grant(t)  == ChangeGrants(t, grants \cup {t})   \* INSERT OR IGNORE
Revoke(t) == t \in grants /\ ChangeGrants(t, grants \ {t})

\* What the runner has leased and not completed.
Held == {j \in Jobs : lease[j] \in {"open", "fenced"} /\ status[j] \in {"running", "cancelled"}}

\* revokeRunnerLeasesForTeam: what it held of a workspace that was taken.
Lost == {j \in Held : JobTeam[j] = changing /\ changing \notin grants}

Fence ==
  /\ status' = [j \in Jobs |-> IF j \in Lost THEN "cancelled" ELSE status[j]]
  /\ lease' = [j \in Jobs |-> IF j \in Lost THEN "fenced" ELSE lease[j]]
  /\ Frees
  /\ inbox' = [inbox EXCEPT ![Runner] = @ \cup
       {<<"cancelled", j>> : j \in {k \in Lost : Reaches(Runner, "cancelled", k)}}]

\* The rest of both handlers: lost leases are fenced and published, then the
\* streams close.
SettleGrants ==
  /\ changing # None /\ changing' = None /\ Fence /\ CloseRunnerStreams
  /\ UNCHANGED <<deployed, claims, workVars, restarting, overwritten, scope, others, grants, overlap, changes,
                 wakeVars, pushVars>>

-----------------------------------------------------------------------------
\* The claims of both loops: of a queued job whose group runs none, by a process
\* with a place; the server counts what a runner holds, and asks for its grant.
HasPlace(p) == Cardinality(tasks[p]) < Concurrency[p]

Claimable(p) ==
  {j \in Jobs :
     /\ HasPlace(p) /\ status[j] = "queued" /\ \A k \in Kin(j) : status[k] # "running"
     /\ p = Runner => JobTeam[j] \in grants /\ Cardinality(Held) < Concurrency[Runner]}

Claimed(j) == <<j, claims[j] + 1>>   \* the execution that the next claim of j begins

\* claimNextJob and claimNextForRunner, each one statement.
Claim(p, j) ==
  /\ j \in Claimable(p) /\ claims[j] < MaxClaims
  /\ status' = [status EXCEPT ![j] = "running"] /\ claims' = [claims EXCEPT ![j] = @ + 1]
  /\ lease' = IF p = Runner THEN [lease EXCEPT ![j] = "open"] ELSE lease

-----------------------------------------------------------------------------
\* The legacy worker's loop.

AtWorker(from, to) ==
  /\ Worker \in deployed /\ loop[Worker] = from
  /\ loop' = [loop EXCEPT ![Worker] = to]

\* observedWake = wakeVersion, before the queue is read.
WorkerStarts ==
  /\ AtWorker("top", "claim") /\ news' = FALSE
  /\ UNCHANGED <<jobVars, streamVars, grantVars, retry, told, freed, pushVars>>

\* A claimed job is run beside the loop, which first tells the server of it.
WorkerClaims(j) ==
  /\ AtWorker("claim", "claim") /\ Claim(Worker, j)
  /\ tasks' = [tasks EXCEPT ![Worker] = @ \cup {Claimed(j)}]
  /\ notice' = [notice EXCEPT ![<<Claimed(j), "start">>] = "posted"]
  /\ UNCHANGED <<deployed, wrote, restarting, overwritten, streamVars, grantVars,
                 news, retry, told, freed, saw, delivered, devices, sent>>

\* The process is full, or the queue has nothing for it.
WorkerClaimsNone ==
  /\ AtWorker("claim", "decide") /\ Claimable(Worker) = {} /\ freed' = {}
  /\ UNCHANGED <<jobVars, streamVars, grantVars, news, retry, told, pushVars>>

\* The database fails: the loop is woken in five seconds.
WorkerClaimFails ==
  /\ AtWorker("claim", "decide") /\ HasPlace(Worker)
  /\ retry' = TRUE
  /\ UNCHANGED <<jobVars, streamVars, grantVars, news, told, freed, pushVars>>

\* The loop waits unless it was woken since it read the version.
\* Mutant: it waits whatever happened meanwhile.
WaitsAnyway ==
  /\ AtWorker("decide", "wait")
  /\ UNCHANGED <<jobVars, streamVars, grantVars, news, retry, told, freed, pushVars>>

WorkerDecides ==
  /\ AtWorker("decide", IF news THEN "top" ELSE "wait")
  /\ UNCHANGED <<jobVars, streamVars, grantVars, news, retry, told, freed, pushVars>>

\* The minute is over.
WorkerTimesOut ==
  /\ AtWorker("wait", "top")
  /\ UNCHANGED <<jobVars, streamVars, grantVars, news, retry, told, freed, pushVars>>

WorkerRetries ==
  /\ retry /\ retry' = FALSE /\ WorkerWakes
  /\ UNCHANGED <<jobVars, streamVars, grantVars, told, freed, pushVars>>

\* An execution tells the server of a step, or that it has written its outcome.
WorkerReports(x) ==
  /\ x \in tasks[Worker] /\ notice[<<x, "step">>] = "none"
  /\ notice' = [notice EXCEPT ![<<x, "step">>] = "posted"]
  /\ UNCHANGED <<jobVars, streamVars, grantVars, loopVars, saw, delivered, devices, sent>>

\* completeJob: an execution writes its outcome over any status but "cancelled",
\* and takes the lease that another process may have by now.
WorkerWrites(x, outcome) ==
  /\ x \in tasks[Worker] \ wrote /\ wrote' = wrote \cup {x}
  /\ status' = [status EXCEPT ![x[1]] = IF @ = "cancelled" THEN @ ELSE outcome]
  /\ lease' = [lease EXCEPT ![x[1]] = "none"]
  /\ Overwrites
  /\ UNCHANGED <<deployed, claims, tasks, restarting, streamVars, grantVars, loopVars, pushVars>>

\* finishJob: the job's revision is gone, and "failed" is written over any status.
WorkerRefuses(x) ==
  /\ x \in tasks[Worker] \ wrote /\ wrote' = wrote \cup {x}
  /\ status' = [status EXCEPT ![x[1]] = "failed"]
  /\ Overwrites
  /\ UNCHANGED <<deployed, claims, lease, tasks, restarting, streamVars, grantVars, loopVars, pushVars>>

\* An execution ends, with or without having written; the place is free, the
\* server is told again, and the loop is woken.
WorkerEnds(x) ==
  /\ x \in tasks[Worker]
  /\ tasks' = [tasks EXCEPT ![Worker] = @ \ {x}] /\ wrote' = wrote \ {x}
  /\ notice' = [notice EXCEPT ![<<x, "end">>] = "posted"]
  /\ WorkerWakes
  /\ UNCHANGED <<deployed, rowVars, restarting, overwritten, streamVars, grantVars, retry, told, freed,
                 saw, delivered, devices, sent>>

-----------------------------------------------------------------------------
\* The API runner's loop.

AtRunner(from, to) ==
  /\ Runner \in deployed /\ loop[Runner] \in from
  /\ loop' = [loop EXCEPT ![Runner] = to]

RunnerClaims(j) ==
  /\ AtRunner({"top", "claim"}, "claim") /\ Claim(Runner, j)
  /\ tasks' = [tasks EXCEPT ![Runner] = @ \cup {Claimed(j)}]
  /\ UNCHANGED <<deployed, wrote, restarting, overwritten, streamVars, grantVars,
                 news, retry, told, freed, pushVars>>

\* A job is leased, and the answer lost, or an error: nobody runs it.
RunnerClaimIsLost(j) ==
  /\ AtRunner({"top", "claim"}, "backoff") /\ Claim(Runner, j)
  /\ UNCHANGED <<deployed, workVars, restarting, overwritten, streamVars, grantVars,
                 news, retry, told, freed, pushVars>>

RunnerClaimsNone ==
  /\ AtRunner({"top", "claim"}, "wait") /\ Claimable(Runner) = {}
  /\ UNCHANGED <<jobVars, streamVars, grantVars, news, retry, told, freed, pushVars>>

\* The claim fails: three seconds, in which no wake is heard, and the wait.
RunnerClaimFails ==
  /\ AtRunner({"top", "claim"}, "backoff") /\ HasPlace(Runner)
  /\ UNCHANGED <<jobVars, streamVars, grantVars, news, retry, told, freed, pushVars>>

RunnerBacksOff ==
  /\ AtRunner({"backoff"}, "wait")
  /\ UNCHANGED <<jobVars, streamVars, grantVars, news, retry, told, freed, pushVars>>

\* Three seconds, or thirty with a full process.
RunnerTimesOut ==
  /\ AtRunner({"wait"}, "claim")
  /\ UNCHANGED <<jobVars, streamVars, grantVars, news, retry, told, freed, pushVars>>

\* completeJobForRunner: under the current lease and grant, over "running" only.
RunnerCompletes(x, outcome) ==
  /\ x \in tasks[Runner] /\ x[2] = claims[x[1]] /\ JobTeam[x[1]] \in grants
  /\ lease[x[1]] = "open" /\ status[x[1]] \in {"running", "cancelled"}
  /\ status' = [status EXCEPT ![x[1]] = IF @ = "running" THEN outcome ELSE @]
  /\ lease' = [lease EXCEPT ![x[1]] = "completed"]
  /\ Frees
  /\ UNCHANGED <<deployed, claims, workVars, restarting, overwritten, streamVars, grantVars, wakeVars, pushVars>>

\* The execution ends, with or without having completed its job.
RunnerEnds(x) ==
  /\ x \in tasks[Runner]
  /\ tasks' = [tasks EXCEPT ![Runner] = @ \ {x}]
  /\ RunnerWakes
  /\ UNCHANGED <<deployed, rowVars, wrote, restarting, overwritten, streamVars, grantVars,
                 news, retry, told, freed, pushVars>>

-----------------------------------------------------------------------------
\* Push notifications: POST /api/v1/events of a legacy worker.

\* A notice is lost: the request fails or takes five seconds, or the server
\* stops before it is done with it.
NoticeLost(n) ==
  /\ notice[n] \in {"posted", "read", "send"}
  /\ notice' = [notice EXCEPT ![n] = "done"] /\ saw' = [saw EXCEPT ![n] = "none"]
  /\ UNCHANGED <<jobVars, streamVars, grantVars, loopVars, delivered, devices, sent>>

\* handleWorkerEvent reads the job; notify goes on if it is over.
NoticeRead(n) ==
  /\ notice[n] = "posted"
  /\ IF status[JobOf(n)] \in Terminal
       THEN notice' = [notice EXCEPT ![n] = "read"] /\ saw' = [saw EXCEPT ![n] = status[JobOf(n)]]
       ELSE notice' = [notice EXCEPT ![n] = "done"] /\ UNCHANGED saw
  /\ UNCHANGED <<jobVars, streamVars, grantVars, loopVars, delivered, devices, sent>>

\* INSERT INTO push_deliveries ... ON CONFLICT DO NOTHING: one notice goes on.
\* Mutant: the row's absence is not asked for.
ClaimsEveryDelivery(n) ==
  /\ notice[n] = "read" /\ notice' = [notice EXCEPT ![n] = "send"]
  /\ delivered' = delivered \cup {JobOf(n)}
  /\ UNCHANGED <<jobVars, streamVars, grantVars, loopVars, saw, devices, sent>>

ClaimDelivery(n) ==
  /\ notice[n] = "read"
  /\ notice' = [notice EXCEPT ![n] = IF JobOf(n) \in delivered THEN "done" ELSE "send"]
  /\ delivered' = delivered \cup {JobOf(n)}
  /\ UNCHANGED <<jobVars, streamVars, grantVars, loopVars, saw, devices, sent>>

\* The devices of the workspace are read and told; those which are gone (404,
\* 410) are removed.
SendPushes(n) ==
  /\ notice[n] = "send"
  /\ notice' = [notice EXCEPT ![n] = "done"] /\ saw' = [saw EXCEPT ![n] = "none"]
  /\ LET to == {d \in devices : DeviceTeam[d] = JobTeam[JobOf(n)]} IN
     \E gone \in SUBSET to :
       /\ sent' = sent \cup {[notice |-> n, device |-> d, as |-> saw[n]] : d \in to \ gone}
       /\ devices' = devices \ gone
  /\ UNCHANGED <<jobVars, streamVars, grantVars, loopVars, delivered>>

SubscribePush(d) ==
  /\ d \notin devices /\ devices' = devices \cup {d}
  /\ UNCHANGED <<jobVars, streamVars, grantVars, loopVars, notice, saw, delivered, sent>>

UnsubscribePush(d) ==
  /\ d \in devices /\ devices' = devices \ {d}
  /\ UNCHANGED <<jobVars, streamVars, grantVars, loopVars, notice, saw, delivered, sent>>
-----------------------------------------------------------------------------
LiveNext ==
  \/ BrowserOpens \/ BrowserLeaves
  \/ WorkerConnects \/ RunnerAsks \/ RunnerConnects
  \/ \E p \in Processes : Disconnects(p)
  \/ \E j \in Jobs : WorkerHears(j)
  \/ \E e \in Kinds \X Jobs : RunnerHears(e)
  \/ \E j \in Jobs : Enqueue(j) \/ Cancel(j) \/ RestartReads(j) \/ ClearStaleJobs(j)
  \/ \E j, k \in Jobs : RestartInserts(j, k) \/ RestartCancels(j, k)
  \/ \E a \in restarting : RestartFails(a)
  \/ \E t \in Teams : Grant(t) \/ Revoke(t)
  \/ SettleGrants
  \/ WorkerStarts \/ \E j \in Jobs : WorkerClaims(j)
  \/ WorkerClaimsNone \/ WorkerClaimFails \/ WorkerDecides
  \/ WorkerTimesOut \/ WorkerRetries
  \/ \E x \in Executions : WorkerReports(x) \/ WorkerRefuses(x) \/ WorkerEnds(x)
  \/ \E x \in Executions, o \in Terminal : WorkerWrites(x, o)
  \/ \E j \in Jobs : RunnerClaims(j) \/ RunnerClaimIsLost(j)
  \/ RunnerClaimsNone \/ RunnerClaimFails \/ RunnerBacksOff \/ RunnerTimesOut
  \/ \E x \in Executions, o \in Terminal : RunnerCompletes(x, o)
  \/ \E x \in Executions : RunnerEnds(x)
  \/ \E n \in Notices : NoticeLost(n) \/ NoticeRead(n) \/ ClaimDelivery(n) \/ SendPushes(n)
  \/ \E d \in Devices : SubscribePush(d) \/ UnsubscribePush(d)

LiveSpec == LiveInit /\ [][LiveNext]_liveVars

-----------------------------------------------------------------------------
\* A legacy worker never sleeps on a job it was told of and may claim: while it
\* waits and no retry is due, each such job is one that another process gave way
\* to after the worker's last claim round, of which nothing tells the worker, or is
\* of the group of an execution of its own, whose end will wake it; at whatever
\* moment of the claim round the event came (worker.ts, wakeVersion; the group is
\* that of claimNextJob).
AwakeWhenTold ==
  loop[Worker] = "wait" /\ ~retry =>
    \A j \in told \cap Claimable(Worker) :
      j \in freed \/ \E x \in tasks[Worker] : j \in Kin(x[1])

\* A runner's open stream carries the workspaces the runner has, unless the
\* change is still under way or overlapped the request for the stream
\* (server.ts, closeRunnerStreams after each change of the grants).
StreamsFollowGrants ==
  stream[Runner] = "open" /\ scope # grants => changing # None \/ overlap

\* Whoever runs jobs hears of those it may run, at whatever moment an event or
\* a change of its grants comes.
WorkersHear == AwakeWhenTold /\ StreamsFollowGrants

\* A device is told of a job once, although several notices of its executions may
\* find it over (push.ts, push_deliveries); and what it is told is an outcome,
\* which the job still has unless one of four statements wrote over it: a restart's,
\* completeJob, finishJob, and the sweep's of a fenced job.
ToldOnceOfTheOutcome ==
  \A x, y \in sent :
    /\ x.as \in Terminal /\ (x.as = status[JobOf(x.notice)] \/ JobOf(x.notice) \in overwritten)
    /\ JobOf(x.notice) = JobOf(y.notice) /\ x.device = y.device => x = y
=============================================================================
