------------------------------ MODULE JobQueue ------------------------------
(***************************************************************************)
(* The job queue of the control plane (src/src/queue.ts), with the callers *)
(* in server.ts, runner-registry.ts and worker.ts that reach it.  A job is *)
(* a row of the jobs table.  One SQL statement, or one db.transaction, is  *)
(* atomic; two statements of the same handler are two steps here, because  *)
(* handlers of other requests, of other server processes and of legacy     *)
(* workers run between them.                                               *)
(*                                                                         *)
(* A lease id stands for the random (lease_id, lease_token_hash) pair of a *)
(* claim.  age abstracts both clocks of a row: of a leased row it tells    *)
(* how much of the lease has elapsed (Term: lease_expires_at has passed),  *)
(* of an unleased running row that started_at is over an hour old.         *)
(***************************************************************************)
EXTENDS Naturals, FiniteSets

CONSTANTS
    MaxJobs,      \* rows the jobs table may ever hold (bound)
    MaxLeases,    \* leases that may ever be granted (bound)
    MaxCrashes,   \* control-plane crashes (bound)
    Term,         \* ticks after which a lease has expired
    Runners,      \* enrolled API runners
    Workers,      \* legacy workers with a database connection
    Teams,        \* workspaces
    Shared,       \* scope of a shared runner; any value that is not a team
    HomeTeam,     \* HomeTeam[r]: the team of a team runner, or Shared
    Capacity,     \* Capacity[r]: the concurrency of the runner
    Nobody,       \* worker_id IS NULL
    Definitions,  \* what jobs are created from: workflow + concurrency key
    NoKey,        \* the empty concurrency key
    TeamOf, KeyOf, \* of a definition: its team and its concurrency key
    CanRun        \* CanRun[x]: definitions whose required tags x satisfies

Jobs == 1..MaxJobs
Leases == 1..MaxLeases
Ticks == 0..Term
NoLease == 0
NoClaim == <<0, 0>>

ASSUME ConstantsAssumption ==
    /\ MaxJobs \in Nat /\ MaxLeases \in Nat /\ MaxCrashes \in Nat
    /\ Term \in Nat \ {0}
    /\ Runners \cap Workers = {}
    /\ Nobody \notin Runners \cup Workers
    /\ Shared \notin Teams
    /\ HomeTeam \in [Runners -> Teams \cup {Shared}]
    /\ Capacity \in [Runners -> Nat \ {0}]
    /\ Definitions # {}
    /\ TeamOf \in [Definitions -> Teams]
    /\ CanRun \in [Runners \cup Workers -> SUBSET Definitions]

VARIABLES
    \* the jobs table
    status,       \* "none" before the INSERT and "deleted" after the DELETE
    definition,   \* workflow_id, team_id, concurrency_key, required_tags
    worker,       \* worker_id
    lease,        \* lease_id and lease_token_hash
    age,          \* lease_expires_at / started_at
    fenced,       \* lease_fenced
    completed,    \* lease_completed
    lastJob,      \* the last AUTOINCREMENT id
    outcome,      \* type of the terminal domain event of the job
    \* the tables that authorize
    revoked,      \* runners.revoked_at
    grants,       \* runner_team_grants
    reserved,     \* runners.current_update_id
    deleting,     \* teams.deleting_at
    \* requests in flight on the control plane
    superseding,  \* enqueue: inserted, peers not cancelled yet
    restarting,   \* restartJob: where each restart has got to
    claimPc, claimTeams, claimed, \* POST /runner/leases
    fencing,      \* revocations stored, leases not fenced yet
    booting,      \* QueueManager.init of a restarted control plane
    \* what the clients hold
    held,         \* held[r]: (job, lease) pairs granted to runner r
    working,      \* working[w]: jobs legacy worker w executes
    \* history
    leases,       \* leases granted so far
    crashes       \* crashes so far

jobVars == <<status, definition, worker, lease, age, fenced, completed, lastJob, outcome>>
accessVars == <<revoked, grants, reserved, deleting>>
claimVars == <<claimPc, claimTeams, claimed>>
requestVars == <<superseding, restarting, claimVars, fencing, booting>>
clientVars == <<held, working>>
historyVars == <<leases, crashes>>
vars == <<jobVars, accessVars, requestVars, clientVars, historyVars>>

Status == {"none", "pending", "running", "cancelled", "success", "failed", "deleted"}
FinalStatus == {"success", "failed", "cancelled"}
RestartPc == {"idle", "sawRunning", "sawOther", "inserted"}
ClaimPc == {"idle", "context", "swept", "ready", "claimed"}
BootPc == {"up", "starting", "swept"}

TypeOK ==
    /\ status \in [Jobs -> Status]
    /\ definition \in [Jobs -> Definitions]
    /\ worker \in [Jobs -> Runners \cup Workers \cup {Nobody}]
    /\ lease \in [Jobs -> Leases \cup {NoLease}]
    /\ age \in [Jobs -> Ticks]
    /\ fenced \in [Jobs -> BOOLEAN]
    /\ completed \in [Jobs -> BOOLEAN]
    /\ lastJob \in 0..MaxJobs
    /\ outcome \in [Jobs -> {"none", "success", "failed"}]
    /\ revoked \subseteq Runners
    /\ grants \subseteq Runners \X Teams
    /\ reserved \subseteq Runners
    /\ deleting \subseteq Teams
    /\ superseding \subseteq Jobs \X BOOLEAN
    /\ restarting \in [Jobs -> RestartPc]
    /\ claimPc \in [Runners -> ClaimPc]
    /\ claimTeams \in [Runners -> SUBSET Teams]
    /\ claimed \in [Runners -> (Jobs \X Leases) \cup {NoClaim}]
    /\ fencing \subseteq Runners \X (Teams \cup {Shared})
    /\ booting \in BootPc
    /\ held \in [Runners -> SUBSET (Jobs \X Leases)]
    /\ working \in [Workers -> SUBSET Jobs]
    /\ leases \in 0..MaxLeases
    /\ crashes \in 0..MaxCrashes

Init ==
    /\ status = [j \in Jobs |-> "none"]
    /\ definition = [j \in Jobs |-> CHOOSE d \in Definitions : TRUE]
    /\ worker = [j \in Jobs |-> Nobody]
    /\ lease = [j \in Jobs |-> NoLease]
    /\ age = [j \in Jobs |-> 0]
    /\ fenced = [j \in Jobs |-> FALSE]
    /\ completed = [j \in Jobs |-> FALSE]
    /\ lastJob = 0
    /\ outcome = [j \in Jobs |-> "none"]
    /\ revoked = {} /\ grants = {} /\ reserved = {} /\ deleting = {}
    /\ superseding = {}
    /\ restarting = [j \in Jobs |-> "idle"]
    /\ claimPc = [r \in Runners |-> "idle"]
    /\ claimTeams = [r \in Runners |-> {}]
    /\ claimed = [r \in Runners |-> NoClaim]
    /\ fencing = {} /\ booting = "up"
    /\ held = [r \in Runners |-> {}]
    /\ working = [w \in Workers |-> {}]
    /\ leases = 0 /\ crashes = 0

-----------------------------------------------------------------------------
(* Predicates the SQL statements share. *)

Team(j) == TeamOf[definition[j]]
Key(j) == KeyOf[definition[j]]
Exists(j) == status[j] \notin {"none", "deleted"}
Expired(j) == age[j] = Term

\* CURRENT_RUNNER_AUTHORIZATION, and the same test in claimNextForRunner.
Authorized(r, t) ==
    /\ r \notin revoked
    /\ HomeTeam[r] = t \/ (HomeTeam[r] = Shared /\ <<r, t>> \in grants)

\* Rows of another job of the same team and the same non-empty concurrency key.
Peers(j) == {i \in Jobs \ {j} : Key(j) # NoKey /\ Key(i) = Key(j) /\ Team(i) = Team(j)}

\* Mutant: runs that have no lease do not count.
GroupBusyLeased(j) == \E i \in Peers(j) : status[i] = "running" /\ lease[i] # NoLease

GroupBusy(j) == \E i \in Peers(j) : status[i] = "running"

\* What counts against a runner: running rows, and cancelled rows whose runner
\* has not acknowledged the cancellation.
Occupied(r) ==
    {j \in Jobs : worker[j] = r /\ (status[j] = "running" \/ (status[j] = "cancelled" /\ ~completed[j]))}

\* The WHERE clause of every lease-authenticated statement ...
HoldsLease(r, j, l) ==
    /\ <<j, l>> \in held[r]
    /\ worker[j] = r /\ lease[j] = l
    /\ ~fenced[j] /\ ~completed[j] /\ ~Expired(j)
    /\ Authorized(r, Team(j))
\* ... and of those that also require the job to be running.
LeaseIsCurrent(r, j, l) == HoldsLease(r, j, l) /\ status[j] = "running"

-----------------------------------------------------------------------------
(* Creating jobs. *)

\* INSERT INTO jobs: a fresh row has no worker, no lease and cleared flags.
InsertJob(d) ==
    /\ lastJob < MaxJobs
    /\ TeamOf[d] \notin deleting
    /\ lastJob' = lastJob + 1
    /\ status' = [status EXCEPT ![lastJob + 1] = "pending"]
    /\ definition' = [definition EXCEPT ![lastJob + 1] = d]
    /\ UNCHANGED <<worker, lease, age, fenced, completed, outcome>>

\* enqueue, its INSERT; the UPDATE that cancels older peers is still to come.
\* c is cancelInProgress.  enqueueDispatch inserts with the empty key.
Enqueue(d, c) ==
    /\ InsertJob(d)
    /\ superseding' = IF KeyOf[d] = NoKey THEN superseding
                      ELSE superseding \cup {<<lastJob + 1, c>>}
    /\ UNCHANGED <<accessVars, restarting, claimVars, fencing, booting, clientVars, historyVars>>

\* enqueue, its second statement.
Supersede(j, c) ==
    LET older == {i \in Jobs : Exists(j) /\ i < j /\ Team(i) = Team(j) /\ Key(i) = Key(j)}
    IN  /\ <<j, c>> \in superseding
        /\ superseding' = superseding \ {<<j, c>>}
        /\ status' = [i \in Jobs |->
                        IF i \in older /\ (status[i] = "pending" \/ (c /\ status[i] = "running"))
                        THEN "cancelled" ELSE status[i]]
        /\ UNCHANGED <<definition, worker, lease, age, fenced, completed, lastJob, outcome,
                       accessVars, restarting, claimVars, fencing, booting, clientVars, historyVars>>

-----------------------------------------------------------------------------
(* The claim request of an API runner: claimContext, the two statements of *)
(* clearStaleJobs, claimNextForRunner, then the answer.                    *)

ClaimContext(r) ==
    /\ claimPc[r] = "idle" /\ r \notin revoked
    /\ claimPc' = [claimPc EXCEPT ![r] = "context"]
    /\ claimTeams' = [claimTeams EXCEPT ![r] = {t \in Teams : Authorized(r, t)}]
    /\ UNCHANGED <<jobVars, accessVars, superseding, restarting, claimed, fencing, booting,
                   clientVars, historyVars>>

\* clearStaleJobs, first statement: the lease of a cancelled job is over.
SweepCancelled ==
    /\ completed' = [j \in Jobs |->
                       \/ completed[j]
                       \/ status[j] = "cancelled" /\ ~fenced[j] /\ lease[j] # NoLease /\ Expired(j)]
    /\ UNCHANGED <<status, definition, worker, lease, age, fenced, lastJob, outcome, accessVars,
                   superseding, restarting, claimTeams, claimed, fencing, clientVars, historyVars>>

\* Mutant: a cancelled row is requeued whether or not its lease was fenced.
StaleUnfenced(j) ==
    Expired(j) /\ (status[j] = "running" \/ (status[j] = "cancelled" /\ lease[j] # NoLease))

\* Mutant: the fenced rows are forgotten.
StaleRunning(j) == Expired(j) /\ status[j] = "running"

Stale(j) ==
    /\ Expired(j)
    /\ \/ status[j] = "running"
       \/ status[j] = "cancelled" /\ fenced[j] /\ lease[j] # NoLease

\* clearStaleJobs, second statement: stale rows go back to the queue.
SweepStale ==
    /\ status' = [j \in Jobs |-> IF Stale(j) THEN "pending" ELSE status[j]]
    /\ worker' = [j \in Jobs |-> IF Stale(j) THEN Nobody ELSE worker[j]]
    /\ lease' = [j \in Jobs |-> IF Stale(j) THEN NoLease ELSE lease[j]]
    /\ age' = [j \in Jobs |-> IF Stale(j) THEN 0 ELSE age[j]]
    /\ fenced' = [j \in Jobs |-> fenced[j] /\ ~Stale(j)]
    /\ completed' = [j \in Jobs |-> completed[j] /\ ~Stale(j)]
    /\ UNCHANGED <<definition, lastJob, outcome, accessVars, superseding, restarting,
                   claimTeams, claimed, fencing, clientVars, historyVars>>

\* clearStaleJobs runs in every claim request ...
ClearCancelled(r) ==
    /\ claimPc[r] = "context" /\ SweepCancelled
    /\ claimPc' = [claimPc EXCEPT ![r] = "swept"]
    /\ UNCHANGED booting

ClearStale(r) ==
    /\ claimPc[r] = "swept" /\ SweepStale
    /\ claimPc' = [claimPc EXCEPT ![r] = "ready"]
    /\ UNCHANGED booting

\* ... and when the control plane starts, before it serves requests.
InitClearCancelled ==
    /\ booting = "starting" /\ SweepCancelled
    /\ booting' = "swept"
    /\ UNCHANGED claimPc

InitClearStale ==
    /\ booting = "swept" /\ SweepStale
    /\ booting' = "up"
    /\ UNCHANGED claimPc

\* Mutants: cancelled rows do not count against the runner; the authorization
\* read at the start of the request is not checked again; updates are ignored.
ClaimableIgnoringCancelled(r, j) ==
    /\ status[j] = "pending" /\ Team(j) \in claimTeams[r] /\ Authorized(r, Team(j)) /\ r \notin reserved
    /\ Cardinality({i \in Jobs : worker[i] = r /\ status[i] = "running"}) < Capacity[r]
    /\ ~GroupBusy(j) /\ definition[j] \in CanRun[r]
ClaimableByContext(r, j) ==
    /\ status[j] = "pending" /\ Team(j) \in claimTeams[r] /\ r \notin reserved
    /\ Cardinality(Occupied(r)) < Capacity[r]
    /\ ~GroupBusy(j) /\ definition[j] \in CanRun[r]
ClaimableDuringUpdate(r, j) ==
    /\ status[j] = "pending" /\ Team(j) \in claimTeams[r] /\ Authorized(r, Team(j))
    /\ Cardinality(Occupied(r)) < Capacity[r]
    /\ ~GroupBusy(j) /\ definition[j] \in CanRun[r]

ClaimableBy(r, j) ==
    /\ status[j] = "pending"
    /\ Team(j) \in claimTeams[r]
    /\ Authorized(r, Team(j))
    /\ r \notin reserved
    /\ Cardinality(Occupied(r)) < Capacity[r]
    /\ ~GroupBusy(j)
    /\ definition[j] \in CanRun[r]

Oldest(j, S) == j \in S /\ \A i \in S : j <= i

\* claimNextForRunner: the UPDATE ... RETURNING of the oldest claimable row.
ClaimNextForRunner(r, j) ==
    /\ claimPc[r] = "ready" /\ leases < MaxLeases
    /\ Oldest(j, {i \in Jobs : ClaimableBy(r, i)})
    /\ leases' = leases + 1
    /\ status' = [status EXCEPT ![j] = "running"]
    /\ worker' = [worker EXCEPT ![j] = r]
    /\ lease' = [lease EXCEPT ![j] = leases + 1]
    /\ age' = [age EXCEPT ![j] = 0]
    /\ fenced' = [fenced EXCEPT ![j] = FALSE]
    /\ completed' = [completed EXCEPT ![j] = FALSE]
    /\ claimPc' = [claimPc EXCEPT ![r] = "claimed"]
    /\ claimTeams' = [claimTeams EXCEPT ![r] = {}]
    /\ claimed' = [claimed EXCEPT ![r] = <<j, leases + 1>>]
    /\ UNCHANGED <<definition, lastJob, outcome, accessVars, superseding, restarting,
                   fencing, booting, clientVars, crashes>>

\* Status 204: nothing to claim (or the model's supply of leases is spent).
ClaimNothing(r) ==
    /\ claimPc[r] = "ready"
    /\ leases = MaxLeases \/ \A j \in Jobs : ~ClaimableBy(r, j)
    /\ claimPc' = [claimPc EXCEPT ![r] = "idle"]
    /\ claimTeams' = [claimTeams EXCEPT ![r] = {}]
    /\ UNCHANGED <<jobVars, accessVars, superseding, restarting, claimed, fencing, booting,
                   clientVars, historyVars>>

\* Status 200: the runner learns the lease it was granted.
ClaimGranted(r) ==
    /\ claimPc[r] = "claimed"
    /\ claimPc' = [claimPc EXCEPT ![r] = "idle"]
    /\ claimed' = [claimed EXCEPT ![r] = NoClaim]
    /\ held' = [held EXCEPT ![r] = @ \cup {claimed[r]}]
    /\ UNCHANGED <<jobVars, accessVars, superseding, restarting, claimTeams, fencing, booting, working, historyVars>>

\* A row given back to the queue; releaseJob leaves the two flags alone.
ReturnToQueue(j) ==
    /\ status' = [status EXCEPT ![j] = "pending"]
    /\ worker' = [worker EXCEPT ![j] = Nobody]
    /\ lease' = [lease EXCEPT ![j] = NoLease]
    /\ age' = [age EXCEPT ![j] = 0]

\* releaseJob: by job id alone, whoever runs the job by now.
ReleaseJob(j) ==
    IF status[j] = "running" THEN ReturnToQueue(j) ELSE UNCHANGED <<status, worker, lease, age>>

\* Status 500: the revision of the claimed job is missing, so it is released.
ClaimRevisionMissing(r) ==
    /\ claimPc[r] = "claimed"
    /\ ReleaseJob(claimed[r][1])
    /\ claimPc' = [claimPc EXCEPT ![r] = "idle"]
    /\ claimed' = [claimed EXCEPT ![r] = NoClaim]
    /\ UNCHANGED <<definition, fenced, completed, lastJob, outcome, accessVars, superseding,
                   restarting, claimTeams, fencing, booting, clientVars, historyVars>>

-----------------------------------------------------------------------------
(* What a runner does with a lease it holds.  Nothing makes a runner stop  *)
(* using an old lease: it may try each one it ever got, at any time.       *)

\* Mutant: an expired lease can be renewed.
RenewExpiredLease(r, j, l) ==
    /\ <<j, l>> \in held[r] /\ worker[j] = r /\ lease[j] = l /\ status[j] = "running"
    /\ ~fenced[j] /\ ~completed[j] /\ Authorized(r, Team(j))
    /\ age' = [age EXCEPT ![j] = 0]
    /\ UNCHANGED <<status, definition, worker, lease, fenced, completed, lastJob, outcome,
                   accessVars, requestVars, clientVars, historyVars>>

RenewRunnerLease(r, j, l) ==
    /\ LeaseIsCurrent(r, j, l)
    /\ age' = [age EXCEPT ![j] = 0]
    /\ UNCHANGED <<status, definition, worker, lease, fenced, completed, lastJob, outcome,
                   accessVars, requestVars, clientVars, historyVars>>

ReleaseRunnerLease(r, j, l) ==
    /\ LeaseIsCurrent(r, j, l)
    /\ ReturnToQueue(j)
    /\ completed' = [completed EXCEPT ![j] = FALSE]
    /\ UNCHANGED <<definition, fenced, lastJob, outcome, accessVars, requestVars, clientVars, historyVars>>

\* The row and the terminal event a completion with status s leaves behind,
\* written in one transaction; INSERT OR IGNORE keeps an event already there.
RecordCompletion(j, s) ==
    LET final == IF status[j] = "cancelled" THEN "cancelled" ELSE s
    IN  /\ status' = [status EXCEPT ![j] = final]
        /\ completed' = [completed EXCEPT ![j] = TRUE]
        /\ outcome' = IF final # "cancelled" /\ outcome[j] = "none"
                      THEN [outcome EXCEPT ![j] = final] ELSE outcome

\* Mutant: the lease alone decides, so that a repeated completion is recorded.
CompleteAgainForRunner(r, j, l, s) ==
    /\ <<j, l>> \in held[r] /\ worker[j] = r /\ lease[j] = l
    /\ ~fenced[j] /\ ~Expired(j) /\ Authorized(r, Team(j))
    /\ RecordCompletion(j, s)
    /\ UNCHANGED <<definition, worker, lease, age, fenced, lastJob, accessVars, requestVars,
                   clientVars, historyVars>>

CompleteJobForRunner(r, j, l, s) ==
    /\ HoldsLease(r, j, l) /\ status[j] \in {"running", "cancelled"}
    /\ RecordCompletion(j, s)
    /\ UNCHANGED <<definition, worker, lease, age, fenced, lastJob, accessVars, requestVars,
                   clientVars, historyVars>>

-----------------------------------------------------------------------------
(* Legacy workers (start-workers-legacy) write to the queue by job id.     *)

LegacyClaimable(w, j) ==
    /\ status[j] = "pending" /\ Team(j) \notin deleting
    /\ ~GroupBusy(j) /\ definition[j] \in CanRun[w]

\* claimNextJob: no lease, and the lease flags are left as they are.
ClaimNextJob(w, j) ==
    /\ Oldest(j, {i \in Jobs : LegacyClaimable(w, i)})
    /\ status' = [status EXCEPT ![j] = "running"]
    /\ worker' = [worker EXCEPT ![j] = w]
    /\ age' = [age EXCEPT ![j] = 0]
    /\ working' = [working EXCEPT ![w] = @ \cup {j}]
    /\ UNCHANGED <<definition, lease, fenced, completed, lastJob, outcome, accessVars, requestVars,
                   held, historyVars>>

LegacyDone(w, j) == working' = [working EXCEPT ![w] = @ \ {j}]

\* The worker is stopping: releaseJob.
LegacyRelease(w, j) ==
    /\ j \in working[w] /\ ReleaseJob(j) /\ LegacyDone(w, j)
    /\ UNCHANGED <<definition, fenced, completed, lastJob, outcome, accessVars, requestVars, held, historyVars>>

\* The revision is missing: finishJob(id, 'failed'), whatever the status is by now.
FinishJob(w, j) ==
    /\ j \in working[w] /\ LegacyDone(w, j)
    /\ status' = IF Exists(j) THEN [status EXCEPT ![j] = "failed"] ELSE status
    /\ UNCHANGED <<definition, worker, lease, age, fenced, completed, lastJob, outcome, accessVars,
                   requestVars, held, historyVars>>

\* completeJob: WHERE id = ? and nothing else.
CompleteJob(w, j, s) ==
    /\ j \in working[w] /\ LegacyDone(w, j)
    /\ IF Exists(j)
       THEN /\ RecordCompletion(j, s)
            /\ lease' = [lease EXCEPT ![j] = NoLease]
            /\ age' = [age EXCEPT ![j] = 0]
       ELSE UNCHANGED <<status, completed, outcome, lease, age>>
    /\ UNCHANGED <<definition, worker, fenced, lastJob, accessVars, requestVars, held, historyVars>>

-----------------------------------------------------------------------------
(* Users: cancel, restart, delete. *)

\* cancelJob: its guarded UPDATE; a job that is not active stays as it is.
CancelJob(j) ==
    /\ status[j] \in {"pending", "running"}
    /\ status' = [status EXCEPT ![j] = "cancelled"]
    /\ UNCHANGED <<definition, worker, lease, age, fenced, completed, lastJob, outcome, accessVars,
                   requestVars, clientVars, historyVars>>

\* restartJob reads the row ...
RestartRead(j) ==
    /\ Exists(j) /\ restarting[j] = "idle"
    /\ restarting' = [restarting EXCEPT ![j] = IF status[j] = "running" THEN "sawRunning" ELSE "sawOther"]
    /\ UNCHANGED <<jobVars, accessVars, superseding, claimVars, fencing, booting, clientVars, historyVars>>

\* ... inserts a child with the same definition ...
RestartInsert(j) ==
    /\ restarting[j] \in {"sawRunning", "sawOther"}
    /\ Exists(j) /\ InsertJob(definition[j])
    /\ restarting' = [restarting EXCEPT ![j] = IF @ = "sawRunning" THEN "inserted" ELSE "idle"]
    /\ UNCHANGED <<accessVars, superseding, claimVars, fencing, booting, clientVars, historyVars>>

\* ... or gives up: no active revision, a deleted team, a revoked recipe ...
RestartRefused(j) ==
    /\ restarting[j] \in {"sawRunning", "sawOther"}
    /\ restarting' = [restarting EXCEPT ![j] = "idle"]
    /\ UNCHANGED <<jobVars, accessVars, superseding, claimVars, fencing, booting, clientVars, historyVars>>

\* ... and cancels the job it saw running, whatever its status is by now.
RestartCancel(j) ==
    /\ restarting[j] = "inserted"
    /\ restarting' = [restarting EXCEPT ![j] = "idle"]
    /\ status' = IF Exists(j) THEN [status EXCEPT ![j] = "cancelled"] ELSE status
    /\ UNCHANGED <<definition, worker, lease, age, fenced, completed, lastJob, outcome, accessVars,
                   superseding, claimVars, fencing, booting, clientVars, historyVars>>

\* deleteJobForTeam; the ids of deleted rows are not used again.
DeleteJob(j) ==
    /\ Exists(j)
    /\ status' = [status EXCEPT ![j] = "deleted"]
    /\ worker' = [worker EXCEPT ![j] = Nobody]
    /\ lease' = [lease EXCEPT ![j] = NoLease]
    /\ age' = [age EXCEPT ![j] = 0]
    /\ fenced' = [fenced EXCEPT ![j] = FALSE]
    /\ completed' = [completed EXCEPT ![j] = FALSE]
    /\ UNCHANGED <<definition, lastJob, outcome, accessVars, requestVars, clientVars, historyVars>>

-----------------------------------------------------------------------------
(* Administrators: grants, revocations, updates, workspace deletion. *)

GrantTeam(r, t) ==
    /\ r \notin revoked /\ HomeTeam[r] = Shared /\ <<r, t>> \notin grants
    /\ grants' = grants \cup {<<r, t>>}
    /\ UNCHANGED <<jobVars, revoked, reserved, deleting, requestVars, clientVars, historyVars>>

\* DELETE /teams/:team/runners/:runner: the grant goes first, the leases next.
RevokeTeamGrant(r, t) ==
    /\ <<r, t>> \in grants
    /\ grants' = grants \ {<<r, t>>}
    /\ fencing' = fencing \cup {<<r, t>>}
    /\ UNCHANGED <<jobVars, revoked, reserved, deleting, superseding, restarting, claimVars, booting,
                   clientVars, historyVars>>

\* DELETE /runners/:runner: the runner goes first, the leases next.
RevokeRunner(r) ==
    /\ r \notin revoked
    /\ revoked' = revoked \cup {r}
    /\ fencing' = fencing \cup {<<r, Shared>>}
    /\ UNCHANGED <<jobVars, grants, reserved, deleting, superseding, restarting, claimVars, booting,
                   clientVars, historyVars>>

\* revokeRunnerLeasesForTeam, and revokeRunnerLeases when the scope is Shared.
RevokeRunnerLeases(r, scope) ==
    LET hit == {j \in Jobs : /\ worker[j] = r /\ scope \in {Shared, Team(j)}
                             /\ status[j] \in {"running", "cancelled"}
                             /\ ~completed[j] /\ lease[j] # NoLease}
    IN  /\ <<r, scope>> \in fencing
        /\ fencing' = fencing \ {<<r, scope>>}
        /\ status' = [j \in Jobs |-> IF j \in hit THEN "cancelled" ELSE status[j]]
        /\ fenced' = [j \in Jobs |-> fenced[j] \/ j \in hit]
        /\ UNCHANGED <<definition, worker, lease, age, completed, lastJob, outcome, accessVars,
                       superseding, restarting, claimVars, booting, clientVars, historyVars>>

\* requestUpdate reserves one idle runner; the update's life is RunnerUpdates'.
ReserveForUpdate(r) ==
    /\ r \notin revoked /\ reserved = {} /\ Occupied(r) = {}
    /\ reserved' = {r}
    /\ UNCHANGED <<jobVars, revoked, grants, deleting, requestVars, clientVars, historyVars>>

UpdateOver(r) ==
    /\ r \in reserved
    /\ reserved' = reserved \ {r}
    /\ UNCHANGED <<jobVars, revoked, grants, deleting, requestVars, clientVars, historyVars>>

MarkWorkspaceDeleting(t) ==
    /\ t \notin deleting
    /\ deleting' = deleting \cup {t}
    /\ UNCHANGED <<jobVars, revoked, grants, reserved, requestVars, clientVars, historyVars>>

-----------------------------------------------------------------------------
(* The environment. *)

\* Time passes for a row whose clock matters.
Tick(j) ==
    /\ age[j] < Term
    /\ status[j] = "running" \/ (status[j] = "cancelled" /\ lease[j] # NoLease)
    /\ age' = [age EXCEPT ![j] = @ + 1]
    /\ UNCHANGED <<status, definition, worker, lease, fenced, completed, lastJob, outcome,
                   accessVars, requestVars, clientVars, historyVars>>

\* The control plane dies: every request in flight is forgotten, the database stays.
Crash ==
    /\ crashes < MaxCrashes
    /\ crashes' = crashes + 1
    /\ superseding' = {}
    /\ restarting' = [j \in Jobs |-> "idle"]
    /\ claimPc' = [r \in Runners |-> "idle"]
    /\ claimTeams' = [r \in Runners |-> {}]
    /\ claimed' = [r \in Runners |-> NoClaim]
    /\ fencing' = {}
    /\ booting' = "starting"
    /\ UNCHANGED <<jobVars, accessVars, clientVars, leases>>

ClaimRequest(r) ==
    \/ ClaimContext(r) \/ ClearCancelled(r) \/ ClearStale(r)
    \/ \E j \in Jobs : ClaimNextForRunner(r, j)
    \/ ClaimNothing(r) \/ ClaimGranted(r) \/ ClaimRevisionMissing(r)

UseLease(r) ==
    \E j \in Jobs, l \in Leases :
        \/ RenewRunnerLease(r, j, l)
        \/ ReleaseRunnerLease(r, j, l)
        \/ \E s \in FinalStatus : CompleteJobForRunner(r, j, l, s)

LegacyWorker(w) ==
    \E j \in Jobs :
        \/ ClaimNextJob(w, j) \/ LegacyRelease(w, j) \/ FinishJob(w, j)
        \/ \E s \in FinalStatus : CompleteJob(w, j, s)

Producer ==
    \/ \E d \in Definitions, c \in BOOLEAN : Enqueue(d, c)
    \/ \E j \in Jobs, c \in BOOLEAN : Supersede(j, c)

User(j) ==
    \/ CancelJob(j) \/ DeleteJob(j)
    \/ RestartRead(j) \/ RestartInsert(j) \/ RestartRefused(j) \/ RestartCancel(j)

Administrator ==
    \/ \E r \in Runners, t \in Teams : GrantTeam(r, t) \/ RevokeTeamGrant(r, t)
    \/ \E r \in Runners : RevokeRunner(r) \/ ReserveForUpdate(r) \/ UpdateOver(r)
    \/ \E r \in Runners, scope \in Teams \cup {Shared} : RevokeRunnerLeases(r, scope)
    \/ \E t \in Teams : MarkWorkspaceDeleting(t)

\* Requests the control plane serves once it is up.
Request ==
    /\ booting = "up"
    /\ \/ \E r \in Runners : ClaimRequest(r) \/ UseLease(r)
       \/ \E j \in Jobs : User(j)
       \/ Administrator

Next ==
    \/ Request
    \/ InitClearCancelled \/ InitClearStale
    \/ Producer
    \/ \E w \in Workers : LegacyWorker(w)
    \/ \E j \in Jobs : Tick(j)
    \/ Crash

Spec == Init /\ [][Next]_vars

\* An enrolled runner polls: its event stream wakes it, a timer is the fallback,
\* and the control plane answers every claim it has begun to handle.  init runs
\* to its end, and time passes.  Nothing else is fair: runners may never use
\* their leases, revocations may never reach the queue, users do as they like.
Fairness ==
    /\ \A r \in Runners : WF_vars(booting = "up" /\ ClaimRequest(r))
    /\ WF_vars(InitClearCancelled \/ InitClearStale)
    /\ \A j \in Jobs : WF_vars(Tick(j))

FairSpec == Spec /\ Fairness

-----------------------------------------------------------------------------
(* Properties. *)

\* Two jobs of one workspace with the same concurrency group never run at the
\* same time, whichever runners, legacy workers, restarts and recoveries touch them.
OneRunningPerGroup ==
    \A j \in Jobs : status[j] = "running" => ~GroupBusy(j)

\* A runner is never given more than its concurrency, where a cancelled job
\* counts until the runner acknowledges it or its lease runs out.
RunnerWithinCapacity ==
    \A r \in Runners : Cardinality(Occupied(r)) <= Capacity[r]

\* A runner reserved for an update is idle and stays idle: requestUpdate and a
\* claim already past its first reads cannot both win.
ReservedRunnerIsIdle ==
    \A r \in reserved : Occupied(r) = {}

\* Access withdrawn from a runner reaches the jobs it runs: one that runs without
\* authorization has a revocation on its way to the queue.  A control plane that
\* dies between the two statements leaves such a job, hence the premise.
RunningJobIsAuthorized ==
    crashes = 0 =>
        \A j \in Jobs : status[j] = "running" /\ worker[j] \in Runners =>
            \/ Authorized(worker[j], Team(j))
            \/ <<worker[j], Team(j)>> \in fencing
            \/ <<worker[j], Shared>> \in fencing

\* A job whose terminal event is published is neither queued nor run again,
\* whatever recovery, revocation or restart does to its row afterwards.
TerminalEventIsFinal ==
    \A j \in Jobs : outcome[j] # "none" => status[j] \notin {"pending", "running"}

\* The published event and the row never tell opposite results.
OutcomeMatchesEvent ==
    \A j \in Jobs : /\ outcome[j] = "success" => status[j] # "failed"
                    /\ outcome[j] = "failed" => status[j] # "success"

\* A lease that has expired, been fenced, completed or replaced is never accepted
\* again: not by clearing a flag, granting the team anew, nor requeueing the job.
Dead(j, l) == lease[j] # l \/ Expired(j) \/ fenced[j] \/ completed[j]

DeadLeaseStaysDead ==
    [][\A r \in Runners : \A p \in held[r] : Dead(p[1], p[2]) => ~HoldsLease(r, p[1], p[2])']_vars

\* An expired lease does not hold its job, or a slot of its runner, for ever, as
\* long as one runner stays enrolled: the sweep runs inside claims.
ExpiredLeaseIsRecovered ==
    (\E r \in Runners : [](r \notin revoked)) =>
        \A j \in Jobs :
            (lease[j] # NoLease /\ Expired(j) /\ status[j] \in {"running", "cancelled"} /\ ~completed[j])
              ~> (lease[j] = NoLease \/ completed[j] \/ status[j] \in {"success", "failed"})

=============================================================================
