--------------------------- MODULE RunnerUpdates ---------------------------
(***************************************************************************)
(* Updates of API runners: an administrator requests a version for one     *)
(* idle runner, which installs it; the heartbeat of the new version        *)
(* confirms it, and a report or half an hour fails it                      *)
(* (src/src/runner-registry.ts, api-worker.ts and runner-updater.ts).      *)
(*                                                                         *)
(* Each SQL statement is a step, since every handler has several.  An      *)
(* update stands for its id and for the request that made it.  What else   *)
(* decides whether a runner may be updated, a recent heartbeat, the        *)
(* updater capability and no job, is the one flag ready.  runners.status   *)
(* and desired_version follow current and are only displayed.              *)
(***************************************************************************)
EXTENDS Naturals, FiniteSets

CONSTANTS
    Runners,     \* enrolled runners
    Revocable,   \* those that may be revoked
    Versions,    \* versions of the runner's package
    First,       \* the version every runner starts with
    MaxUpdates,  \* updates that may be requested (bound)
    MaxBeats     \* heartbeats in flight (bound)

ASSUME UpdatesAssumption ==
    /\ MaxUpdates \in Nat /\ MaxBeats \in Nat
    /\ Revocable \subseteq Runners /\ First \in Versions /\ IsFiniteSet(Runners)

None == 0  \* current_update_id IS NULL
Updates == 1..MaxUpdates

VARIABLES
    revoked,   \* runners with revoked_at
    current,   \* current_update_id of each runner
    ready,     \* runners that look idle, alive and able to update
    status,    \* of each row of runner_updates; "none" before its INSERT
    target,    \* runner_id
    version,   \* desired_version
    old,       \* updates older than 30 minutes
    request,   \* what the request of each update is about to do
    poll,      \* what the poll of each runner is about to do
    beats,     \* heartbeats in flight: runner, version, next statement
    reports,   \* failure reports in flight: runner, update, next statement
    revoking,  \* runners whose revocation is between its statements
    running,   \* the version each runner's process runs
    applying   \* the updates it installs (applyingUpdates)

rows == <<status, target, version, old>>
handlers == <<request, poll, beats, reports, revoking>>
process == <<running, applying>>
vars == <<revoked, current, ready, rows, handlers, process>>

Beat == [runner : Runners, version : Versions, next : {"seen", "confirm", "free"}]
Report == [runner : Runners, update : Updates, next : {"fail", "free"}]

\* Every column, handler and process has its type.
TypeOK ==
    /\ revoked \subseteq Runners /\ ready \subseteq Runners /\ revoking \subseteq Runners
    /\ current \in [Runners -> Updates \cup {None}]
    /\ status \in [Updates -> {"none", "pending", "complete", "failed"}]
    /\ target \in [Updates -> Runners] /\ version \in [Updates -> Versions] /\ old \subseteq Updates
    /\ request \in [Updates -> {"new", "clear", "reserve", "insert", "undo", "done"}]
    /\ poll \in [Runners -> {"idle", "clear", "read"}]
    /\ beats \subseteq Beat /\ reports \subseteq Report
    /\ running \in [Runners -> Versions] /\ applying \in [Runners -> SUBSET Updates]

\* Runners are enrolled and silent; target and version of a request are open.
Init ==
    /\ revoked = {} /\ ready = {} /\ revoking = {}
    /\ current = [r \in Runners |-> None]
    /\ status = [u \in Updates |-> "none"] /\ old = {}
    /\ target \in [Updates -> Runners] /\ version \in [Updates -> Versions]
    /\ request = [u \in Updates |-> "new"]
    /\ poll = [r \in Runners |-> "idle"]
    /\ beats = {} /\ reports = {}
    /\ running = [r \in Runners |-> First] /\ applying = [r \in Runners |-> {}]

-----------------------------------------------------------------------------
(* recoverStaleUpdates: two statements, before a request and before a poll. *)

Pending(u) == status[u] = "pending"
FailStale == status' = [u \in Updates |-> IF Pending(u) /\ u \in old THEN "failed" ELSE status[u]]

IsPending(s, u) == u # None /\ s[u] = "pending"
\* Mutant of ClearOrphans: a failed update keeps its reservation.
ClearOrphansLost == current' = [r \in Runners |->
    IF current[r] # None /\ status[current[r]] \in {"pending", "failed"} THEN current[r] ELSE None]
ClearOrphans == current' = [r \in Runners |-> IF IsPending(status, current[r]) THEN current[r] ELSE None]

(* requestUpdate.                                                          *)

GoRequest(u, next) == request' = [request EXCEPT ![u] = next]

RequestSweep(u) ==
    /\ request[u] = "new"
    /\ FailStale /\ GoRequest(u, "clear")
    /\ UNCHANGED <<revoked, current, ready, target, version, old, poll, beats, reports, revoking, process>>
RequestClear(u) ==
    /\ request[u] = "clear"
    /\ ClearOrphans /\ GoRequest(u, "reserve")
    /\ UNCHANGED <<revoked, ready, rows, poll, beats, reports, revoking, process>>

\* The runner must be ready, and no runner reserved and no update pending.
Reservable(u) ==
    /\ target[u] \in ready \ revoked
    /\ \A r \in Runners : current[r] = None
    /\ \A v \in Updates : ~Pending(v)
Reserve(u) ==
    /\ request[u] = "reserve"
    /\ IF Reservable(u)
       THEN current' = [current EXCEPT ![target[u]] = u] /\ GoRequest(u, "insert")
       ELSE GoRequest(u, "done") /\ UNCHANGED current
    /\ UNCHANGED <<revoked, ready, rows, poll, beats, reports, revoking, process>>

\* Mutant of StillReserved: the INSERT does not look at the reservation again.
StillReservedByAny(u) == target[u] \notin revoked

\* The INSERT, conditional on the reservation; undone if it is refused or fails.
StillReserved(u) == target[u] \notin revoked /\ current[target[u]] = u
Insert(u) ==
    /\ request[u] = "insert"
    /\ \/ /\ StillReserved(u)
          /\ status' = [status EXCEPT ![u] = "pending"]
          /\ GoRequest(u, "done")
       \/ GoRequest(u, "undo") /\ UNCHANGED status
    /\ UNCHANGED <<revoked, current, ready, target, version, old, poll, beats, reports, revoking, process>>
Undo(u) ==
    /\ request[u] = "undo"
    /\ current' = [current EXCEPT ![target[u]] = IF @ = u THEN None ELSE @]
    /\ GoRequest(u, "done")
    /\ UNCHANGED <<revoked, ready, rows, poll, beats, reports, revoking, process>>
Request(u) == RequestSweep(u) \/ RequestClear(u) \/ Reserve(u) \/ Insert(u) \/ Undo(u)

-----------------------------------------------------------------------------
(* currentUpdate: a runner polls for its update and applies it.            *)

PollSweep(r) ==
    /\ poll[r] = "idle" /\ r \notin revoked
    /\ FailStale /\ poll' = [poll EXCEPT ![r] = "clear"]
    /\ UNCHANGED <<revoked, current, ready, target, version, old, request, beats, reports, revoking, process>>
PollClear(r) ==
    /\ poll[r] = "clear"
    /\ ClearOrphans /\ poll' = [poll EXCEPT ![r] = "read"]
    /\ UNCHANGED <<revoked, ready, rows, request, beats, reports, revoking, process>>
PollRead(r) ==
    /\ poll[r] = "read"
    /\ poll' = [poll EXCEPT ![r] = "idle"]
    /\ applying' = [applying EXCEPT ![r] =
         @ \cup IF r \notin revoked /\ IsPending(status, current[r]) THEN {current[r]} ELSE {}]
    /\ UNCHANGED <<revoked, current, ready, rows, request, beats, reports, revoking, running>>
Poll(r) == PollSweep(r) \/ PollClear(r) \/ PollRead(r)

\* applyUpdate: the new version is started, or the failure is reported.
Install(r, u) ==
    /\ u \in applying[r]
    /\ running' = [running EXCEPT ![r] = version[u]]
    /\ applying' = [applying EXCEPT ![r] = {}]
    /\ UNCHANGED <<revoked, current, ready, rows, handlers>>
InstallFails(r, u) ==
    /\ u \in applying[r]
    /\ reports' = reports \cup {[runner |-> r, update |-> u, next |-> "fail"]}
    /\ applying' = [applying EXCEPT ![r] = @ \ {u}]
    /\ UNCHANGED <<revoked, current, ready, rows, request, poll, beats, revoking, running>>

(* reportUpdate.                                                           *)

ReportFail(m) ==
    /\ m \in reports /\ m.next = "fail"
    /\ LET accepted == Pending(m.update) /\ target[m.update] = m.runner
                         /\ m.runner \notin revoked /\ current[m.runner] = m.update
       IN  /\ status' = [status EXCEPT ![m.update] = IF accepted THEN "failed" ELSE @]
           /\ reports' = (reports \ {m}) \cup IF accepted THEN {[m EXCEPT !.next = "free"]} ELSE {}
    /\ UNCHANGED <<revoked, current, ready, target, version, old, request, poll, beats, revoking, process>>
\* The second statement does not ask which update reserves the runner.
ReportFree(m) ==
    /\ m \in reports /\ m.next = "free"
    /\ current' = [current EXCEPT ![m.runner] = IF m.runner \in revoked THEN @ ELSE None]
    /\ reports' = reports \ {m}
    /\ UNCHANGED <<revoked, ready, rows, request, poll, beats, revoking, process>>

-----------------------------------------------------------------------------
(* heartbeat.                                                              *)

Heartbeat(r) ==
    /\ r \notin revoked /\ Cardinality(beats) < MaxBeats
    /\ beats' = beats \cup {[runner |-> r, version |-> running[r], next |-> "seen"]}
    /\ UNCHANGED <<revoked, current, ready, rows, request, poll, reports, revoking, process>>

Advance(b, next) == beats' = (beats \ {b}) \cup {[b EXCEPT !.next = next]}
\* It reports whether the runner is idle and able to update.
BeatSeen(b) ==
    /\ b \in beats /\ b.next = "seen"
    /\ \/ b.runner \notin revoked /\ ready' = ready \cup {b.runner}
       \/ ready' = ready \ {b.runner}
    /\ Advance(b, "confirm")
    /\ UNCHANGED <<revoked, current, rows, request, poll, reports, revoking, process>>

\* Mutant of Confirmable: an update that has failed may be confirmed.
ConfirmableOnceFailed(r, v) ==
    /\ r \notin revoked /\ current[r] # None
    /\ target[current[r]] = r /\ version[current[r]] = v

Confirmable(r, v) ==
    /\ r \notin revoked /\ IsPending(status, current[r])
    /\ target[current[r]] = r /\ version[current[r]] = v
BeatConfirm(b) ==
    /\ b \in beats /\ b.next = "confirm"
    /\ status' = IF Confirmable(b.runner, b.version)
                 THEN [status EXCEPT ![current[b.runner]] = "complete"] ELSE status
    /\ Advance(b, "free")
    /\ UNCHANGED <<revoked, current, ready, target, version, old, request, poll, reports, revoking, process>>
BeatFree(b) ==
    /\ b \in beats /\ b.next = "free"
    /\ current' = [current EXCEPT ![b.runner] =
         IF b.runner \notin revoked /\ @ # None /\ status[@] = "complete" /\ target[@] = b.runner THEN None ELSE @]
    /\ beats' = beats \ {b}
    /\ UNCHANGED <<revoked, ready, rows, request, poll, reports, revoking, process>>

Answer ==
    \/ \E m \in reports : ReportFail(m) \/ ReportFree(m)
    \/ \E b \in beats : BeatSeen(b) \/ BeatConfirm(b) \/ BeatFree(b)

-----------------------------------------------------------------------------
(* Revocation, time and failures.                                          *)

RevokeFail(r) ==
    /\ r \in Revocable \ (revoked \cup revoking)
    /\ status' = [u \in Updates |-> IF Pending(u) /\ target[u] = r THEN "failed" ELSE status[u]]
    /\ revoking' = revoking \cup {r}
    /\ UNCHANGED <<revoked, current, ready, target, version, old, request, poll, beats, reports, process>>
Revoke(r) ==
    /\ r \in revoking
    /\ revoked' = revoked \cup {r} /\ revoking' = revoking \ {r}
    /\ UNCHANGED <<current, ready, rows, request, poll, beats, reports, process>>

Age(u) ==
    /\ Pending(u) /\ u \notin old
    /\ old' = old \cup {u}
    /\ UNCHANGED <<revoked, current, ready, status, target, version, handlers, process>>
\* No heartbeat for 45 seconds, or a job.
Unready(r) ==
    /\ r \in ready
    /\ ready' = ready \ {r}
    /\ UNCHANGED <<revoked, current, rows, handlers, process>>
\* The runner's process ends during an installation; its successor runs what is installed.
RunnerStops(r) ==
    /\ applying[r] # {}
    /\ applying' = [applying EXCEPT ![r] = {}]
    /\ \E v \in {running[r]} \cup {version[u] : u \in applying[r]} : running' = [running EXCEPT ![r] = v]
    /\ UNCHANGED <<revoked, current, ready, rows, handlers>>

\* The control plane dies with its handlers; init recovers before it serves again.
Crash ==
    /\ FailStale
    /\ current' = [r \in Runners |-> IF IsPending(status', current[r]) THEN current[r] ELSE None]
    /\ request' = [u \in Updates |-> IF request[u] = "new" THEN "new" ELSE "done"]
    /\ poll' = [r \in Runners |-> "idle"]
    /\ beats' = {} /\ reports' = {} /\ revoking' = {}
    /\ UNCHANGED <<revoked, ready, target, version, old, process>>

Next ==
    \/ \E u \in Updates : Request(u) \/ Age(u)
    \/ \E r \in Runners : \/ Poll(r) \/ Heartbeat(r) \/ \E u \in Updates : Install(r, u) \/ InstallFails(r, u)
                          \/ RevokeFail(r) \/ Revoke(r) \/ Unready(r) \/ RunnerStops(r)
    \/ Answer \/ Crash

Spec == Init /\ [][Next]_vars

\* Runners poll, requests begun are carried on, and time passes.
Fairness ==
    /\ \A r \in Runners : WF_vars(Poll(r)) /\ WF_vars(Revoke(r))
    /\ \A u \in Updates : WF_vars(request[u] # "new" /\ Request(u)) /\ WF_vars(Age(u))
    /\ WF_vars(Answer)
FairSpec == Spec /\ Fairness

-----------------------------------------------------------------------------
(* Properties.                                                             *)

\* Only one update is pending globally: a request whose reservation was cleared by
\* another's recovery must not insert, or it would meet the unique index and fail.
OnePendingUpdate == \A u, v \in Updates : Pending(u) /\ Pending(v) => u = v

\* An update has one result: once complete or failed it stays so, although
\* heartbeats, reports, revocation and recovery settle it in any order.
ResultStands ==
    [][\A u \in Updates : status[u] \in {"complete", "failed"} => status'[u] = status[u]]_vars

\* Every reservation ends, whatever becomes of its runner, its request or the
\* control plane: otherwise no runner could ever be updated again.
ReservationEnds == \A r \in Runners : current[r] # None ~> current[r] = None
=============================================================================
