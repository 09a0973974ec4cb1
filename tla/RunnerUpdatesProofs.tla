------------------------ MODULE RunnerUpdatesProofs ------------------------
(***************************************************************************)
(* Theorems of RunnerUpdates, for any number of runners, versions, updates *)
(* and heartbeats: its type invariant, that one update is pending at most, *)
(* and that an update's result stands.                                     *)
(***************************************************************************)
EXTENDS RunnerUpdates, TLAPS

USE DEF rows, handlers, process

-----------------------------------------------------------------------------
(* Types.                                                                  *)

\* Zero is no update's id.
LEMMA NoneIsNone == None \notin Updates
BY UpdatesAssumption DEF None, Updates

LEMMA InitTyped == Init => TypeOK
BY UpdatesAssumption DEF Init, TypeOK

\* A step keeps every type.
LEMMA TypesKept == TypeOK /\ [Next]_vars => TypeOK'
<1> SUFFICES ASSUME TypeOK, [Next]_vars PROVE TypeOK'
  OBVIOUS
<1> USE NoneIsNone
<1>1. ASSUME NEW u \in Updates, Request(u) PROVE TypeOK'
  <2>1. CASE RequestSweep(u)
    BY <2>1 DEF RequestSweep, FailStale, Pending, GoRequest, TypeOK
  <2>2. CASE RequestClear(u)
    BY <2>2 DEF RequestClear, ClearOrphans, IsPending, GoRequest, TypeOK
  <2>3. CASE Reserve(u)
    BY <2>3 DEF Reserve, GoRequest, TypeOK
  <2>4. CASE Insert(u)
    BY <2>4 DEF Insert, GoRequest, TypeOK
  <2>5. CASE Undo(u)
    BY <2>5 DEF Undo, GoRequest, TypeOK
  <2>6. QED
    BY <1>1, <2>1, <2>2, <2>3, <2>4, <2>5 DEF Request
<1>2. ASSUME NEW r \in Runners, Poll(r) PROVE TypeOK'
  <2>1. CASE PollSweep(r)
    BY <2>1 DEF PollSweep, FailStale, Pending, TypeOK
  <2>2. CASE PollClear(r)
    BY <2>2 DEF PollClear, ClearOrphans, IsPending, TypeOK
  <2>3. CASE PollRead(r)
    BY <2>3 DEF PollRead, IsPending, TypeOK
  <2>4. QED
    BY <1>2, <2>1, <2>2, <2>3 DEF Poll
<1>3. ASSUME NEW r \in Runners, NEW u \in Updates, Install(r, u) PROVE TypeOK'
  BY <1>3 DEF Install, TypeOK
<1>4. ASSUME NEW r \in Runners, NEW u \in Updates, InstallFails(r, u) PROVE TypeOK'
  <2>1. [runner |-> r, update |-> u, next |-> "fail"] \in Report
    BY DEF Report
  <2>2. QED
    BY <1>4, <2>1 DEF InstallFails, TypeOK
<1>5. ASSUME NEW r \in Runners, Heartbeat(r) PROVE TypeOK'
  <2>1. [runner |-> r, version |-> running[r], next |-> "seen"] \in Beat
    BY DEF Beat, TypeOK
  <2>2. QED
    BY <1>5, <2>1 DEF Heartbeat, TypeOK
<1>6. ASSUME NEW r \in Runners, RevokeFail(r) \/ Revoke(r) \/ Unready(r) \/ RunnerStops(r) PROVE TypeOK'
  BY <1>6 DEF RevokeFail, Pending, Revoke, Unready, RunnerStops, TypeOK
<1>7. ASSUME NEW u \in Updates, Age(u) PROVE TypeOK'
  BY <1>7 DEF Age, TypeOK
<1>8. ASSUME NEW m \in reports, ReportFail(m) PROVE TypeOK'
  <2>1. m \in Report
    BY DEF TypeOK
  <2>2. m.update \in Updates /\ [m EXCEPT !.next = "free"] \in Report
    BY <2>1 DEF Report
  <2>3. status' \in [Updates -> {"none", "pending", "complete", "failed"}]
    BY <1>8, <2>2 DEF ReportFail, TypeOK
  <2>4. reports' \subseteq Report
    BY <1>8, <2>2 DEF ReportFail, TypeOK
  <2>5. QED
    BY <1>8, <2>3, <2>4 DEF ReportFail, TypeOK
<1>9. ASSUME NEW m \in reports, ReportFree(m) PROVE TypeOK'
  <2>1. m.runner \in Runners
    BY DEF TypeOK, Report
  <2>2. QED
    BY <1>9, <2>1 DEF ReportFree, TypeOK
<1>10. ASSUME NEW b \in beats, BeatSeen(b) \/ BeatConfirm(b) \/ BeatFree(b) PROVE TypeOK'
  <2>1. b \in Beat /\ b.runner \in Runners
    BY DEF TypeOK, Beat
  <2>2. \A next \in {"confirm", "free"} : [b EXCEPT !.next = next] \in Beat
    BY <2>1 DEF Beat
  <2>3. CASE BeatSeen(b)
    BY <2>1, <2>2, <2>3 DEF BeatSeen, Advance, TypeOK
  <2>4. CASE BeatConfirm(b)
    BY <2>1, <2>2, <2>4 DEF BeatConfirm, Confirmable, IsPending, Advance, TypeOK
  <2>5. CASE BeatFree(b)
    BY <2>1, <2>5 DEF BeatFree, TypeOK
  <2>6. QED
    BY <1>10, <2>3, <2>4, <2>5
<1>11. CASE Crash
  BY <1>11 DEF Crash, FailStale, Pending, IsPending, TypeOK
<1>12. CASE UNCHANGED vars
  BY <1>12 DEF vars, TypeOK
<1>13. QED
  BY <1>1, <1>2, <1>3, <1>4, <1>5, <1>6, <1>7, <1>8, <1>9, <1>10, <1>11, <1>12 DEF Next, Answer

\* Every column, handler and process keeps its type.
THEOREM TypeCorrect == Spec => []TypeOK
BY InitTyped, TypesKept, PTL DEF Spec

-----------------------------------------------------------------------------
(* Reservations and pending updates.                                       *)

\* Only a request that was answered has a row.
RowOfAnswered == \A u \in Updates : status[u] # "none" => request[u] = "done"
\* A reservation is the target's, made by a request that went on.
ReservedByRequest ==
    \A r \in Runners, u \in Updates :
        current[r] = u => target[u] = r /\ request[u] \in {"insert", "undo", "done"}
\* One runner is reserved at most.
OneReservation == \A r, s \in Runners : current[r] # None /\ current[s] # None => r = s
\* While a reservation awaits its INSERT, no update is pending: whoever inserts
\* another must first have been reserved, and recovery only removes reservations.
ReservedAwaitsInsert ==
    \A u, v \in Updates : request[u] = "insert" /\ current[target[u]] = u => ~Pending(v)

ResInv == RowOfAnswered /\ ReservedByRequest /\ OneReservation /\ ReservedAwaitsInsert /\ OnePendingUpdate
Inv == TypeOK /\ ResInv

\* A step that only clears reservations, settles updates and lets requests go on.
Withdraws ==
    /\ UNCHANGED target
    /\ \A r \in Runners : current'[r] \in {current[r], None}
    /\ \A u \in Updates : status'[u] # status[u] => Pending(u) /\ status'[u] # "pending"
    /\ \A u \in Updates : \/ request'[u] \in {request[u], "done"}
                         \/ (request[u] = "new" /\ request'[u] = "clear")
                         \/ (request[u] = "clear" /\ request'[u] = "reserve")
                         \/ (request[u] = "insert" /\ request'[u] = "undo")

\* Such a step keeps the invariant.
LEMMA Withdrawal == ASSUME Inv, Withdraws PROVE ResInv'
<1> USE NoneIsNone
<1>1. RowOfAnswered'
  BY DEF Inv, ResInv, RowOfAnswered, Pending, Withdraws
<1>2. ReservedByRequest'
  BY DEF Inv, ResInv, ReservedByRequest, Withdraws
<1>3. OneReservation'
  BY DEF Inv, ResInv, OneReservation, Withdraws
<1>4. ReservedAwaitsInsert'
  <2> SUFFICES ASSUME NEW u \in Updates, NEW v \in Updates, request'[u] = "insert", current'[target'[u]] = u
               PROVE  status'[v] # "pending"
    BY DEF ReservedAwaitsInsert, Pending
  <2>1. target'[u] = target[u] /\ target[u] \in Runners
    BY DEF Withdraws, Inv, TypeOK
  <2>2. current[target[u]] = u
    BY <2>1 DEF Withdraws
  <2>3. request[u] = "insert"
    BY DEF Withdraws
  <2>4. status[v] # "pending"
    BY <2>2, <2>3 DEF Inv, ResInv, ReservedAwaitsInsert, Pending
  <2>5. QED
    BY <2>4 DEF Withdraws
<1>5. OnePendingUpdate'
  BY DEF Inv, ResInv, OnePendingUpdate, Pending, Withdraws
<1>6. QED
  BY <1>1, <1>2, <1>3, <1>4, <1>5 DEF ResInv

LEMMA InitReserved == Init => ResInv
BY NoneIsNone DEF Init, ResInv, RowOfAnswered, ReservedByRequest, OneReservation,
                  ReservedAwaitsInsert, OnePendingUpdate, Pending

\* A reservation that is granted meets no other and no pending update.
LEMMA ReserveKept == ASSUME Inv, NEW u \in Updates, Reserve(u) PROVE ResInv'
<1> USE NoneIsNone
<1>1. CASE ~Reservable(u)
  <2>1. Withdraws
    BY <1>1 DEF Withdraws, Reserve, GoRequest, Inv, TypeOK
  <2>2. QED
    BY <2>1, Withdrawal
<1>2. CASE Reservable(u)
  <2>1. /\ current' = [current EXCEPT ![target[u]] = u]
        /\ request' = [request EXCEPT ![u] = "insert"]
        /\ UNCHANGED <<status, target>>
        /\ request[u] = "reserve"
    BY <1>2 DEF Reserve, GoRequest
  <2>2. (\A r \in Runners : current[r] = None) /\ (\A v \in Updates : ~Pending(v)) /\ target[u] \in Runners
    BY <1>2 DEF Reservable, Inv, TypeOK
  <2>3. \A r \in Runners : current'[r] = IF r = target[u] THEN u ELSE None
    BY <2>1, <2>2 DEF Inv, TypeOK
  <2>4. \A v \in Updates : request'[v] = IF v = u THEN "insert" ELSE request[v]
    BY <2>1 DEF Inv, TypeOK
  <2>5. RowOfAnswered'
    BY <2>1, <2>4 DEF Inv, ResInv, RowOfAnswered
  <2>6. ReservedByRequest' /\ OneReservation'
    BY <2>1, <2>3, <2>4 DEF ReservedByRequest, OneReservation
  <2>7. ReservedAwaitsInsert' /\ OnePendingUpdate'
    BY <2>1, <2>2 DEF ReservedAwaitsInsert, OnePendingUpdate, Pending
  <2>8. QED
    BY <2>5, <2>6, <2>7 DEF ResInv
<1>3. QED
  BY <1>1, <1>2

\* An INSERT that still finds its reservation finds no pending update.
LEMMA InsertKept == ASSUME Inv, NEW u \in Updates, Insert(u) PROVE ResInv'
<1> USE NoneIsNone
<1>1. CASE UNCHANGED status
  <2>1. request' = [request EXCEPT ![u] = "undo"] \/ request' = [request EXCEPT ![u] = "done"]
    BY DEF Insert, GoRequest
  <2>2. request[u] = "insert" /\ UNCHANGED <<current, target>>
    BY DEF Insert
  <2>3. Withdraws
    BY <1>1, <2>1, <2>2 DEF Withdraws, Inv, TypeOK
  <2>4. QED
    BY <2>3, Withdrawal
<1>2. CASE status' # status
  <2>1. /\ StillReserved(u)
        /\ status' = [status EXCEPT ![u] = "pending"]
        /\ request' = [request EXCEPT ![u] = "done"]
        /\ UNCHANGED <<current, target>>
        /\ request[u] = "insert"
    BY <1>2 DEF Insert, GoRequest
  <2>2. /\ \A v \in Updates : status'[v] = IF v = u THEN "pending" ELSE status[v]
        /\ \A v \in Updates : request'[v] = IF v = u THEN "done" ELSE request[v]
    BY <2>1 DEF Inv, TypeOK
  <2>3. current[target[u]] = u /\ target[u] \in Runners /\ \A v \in Updates : ~Pending(v)
    BY <2>1 DEF StillReserved, Inv, TypeOK, ResInv, ReservedAwaitsInsert
  <2>4. RowOfAnswered' /\ ReservedByRequest' /\ OneReservation'
    BY <2>1, <2>2 DEF Inv, ResInv, RowOfAnswered, ReservedByRequest, OneReservation
  <2>5. \A v \in Updates : current[target[v]] = v => v = u
    BY <2>3 DEF Inv, TypeOK, ResInv, OneReservation
  <2>6. ReservedAwaitsInsert'
    BY <2>1, <2>2, <2>5 DEF ReservedAwaitsInsert
  <2>7. OnePendingUpdate'
    BY <2>2, <2>3 DEF OnePendingUpdate, Pending
  <2>8. QED
    BY <2>4, <2>6, <2>7 DEF ResInv
<1>3. QED
  BY <1>1, <1>2

-----------------------------------------------------------------------------
(* Every other step only withdraws.                                        *)

LEMMA StepCases ==
  ASSUME TypeOK, [Next]_vars
  PROVE  Withdraws \/ \E u \in Updates : Reserve(u) \/ Insert(u)
<1> USE DEF TypeOK
<1>1. ASSUME NEW u \in Updates, Request(u) PROVE Withdraws \/ Reserve(u) \/ Insert(u)
  <2>1. CASE RequestSweep(u)
    BY <2>1 DEF RequestSweep, FailStale, Pending, GoRequest, Withdraws
  <2>2. CASE RequestClear(u)
    BY <2>2 DEF RequestClear, ClearOrphans, GoRequest, Withdraws
  <2>3. CASE Undo(u)
    BY <2>3 DEF Undo, GoRequest, Withdraws
  <2>4. QED
    BY <1>1, <2>1, <2>2, <2>3 DEF Request
<1>2. ASSUME NEW r \in Runners, Poll(r) PROVE Withdraws
  <2>1. CASE PollSweep(r)
    BY <2>1 DEF PollSweep, FailStale, Pending, Withdraws
  <2>2. CASE PollClear(r)
    BY <2>2 DEF PollClear, ClearOrphans, Withdraws
  <2>3. CASE PollRead(r)
    BY <2>3 DEF PollRead, Withdraws
  <2>4. QED
    BY <1>2, <2>1, <2>2, <2>3 DEF Poll
<1>3. ASSUME NEW r \in Runners,
             \/ Heartbeat(r) \/ Revoke(r) \/ Unready(r) \/ RunnerStops(r)
             \/ \E u \in Updates : Install(r, u) \/ InstallFails(r, u)
      PROVE Withdraws
  BY <1>3 DEF Install, InstallFails, Heartbeat, Revoke, Unready, RunnerStops, Withdraws
<1>4. ASSUME NEW r \in Runners, RevokeFail(r) PROVE Withdraws
  BY <1>4 DEF RevokeFail, Pending, Withdraws
<1>5. ASSUME NEW u \in Updates, Age(u) PROVE Withdraws
  BY <1>5 DEF Age, Withdraws
<1>6. ASSUME NEW m \in reports, ReportFail(m) PROVE Withdraws
  BY <1>6 DEF ReportFail, Pending, Withdraws
<1>7. ASSUME NEW m \in reports, ReportFree(m) PROVE Withdraws
  BY <1>7 DEF ReportFree, Withdraws
<1>8. ASSUME NEW b \in beats, BeatSeen(b) PROVE Withdraws
  BY <1>8 DEF BeatSeen, Withdraws
<1>9. ASSUME NEW b \in beats, BeatConfirm(b) PROVE Withdraws
  BY <1>9 DEF BeatConfirm, Confirmable, IsPending, Pending, Withdraws
<1>10. ASSUME NEW b \in beats, BeatFree(b) PROVE Withdraws
  BY <1>10 DEF BeatFree, Withdraws
<1>11. CASE Crash
  BY <1>11 DEF Crash, FailStale, Pending, Withdraws
<1>12. CASE UNCHANGED vars
  BY <1>12 DEF vars, Withdraws
<1>13. QED
  BY <1>1, <1>2, <1>3, <1>4, <1>5, <1>6, <1>7, <1>8, <1>9, <1>10, <1>11, <1>12 DEF Next, Answer

LEMMA ReservationKept == Inv /\ [Next]_vars => ResInv'
BY StepCases, Withdrawal, ReserveKept, InsertKept DEF Inv

LEMMA InitInv == Init => Inv
BY InitTyped, InitReserved DEF Inv

LEMMA InvKept == Inv /\ [Next]_vars => Inv'
BY TypesKept, ReservationKept DEF Inv

\* One update is pending at most, although a request's recovery, reservation
\* and INSERT are separate statements that others come between.
THEOREM UpdatesAreExclusive == Spec => []OnePendingUpdate
<1>1. Inv => OnePendingUpdate
  BY DEF Inv, ResInv
<1>2. QED
  BY <1>1, InitInv, InvKept, PTL DEF Spec

\* What an update came to stays, whichever of the statements that settle it
\* come late: each asks for a pending row, and a row is inserted only once.
THEOREM ResultsStand == Spec => ResultStands
<1>1. Inv /\ [Next]_vars =>
        [\A u \in Updates : status[u] \in {"complete", "failed"} => status'[u] = status[u]]_vars
  <2> SUFFICES ASSUME Inv, [Next]_vars, NEW u \in Updates, status[u] \in {"complete", "failed"}
               PROVE  status'[u] = status[u]
    OBVIOUS
  <2>1. CASE Withdraws
    BY <2>1 DEF Withdraws, Pending
  <2>2. ASSUME NEW v \in Updates, Reserve(v) PROVE status'[u] = status[u]
    BY <2>2 DEF Reserve
  <2>3. ASSUME NEW v \in Updates, Insert(v) PROVE status'[u] = status[u]
    <3>1. request[u] = "done" /\ request[v] = "insert"
      BY <2>3 DEF Inv, ResInv, RowOfAnswered, Insert
    <3>2. QED
      BY <2>3, <3>1 DEF Insert, Inv, TypeOK
  <2>4. QED
    BY <2>1, <2>2, <2>3, StepCases DEF Inv
<1>2. QED
  BY <1>1, InitInv, InvKept, PTL DEF Spec, ResultStands
=============================================================================
