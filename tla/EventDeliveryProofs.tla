------------------------ MODULE EventDeliveryProofs ------------------------
(***************************************************************************)
(* Theorems of EventDelivery, for any number of events, revisions,         *)
(* handlers and dispatchers: its type invariant, that nothing is           *)
(* backfilled, that counts are right, that verdicts stand and that an      *)
(* admitted delivery has its invocation.                                   *)
(***************************************************************************)
EXTENDS EventDelivery, FiniteSetTheorems, TLAPS

USE DEF workflowVars, subVars, eventVars, deliveryVars, outcomeVars, publishVars, dispatchVars

-----------------------------------------------------------------------------
(* Types.                                                                  *)

\* A dispatcher past its claim has a delivery, and knows what to record of it.
JobOK ==
    \A d \in Dispatchers :
        /\ pc[d] \in {"resolve", "admit", "finish"} => job[d] \in Deliveries
        /\ pc[d] = "finish" => verdict[d] # "none"
\* A handler only fans out recorded events.
EventOK == \A h \in Handlers : event[h] <= recorded

TypeInv == TypeOK /\ JobOK /\ EventOK

\* Counts are numbers.
LEMMA CountIsNat == \A e : CountOf(e) \in Nat
<1>1. IsFiniteSet(Deliveries)
  <2>1. IsFiniteSet(Events) /\ IsFiniteSet(Revisions)
    BY DeliveryAssumption, FS_Interval DEF Events, Revisions
  <2>2. QED
    BY <2>1, FS_Product DEF Deliveries
<1>2. TAKE e
<1>3. {x \in Deliveries : x[1] = e /\ status[x] # "none"} \subseteq Deliveries
  OBVIOUS
<1>4. QED
  BY <1>1, <1>3, FS_Subset, FS_CardinalityType DEF CountOf

\* Zero and the largest sequence number are boundaries.
LEMMA Numbers == TypeOK => /\ recorded \in Nat /\ 0 \in 0..MaxEvents /\ 0 \in 0..MaxAttempts
                           /\ Events \subseteq Nat
BY DeliveryAssumption DEF TypeOK, Events

LEMMA InitTyped == Init => TypeInv
<1> SUFFICES ASSUME Init PROVE TypeInv
  OBVIOUS
<1>1. 0 \in 0..MaxEvents /\ 0 \in 0..MaxAttempts /\ 0 \in 0..MaxRevisions /\ 0 \in 0..MaxRetries /\ 0 \in 0..MaxFaults
  BY DeliveryAssumption
<1>2. TypeOK
  BY <1>1 DEF Init, TypeOK
<1>3. QED
  BY <1>2 DEF Init, TypeInv, JobOK, EventOK

\* A transaction of workflows.ts keeps the types of what it writes.
LEMMA WithdrawTyped ==
  ASSUME TypeOK, Withdraw
  PROVE  /\ sub' \in [Revisions -> {"none", "on", "off"}] /\ high' \in [Revisions -> 0..MaxEvents]
         /\ status' \in [Deliveries -> {"none", "pending", "claimed", "admitted", "filtered", "failed"}]
         /\ waiting' \subseteq Deliveries /\ owed' \in [Events -> SUBSET Revisions]
BY DEF Withdraw, TypeOK

LEMMA UpsertTyped ==
  ASSUME TypeOK, NEW others \in [Revisions -> {"none", "on", "off"}], Upsert(others)
  PROVE  /\ sub' \in [Revisions -> {"none", "on", "off"}] /\ high' \in [Revisions -> 0..MaxEvents]
BY DeliveryAssumption DEF Upsert, Raised, TypeOK

LEMMA ManageTyped == TypeInv /\ Manage => TypeInv'
<1> SUFFICES ASSUME TypeInv, Manage PROVE TypeInv'
  OBVIOUS
<1> USE DEF TypeInv
<1>1. ASSUME NEW on \in BOOLEAN, SaveDraft(on) PROVE TypeInv'
  <2>1. Withdraw
    BY <1>1 DEF SaveDraft
  <2>2. saved' \in 0..MaxRevisions
    BY <1>1, DeliveryAssumption DEF SaveDraft, TypeOK
  <2>3. /\ sub' \in [Revisions -> {"none", "on", "off"}] /\ high' \in [Revisions -> 0..MaxEvents]
        /\ status' \in [Deliveries -> {"none", "pending", "claimed", "admitted", "filtered", "failed"}]
        /\ waiting' \subseteq Deliveries /\ owed' \in [Events -> SUBSET Revisions]
        /\ UNCHANGED <<recorded, attempts>>
    BY <2>1, WithdrawTyped DEF Withdraw
  <2>4. TypeOK'
    BY <1>1, <2>2, <2>3 DEF SaveDraft, TypeOK
  <2>5. UNCHANGED <<pc, job, verdict, event, recorded>>
    BY <1>1, <2>3 DEF SaveDraft
  <2>6. QED
    BY <2>4, <2>5 DEF JobOK, EventOK
<1>2. CASE Publish
  <2>1. [s \in Revisions |-> IF sub[s] = "none" THEN "none" ELSE "off"] \in [Revisions -> {"none", "on", "off"}]
    OBVIOUS
  <2>2. Upsert([s \in Revisions |-> IF sub[s] = "none" THEN "none" ELSE "off"])
    BY <1>2 DEF Publish
  <2>3. sub' \in [Revisions -> {"none", "on", "off"}] /\ high' \in [Revisions -> 0..MaxEvents]
    BY <2>1, <2>2, UpsertTyped
  <2>4. QED
    BY <1>2, <2>3 DEF Publish, TypeOK, JobOK, EventOK
<1>3. CASE Enable
  <2>1. sub \in [Revisions -> {"none", "on", "off"}] /\ Upsert(sub)
    BY <1>3 DEF Enable, TypeOK
  <2>2. sub' \in [Revisions -> {"none", "on", "off"}] /\ high' \in [Revisions -> 0..MaxEvents]
    BY <2>1, UpsertTyped
  <2>3. QED
    BY <1>3, <2>2 DEF Enable, TypeOK, JobOK, EventOK
<1>4. CASE Disable
  <2>1. Withdraw
    BY <1>4 DEF Disable
  <2>2. /\ sub' \in [Revisions -> {"none", "on", "off"}] /\ high' \in [Revisions -> 0..MaxEvents]
        /\ status' \in [Deliveries -> {"none", "pending", "claimed", "admitted", "filtered", "failed"}]
        /\ waiting' \subseteq Deliveries /\ owed' \in [Events -> SUBSET Revisions]
        /\ UNCHANGED <<recorded, attempts>>
    BY <2>1, WithdrawTyped DEF Withdraw
  <2>3. TypeOK'
    BY <1>4, <2>2 DEF Disable, TypeOK
  <2>4. UNCHANGED <<pc, job, verdict, event, recorded>>
    BY <1>4, <2>2 DEF Disable
  <2>5. QED
    BY <2>3, <2>4 DEF JobOK, EventOK
<1>5. ASSUME NEW s \in Revisions, CreateCheck(s) PROVE TypeInv'
  BY <1>5 DEF CreateCheck, TypeOK, JobOK, EventOK
<1>6. ASSUME NEW s \in Revisions, CreateInsert(s) PROVE TypeInv'
  BY <1>6 DEF CreateInsert, Raised, TypeOK, JobOK, EventOK
<1>7. QED
  BY <1>1, <1>2, <1>3, <1>4, <1>5, <1>6 DEF Manage

LEMMA FaultTyped == TypeOK /\ Fault => faults' \in 0..MaxFaults
BY DeliveryAssumption DEF Fault, TypeOK

LEMMA PublishTyped ==
  ASSUME TypeInv,
         Record \/ \E h \in Handlers : PublishEvent(h) \/ Fanout(h) \/ FanoutError(h) \/ \E e \in Events : PublishAgain(h, e)
  PROVE  TypeInv'
<1> USE Numbers DEF TypeInv
<1>1. Insert => /\ recorded' \in 0..MaxEvents /\ recorded' = recorded + 1 /\ recorded + 1 \in Events
                /\ owed' \in [Events -> SUBSET Revisions]
  BY DeliveryAssumption DEF Insert, TypeOK, Events
<1>2. CASE Record
  BY <1>1, <1>2 DEF Record, TypeOK, JobOK, EventOK
<1>3. ASSUME NEW h \in Handlers, PublishEvent(h) PROVE TypeInv'
  BY <1>1, <1>3 DEF PublishEvent, TypeOK, JobOK, EventOK
<1>4. ASSUME NEW h \in Handlers, NEW e \in Events, PublishAgain(h, e) PROVE TypeInv'
  BY <1>4 DEF PublishAgain, TypeOK, JobOK, EventOK
<1>5. ASSUME NEW h \in Handlers, Fan(h) PROVE TypeInv'
  BY <1>5 DEF Fan, Deliver, TypeOK, JobOK, EventOK
<1>6. ASSUME NEW h \in Handlers, Count(h) PROVE TypeInv'
  <2>1. number' \in [Handlers -> Nat]
    BY <1>6, CountIsNat DEF Count, TypeOK
  <2>2. QED
    BY <1>6, <2>1 DEF Count, TypeOK, JobOK, EventOK
<1>7. ASSUME NEW h \in Handlers, Store(h) PROVE TypeInv'
  <2>1. /\ outcome' \in [Events -> {"none", "matched", "unmatched", "repeat"}]
        /\ counted' \in [Events -> Nat]
    BY <1>7 DEF Store, TypeOK
  <2>2. /\ step' \in [Handlers -> {"idle", "fan", "count", "store"}]
        /\ event' \in [Handlers -> Events \cup {0}] /\ number' \in [Handlers -> Nat]
    BY <1>7 DEF Store, TypeOK
  <2>3. \A g \in Handlers : event'[g] <= recorded'
    BY <1>7 DEF Store, TypeOK, EventOK
  <2>4. TypeOK'
    BY <1>7, <2>1, <2>2 DEF Store, TypeOK
  <2>5. QED
    BY <1>7, <2>3, <2>4 DEF Store, JobOK, EventOK
<1>8. ASSUME NEW h \in Handlers, FanoutError(h) PROVE TypeInv'
  BY <1>8, FaultTyped DEF FanoutError, TypeOK, JobOK, EventOK
<1>9. QED
  BY <1>2, <1>3, <1>4, <1>5, <1>6, <1>7, <1>8 DEF Fanout

LEMMA DispatchTyped == ASSUME TypeInv, NEW d \in Dispatchers, Dispatch(d) PROVE TypeInv'
<1> USE Numbers DEF TypeInv
<1>1. CASE Reconcile(d)
  BY <1>1 DEF Reconcile, Deliver, Goto, TypeOK, JobOK, EventOK
<1>2. CASE Exhaust(d)
  BY <1>2 DEF Exhaust, Goto, TypeOK, JobOK, EventOK
<1>3. CASE Done(d)
  BY <1>3 DEF Done, Goto, TypeOK, JobOK, EventOK
<1>4. CASE Resolve(d)
  BY <1>4 DEF Resolve, Decide, Goto, TypeOK, JobOK, EventOK
<1>5. CASE Admit(d)
  BY <1>5 DEF Admit, Decide, Goto, TypeOK, JobOK, EventOK
<1>6. CASE Finish(d)
  <2>1. job[d] \in Deliveries /\ Final(d) \in {"pending", "admitted", "failed"}
    BY <1>6 DEF Finish, Final, JobOK, TypeOK
  <2>2. /\ status' \in [Deliveries -> {"none", "pending", "claimed", "admitted", "filtered", "failed"}]
        /\ waiting' \subseteq Deliveries
    BY <1>6, <2>1 DEF Finish, TypeOK
  <2>3. QED
    BY <1>6, <2>2 DEF Finish, Leave, Decide, Goto, TypeOK, JobOK, EventOK
<1>7. ASSUME NEW x \in Deliveries, Claim(d, x) PROVE TypeInv'
  <2>1. attempts[x] + 1 \in 0..MaxAttempts
    BY <1>7, DeliveryAssumption DEF Claim, Claimable, TypeOK
  <2>2. QED
    BY <1>7, <2>1 DEF Claim, Goto, TypeOK, JobOK, EventOK
<1>8. QED
  BY <1>1, <1>2, <1>3, <1>4, <1>5, <1>6, <1>7 DEF Dispatch

LEMMA OtherTyped ==
  ASSUME TypeInv,
         \/ \E d \in Dispatchers : AdmitError(d) \/ FinishError(d) \/ Crash(d)
         \/ \E x \in Deliveries : RetryFailed(x) \/ LeasePasses(x)
         \/ UNCHANGED vars
  PROVE  TypeInv'
<1> USE Numbers, FaultTyped DEF TypeInv
<1>1. ASSUME NEW d \in Dispatchers, AdmitError(d) PROVE TypeInv'
  <2>1. job[d] \in Deliveries
    BY <1>1 DEF AdmitError, JobOK
  <2>2. invoked' \subseteq Deliveries
    BY <1>1, <2>1 DEF AdmitError, TypeOK
  <2>3. QED
    BY <1>1, <2>2 DEF AdmitError, Decide, Goto, TypeOK, JobOK, EventOK
<1>2. ASSUME NEW d \in Dispatchers, FinishError(d) PROVE TypeInv'
  BY <1>2 DEF FinishError, Leave, Decide, Goto, TypeOK, JobOK, EventOK
<1>3. ASSUME NEW d \in Dispatchers, Crash(d) PROVE TypeInv'
  BY <1>3 DEF Crash, Leave, Decide, Goto, TypeOK, JobOK, EventOK
<1>4. ASSUME NEW x \in Deliveries, RetryFailed(x) PROVE TypeInv'
  <2>1. retries' \in 0..MaxRetries
    BY <1>4, DeliveryAssumption DEF RetryFailed, TypeOK
  <2>2. QED
    BY <1>4, <2>1 DEF RetryFailed, TypeOK, JobOK, EventOK
<1>5. ASSUME NEW x \in Deliveries, LeasePasses(x) PROVE TypeInv'
  BY <1>5 DEF LeasePasses, TypeOK, JobOK, EventOK
<1>6. CASE UNCHANGED vars
  BY <1>6 DEF vars, TypeOK, JobOK, EventOK
<1>7. QED
  BY <1>1, <1>2, <1>3, <1>4, <1>5, <1>6

LEMMA TypesKept == TypeInv /\ [Next]_vars => TypeInv'
BY ManageTyped, PublishTyped, DispatchTyped, OtherTyped DEF Next

\* Every row, handler and dispatcher keeps its type.
THEOREM TypeCorrect == Spec => []TypeOK
<1>1. Spec => []TypeInv
  BY InitTyped, TypesKept, PTL DEF Spec
<1>2. TypeInv => TypeOK
  BY DEF TypeInv
<1>3. QED
  BY <1>1, <1>2, PTL

-----------------------------------------------------------------------------
(* Deliveries and subscriptions.                                           *)

\* A step that leaves status alone or only moves deliveries that exist.
Moves == \A x \in Deliveries : status'[x] # "none" <=> status[x] # "none"
\* A step that inserts what fan-outs of recorded events insert.
Inserts ==
    \A x \in Deliveries :
        /\ status[x] # "none" => status'[x] # "none"
        /\ status'[x] # "none" => status[x] # "none" \/ (x[1] <= recorded /\ x \in Missing(x[1]))

LEMMA InsertsOrMoves == TypeInv /\ [Next]_vars => Moves \/ (Inserts /\ UNCHANGED <<sub, high, recorded, owed>>)
<1> SUFFICES ASSUME TypeInv, [Next]_vars PROVE Moves \/ (Inserts /\ UNCHANGED <<sub, high, recorded, owed>>)
  OBVIOUS
<1> USE DEF TypeInv
<1>1. CASE UNCHANGED status
  BY <1>1 DEF Moves
<1>2. CASE Withdraw
  BY <1>2 DEF Withdraw, Moves, TypeOK
<1>3. ASSUME NEW h \in Handlers, Fan(h) PROVE Inserts /\ UNCHANGED <<sub, high, recorded, owed>>
  BY <1>3 DEF Fan, Deliver, Missing, Inserts, TypeOK, EventOK
<1>4. ASSUME NEW d \in Dispatchers, Reconcile(d) PROVE Inserts /\ UNCHANGED <<sub, high, recorded, owed>>
  <2>1. ASSUME NEW x \in Deliveries, x \in UNION {Missing(e) : e \in 1..recorded}
        PROVE  x[1] <= recorded /\ x \in Missing(x[1])
    <3>1. PICK e \in 1..recorded : x \in Missing(e)
      BY <2>1
    <3>2. x[1] = e
      BY <3>1 DEF Missing
    <3>3. e <= recorded
      BY Numbers
    <3>4. QED
      BY <3>1, <3>2, <3>3
  <2>2. QED
    BY <1>4, <2>1 DEF Reconcile, Deliver, Inserts, TypeOK
<1>5. ASSUME NEW d \in Dispatchers, Exhaust(d) PROVE Moves
  BY <1>5 DEF Exhaust, Exhausted, Moves, TypeOK
<1>6. ASSUME NEW d \in Dispatchers, NEW x \in Deliveries, Claim(d, x) PROVE Moves
  BY <1>6 DEF Claim, Claimable, Moves, TypeOK
<1>7. ASSUME NEW d \in Dispatchers, Finish(d) PROVE Moves
  <2>1. job[d] \in Deliveries /\ Final(d) # "none"
    BY <1>7 DEF Finish, Final, JobOK
  <2>2. QED
    BY <1>7, <2>1 DEF Finish, Owns, Moves, TypeOK
<1>8. ASSUME NEW x \in Deliveries, RetryFailed(x) PROVE Moves
  BY <1>8 DEF RetryFailed, Moves, TypeOK
<1>9. Manage => UNCHANGED status \/ Withdraw
  BY DEF Manage, SaveDraft, Publish, Enable, Disable, CreateCheck, CreateInsert
<1>10. Record \/ (\E h \in Handlers : PublishEvent(h) \/ Count(h) \/ Store(h) \/ FanoutError(h) \/ \E e \in Events : PublishAgain(h, e))
       => UNCHANGED status
  BY DEF Record, PublishEvent, Count, Store, FanoutError, PublishAgain
<1>11. (\E d \in Dispatchers : Done(d) \/ Resolve(d) \/ Admit(d) \/ AdmitError(d) \/ FinishError(d) \/ Crash(d))
       => UNCHANGED status
  BY DEF Done, Resolve, Admit, AdmitError, FinishError, Crash
<1>12. (\E x \in Deliveries : LeasePasses(x)) \/ UNCHANGED vars => UNCHANGED status
  BY DEF LeasePasses, vars
<1>13. QED
  BY <1>1, <1>2, <1>3, <1>4, <1>5, <1>6, <1>7, <1>8, <1>9, <1>10, <1>11, <1>12 DEF Next, Fanout, Dispatch

\* A subscription that is on was on, with the same boundary, or begins at the last event.
Begins ==
    \A s \in Revisions :
        sub'[s] = "on" => \/ sub[s] = "on" /\ high'[s] = high[s] /\ \A e \in Events : s \in owed[e] => s \in owed'[e]
                          \/ high'[s] = recorded'

LEMMA SubscriptionsBegin ==
  TypeInv /\ [Next]_vars => Begins /\ (UNCHANGED recorded \/ (Insert /\ UNCHANGED <<sub, high>>))
<1> SUFFICES ASSUME TypeInv, [Next]_vars
             PROVE  Begins /\ (UNCHANGED recorded \/ (Insert /\ UNCHANGED <<sub, high>>))
  OBVIOUS
<1> USE DEF TypeInv
<1>1. CASE UNCHANGED <<sub, high, recorded, owed>>
  BY <1>1 DEF Begins
<1>2. CASE Insert /\ UNCHANGED <<sub, high>>
  BY <1>2 DEF Insert, Begins, TypeOK
<1>3. CASE Withdraw
  BY <1>3 DEF Withdraw, Begins, TypeOK
<1>4. CASE Publish
  <2>1. \/ sub' = [s \in Revisions |-> IF sub[s] = "none" THEN "none" ELSE "off"] /\ UNCHANGED high
        \/ \E r : sub' = [[s \in Revisions |-> IF sub[s] = "none" THEN "none" ELSE "off"] EXCEPT ![r] = "on"]
                  /\ high' = [high EXCEPT ![r] = recorded]
    BY <1>4 DEF Publish, Upsert, Raised
  <2>2. UNCHANGED <<recorded, owed>>
    BY <1>4 DEF Publish
  <2>3. QED
    BY <2>1, <2>2 DEF Begins, TypeOK
<1>5. CASE Enable
  <2>1. (sub' = sub /\ UNCHANGED high) \/ \E r : sub' = [sub EXCEPT ![r] = "on"] /\ high' = [high EXCEPT ![r] = recorded]
    BY <1>5 DEF Enable, Upsert, Raised
  <2>2. UNCHANGED <<recorded, owed>>
    BY <1>5 DEF Enable
  <2>3. QED
    BY <2>1, <2>2 DEF Begins, TypeOK
<1>6. ASSUME NEW s \in Revisions, CreateInsert(s) PROVE Begins /\ UNCHANGED recorded
  BY <1>6 DEF CreateInsert, Raised, Begins, TypeOK
<1>7. Manage => \/ UNCHANGED <<sub, high, recorded, owed>> \/ Withdraw \/ Publish \/ Enable
                \/ \E s \in Revisions : CreateInsert(s)
  BY DEF Manage, SaveDraft, Disable, CreateCheck
<1>8. Record \/ (\E h \in Handlers : PublishEvent(h)) => Insert /\ UNCHANGED <<sub, high>>
  BY DEF Record, PublishEvent
<1>9. (\E h \in Handlers : Fanout(h) \/ FanoutError(h) \/ \E e \in Events : PublishAgain(h, e))
      => UNCHANGED <<sub, high, recorded, owed>>
  BY DEF Fanout, Fan, Count, Store, FanoutError, PublishAgain
<1>10. (\E d \in Dispatchers : Dispatch(d) \/ AdmitError(d) \/ FinishError(d) \/ Crash(d))
      => UNCHANGED <<sub, high, recorded, owed>>
  BY DEF Dispatch, Reconcile, Exhaust, Done, Resolve, Admit, Finish, Claim, AdmitError, FinishError, Crash
<1>11. (\E x \in Deliveries : RetryFailed(x) \/ LeasePasses(x)) \/ UNCHANGED vars
      => UNCHANGED <<sub, high, recorded, owed>>
  BY DEF RetryFailed, LeasePasses, vars
<1>12. Withdraw => UNCHANGED recorded
  BY DEF Withdraw
<1>13. QED
  BY <1>1, <1>2, <1>3, <1>4, <1>5, <1>6, <1>7, <1>8, <1>9, <1>10, <1>11, <1>12 DEF Next, Publish, Enable

\* What a subscription may still receive was recorded while it was active.
Boundary ==
    \A s \in Revisions : \A e \in Events : e <= recorded /\ sub[s] = "on" /\ e > high[s] => s \in owed[e]

\* Sequence numbers only grow.
LEMMA Grows == TypeInv /\ [Next]_vars => TypeOK /\ recorded \in Nat /\ recorded' \in Nat /\ recorded <= recorded'
<1> SUFFICES ASSUME TypeInv, [Next]_vars PROVE TypeOK /\ recorded \in Nat /\ recorded' \in Nat /\ recorded <= recorded'
  OBVIOUS
<1>1. TypeOK /\ recorded \in Nat
  BY Numbers DEF TypeInv
<1>2. recorded' = recorded \/ recorded' = recorded + 1
  BY SubscriptionsBegin DEF Insert
<1>3. QED
  BY <1>1, <1>2

LEMMA BoundaryKept == TypeInv /\ Boundary /\ [Next]_vars => Boundary'
<1> SUFFICES ASSUME TypeInv, Boundary, [Next]_vars,
                    NEW s \in Revisions, NEW e \in Events, e <= recorded', sub'[s] = "on", e > high'[s]
             PROVE  s \in owed'[e]
  BY DEF Boundary
<1>1. recorded' \in Nat /\ recorded \in Nat /\ e \in Nat /\ TypeOK
  BY Grows DEF Events
<1>2. sub[s] = "on" /\ high'[s] = high[s] /\ \A f \in Events : s \in owed[f] => s \in owed'[f]
  BY <1>1, SubscriptionsBegin DEF Begins
<1>3. CASE e <= recorded
  BY <1>2, <1>3 DEF Boundary
<1>4. CASE ~(e <= recorded)
  <2>1. Insert /\ recorded' = recorded + 1
    BY <1>1, <1>4, SubscriptionsBegin DEF Insert
  <2>2. e = recorded + 1
    BY <1>1, <1>4, <2>1
  <2>3. QED
    BY <1>1, <1>2, <2>1, <2>2 DEF Insert, TypeOK
<1>5. QED
  BY <1>3, <1>4

\* A subscription never consumes an event from before its registration boundary,
\* or from a time when it was off.
THEOREM NothingIsBackfilled == Spec => NoBackfill
<1>1. Init => TypeInv /\ Boundary
  BY InitTyped DEF Init, Boundary, Events
<1>2. (TypeInv /\ Boundary) /\ [Next]_vars => (TypeInv /\ Boundary)'
  BY TypesKept, BoundaryKept
<1>3. (TypeInv /\ Boundary) /\ [Next]_vars
      => [\A x \in Deliveries : status[x] = "none" /\ status'[x] # "none" => x[2] \in owed[x[1]]]_vars
  <2> SUFFICES ASSUME TypeInv, Boundary, [Next]_vars, NEW x \in Deliveries, status[x] = "none", status'[x] # "none"
               PROVE  x[2] \in owed[x[1]]
    OBVIOUS
  <2>1. x[1] <= recorded /\ x \in Missing(x[1])
    BY InsertsOrMoves DEF Moves, Inserts
  <2>2. x[1] \in Events /\ x[2] \in Revisions
    BY DEF Deliveries
  <2>3. QED
    BY <2>1, <2>2 DEF Missing, Boundary
<1>4. QED
  BY <1>1, <1>2, <1>3, PTL DEF Spec, NoBackfill

-----------------------------------------------------------------------------
(* Counts.                                                                 *)

\* An event has been fanned out once nothing is missing; that stays so.
Fanned(e) == Missing(e) = {}
CountInv ==
    /\ \A h \in Handlers :
         /\ step[h] \in {"count", "store"} => Fanned(event[h])
         /\ step[h] = "store" => number[h] = CountOf(event[h])
         /\ step[h] # "idle" => event[h] \in Events
    /\ \A e \in Events : outcome[e] # "none" => e <= recorded /\ Fanned(e) /\ counted[e] = CountOf(e)

LEMMA CountStays ==
  ASSUME TypeInv, [Next]_vars, NEW e \in Events, e <= recorded, Fanned(e)
  PROVE  Fanned(e)' /\ CountOf(e)' = CountOf(e)
<1>1. recorded' \in Nat /\ recorded \in Nat /\ e \in Nat /\ recorded <= recorded'
  BY Grows DEF Events
<1>2. \A x \in Deliveries : x[1] = e => (status'[x] # "none" <=> status[x] # "none")
  BY InsertsOrMoves DEF Moves, Inserts, Fanned
<1>3. ASSUME NEW x \in Deliveries, x[1] = e, status'[x] = "none", sub'[x[2]] = "on", e > high'[x[2]]
      PROVE  FALSE
  <2>1. x[2] \in Revisions
    BY DEF Deliveries
  <2>2. sub[x[2]] = "on" /\ high'[x[2]] = high[x[2]]
    BY <1>1, <1>3, <2>1, SubscriptionsBegin DEF Begins
  <2>3. x \in Missing(e)
    BY <1>2, <1>3, <2>2 DEF Missing
  <2>4. QED
    BY <2>3 DEF Fanned
<1>4. Fanned(e)'
  <2> SUFFICES ASSUME NEW x \in Deliveries, x[1] = e, status'[x] = "none", sub'[x[2]] = "on", e > high'[x[2]]
               PROVE  FALSE
    BY DEF Fanned, Missing
  <2>1. QED
    BY <1>3
<1>5. {x \in Deliveries : x[1] = e /\ status'[x] # "none"} = {x \in Deliveries : x[1] = e /\ status[x] # "none"}
  BY <1>2
<1>6. CountOf(e)' = CountOf(e)
  BY <1>5 DEF CountOf
<1>7. QED
  BY <1>4, <1>6

\* A step leaves the outcomes alone, or stores one; it leaves a handler alone, or moves it on.
Outcomes ==
    \A e \in Events : \/ outcome'[e] = outcome[e] /\ counted'[e] = counted[e]
                      \/ \E h \in Handlers : step[h] = "store" /\ event[h] = e /\ counted'[e] = number[h]
HandlerSteps ==
    \A h \in Handlers :
        \/ step'[h] = step[h] /\ event'[h] = event[h] /\ number'[h] = number[h]
        \/ step'[h] = "idle"
        \/ step'[h] = "fan" /\ event'[h] \in Events
        \/ step[h] = "fan" /\ step'[h] = "count" /\ event'[h] = event[h]
           /\ status' = [x \in Deliveries |-> IF x \in Missing(event[h]) THEN "pending" ELSE status[x]]
           /\ UNCHANGED <<sub, high, recorded>>
        \/ step[h] = "count" /\ step'[h] = "store" /\ event'[h] = event[h] /\ number'[h] = CountOf(event[h])
           /\ UNCHANGED status

LEMMA PublishingSteps == TypeInv /\ [Next]_vars => Outcomes /\ HandlerSteps
<1> SUFFICES ASSUME TypeInv, [Next]_vars PROVE Outcomes /\ HandlerSteps
  OBVIOUS
<1> USE DEF TypeInv
<1>1. CASE UNCHANGED <<outcome, counted, step, event, number>>
  BY <1>1 DEF Outcomes, HandlerSteps
<1>2. ASSUME NEW h \in Handlers, PublishEvent(h) PROVE Outcomes /\ HandlerSteps
  <2>1. recorded + 1 \in Events
    BY <1>2, DeliveryAssumption DEF PublishEvent, Insert, Events, TypeOK
  <2>2. QED
    BY <1>2, <2>1 DEF PublishEvent, Outcomes, HandlerSteps, TypeOK
<1>3. ASSUME NEW h \in Handlers, NEW e \in Events, PublishAgain(h, e) PROVE Outcomes /\ HandlerSteps
  BY <1>3 DEF PublishAgain, Outcomes, HandlerSteps, TypeOK
<1>4. ASSUME NEW h \in Handlers, Fan(h) PROVE Outcomes /\ HandlerSteps
  BY <1>4 DEF Fan, Deliver, Outcomes, HandlerSteps, TypeOK
<1>5. ASSUME NEW h \in Handlers, Count(h) PROVE Outcomes /\ HandlerSteps
  BY <1>5 DEF Count, Outcomes, HandlerSteps, TypeOK
<1>6. ASSUME NEW h \in Handlers, Store(h) PROVE Outcomes /\ HandlerSteps
  BY <1>6 DEF Store, Outcomes, HandlerSteps, TypeOK
<1>7. ASSUME NEW h \in Handlers, FanoutError(h) PROVE Outcomes /\ HandlerSteps
  BY <1>7 DEF FanoutError, Outcomes, HandlerSteps, TypeOK
<1>8. ASSUME NEW d \in Dispatchers, Crash(d) PROVE Outcomes /\ HandlerSteps
  BY <1>8 DEF Crash, Outcomes, HandlerSteps, TypeOK
<1>9. Manage => UNCHANGED <<outcome, counted, step, event, number>>
  BY DEF Manage, SaveDraft, Publish, Enable, Disable, CreateCheck, CreateInsert
<1>10. (\E d \in Dispatchers : Dispatch(d) \/ AdmitError(d) \/ FinishError(d))
       => UNCHANGED <<outcome, counted, step, event, number>>
  BY DEF Dispatch, Reconcile, Exhaust, Done, Resolve, Admit, Finish, Claim, AdmitError, FinishError
<1>11. Record \/ (\E x \in Deliveries : RetryFailed(x) \/ LeasePasses(x)) \/ UNCHANGED vars
       => UNCHANGED <<outcome, counted, step, event, number>>
  BY DEF Record, RetryFailed, LeasePasses, vars
<1>12. QED
  BY <1>1, <1>2, <1>3, <1>4, <1>5, <1>6, <1>7, <1>8, <1>9, <1>10, <1>11 DEF Next, Fanout

LEMMA CountKept == TypeInv /\ CountInv /\ [Next]_vars => CountInv'
<1> SUFFICES ASSUME TypeInv, CountInv, [Next]_vars PROVE CountInv'
  OBVIOUS
<1>1. \A e \in Events : e <= recorded /\ Fanned(e) => e <= recorded' /\ Fanned(e)' /\ CountOf(e)' = CountOf(e)
  BY CountStays, Grows DEF Events
<1>2. \A h \in Handlers : event[h] <= recorded
  BY DEF TypeInv, EventOK
<1>3. ASSUME NEW h \in Handlers
      PROVE  (/\ step[h] \in {"count", "store"} => Fanned(event[h])
              /\ step[h] = "store" => number[h] = CountOf(event[h])
              /\ step[h] # "idle" => event[h] \in Events)'
  <2>1. CASE step'[h] = step[h] /\ event'[h] = event[h] /\ number'[h] = number[h]
    <3>1. CASE step[h] = "idle"
      BY <2>1, <3>1
    <3>2. CASE step[h] # "idle"
      <4>1. event[h] \in Events /\ event[h] <= recorded
        BY <1>2, <3>2 DEF CountInv
      <4>2. Fanned(event[h]) => Fanned(event[h])' /\ CountOf(event[h])' = CountOf(event[h])
        <5>1. PICK e \in Events : e = event[h] /\ e <= recorded
          BY <4>1
        <5>2. event'[h] = e
          BY <2>1, <5>1
        <5>3. Fanned(e) => Fanned(e)' /\ CountOf(e)' = CountOf(e)
          BY <1>1, <5>1
        <5>4. QED
          BY <5>1, <5>2, <5>3 DEF Fanned, Missing, CountOf
      <4>3. QED
        BY <2>1, <4>1, <4>2 DEF CountInv
    <3>3. QED
      BY <3>1, <3>2
  <2>2. CASE step'[h] = "idle"
    BY <2>2
  <2>3. CASE step'[h] = "fan" /\ event'[h] \in Events
    BY <2>3
  <2>4. CASE /\ step[h] = "fan" /\ step'[h] = "count" /\ event'[h] = event[h]
             /\ status' = [x \in Deliveries |-> IF x \in Missing(event[h]) THEN "pending" ELSE status[x]]
             /\ UNCHANGED <<sub, high, recorded>>
    <3>1. Fanned(event[h])'
      BY <2>4 DEF Fanned, Missing
    <3>2. QED
      BY <2>4, <3>1 DEF CountInv
  <2>5. CASE /\ step[h] = "count" /\ step'[h] = "store" /\ event'[h] = event[h]
             /\ number'[h] = CountOf(event[h]) /\ UNCHANGED status
    <3>1. event[h] \in Events /\ event[h] <= recorded /\ Fanned(event[h])
      BY <1>2, <2>5 DEF CountInv
    <3>2. PICK e \in Events : e = event[h] /\ e <= recorded
      BY <3>1
    <3>3. Fanned(e)' /\ CountOf(e)' = CountOf(e)
      BY <1>1, <3>1, <3>2
    <3>4. event'[h] = e
      BY <2>5, <3>2
    <3>5. Fanned(event[h])' /\ CountOf(event[h])' = CountOf(event[h])
      BY <3>2, <3>3, <3>4 DEF Fanned, Missing, CountOf
    <3>6. QED
      BY <2>5, <3>1, <3>5
  <2>6. QED
    BY <2>1, <2>2, <2>3, <2>4, <2>5, PublishingSteps DEF HandlerSteps
<1>4. ASSUME NEW e \in Events, outcome'[e] # "none"
      PROVE  e <= recorded' /\ Fanned(e)' /\ counted'[e] = CountOf(e)'
  <2>1. CASE outcome'[e] = outcome[e] /\ counted'[e] = counted[e]
    BY <1>1, <1>4, <2>1 DEF CountInv
  <2>2. ASSUME NEW h \in Handlers, step[h] = "store", event[h] = e, counted'[e] = number[h]
        PROVE  e <= recorded' /\ Fanned(e)' /\ counted'[e] = CountOf(e)'
    BY <1>1, <1>2, <2>2 DEF CountInv
  <2>3. QED
    BY <2>1, <2>2, PublishingSteps DEF Outcomes
<1>5. QED
  BY <1>3, <1>4 DEF CountInv

\* The count stored with an outcome is the number of the event's deliveries.
THEOREM CountsAreRight == Spec => []OutcomeCountsDeliveries
<1>1. Init => TypeInv /\ CountInv
  BY InitTyped DEF Init, CountInv
<1>2. (TypeInv /\ CountInv) /\ [Next]_vars => (TypeInv /\ CountInv)'
  BY TypesKept, CountKept
<1>3. CountInv => OutcomeCountsDeliveries
  BY DEF CountInv, OutcomeCountsDeliveries
<1>4. QED
  BY <1>1, <1>2, <1>3, PTL DEF Spec

-----------------------------------------------------------------------------
(* Verdicts.                                                               *)

\* What a step may do to the verdicts.
Stands ==
    \A x \in Deliveries :
        /\ status[x] \in {"admitted", "filtered"} => status'[x] = status[x]
        /\ status[x] = "failed" => status'[x] = "failed" \/ retries' # retries

LEMMA VerdictsKept == TypeInv /\ [Next]_vars => Stands
<1> SUFFICES ASSUME TypeInv, [Next]_vars PROVE Stands
  OBVIOUS
<1> USE DEF TypeInv
<1>1. CASE UNCHANGED status
  BY <1>1 DEF Stands
<1>2. CASE Withdraw
  BY <1>2 DEF Withdraw, Stands, TypeOK
<1>3. ASSUME NEW h \in Handlers, Fan(h) PROVE Stands
  BY <1>3 DEF Fan, Deliver, Missing, Stands, TypeOK
<1>4. ASSUME NEW d \in Dispatchers, Reconcile(d) PROVE Stands
  <2>1. \A x \in UNION {Missing(e) : e \in 1..recorded} : status[x] = "none"
    BY DEF Missing
  <2>2. QED
    BY <1>4, <2>1 DEF Reconcile, Deliver, Stands, TypeOK
<1>5. ASSUME NEW d \in Dispatchers, Exhaust(d) PROVE Stands
  BY <1>5 DEF Exhaust, Exhausted, Stands, TypeOK
<1>6. ASSUME NEW d \in Dispatchers, NEW x \in Deliveries, Claim(d, x) PROVE Stands
  BY <1>6 DEF Claim, Claimable, Stands, TypeOK
<1>7. ASSUME NEW d \in Dispatchers, Finish(d) PROVE Stands
  BY <1>7 DEF Finish, Owns, Stands, TypeOK
<1>8. ASSUME NEW x \in Deliveries, RetryFailed(x) PROVE Stands
  <2>1. retries' # retries
    BY <1>8, DeliveryAssumption DEF RetryFailed, TypeOK
  <2>2. QED
    BY <1>8, <2>1 DEF RetryFailed, Stands, TypeOK
<1>9. Manage => UNCHANGED status \/ Withdraw
  BY DEF Manage, SaveDraft, Publish, Enable, Disable, CreateCheck, CreateInsert
<1>10. Record \/ (\E h \in Handlers : PublishEvent(h) \/ Count(h) \/ Store(h) \/ FanoutError(h) \/ \E e \in Events : PublishAgain(h, e))
       => UNCHANGED status
  BY DEF Record, PublishEvent, Count, Store, FanoutError, PublishAgain
<1>11. (\E d \in Dispatchers : Done(d) \/ Resolve(d) \/ Admit(d) \/ AdmitError(d) \/ FinishError(d) \/ Crash(d))
       => UNCHANGED status
  BY DEF Done, Resolve, Admit, AdmitError, FinishError, Crash
<1>12. (\E x \in Deliveries : LeasePasses(x)) \/ UNCHANGED vars => UNCHANGED status
  BY DEF LeasePasses, vars
<1>13. QED
  BY <1>1, <1>2, <1>3, <1>4, <1>5, <1>6, <1>7, <1>8, <1>9, <1>10, <1>11, <1>12 DEF Next, Fanout, Dispatch

\* A verdict stands: no late finish of a lost claim, and no transaction, changes it.
THEOREM VerdictsStand == Spec => VerdictStands
<1>1. Spec => []TypeInv
  BY InitTyped, TypesKept, PTL DEF Spec
<1>2. TypeInv /\ [Next]_vars
      => [\A x \in Deliveries :
            /\ status[x] \in {"admitted", "filtered"} => status'[x] = status[x]
            /\ status[x] = "failed" => status'[x] = "failed" \/ retries' # retries]_vars
  BY VerdictsKept DEF Stands
<1>3. QED
  BY <1>1, <1>2, PTL DEF Spec, VerdictStands

\* A dispatcher about to record an admission has requested the run.
AdmitOK == \A d \in Dispatchers : pc[d] = "finish" /\ verdict[d] = "admitted" => job[d] \in invoked

LEMMA AdmissionsKept ==
  TypeInv /\ AdmitOK /\ AdmittedHasInvocation /\ [Next]_vars => AdmitOK' /\ AdmittedHasInvocation'
<1> SUFFICES ASSUME TypeInv, AdmitOK, AdmittedHasInvocation, [Next]_vars PROVE AdmitOK' /\ AdmittedHasInvocation'
  OBVIOUS
<1> USE DEF TypeInv
<1> DEFINE NoneAdmitted == \A x \in Deliveries : status'[x] = "admitted" => status[x] = "admitted"
<1>1. NoneAdmitted /\ invoked \subseteq invoked' => AdmittedHasInvocation'
  BY DEF AdmittedHasInvocation
<1>2. UNCHANGED <<pc, job, verdict>> /\ invoked \subseteq invoked' => AdmitOK'
  BY DEF AdmitOK
<1>3. CASE Manage
  <2>1. UNCHANGED <<pc, job, verdict, invoked>> /\ (UNCHANGED status \/ Withdraw)
    BY <1>3 DEF Manage, SaveDraft, Publish, Enable, Disable, CreateCheck, CreateInsert
  <2>2. NoneAdmitted
    BY <2>1 DEF Withdraw, TypeOK
  <2>3. QED
    BY <1>1, <1>2, <2>1, <2>2
<1>4. CASE Record \/ (\E h \in Handlers : PublishEvent(h) \/ Fanout(h) \/ FanoutError(h) \/ \E e \in Events : PublishAgain(h, e))
  <2>1. UNCHANGED <<pc, job, verdict, invoked>>
        /\ (UNCHANGED status \/ \E X : status' = [x \in Deliveries |-> IF x \in X THEN "pending" ELSE status[x]])
    BY <1>4 DEF Record, PublishEvent, Fanout, Fan, Deliver, Count, Store, FanoutError, PublishAgain
  <2>2. NoneAdmitted
    BY <2>1 DEF TypeOK
  <2>3. QED
    BY <1>1, <1>2, <2>1, <2>2
<1>5. ASSUME NEW d \in Dispatchers, Reconcile(d) \/ Exhaust(d) \/ Done(d) \/ Resolve(d)
      PROVE  AdmitOK' /\ AdmittedHasInvocation'
  <2>1. NoneAdmitted /\ UNCHANGED invoked
    BY <1>5 DEF Reconcile, Deliver, Exhaust, Done, Resolve, TypeOK
  <2>2. AdmitOK'
    BY <1>5 DEF Reconcile, Exhaust, Done, Resolve, Decide, Goto, AdmitOK, TypeOK
  <2>3. QED
    BY <1>1, <2>1, <2>2
<1>6. ASSUME NEW d \in Dispatchers, Admit(d) PROVE AdmitOK' /\ AdmittedHasInvocation'
  BY <1>6 DEF Admit, Decide, Goto, AdmitOK, AdmittedHasInvocation, TypeOK
<1>7. ASSUME NEW d \in Dispatchers, Finish(d) PROVE AdmitOK' /\ AdmittedHasInvocation'
  <2>1. AdmitOK'
    BY <1>7 DEF Finish, Leave, Decide, Goto, AdmitOK, TypeOK
  <2>2. Final(d) = "admitted" => job[d] \in invoked
    BY <1>7 DEF Finish, Final, AdmitOK
  <2>3. AdmittedHasInvocation'
    BY <1>7, <2>2 DEF Finish, AdmittedHasInvocation, TypeOK
  <2>4. QED
    BY <2>1, <2>3
<1>8. ASSUME NEW d \in Dispatchers, NEW x \in Deliveries, Claim(d, x) PROVE AdmitOK' /\ AdmittedHasInvocation'
  <2>1. NoneAdmitted /\ UNCHANGED invoked
    BY <1>8 DEF Claim, TypeOK
  <2>2. AdmitOK'
    BY <1>8 DEF Claim, Goto, AdmitOK, TypeOK
  <2>3. QED
    BY <1>1, <2>1, <2>2
<1>9. ASSUME NEW d \in Dispatchers, AdmitError(d) \/ FinishError(d) \/ Crash(d) PROVE AdmitOK' /\ AdmittedHasInvocation'
  <2>1. UNCHANGED status /\ invoked \subseteq invoked'
    BY <1>9 DEF AdmitError, FinishError, Crash
  <2>2. AdmitOK'
    BY <1>9, <2>1 DEF AdmitError, FinishError, Crash, Leave, Decide, Goto, AdmitOK, TypeOK
  <2>3. QED
    BY <1>1, <2>1, <2>2
<1>10. CASE (\E x \in Deliveries : RetryFailed(x) \/ LeasePasses(x)) \/ UNCHANGED vars
  <2>1. UNCHANGED <<pc, job, verdict, invoked>> /\ NoneAdmitted
    BY <1>10 DEF RetryFailed, LeasePasses, vars, TypeOK
  <2>2. QED
    BY <1>1, <1>2, <2>1
<1>11. QED
  BY <1>3, <1>4, <1>5, <1>6, <1>7, <1>8, <1>9, <1>10 DEF Next, Dispatch

\* An admitted delivery has its invocation, whatever errors and repetitions led to it.
THEOREM AdmissionsHaveInvocations == Spec => []AdmittedHasInvocation
<1>1. Init => TypeInv /\ AdmitOK /\ AdmittedHasInvocation
  BY InitTyped DEF Init, AdmitOK, AdmittedHasInvocation
<1>2. (TypeInv /\ AdmitOK /\ AdmittedHasInvocation) /\ [Next]_vars => (TypeInv /\ AdmitOK /\ AdmittedHasInvocation)'
  BY TypesKept, AdmissionsKept
<1>3. QED
  BY <1>1, <1>2, PTL DEF Spec
=============================================================================
