---------------------------- MODULE EventDelivery ----------------------------
(***************************************************************************)
(* Delivery of domain events to the subscriptions of a workflow: events    *)
(* are recorded, fanned out to the subscriptions active at that time, and  *)
(* each delivery is turned into one request to run the pinned revision     *)
(* (src/src/domain-event-delivery-repository.ts, domain-event-dispatcher.ts,*)
(* domain-event-repository.ts, and what workflows.ts does to subscriptions).*)
(*                                                                         *)
(* One workflow of one workspace, and events of one type.  An event is its *)
(* sequence number; a subscription pins a revision and stands for it.      *)
(* A statement or a transaction is a step.                                 *)
(***************************************************************************)
EXTENDS Naturals, FiniteSets

CONSTANTS
    MaxEvents,    \* events that may be recorded (bound)
    MaxRevisions, \* revisions that may be saved (bound)
    Declared,     \* revisions whose definition lists the event's type
    MaxAttempts,  \* MAX_DELIVERY_ATTEMPTS
    Handlers,     \* requests that publish events
    Dispatchers,  \* control planes that poll for deliveries
    MaxRetries,   \* retries by an operator (bound)
    MaxFaults     \* database errors and crashes (bound)

Events == 1..MaxEvents
Revisions == 1..MaxRevisions
Deliveries == Events \X Revisions
NoDelivery == <<0, 0>>

ASSUME DeliveryAssumption ==
    /\ MaxEvents \in Nat /\ MaxRevisions \in Nat /\ MaxAttempts \in Nat \ {0}
    /\ MaxRetries \in Nat /\ MaxFaults \in Nat /\ Declared \subseteq Revisions

VARIABLES
    saved,      \* revisions of the workflow
    active,     \* active_revision; 0 for NULL
    published,  \* workflows.status = 'published'
    enabled,    \* workflows.enabled
    sub,        \* of each revision's subscription: none, on or off
    high,       \* high_water_event_sequence
    recorded,   \* events
    owed,       \* subscriptions active when an event was recorded (history)
    status,     \* of each delivery; "none" before its INSERT
    attempts,   \* attempt_count
    waiting,    \* deliveries whose lease_until has not passed
    outcome,    \* fanout outcome of each event, and its delivery_count
    counted,
    invoked,    \* deliveries with a workflow.run.requested event
    step,       \* what a publishing request is about to do, with which event,
    event,
    number,     \* and the count it has read
    creating,   \* revisions whose subscription passed the checks of its request
    pc,         \* what a dispatcher is about to do, with which delivery,
    job,
    attempt,    \* its attempt_count when claimed, and what is to be recorded
    verdict,
    retries, faults

workflowVars == <<saved, active, published, enabled>>
subVars == <<sub, high>>
eventVars == <<recorded, owed>>
deliveryVars == <<status, attempts, waiting>>
outcomeVars == <<outcome, counted>>
publishVars == <<step, event, number>>
dispatchVars == <<pc, job, attempt, verdict>>
vars == <<workflowVars, subVars, eventVars, deliveryVars, outcomeVars, invoked,
          publishVars, creating, dispatchVars, retries, faults>>

\* Every row, handler and dispatcher has its type.
TypeOK ==
    /\ saved \in 0..MaxRevisions /\ active \in 0..MaxRevisions
    /\ published \in BOOLEAN /\ enabled \in BOOLEAN
    /\ sub \in [Revisions -> {"none", "on", "off"}] /\ high \in [Revisions -> 0..MaxEvents]
    /\ recorded \in 0..MaxEvents /\ owed \in [Events -> SUBSET Revisions]
    /\ status \in [Deliveries -> {"none", "pending", "claimed", "admitted", "filtered", "failed"}]
    /\ attempts \in [Deliveries -> 0..MaxAttempts] /\ waiting \subseteq Deliveries
    /\ outcome \in [Events -> {"none", "matched", "unmatched", "repeat"}] /\ counted \in [Events -> Nat]
    /\ invoked \subseteq Deliveries
    /\ step \in [Handlers -> {"idle", "fan", "count", "store"}]
    /\ event \in [Handlers -> Events \cup {0}] /\ number \in [Handlers -> Nat]
    /\ creating \subseteq Revisions
    /\ pc \in [Dispatchers -> {"idle", "exhaust", "claim", "resolve", "admit", "finish"}]
    /\ job \in [Dispatchers -> Deliveries \cup {NoDelivery}] /\ attempt \in [Dispatchers -> 0..MaxAttempts]
    /\ verdict \in [Dispatchers -> {"none", "pending", "admitted", "failed"}]
    /\ retries \in 0..MaxRetries /\ faults \in 0..MaxFaults

Init ==
    /\ saved = 0 /\ active = 0 /\ published = FALSE /\ enabled = FALSE
    /\ sub = [s \in Revisions |-> "none"] /\ high = [s \in Revisions |-> 0]
    /\ recorded = 0 /\ owed = [e \in Events |-> {}]
    /\ status = [x \in Deliveries |-> "none"] /\ attempts = [x \in Deliveries |-> 0] /\ waiting = {}
    /\ outcome = [e \in Events |-> "none"] /\ counted = [e \in Events |-> 0]
    /\ invoked = {} /\ creating = {}
    /\ step = [h \in Handlers |-> "idle"] /\ event = [h \in Handlers |-> 0] /\ number = [h \in Handlers |-> 0]
    /\ pc = [d \in Dispatchers |-> "idle"] /\ job = [d \in Dispatchers |-> NoDelivery]
    /\ attempt = [d \in Dispatchers |-> 0] /\ verdict = [d \in Dispatchers |-> "none"]
    /\ retries = 0 /\ faults = 0

-----------------------------------------------------------------------------
(* What workflows.ts does to subscriptions: transactions.                  *)

\* The workflow's subscriptions are disabled and its unfinished deliveries filtered.
Withdraw ==
    /\ sub' = [s \in Revisions |-> IF sub[s] = "none" THEN "none" ELSE "off"] /\ UNCHANGED high
    /\ status' = [x \in Deliveries |-> IF status[x] \in {"pending", "claimed"} THEN "filtered" ELSE status[x]]
    /\ waiting' = {x \in waiting : status[x] \notin {"pending", "claimed"}}
    /\ owed' = [e \in Events |-> {}]  \* what was not delivered yet is given up
    /\ UNCHANGED <<recorded, attempts>>

\* Mutant of Raised: enabling a subscription again keeps its registration boundary.
RaisedOnce(s) == [high EXCEPT ![s] = IF sub[s] = "none" THEN recorded ELSE @]

\* The subscription is inserted or enabled, from the last event on; others as given.
Raised(s) == [high EXCEPT ![s] = recorded]
Upsert(others) ==
    IF published' /\ enabled' /\ active' \in Declared
    THEN sub' = [others EXCEPT ![active'] = "on"] /\ high' = Raised(active')
    ELSE sub' = others /\ UNCHANGED high

SaveDraft(on) ==
    /\ saved < MaxRevisions
    /\ saved' = saved + 1 /\ published' = FALSE /\ enabled' = on /\ UNCHANGED active
    /\ Withdraw
    /\ UNCHANGED <<outcomeVars, invoked, publishVars, creating, dispatchVars, retries, faults>>
Publish ==
    /\ saved > 0
    /\ published' = TRUE /\ active' = saved /\ UNCHANGED <<saved, enabled>>
    /\ Upsert([s \in Revisions |-> IF sub[s] = "none" THEN "none" ELSE "off"])
    /\ UNCHANGED <<eventVars, deliveryVars, outcomeVars, invoked, publishVars, creating, dispatchVars, retries, faults>>
Enable ==
    /\ saved > 0
    /\ enabled' = TRUE /\ UNCHANGED <<saved, active, published>>
    /\ Upsert(sub)
    /\ UNCHANGED <<eventVars, deliveryVars, outcomeVars, invoked, publishVars, creating, dispatchVars, retries, faults>>
Disable ==
    /\ saved > 0
    /\ enabled' = FALSE /\ UNCHANGED <<saved, active, published>>
    /\ Withdraw
    /\ UNCHANGED <<outcomeVars, invoked, publishVars, creating, dispatchVars, retries, faults>>

\* createSubscription: the request's checks, then INSERT OR IGNORE.
CreateCheck(s) ==
    /\ published /\ enabled /\ s = active /\ s \notin creating
    /\ creating' = creating \cup {s}
    /\ UNCHANGED <<workflowVars, subVars, eventVars, deliveryVars, outcomeVars, invoked, publishVars, dispatchVars, retries, faults>>
CreateInsert(s) ==
    /\ s \in creating
    /\ IF sub[s] = "none" THEN sub' = [sub EXCEPT ![s] = "on"] /\ high' = Raised(s) ELSE UNCHANGED subVars
    /\ creating' = creating \ {s}
    /\ UNCHANGED <<workflowVars, eventVars, deliveryVars, outcomeVars, invoked, publishVars, dispatchVars, retries, faults>>

Manage ==
    \/ \E on \in BOOLEAN : SaveDraft(on)
    \/ Publish \/ Enable \/ Disable
    \/ \E s \in Revisions : CreateCheck(s) \/ CreateInsert(s)

-----------------------------------------------------------------------------
(* Recording an event, and fanning it out.                                 *)

Insert ==
    /\ recorded < MaxEvents
    /\ recorded' = recorded + 1
    /\ owed' = [owed EXCEPT ![recorded + 1] = {s \in Revisions : sub[s] = "on"}]
\* The completion of a job, and some requests, record an event and leave it to the poller;
Record ==
    /\ Insert
    /\ UNCHANGED <<workflowVars, subVars, deliveryVars, outcomeVars, invoked, publishVars, creating, dispatchVars, retries, faults>>
\* the others fan it out themselves, and again if the request is repeated.
PublishEvent(h) ==
    /\ step[h] = "idle"
    /\ Insert
    /\ step' = [step EXCEPT ![h] = "fan"] /\ event' = [event EXCEPT ![h] = recorded + 1]
    /\ UNCHANGED <<workflowVars, subVars, deliveryVars, outcomeVars, invoked, number, creating, dispatchVars, retries, faults>>
PublishAgain(h, e) ==
    /\ step[h] = "idle" /\ e <= recorded
    /\ step' = [step EXCEPT ![h] = "fan"] /\ event' = [event EXCEPT ![h] = e]
    /\ UNCHANGED <<workflowVars, subVars, eventVars, deliveryVars, outcomeVars, invoked, number, creating, dispatchVars, retries, faults>>

\* The deliveries an event's fan-out inserts.
Missing(e) == {x \in Deliveries : x[1] = e /\ status[x] = "none" /\ sub[x[2]] = "on" /\ e > high[x[2]]}
Deliver(X) ==
    /\ status' = [x \in Deliveries |-> IF x \in X THEN "pending" ELSE status[x]]
    /\ UNCHANGED <<attempts, waiting>>

\* Mutant of CountOf: deliveries that are done are not counted.
CountOfPending(e) == Cardinality({x \in Deliveries : x[1] = e /\ status[x] = "pending"})

CountOf(e) == Cardinality({x \in Deliveries : x[1] = e /\ status[x] # "none"})
Fan(h) ==
    /\ step[h] = "fan"
    /\ Deliver(Missing(event[h]))
    /\ step' = [step EXCEPT ![h] = "count"]
    /\ UNCHANGED <<workflowVars, subVars, eventVars, outcomeVars, invoked, event, number, creating, dispatchVars, retries, faults>>
Count(h) ==
    /\ step[h] = "count"
    /\ number' = [number EXCEPT ![h] = CountOf(event[h])]
    /\ step' = [step EXCEPT ![h] = "store"]
    /\ UNCHANGED <<workflowVars, subVars, eventVars, deliveryVars, outcomeVars, invoked, event, creating, dispatchVars, retries, faults>>
Store(h) ==
    /\ step[h] = "store"
    /\ outcome' = [outcome EXCEPT ![event[h]] =
         IF @ # "none" THEN "repeat" ELSE IF number[h] = 0 THEN "unmatched" ELSE "matched"]
    /\ counted' = [counted EXCEPT ![event[h]] = number[h]]
    /\ step' = [step EXCEPT ![h] = "idle"]
    /\ event' = [event EXCEPT ![h] = 0] /\ number' = [number EXCEPT ![h] = 0]
    /\ UNCHANGED <<workflowVars, subVars, eventVars, deliveryVars, invoked, creating, dispatchVars, retries, faults>>
Fanout(h) == Fan(h) \/ Count(h) \/ Store(h)

-----------------------------------------------------------------------------
(* The poller: reconcile, then claim and process until nothing is due.     *)

Goto(d, next) == pc' = [pc EXCEPT ![d] = next]

Reconcile(d) ==
    /\ pc[d] = "idle"
    /\ Deliver(UNION {Missing(e) : e \in 1..recorded})
    /\ Goto(d, "exhaust")
    /\ UNCHANGED <<workflowVars, subVars, eventVars, outcomeVars, invoked, publishVars, creating, job, attempt, verdict, retries, faults>>

\* Mutant of Exhausted: no claim is given up.
ExhaustedNever == {}

\* failExhaustedClaims.
Exhausted == {x \in Deliveries : status[x] = "claimed" /\ attempts[x] >= MaxAttempts /\ x \notin waiting}
Exhaust(d) ==
    /\ pc[d] = "exhaust"
    /\ status' = [x \in Deliveries |-> IF x \in Exhausted THEN "failed" ELSE status[x]]
    /\ Goto(d, "claim")
    /\ UNCHANGED <<workflowVars, subVars, eventVars, attempts, waiting, outcomeVars, invoked, publishVars, creating, job, attempt, verdict, retries, faults>>

\* claimNextAny.
Claimable(x) == status[x] \in {"pending", "claimed"} /\ x \notin waiting /\ attempts[x] < MaxAttempts
Claim(d, x) ==
    /\ pc[d] = "claim" /\ Claimable(x)
    /\ status' = [status EXCEPT ![x] = "claimed"]
    /\ attempts' = [attempts EXCEPT ![x] = @ + 1]
    /\ waiting' = waiting \cup {x}
    /\ job' = [job EXCEPT ![d] = x] /\ attempt' = [attempt EXCEPT ![d] = attempts[x] + 1]
    /\ Goto(d, "resolve")
    /\ UNCHANGED <<workflowVars, subVars, eventVars, outcomeVars, invoked, publishVars, creating, verdict, retries, faults>>
Done(d) ==
    /\ pc[d] = "claim" /\ \A x \in Deliveries : ~Claimable(x)
    /\ Goto(d, "idle")
    /\ UNCHANGED <<workflowVars, subVars, eventVars, deliveryVars, outcomeVars, invoked, publishVars, creating, job, attempt, verdict, retries, faults>>

\* process: the pinned revision must belong to a published and enabled workflow,
Decide(d, next, v) == Goto(d, next) /\ verdict' = [verdict EXCEPT ![d] = v]
Resolve(d) ==
    /\ pc[d] = "resolve"
    /\ IF published /\ enabled THEN Decide(d, "admit", "none") ELSE Decide(d, "finish", "failed")
    /\ UNCHANGED <<workflowVars, subVars, eventVars, deliveryVars, outcomeVars, invoked, publishVars, creating, job, attempt, retries, faults>>
\* its run is requested, once for the delivery's idempotency key,
Admit(d) ==
    /\ pc[d] = "admit"
    /\ invoked' = invoked \cup {job[d]}
    /\ Decide(d, "finish", "admitted")
    /\ UNCHANGED <<workflowVars, subVars, eventVars, deliveryVars, outcomeVars, publishVars, creating, job, attempt, retries, faults>>

\* Mutant of Owns: finish does not ask whether the delivery is still claimed.
OwnsAny(d) == attempts[job[d]] = attempt[d]

\* and the delivery is finished, if it still has this claim.
Owns(d) == status[job[d]] = "claimed" /\ attempts[job[d]] = attempt[d]
Final(d) == IF verdict[d] = "pending" /\ attempt[d] >= MaxAttempts THEN "failed" ELSE verdict[d]
Leave(d, next) ==
    /\ Decide(d, next, "none")
    /\ job' = [job EXCEPT ![d] = NoDelivery] /\ attempt' = [attempt EXCEPT ![d] = 0]
Finish(d) ==
    /\ pc[d] = "finish"
    /\ IF Owns(d)
       THEN /\ status' = [status EXCEPT ![job[d]] = Final(d)]
            /\ waiting' = IF Final(d) = "pending" THEN waiting \cup {job[d]} ELSE waiting \ {job[d]}
       ELSE UNCHANGED <<status, waiting>>
    /\ Leave(d, "exhaust")
    /\ UNCHANGED <<workflowVars, subVars, eventVars, attempts, outcomeVars, invoked, publishVars, creating, retries, faults>>

Dispatch(d) ==
    \/ Reconcile(d) \/ Exhaust(d) \/ Done(d) \/ Resolve(d) \/ Admit(d) \/ Finish(d)
    \/ \E x \in Deliveries : Claim(d, x)

-----------------------------------------------------------------------------
(* Operators, time and failures.                                           *)

\* retryFailed.
RetryFailed(x) ==
    /\ status[x] = "failed" /\ retries < MaxRetries
    /\ retries' = retries + 1
    /\ status' = [status EXCEPT ![x] = "pending"]
    /\ attempts' = [attempts EXCEPT ![x] = 0]
    /\ waiting' = waiting \ {x}
    /\ UNCHANGED <<workflowVars, subVars, eventVars, outcomeVars, invoked, publishVars, creating, dispatchVars, faults>>

LeasePasses(x) ==
    /\ x \in waiting
    /\ waiting' = waiting \ {x}
    /\ UNCHANGED <<workflowVars, subVars, eventVars, status, attempts, outcomeVars, invoked, publishVars, creating, dispatchVars, retries, faults>>

Fault == faults < MaxFaults /\ faults' = faults + 1
\* Mutant of AdmitError: an error counts as admitted.
AdmitErrorIgnored(d) ==
    /\ Fault /\ pc[d] \in {"resolve", "admit"}
    /\ Decide(d, "finish", "admitted")
    /\ UNCHANGED <<workflowVars, subVars, eventVars, deliveryVars, outcomeVars, invoked, publishVars, creating, job, attempt, retries>>

\* The catch block of process: to be retried; the request may have been recorded.
AdmitError(d) ==
    /\ Fault /\ pc[d] \in {"resolve", "admit"}
    /\ invoked' \in {invoked} \cup IF pc[d] = "admit" THEN {invoked \cup {job[d]}} ELSE {}
    /\ Decide(d, "finish", "pending")
    /\ UNCHANGED <<workflowVars, subVars, eventVars, deliveryVars, outcomeVars, publishVars, creating, job, attempt, retries>>
\* finish fails: the catch block tries once more, and its own failure ends the pass.
FinishError(d) ==
    /\ Fault /\ pc[d] = "finish"
    /\ IF verdict[d] = "pending" THEN Leave(d, "idle") ELSE Decide(d, "finish", "pending") /\ UNCHANGED <<job, attempt>>
    /\ UNCHANGED <<workflowVars, subVars, eventVars, deliveryVars, outcomeVars, invoked, publishVars, creating, retries>>
\* A statement of a publishing request fails; its caller may repeat it.
FanoutError(h) ==
    /\ Fault /\ step[h] # "idle"
    /\ step' = [step EXCEPT ![h] = "idle"]
    /\ event' = [event EXCEPT ![h] = 0] /\ number' = [number EXCEPT ![h] = 0]
    /\ UNCHANGED <<workflowVars, subVars, eventVars, deliveryVars, outcomeVars, invoked, creating, dispatchVars, retries>>
\* The process of a dispatcher dies, and the requests with it.
Crash(d) ==
    /\ Fault
    /\ Leave(d, "idle")
    /\ step' = [h \in Handlers |-> "idle"] /\ event' = [h \in Handlers |-> 0] /\ number' = [h \in Handlers |-> 0]
    /\ creating' = {}
    /\ UNCHANGED <<workflowVars, subVars, eventVars, deliveryVars, outcomeVars, invoked, retries>>

Next ==
    \/ Manage \/ Record
    \/ \E h \in Handlers : PublishEvent(h) \/ Fanout(h) \/ FanoutError(h) \/ \E e \in Events : PublishAgain(h, e)
    \/ \E d \in Dispatchers : Dispatch(d) \/ AdmitError(d) \/ FinishError(d) \/ Crash(d)
    \/ \E x \in Deliveries : RetryFailed(x) \/ LeasePasses(x)

Spec == Init /\ [][Next]_vars

\* The poller runs every second, and leases and delays pass.
Fairness ==
    /\ \A d \in Dispatchers : WF_vars(Dispatch(d))
    /\ \A x \in Deliveries : WF_vars(LeasePasses(x))
FairSpec == Spec /\ Fairness

-----------------------------------------------------------------------------
(* Properties.                                                             *)

\* A subscription never consumes an event recorded before its registration
\* boundary, or while it was off, whenever fan-out or reconciliation runs.
NoBackfill ==
    [][\A x \in Deliveries : status[x] = "none" /\ status'[x] # "none" => x[2] \in owed[x[1]]]_vars

\* The count of a stored fan-out outcome is right, although it was read two
\* statements before it is written and others deliver the same event.
OutcomeCountsDeliveries == \A e \in Events : outcome[e] # "none" => counted[e] = CountOf(e)

\* A delivery is admitted or filtered once and for all; a failed one only an
\* operator reopens: no late finish of a lost claim changes it.
VerdictStands ==
    [][\A x \in Deliveries :
         /\ status[x] \in {"admitted", "filtered"} => status'[x] = status[x]
         /\ status[x] = "failed" => status'[x] = "failed" \/ retries' # retries]_vars

\* An admitted delivery has its invocation, whatever errors and repetitions led to it.
AdmittedHasInvocation == \A x \in Deliveries : status[x] = "admitted" => x \in invoked

\* Delivery is at least once: an event recorded while a subscription was active is
\* delivered, or will still be (docs/project/v3-contracts.md).
OwedIsDeliverable ==
    \A e \in 1..recorded : \A s \in owed[e] : status[<<e, s>>] # "none" \/ (sub[s] = "on" /\ e > high[s])

\* A delivery comes to an end, in spite of crashes, errors and lost claims.
DeliveryEnds(x) == status[x] = "pending" ~> status[x] \in {"admitted", "filtered", "failed"}
=============================================================================
