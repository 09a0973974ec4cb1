-------------------------- MODULE MCEventDelivery --------------------------
(* Small instances of EventDelivery. *)
EXTENDS EventDelivery, TLC

CONSTANTS d1, d2, h1, h2

\* Bound: one event and one revision, with everything that may become of their
\* delivery, or three of both together with their fan-out by requests and d1.
OneDelivery == recorded <= 1 /\ saved <= 1
OnlyFanout ==
    /\ recorded + saved <= 3 /\ faults = 0 /\ retries = 0 /\ pc[d2] = "idle"
    /\ \A x \in Deliveries : status[x] \in {"none", "pending", "filtered"}
OneDeliveryOrFanout == OneDelivery \/ OnlyFanout

\* The first delivery comes to an end, in spite of crashes, errors and lost claims
\* (dispatchNext and claimNext take it over until its attempts are used up).
FirstDeliveryEnds == DeliveryEnds(<<1, 1>>)
=============================================================================
