-------------------------- MODULE MCRunnerUpdates --------------------------
(* Small instances of RunnerUpdates. *)
EXTENDS RunnerUpdates, TLC

CONSTANTS r1, r2, v1, v2

\* Bound: failure reports in flight.
OneReport == Cardinality(reports) <= 1

\* Bound: handlers of the control plane under way at once.
InFlight ==
    Cardinality({u \in Updates : request[u] \notin {"new", "done"}})
        + Cardinality({r \in Runners : poll[r] # "idle"})
        + Cardinality(beats) + Cardinality(reports) + Cardinality(revoking)
TwoHandlers == InFlight <= 2
\* Every update is to the version that no runner has.
Upgrades == \A u \in Updates : version[u] # First
\* Bound: the updates are requested in order, and the first one is of r1.
InOrder == (request[2] # "new" => request[1] # "new") /\ target[1] = r1
=============================================================================
