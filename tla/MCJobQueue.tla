----------------------------- MODULE MCJobQueue -----------------------------
(* Small instances of JobQueue: one workflow of one workspace, whose runs   *)
(* form one concurrency group, and a shared runner.                         *)
EXTENDS JobQueue

CONSTANTS t1, shared, legacy

OneDef == {"build"}

MCTeamOf == [d \in Definitions |-> t1]
MCKeyOf == [d \in Definitions |-> "main"]
MCHomeTeam == [r \in Runners |-> Shared]
One == [r \in Runners |-> 1]
Every == [x \in Runners \cup Workers |-> Definitions]

\* Bound: requests of several steps that are in flight together.
InFlight ==
    Cardinality({r \in Runners : claimPc[r] # "idle"}) + Cardinality({j \in Jobs : restarting[j] # "idle"})
        + Cardinality(superseding) + Cardinality(fencing)
AtMostTwoInFlight == InFlight <= 2
AtMostOneInFlight == InFlight <= 1

\* Bound: updates and deletions are left to the run queue_api.
NoUpdateNoDeletion == reserved = {} /\ deleting = {}
=============================================================================
