---------------------------- MODULE MCAutomation ----------------------------
(* What starts runs without a person: the workflows that are saved and     *)
(* published, the scheduler that runs them, or the connectors, one of them *)
(* in each behaviour.                                                      *)
EXTENDS WorkflowCatalogue, ConnectorIngress, TLC

CONSTANTS k1, k2, n1, wsA, wsB, s1, s2, t1, t2, p1, p2, c1, d1, d2, x1, q1, q2, q3

(* The key k1 is a definition id as well, as where a workflow was made by  *)
(* a request that names no other.                                          *)
MCIdOf == s1 :> k1 @@ s2 :> n1
MCVariants == s1 :> 2 @@ s2 :> 1
MCProcessOf == t1 :> p1 @@ t2 :> p2
MCHeld == k1 :> <<wsA, s1>>
MCHeldBoth == MCHeld @@ k2 :> <<wsB, s2>>
MCEmits == d1 :> 2 @@ d2 :> 1

VARIABLE workload
allVars == <<catalogueVars, ingressVars, workload>>

Workloads == {"catalogue", "scheduler", "connectors", "posts"}
Init == CatalogueInit /\ IngressInit /\ workload \in Workloads

(* Beside the scheduler one request is enough to save, publish or delete   *)
(* what it runs.  Connectors are edited in every way beside one receipt    *)
(* and its replay, and created, updated and deleted beside any two posts   *)
(* and replays that fail and are cut short.                                *)
Next ==
    /\ UNCHANGED workload
    /\ \/ workload = "catalogue" /\ (WorkflowRequest \/ WorkflowStep) /\ UNCHANGED ingressVars
       \/ workload = "scheduler" /\ CatalogueNext /\ \A r \in {q2, q3} : task'[r] = "new"
          /\ UNCHANGED ingressVars
       \/ /\ workload = "connectors" /\ IngressNext /\ UNCHANGED catalogueVars
          /\ kind'[1] # "replay" /\ kind'[2] # "post" /\ faulty' = {} /\ delivery'[1] = Anonymous
       \/ /\ workload = "posts" /\ IngressNext /\ UNCHANGED <<catalogueVars, editVars, pending>>
          /\ \A c \in Connectors : live'[c] <=> defn'[c] # Nothing
Spec == Init /\ [][Next]_allVars
=============================================================================
