-------------------------- MODULE MCConversations --------------------------
(* ChannelView on small instances, one section of the page at a time, and  *)
(* the agents on their own, while the page is closed.                      *)
EXTENDS ChannelView

CONSTANTS t1, t2, c1, c2, p1, p2, s1, s2
MCStreamOf == t1 :> c1 @@ t2 :> c1
MCMaxSaid == c1 :> 3 @@ c2 :> 0
MCBindable == c1 :> 1 .. 3 @@ c2 :> {}
MCMaxClicks ==
    [messages |-> 3, events |-> 3, list |-> 3, thread |-> 3, panel |-> 4, closed |-> 0]

Init == AgentInit /\ ViewInit /\ (section # "closed" => config = (s1 :> p1 @@ s2 :> p2))

(* The agents run in one thread that a person writes in MaxHuman times.    *)
CONSTANT MaxHuman
Background ==
    /\ section = "closed" /\ AgentNext /\ UNCHANGED viewVars
    /\ made' \subseteq {t1} /\ sub'[2] = "new"
    /\ posts'[t1] <= MaxHuman + FoldFunction(+, 0, replies')

Next == ViewNext \/ Background
Spec == /\ Init /\ [][Next]_<<agentVars, viewVars>> /\ ViewFairness
        /\ \A s \in Servers : WF_agentVars(section = "closed" /\ Poll(s))
        /\ \A x \in Turns : WF_agentVars(section = "closed" /\ Lapse(x))
=============================================================================
