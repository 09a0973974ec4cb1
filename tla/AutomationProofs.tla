-------------------------- MODULE AutomationProofs --------------------------
(***************************************************************************)
(* Theorems of what is written and done beside the runs: by agents, by the *)
(* tab that shows a channel, by connectors and by the schedulers.          *)
(*                                                                         *)
(* ThreadAgents, for any number of threads, agents, processes,             *)
(* environments and restarts: its type invariant, that a turn is sent to a *)
(* provider at most once and as it was consented to, and that a reply is   *)
(* stored once, for a turn that stands.                                    *)
(*                                                                         *)
(* ChannelView, for any number of channels, messages, events, clicks and   *)
(* lost answers: its type invariant, that a tab shows what is written up   *)
(* to its cursor, each item once and none of another place, and that it    *)
(* refines ThreadAgents, which keeps its promises under it.                *)
(*                                                                         *)
(* ConnectorIngress, for any number of connectors, revisions, edits and    *)
(* handlers: its type invariant, and that receipts and events agree.       *)
(*                                                                         *)
(* WorkflowCatalogue, for any number of workflows, workspaces, sources,    *)
(* requests, ticks of schedulers and minutes: its type invariant, that     *)
(* definition ids, drafts and revisions agree, and that scheduled jobs     *)
(* follow their workflows.                                                 *)
(***************************************************************************)
EXTENDS ChannelView, ConnectorIngress, WorkflowCatalogue, FiniteSetTheorems, TLAPS

-----------------------------------------------------------------------------
(* ThreadAgents.                                                           *)

USE DEF subVars, turnVars, polls, rows

\* A process that is under way has a turn.
PollOK == \A s \in Servers : pc[s] # "idle" => mine[s] \in Turns

\* A subscription has its thread and its consent before it has turns, and a
\* turn has its message: a message is appended behind every turn of its thread.
OriginOK ==
    /\ \A i \in Subs : sub[i] # "new" => home[i] \in made /\ consent[i] \in Configs
    /\ \A x \in Turns : turn[x] # "none" => sub[x[1]] # "new" /\ x[2] <= posts[home[x[1]]]

\* Nothing of a turn has been sent before the mark "calling", which no turn
\* loses but by ending.
UnsentOK ==
    \A x \in Turns : turn[x] \in {"none", "pending", "claimed"} => calls[x] = 0 /\ sent[x] = {}

\* A process that is about to call made the mark, is the only one that did,
\* and has the environment that the mark was made for.
CallerOK ==
    \A s \in Servers : pc[s] = "call" =>
        /\ calls[mine[s]] = 0
        /\ turn[mine[s]] \notin {"none", "pending", "claimed"}
        /\ consent[mine[s][1]] = config[s]
        /\ \A r \in Servers : pc[r] = "call" /\ mine[r] = mine[s] => r = s

TypeInv == AgentTypeOK /\ PollOK

-----------------------------------------------------------------------------
(* Types.                                                                  *)

\* The initial states are well typed.
LEMMA InitTyped == AgentInit => TypeInv
<1> SUFFICES ASSUME AgentInit PROVE TypeInv
  OBVIOUS
<1> USE ThreadAgentsAssumption DEF AgentInit, Posts, Open, Ended
<1>1. AgentTypeOK
  BY DEF AgentTypeOK
<1>2. PollOK
  BY DEF PollOK
<1>3. QED
  BY <1>1, <1>2 DEF TypeInv

\* A turn is a subscription and a message.
LEMMA TurnFacts == \A x \in Turns : x[1] \in Subs /\ x[2] \in Posts /\ x = <<x[1], x[2]>>
BY DEF Turns

\* Switching subscriptions off keeps the types of the columns it writes.
LEMMA SwitchOffTyped ==
  ASSUME AgentTypeOK, NEW subs, NEW turns, SwitchOff(subs, turns)
  PROVE  /\ sub' \in [Subs -> {"new", "on", "off"}]
         /\ turn' \in [Turns -> {"none"} \cup Open \cup Ended]
         /\ token' \in [Turns -> Servers \cup {None}]
         /\ lapsed' \in [Turns -> BOOLEAN]
         /\ \A i \in Subs : sub'[i] = "on" => sub[i] = "on"
BY DEF AgentTypeOK, SwitchOff, Ended

\* The steps of requests and of the membership trigger keep the types.
LEMMA RequestsTyped == TypeInv /\ AgentRequest => TypeInv'
<1> SUFFICES ASSUME TypeInv, AgentRequest PROVE TypeInv'
  OBVIOUS
<1> USE ThreadAgentsAssumption DEF TypeInv, AgentTypeOK
<1>1. ASSUME NEW t \in Threads, NEW m \in 0 .. 1, CreateThread(t, m) PROVE TypeInv'
  BY <1>1 DEF CreateThread, PollOK
<1>2. ASSUME NEW t \in Threads, NEW byMember \in BOOLEAN, AppendHumanMessage(t, byMember) PROVE TypeInv'
  BY <1>2 DEF AppendHumanMessage, PollOK, Open
<1>3. ASSUME NEW s \in Servers, NEW t \in Threads, NEW a \in Agents, Create(s, t, a) PROVE TypeInv'
  <2>1. PollOK'
    BY <1>3 DEF Create, PollOK
  <2>2. \A i, j \in Subs : sub'[i] = "on" /\ sub'[j] = "on" /\ home'[i] = home'[j] => i = j
    BY <1>3 DEF Create
  <2>3. QED
    BY <1>3, <2>1, <2>2 DEF Create
<1>4. ASSUME NEW i \in Subs, Disable(i) PROVE TypeInv'
  <2>1. SwitchOff({i}, OpenTurns({i}))
    BY <1>4 DEF Disable
  <2>2. QED
    BY <1>4, <2>1, SwitchOffTyped DEF Disable, PollOK
<1>5. ASSUME NEW a \in Agents, RemoveAgent(a) PROVE TypeInv'
  <2>1. \E subs, turns : SwitchOff(subs, turns)
    BY <1>5 DEF RemoveAgent
  <2>2. QED
    BY <1>5, <2>1, SwitchOffTyped DEF RemoveAgent, PollOK
<1>6. ASSUME NEW a \in Agents, AddAgent(a) PROVE TypeInv'
  BY <1>6 DEF AddAgent, PollOK
<1>7. QED
  BY <1>1, <1>2, <1>3, <1>4, <1>5, <1>6 DEF AgentRequest, GetState

\* So do those of the poll, since a turn is sent once and answered once.
LEMMA PollsTyped ==
  ASSUME TypeInv, OriginOK, CallerOK, ReplyOfAStandingTurn, NEW s \in Servers, Poll(s) \/ Fails(s) \/ Restart(s)
  PROVE  TypeInv'
<1> USE ThreadAgentsAssumption DEF TypeInv, AgentTypeOK, At
<1> DEFINE x == mine[s]
<1>1. CASE Claim(s)
  <2>1. attempts' \in [Turns -> 0 .. MaxAttempts]
    BY <1>1 DEF Claim, Due
  <2>2. /\ turn' \in [Turns -> {"none"} \cup Open \cup Ended]
        /\ token' \in [Turns -> Servers \cup {None}]
        /\ lapsed' \in [Turns -> BOOLEAN]
    BY <1>1 DEF Claim, Open, Ended
  <2>3. /\ mine' \in [Servers -> Turns \cup {None}]
        /\ pc' \in [Servers -> {"idle", "fetch", "read", "start", "call", "commit", "look", "finish"}]
        /\ PollOK'
    BY <1>1 DEF Claim, PollOK
  <2>4. /\ sub' \in [Subs -> {"new", "on", "off"}]
        /\ \A i \in Subs : sub'[i] = "on" => sub[i] = "on"
    BY <1>1 DEF Claim
  <2>5. QED
    BY <1>1, <2>1, <2>2, <2>3, <2>4 DEF Claim
<1>2. CASE Fetch(s)
  BY <1>2 DEF Fetch, Goto, Ends, PollOK
<1>3. CASE ReadSubscription(s)
  BY <1>3 DEF ReadSubscription, Goto, Finishes, PollOK
<1>4. CASE StartCall(s)
  <2>1. x \in Turns
    BY <1>4 DEF StartCall, PollOK
  <2>2. turn' \in [Turns -> {"none"} \cup Open \cup Ended] /\ lapsed' \in [Turns -> BOOLEAN]
    BY <1>4, <2>1 DEF StartCall, Open
  <2>3. /\ pc' \in [Servers -> {"idle", "fetch", "read", "start", "call", "commit", "look", "finish"}]
        /\ mine' \in [Servers -> Turns \cup {None}] /\ verdict' \in [Servers -> {"failed", "disabled"}]
        /\ PollOK'
    BY <1>4 DEF StartCall, Goto, Ends, PollOK
  <2>4. QED
    BY <1>4, <2>2, <2>3 DEF StartCall
<1>5. CASE CallProvider(s)
  <2>1. x \in Turns /\ calls[x] = 0
    BY <1>5 DEF CallProvider, PollOK, CallerOK
  <2>2. config[s] \in Configs
    BY <1>5, <2>1, TurnFacts DEF CallProvider, CallerOK, OriginOK
  <2>3. calls' \in [Turns -> 0 .. MaxAttempts] /\ sent' \in [Turns -> SUBSET Configs]
    BY <1>5, <2>1, <2>2 DEF CallProvider
  <2>4. QED
    BY <1>5, <2>3 DEF CallProvider, Goto, PollOK
<1>6. CASE CommitReply(s)
  <2>1. x \in Turns
    BY <1>6 DEF CommitReply, PollOK
  <2>2. CASE turn[x] = "calling" /\ Holds(s) /\ Stands(s)
    <3>1. replies' \in [Turns -> 0 .. MaxAttempts]
      BY <1>6, <2>1, <2>2 DEF CommitReply, ReplyOfAStandingTurn
    <3>2. home[x[1]] \in Threads
      BY <2>1, <2>2, TurnFacts DEF Stands, OriginOK
    <3>3. posts' \in [Threads -> Nat]
      BY <1>6, <2>1, <2>2, <3>2 DEF CommitReply
    <3>5. /\ turn' \in [Turns -> {"none"} \cup Open \cup Ended] /\ lapsed' \in [Turns -> BOOLEAN]
          /\ token' \in [Turns -> Servers \cup {None}]
      <4>1. /\ turn' = [turn EXCEPT ![x] = "complete"] /\ token' = [token EXCEPT ![x] = None]
            /\ lapsed' = [lapsed EXCEPT ![x] = FALSE]
        BY <1>6, <2>2 DEF CommitReply
      <4>2. QED
        BY <2>1, <4>1 DEF Ended
    <3>7. pc' = [pc EXCEPT ![s] = "look"] /\ UNCHANGED <<mine, verdict>>
      BY <1>6 DEF CommitReply, Goto
    <3>8. pc' \in [Servers -> {"idle", "fetch", "read", "start", "call", "commit", "look", "finish"}]
      BY <3>7
    <3>9. PollOK'
      BY <2>1, <3>7 DEF PollOK
    <3>4. /\ pc' \in [Servers -> {"idle", "fetch", "read", "start", "call", "commit", "look", "finish"}]
          /\ UNCHANGED <<mine, verdict>> /\ PollOK'
      BY <3>7, <3>8, <3>9
    <3>6. QED
      BY <1>6, <3>1, <3>3, <3>4, <3>5 DEF CommitReply
  <2>3. CASE ~(turn[x] = "calling" /\ Holds(s) /\ Stands(s))
    BY <1>6, <2>3 DEF CommitReply, Goto, PollOK
  <2>4. QED
    BY <2>2, <2>3
<1>7. CASE LookUp(s)
  BY <1>7 DEF LookUp, Ends, Finishes, PollOK
<1>8. CASE Finish(s)
  BY <1>8 DEF Finish, Ends, PollOK, Ended
<1>9. CASE Fails(s)
  BY <1>9 DEF Fails, Ends, Finishes, PollOK
<1>10. CASE Restart(s)
  BY <1>10 DEF Restart, Ends, PollOK
<1>11. QED
  BY <1>1, <1>2, <1>3, <1>4, <1>5, <1>6, <1>7, <1>8, <1>9, <1>10 DEF Poll

\* Together: every step keeps the types.
LEMMA TypesKept ==
  TypeInv /\ OriginOK /\ CallerOK /\ ReplyOfAStandingTurn /\ [AgentNext]_agentVars => TypeInv'
<1> SUFFICES ASSUME TypeInv, OriginOK, CallerOK, ReplyOfAStandingTurn, [AgentNext]_agentVars PROVE TypeInv'
  OBVIOUS
<1>1. ASSUME NEW x \in Turns, Lapse(x) PROVE TypeInv'
  BY <1>1 DEF Lapse, TypeInv, AgentTypeOK, PollOK
<1>2. CASE UNCHANGED agentVars
  BY <1>2 DEF agentVars, TypeInv, AgentTypeOK, PollOK, Turns
<1>3. QED
  BY <1>1, <1>2, RequestsTyped, PollsTyped DEF AgentNext

-----------------------------------------------------------------------------
(* Replies.                                                                *)

\* Switching subscriptions off, and disabling the open turns of some of them.
LEMMA SwitchedOff ==
  ASSUME TypeInv, OriginOK, UnsentOK, CallerOK, ReplyOfAStandingTurn, NEW subs, NEW turns, SwitchOff(subs, turns),
         \A i \in Subs : i \in subs => sub[i] # "new",
         turns \subseteq {x \in Turns : turn[x] \in Open},
         \A x \in Turns : x[1] \in subs /\ turn[x] \in Open => x \in turns,
         UNCHANGED <<pc, mine, config, home, consent, replies, sent, calls, made, posts>>
  PROVE  OriginOK' /\ UnsentOK' /\ CallerOK' /\ ReplyOfAStandingTurn'
<1> USE DEF TypeInv, AgentTypeOK
<1>1. \A x \in Turns : turn'[x] = IF x \in turns THEN "disabled" ELSE turn[x]
  BY DEF SwitchOff
<1>2. \A i \in Subs : sub'[i] = IF i \in subs THEN "off" ELSE sub[i]
  BY DEF SwitchOff
<1>3. OriginOK'
  <2>1. ASSUME NEW i \in Subs, sub'[i] # "new" PROVE home'[i] \in made' /\ consent'[i] \in Configs
    BY <2>1, <1>2 DEF OriginOK
  <2>2. QED
    <3>1. ASSUME NEW x \in Turns, turn'[x] # "none" PROVE sub'[x[1]] # "new" /\ x[2] <= posts'[home'[x[1]]]
      <4>1. turn[x] # "none"
        BY <3>1, <1>1 DEF Open
      <4>2. QED
        BY <4>1, <1>2, TurnFacts DEF OriginOK
    <3>2. QED
      BY <2>1, <3>1 DEF OriginOK
<1>4. UnsentOK'
  BY <1>1 DEF UnsentOK
<1>7. CallerOK'
  BY <1>1 DEF CallerOK, PollOK
<1>5. ReplyOfAStandingTurn'
  BY <1>1, <1>2, TurnFacts DEF ReplyOfAStandingTurn, Open
<1>6. QED
  BY <1>3, <1>4, <1>5, <1>7

\* The conjuncts the two properties rest on, and the second of them.
AgentInv == TypeInv /\ OriginOK /\ UnsentOK /\ CallerOK /\ ReplyOfAStandingTurn

\* Requests and the membership trigger keep them.
LEMMA RequestsKeep ==
  AgentInv /\ AgentRequest => OriginOK' /\ UnsentOK' /\ CallerOK' /\ ReplyOfAStandingTurn'
<1> SUFFICES ASSUME AgentInv, AgentRequest
             PROVE  OriginOK' /\ UnsentOK' /\ CallerOK' /\ ReplyOfAStandingTurn'
  OBVIOUS
<1> USE DEF AgentInv, TypeInv, AgentTypeOK
<1> DEFINE Kept == OriginOK' /\ UnsentOK' /\ CallerOK' /\ ReplyOfAStandingTurn'
<1>1. ASSUME NEW t \in Threads, NEW m \in 0 .. 1, CreateThread(t, m) PROVE Kept
  <2>1. OriginOK'
    BY <1>1, TurnFacts DEF CreateThread, OriginOK
  <2>2. UnsentOK' /\ CallerOK' /\ ReplyOfAStandingTurn'
    BY <1>1 DEF CreateThread, UnsentOK, CallerOK, ReplyOfAStandingTurn
  <2>3. QED
    BY <2>1, <2>2
<1>2. ASSUME NEW t \in Threads, NEW byMember \in BOOLEAN, AppendHumanMessage(t, byMember) PROVE Kept
  <2> DEFINE new == {x \in Turns : byMember /\ x[2] = posts[t] + 1 /\ sub[x[1]] = "on" /\ home[x[1]] = t}
  <2>1. /\ \A x \in Turns : turn'[x] = IF x \in new THEN "pending" ELSE turn[x]
        /\ posts' = [posts EXCEPT ![t] = posts[t] + 1]
        /\ UNCHANGED <<sub, home, consent, made, config, pc, mine, calls, sent, replies>>
    BY <1>2 DEF AppendHumanMessage
  <2>2. \A x \in new : turn[x] = "none" /\ sub[x[1]] = "on" /\ x[2] = posts'[home[x[1]]]
    BY <2>1, TurnFacts DEF OriginOK, Posts
  <2>3. OriginOK'
    <3>1. ASSUME NEW x \in Turns, turn'[x] # "none" PROVE sub[x[1]] # "new" /\ x[2] <= posts'[home[x[1]]]
      <4>1. CASE x \in new
        BY <4>1, <2>2 DEF Turns, Posts
      <4>2. CASE x \notin new
        BY <4>2, <3>1, <2>1, TurnFacts DEF OriginOK, Posts
      <4>3. QED
        BY <4>1, <4>2
    <3>2. QED
      BY <2>1, <3>1 DEF OriginOK
  <2>4. UnsentOK'
    BY <2>1, <2>2 DEF UnsentOK
  <2>5. CallerOK'
    <3>1. ASSUME NEW s \in Servers, pc[s] = "call" PROVE mine[s] \in Turns /\ turn'[mine[s]] = turn[mine[s]]
      BY <3>1, <2>1, <2>2 DEF PollOK, CallerOK
    <3>2. QED
      BY <2>1, <3>1 DEF CallerOK
  <2>6. ReplyOfAStandingTurn'
    BY <2>1, <2>2 DEF ReplyOfAStandingTurn
  <2>7. QED
    BY <2>3, <2>4, <2>5, <2>6
<1>3. ASSUME NEW s \in Servers, NEW t \in Threads, NEW a \in Agents, Create(s, t, a) PROVE Kept
  <2>1. PICK i \in Subs : /\ sub[i] = "new"
                          /\ sub' = [sub EXCEPT ![i] = "on"] /\ home' = [home EXCEPT ![i] = t]
                          /\ consent' = [consent EXCEPT ![i] = config[s]]
    BY <1>3 DEF Create
  <2>2. /\ config[s] \in Configs /\ t \in made
        /\ UNCHANGED <<turn, posts, made, config, pc, mine, calls, sent, replies>>
    BY <1>3 DEF Create
  <2>3. \A x \in Turns : turn[x] # "none" => x[1] # i
    BY <2>1 DEF OriginOK
  <2>4. OriginOK'
    BY <2>1, <2>2, <2>3, TurnFacts DEF OriginOK
  <2>5. UnsentOK' /\ CallerOK'
    BY <2>1, <2>2, <2>3, TurnFacts DEF UnsentOK, CallerOK, PollOK
  <2>6. ReplyOfAStandingTurn'
    BY <2>1, <2>2, <2>3, TurnFacts DEF ReplyOfAStandingTurn, Open
  <2>7. QED
    BY <2>4, <2>5, <2>6
<1>4. ASSUME NEW i \in Subs, Disable(i) PROVE Kept
  BY <1>4, SwitchedOff DEF Disable, OpenTurns
<1>5. ASSUME NEW a \in Agents, RemoveAgent(a) PROVE Kept
  <2> DEFINE subs == {i \in Subs : agent[i] = a /\ sub[i] = "on"}
             turns == OpenTurns({i \in Subs : agent[i] = a})
  <2>1. SwitchOff(subs, turns)
    BY <1>5 DEF RemoveAgent
  <2>2. \A x \in Turns : x[1] \in subs /\ turn[x] \in Open => x \in turns
    BY DEF OpenTurns
  <2>3. turns \subseteq {x \in Turns : turn[x] \in Open}
    BY DEF OpenTurns
  <2>4. UNCHANGED <<pc, mine, config, home, consent, replies, sent, calls, made, posts>>
    BY <1>5 DEF RemoveAgent
  <2> HIDE DEF turns
  <2>5. QED
    BY <2>1, <2>2, <2>3, <2>4, SwitchedOff
<1>6. ASSUME NEW a \in Agents, AddAgent(a) PROVE Kept
  BY <1>6 DEF AddAgent, OriginOK, UnsentOK, CallerOK, ReplyOfAStandingTurn
<1>7. QED
  BY <1>1, <1>2, <1>3, <1>4, <1>5, <1>6 DEF AgentRequest, GetState

\* A claim.  What its transaction disables was open, what it fails was claimed or
\* calling, and what it claims was pending or claimed by a lapsed lease.
LEMMA ClaimKeeps ==
  ASSUME AgentInv, NEW s \in Servers, Claim(s)
  PROVE  OriginOK' /\ UnsentOK' /\ CallerOK' /\ ReplyOfAStandingTurn'
<1> USE DEF AgentInv, TypeInv, AgentTypeOK
<1> DEFINE off == {i \in Subs : sub[i] = "off" \/ (sub[i] = "on" /\ consent[i] # config[s])}
           dead == OpenTurns(off)
           failed == {x \in Turns \ dead : Uncertain(x)}
           due == {x \in Turns \ (dead \cup failed) : Due(x)}
<1>0. PICK one \in IF due = {} THEN {{}} ELSE {{x} : x \in due} :
        /\ turn' = [x \in Turns |-> IF x \in dead THEN "disabled"
                                   ELSE IF x \in failed THEN "failed"
                                   ELSE IF x \in one THEN "claimed" ELSE turn[x]]
        /\ pc' = [pc EXCEPT ![s] = IF one = {} THEN "idle" ELSE "fetch"]
        /\ mine' = [mine EXCEPT ![s] = IF one = {} THEN None ELSE CHOOSE x \in one : TRUE]
  BY ZenonT(60) DEF Claim
<1>1. /\ dead = {x \in Turns : x[1] \in off /\ turn[x] \in Open}
      /\ failed \subseteq {x \in Turns \ dead : turn[x] \in Open}
      /\ one \subseteq {x \in Turns \ (dead \cup failed) : Due(x)}
  BY <1>0 DEF OpenTurns, Uncertain, Open
<1> HIDE DEF due, failed, dead
<1>2. /\ sub' = [i \in Subs |-> IF i \in off THEN "off" ELSE sub[i]]
      /\ UNCHANGED <<made, posts, config, home, consent, calls, sent, replies>>
  BY DEF Claim
<1>3. ASSUME NEW x \in Turns
      PROVE  /\ turn[x] \notin Open => turn'[x] = turn[x]
             /\ turn'[x] \in {"none", "pending", "claimed"} => turn[x] \in {"none", "pending", "claimed"}
             /\ turn'[x] = "complete" => turn[x] = "complete"
             /\ turn'[x] \in Open => turn[x] \in Open /\ x[1] \notin off
  BY <1>0, <1>1 DEF Due, Open
<1>4. \A i \in Subs : (sub'[i] = "new" <=> sub[i] = "new") /\ (sub[i] = "on" /\ i \notin off => sub'[i] = "on")
  BY <1>2
<1> HIDE DEF off
<1>5. OriginOK'
  BY <1>2, <1>3, <1>4, TurnFacts DEF OriginOK, Open
<1>6. UnsentOK'
  BY <1>2, <1>3 DEF UnsentOK
<1>7. CallerOK'
  <2>1. ASSUME NEW r \in Servers, pc'[r] = "call" PROVE pc[r] = "call" /\ mine'[r] = mine[r] /\ mine[r] \in Turns
    BY <1>0, <2>1 DEF PollOK
  <2>2. QED
    BY <1>2, <1>3, <2>1 DEF CallerOK
<1>8. ReplyOfAStandingTurn'
  <2>1. ASSUME NEW x \in Turns PROVE turn'[x] = "complete" <=> turn[x] = "complete"
    BY <1>3 DEF Open
  <2>2. ASSUME NEW x \in Turns, turn'[x] \in Open PROVE sub'[x[1]] = "on"
    BY <2>2, <1>3, <1>4, TurnFacts DEF ReplyOfAStandingTurn
  <2>3. QED
    BY <1>2, <2>1, <2>2 DEF ReplyOfAStandingTurn
<1>9. QED
  BY <1>5, <1>6, <1>7, <1>8

\* The other steps of a process.
LEMMA PollsKeep ==
  ASSUME AgentInv, NEW s \in Servers, Poll(s) \/ Fails(s) \/ Restart(s)
  PROVE  OriginOK' /\ UnsentOK' /\ CallerOK' /\ ReplyOfAStandingTurn'
<1> USE DEF AgentInv, TypeInv, AgentTypeOK, At
<1> DEFINE x == mine[s]
           Kept == OriginOK' /\ UnsentOK' /\ CallerOK' /\ ReplyOfAStandingTurn'
<1>1. CASE Fetch(s) \/ ReadSubscription(s) \/ LookUp(s) \/ Fails(s) \/ Restart(s)
  <2>1. UNCHANGED <<made, posts, sub, home, consent, turn, calls, sent, replies>>
    BY <1>1 DEF Fetch, ReadSubscription, LookUp, Fails, Restart
  <2>2. \A r \in Servers : pc'[r] = "call" => pc[r] = "call" /\ mine'[r] = mine[r] /\ config'[r] = config[r]
    BY <1>1 DEF Fetch, ReadSubscription, LookUp, Fails, Restart, Goto, Ends, Finishes
  <2>3. OriginOK' /\ UnsentOK' /\ ReplyOfAStandingTurn'
    BY <2>1 DEF OriginOK, UnsentOK, ReplyOfAStandingTurn
  <2>4. CallerOK'
    BY <2>1, <2>2 DEF CallerOK
  <2>5. QED
    BY <2>3, <2>4
<1>2. CASE StartCall(s)
  <2>1. x \in Turns /\ UNCHANGED <<made, posts, sub, home, consent, config, calls, sent, replies>>
    BY <1>2 DEF StartCall, PollOK
  <2>2. CASE turn[x] = "claimed" /\ Holds(s) /\ Stands(s)
    <3>1. /\ turn' = [turn EXCEPT ![x] = "calling"] /\ turn[x] = "claimed"
          /\ pc' = [pc EXCEPT ![s] = "call"] /\ UNCHANGED mine
          /\ sub[x[1]] = "on" /\ consent[x[1]] = config[s]
      BY <1>2, <2>2 DEF StartCall, Goto, Stands
    <3>2. OriginOK' /\ ReplyOfAStandingTurn'
      BY <2>1, <3>1, TurnFacts DEF OriginOK, ReplyOfAStandingTurn, Open
    <3>3. UnsentOK'
      BY <2>1, <3>1 DEF UnsentOK
    <3>4. \A r \in Servers : r # s /\ pc[r] = "call" => mine[r] # x
      BY <3>1 DEF CallerOK
    <3>5. calls[x] = 0
      BY <2>1, <3>1 DEF UnsentOK
    <3>6. CallerOK'
      <4>1. ASSUME NEW r \in Servers, pc'[r] = "call", r # s
            PROVE  /\ pc[r] = "call" /\ turn'[mine[r]] = turn[mine[r]]
                   /\ calls[mine[r]] = 0 /\ turn[mine[r]] \notin {"none", "pending", "claimed"}
                   /\ consent[mine[r][1]] = config[r]
        BY <2>1, <3>1, <3>4, <4>1 DEF CallerOK, PollOK
      <4>2. \A r, q \in Servers : pc'[r] = "call" /\ pc'[q] = "call" /\ mine[r] = mine[q] => r = q
        BY <3>1, <3>4 DEF CallerOK
      <4>3. QED
        BY <2>1, <3>1, <3>5, <4>1, <4>2 DEF CallerOK
    <3>7. QED
      BY <3>2, <3>3, <3>6
  <2>3. CASE ~(turn[x] = "claimed" /\ Holds(s) /\ Stands(s))
    <3>1. /\ UNCHANGED turn
          /\ \A r \in Servers : pc'[r] = "call" => pc[r] = "call" /\ mine'[r] = mine[r]
      BY <1>2, <2>1, <2>3 DEF StartCall, Ends
    <3>2. OriginOK' /\ UnsentOK' /\ ReplyOfAStandingTurn'
      BY <2>1, <3>1 DEF OriginOK, UnsentOK, ReplyOfAStandingTurn
    <3>3. CallerOK'
      BY <2>1, <3>1 DEF CallerOK
    <3>4. QED
      BY <3>2, <3>3
  <2>4. QED
    BY <2>2, <2>3
<1>3. CASE CallProvider(s)
  <2>1. /\ x \in Turns /\ turn[x] \notin {"none", "pending", "claimed"}
        /\ \A r \in Servers : pc[r] = "call" /\ mine[r] = x => r = s
    BY <1>3 DEF CallProvider, PollOK, CallerOK
  <2>2. /\ UNCHANGED <<made, posts, sub, home, consent, config, turn, mine, replies>>
        /\ calls' = [calls EXCEPT ![x] = calls[x] + 1] /\ sent' = [sent EXCEPT ![x] = sent[x] \cup {config[s]}]
        /\ pc' = [pc EXCEPT ![s] = "commit"]
    BY <1>3 DEF CallProvider, Goto
  <2>3. OriginOK' /\ ReplyOfAStandingTurn'
    BY <2>2 DEF OriginOK, ReplyOfAStandingTurn
  <2>4. UnsentOK'
    BY <2>1, <2>2 DEF UnsentOK
  <2>5. CallerOK'
    BY <2>1, <2>2 DEF CallerOK, PollOK
  <2>6. QED
    BY <2>3, <2>4, <2>5
<1>4. CASE CommitReply(s)
  <2>1. /\ x \in Turns
        /\ UNCHANGED <<made, sub, home, consent, config, mine, calls, sent>>
        /\ pc' = [pc EXCEPT ![s] = "look"]
    BY <1>4 DEF CommitReply, PollOK, Goto
  <2>2. CASE turn[x] = "calling" /\ Holds(s) /\ Stands(s)
    <3>1. /\ posts' = [posts EXCEPT ![home[x[1]]] = posts[home[x[1]]] + 1] /\ turn[x] = "calling"
          /\ replies' = [replies EXCEPT ![x] = replies[x] + 1] /\ turn' = [turn EXCEPT ![x] = "complete"]
      BY <1>4, <2>2 DEF CommitReply
    <3>2. \A t \in Threads : posts'[t] \in Nat /\ posts[t] <= posts'[t]
      BY <3>1
    <3>3. OriginOK'
      <4>1. ASSUME NEW y \in Turns, turn'[y] # "none" PROVE sub'[y[1]] # "new" /\ y[2] <= posts'[home'[y[1]]]
        <5>1. turn[y] # "none"
          BY <4>1, <3>1
        <5>2. /\ sub[y[1]] # "new" /\ y[2] <= posts[home[y[1]]] /\ y[2] \in Posts
              /\ home[y[1]] \in Threads
          BY <5>1, TurnFacts DEF OriginOK
        <5>3. QED
          BY <2>1, <3>2, <5>2, ThreadAgentsAssumption DEF Posts
      <4>2. QED
        BY <2>1, <4>1 DEF OriginOK
    <3>4. UnsentOK' /\ ReplyOfAStandingTurn'
      BY <2>1, <3>1 DEF UnsentOK, ReplyOfAStandingTurn, Open
    <3>5. CallerOK'
      BY <2>1, <3>1 DEF CallerOK, PollOK
    <3>6. QED
      BY <3>3, <3>4, <3>5
  <2>3. CASE ~(turn[x] = "calling" /\ Holds(s) /\ Stands(s))
    <3>1. UNCHANGED <<posts, turn, replies>>
      BY <1>4, <2>3 DEF CommitReply
    <3>2. OriginOK' /\ UnsentOK' /\ ReplyOfAStandingTurn' /\ CallerOK'
      BY <2>1, <3>1 DEF OriginOK, UnsentOK, ReplyOfAStandingTurn, CallerOK
    <3>3. QED
      BY <3>2
  <2>4. QED
    BY <2>2, <2>3
<1>5. CASE Finish(s)
  <2>1. /\ x \in Turns
        /\ UNCHANGED <<made, posts, sub, home, consent, config, calls, sent, replies>>
        /\ \A r \in Servers : pc'[r] = "call" => pc[r] = "call" /\ mine'[r] = mine[r]
    BY <1>5 DEF Finish, PollOK, Ends
  <2>2. \A y \in Turns : turn'[y] = turn[y] \/ (turn[y] \in {"claimed", "calling"} /\ turn'[y] \in {"failed", "disabled"})
    BY <1>5, <2>1 DEF Finish
  <2>3. OriginOK' /\ UnsentOK' /\ ReplyOfAStandingTurn'
    BY <2>1, <2>2 DEF OriginOK, UnsentOK, ReplyOfAStandingTurn, Open
  <2>4. CallerOK'
    BY <2>1, <2>2 DEF CallerOK, PollOK
  <2>5. QED
    BY <2>3, <2>4
<1>6. QED
  BY <1>1, <1>2, <1>3, <1>4, <1>5, ClaimKeeps DEF Poll

-----------------------------------------------------------------------------
(* Theorems.                                                               *)

\* The invariant is inductive.
LEMMA AgentInvKept == AgentInv /\ [AgentNext]_agentVars => AgentInv'
<1> SUFFICES ASSUME AgentInv, [AgentNext]_agentVars PROVE AgentInv'
  OBVIOUS
<1>1. TypeInv'
  BY TypesKept DEF AgentInv
<1>2. ASSUME NEW x \in Turns, Lapse(x) PROVE OriginOK' /\ UnsentOK' /\ CallerOK' /\ ReplyOfAStandingTurn'
  BY <1>2 DEF Lapse, AgentInv, OriginOK, UnsentOK, CallerOK, ReplyOfAStandingTurn
<1>3. ASSUME UNCHANGED agentVars PROVE OriginOK' /\ UnsentOK' /\ CallerOK' /\ ReplyOfAStandingTurn'
  <2>1. UNCHANGED <<made, posts, config, sub, home, consent, turn, pc, mine, sent, calls, replies>>
    BY <1>3 DEF agentVars
  <2>2. OriginOK' /\ UnsentOK'
    BY <2>1 DEF AgentInv, OriginOK, UnsentOK
  <2>3. CallerOK' /\ ReplyOfAStandingTurn'
    <3>1. CallerOK /\ ReplyOfAStandingTurn
      BY DEF AgentInv
    <3>2. CallerOK'
      BY <2>1, <3>1 DEF CallerOK
    <3>3. ReplyOfAStandingTurn'
      BY <2>1, <3>1 DEF ReplyOfAStandingTurn
    <3>4. QED
      BY <3>2, <3>3
  <2>4. QED
    BY <2>2, <2>3
<1>4. OriginOK' /\ UnsentOK' /\ CallerOK' /\ ReplyOfAStandingTurn'
  <2>1. CASE AgentRequest
    BY <2>1, RequestsKeep
  <2>2. ASSUME NEW s \in Servers, Poll(s) \/ Fails(s) \/ Restart(s)
        PROVE  OriginOK' /\ UnsentOK' /\ CallerOK' /\ ReplyOfAStandingTurn'
    BY <2>2, PollsKeep
  <2>3. QED
    BY <1>2, <1>3, <2>1, <2>2 DEF AgentNext
<1>5. QED
  BY <1>1, <1>4 DEF AgentInv

\* It holds of the initial states.
LEMMA AgentInvInit == AgentInit => AgentInv
<1> SUFFICES ASSUME AgentInit PROVE AgentInv
  OBVIOUS
<1>1. OriginOK /\ UnsentOK /\ CallerOK /\ ReplyOfAStandingTurn
  BY TurnFacts DEF AgentInit, OriginOK, UnsentOK, CallerOK, ReplyOfAStandingTurn, Open
<1>2. QED
  BY <1>1, InitTyped DEF AgentInv

\* So it always holds.
THEOREM AgentInvariance == AgentSpec => []AgentInv
BY AgentInvInit, AgentInvKept, PTL DEF AgentSpec

\* Every variable has its type, and no thread has two agents that are enabled.
THEOREM AgentTypesCorrect == AgentSpec => []AgentTypeOK
<1>1. AgentInv => AgentTypeOK
  BY DEF AgentInv, TypeInv
<1>2. QED
  BY <1>1, AgentInvariance, PTL

\* A complete turn has one reply, any other none, and nothing is left open by a
\* subscription that is off.
THEOREM RepliesOfStandingTurns == AgentSpec => []ReplyOfAStandingTurn
<1>1. AgentInv => ReplyOfAStandingTurn
  BY DEF AgentInv
<1>2. QED
  BY <1>1, AgentInvariance, PTL

\* A turn is sent once at most, to the provider that was consented to: whoever sends
\* it has made the mark, and nothing was sent before the mark.
LEMMA SendingKept == AgentInv /\ SentOnceAsConsented /\ [AgentNext]_agentVars => SentOnceAsConsented'
<1> SUFFICES ASSUME AgentInv, SentOnceAsConsented, [AgentNext]_agentVars PROVE SentOnceAsConsented'
  OBVIOUS
<1> USE DEF AgentInv, TypeInv, AgentTypeOK
<1>1. ASSUME UNCHANGED <<calls, sent, consent>> PROVE SentOnceAsConsented'
  BY <1>1 DEF SentOnceAsConsented
<1>2. ASSUME NEW s \in Servers, CallProvider(s) PROVE SentOnceAsConsented'
  <2>1. /\ mine[s] \in Turns /\ calls[mine[s]] = 0 /\ consent[mine[s][1]] = config[s]
        /\ sent' = [sent EXCEPT ![mine[s]] = sent[mine[s]] \cup {config[s]}]
        /\ calls' = [calls EXCEPT ![mine[s]] = calls[mine[s]] + 1] /\ UNCHANGED consent
    BY <1>2 DEF CallProvider, PollOK, CallerOK, At
  <2>2. QED
    BY <2>1 DEF SentOnceAsConsented
<1>3. ASSUME NEW s \in Servers, NEW t \in Threads, NEW a \in Agents, Create(s, t, a) PROVE SentOnceAsConsented'
  <2>1. PICK i \in Subs : /\ sub[i] = "new" /\ consent' = [consent EXCEPT ![i] = config[s]]
                          /\ UNCHANGED <<calls, sent>>
    BY <1>3 DEF Create
  <2>2. \A x \in Turns : x[1] = i => sent[x] = {}
    BY <2>1 DEF OriginOK, UnsentOK
  <2>3. QED
    BY <2>1, <2>2, TurnFacts DEF SentOnceAsConsented
<1>4. AgentRequest => UNCHANGED <<calls, sent, consent>>
                      \/ \E s \in Servers, t \in Threads, a \in Agents : Create(s, t, a)
  BY DEF AgentRequest, CreateThread, AppendHumanMessage, GetState, Disable, RemoveAgent, AddAgent
<1>5. ASSUME NEW s \in Servers, Poll(s) \/ Fails(s) \/ Restart(s)
      PROVE  UNCHANGED <<calls, sent, consent>> \/ CallProvider(s)
  BY <1>5 DEF Poll, Claim, Fetch, ReadSubscription, StartCall, CommitReply, LookUp, Finish, Fails, Restart
<1>6. ASSUME NEW x \in Turns, Lapse(x) PROVE UNCHANGED <<calls, sent, consent>>
  BY <1>6 DEF Lapse
<1>7. QED
  BY <1>1, <1>2, <1>3, <1>4, <1>5, <1>6 DEF AgentNext, agentVars

\* A turn's context goes to a provider once at most, and only to the provider whose
\* notice was consented to (startCall and markCalling, thread-agents.ts).
THEOREM TurnsAreSentOnce == AgentSpec => []SentOnceAsConsented
<1>1. AgentInit => SentOnceAsConsented
  BY DEF AgentInit, SentOnceAsConsented
<1>2. QED
  BY <1>1, AgentInvariance, SendingKept, PTL DEF AgentSpec

-----------------------------------------------------------------------------
(* ChannelView: sequences and pages.                                       *)

\* A sequence over a set is one over a greater set.
LEMMA Widens == ASSUME NEW S, NEW T, S \subseteq T, NEW q \in Seq(S) PROVE q \in Seq(T)
<1>1. Len(q) \in Nat /\ q \in [1 .. Len(q) -> S]
  OBVIOUS
<1>2. q \in [1 .. Len(q) -> T]
  BY <1>1
<1>3. QED
  BY <1>1, <1>2

\* How many numbers of a finite set come before one of them: less than all,
\* and more the greater it is.
LEMMA Ranks ==
    ASSUME NEW S \in SUBSET Nat, IsFiniteSet(S)
    PROVE  /\ Cardinality(S) \in Nat
           /\ \A n \in S : Rank(S, n) \in Nat /\ Rank(S, n) < Cardinality(S)
           /\ \A n, p \in S : n < p => Rank(S, n) < Rank(S, p)
<1>1. Cardinality(S) \in Nat
  BY FS_CardinalityType
<1>2. ASSUME NEW n \in S
      PROVE  IsFiniteSet({m \in S : m < n}) /\ Rank(S, n) \in Nat /\ Rank(S, n) < Cardinality(S)
  <2> DEFINE B == {m \in S : m < n}
  <2>1. B \in SUBSET S /\ n \notin B
    OBVIOUS
  <2> HIDE DEF B
  <2>2. IsFiniteSet(B) /\ Cardinality(B) <= Cardinality(S) /\ (Cardinality(S) = Cardinality(B) => S = B)
    BY <2>1, FS_Subset
  <2>3. Cardinality(B) \in Nat
    BY <2>2, FS_CardinalityType
  <2>4. Cardinality(B) < Cardinality(S)
    BY <1>1, <2>1, <2>2, <2>3
  <2>5. QED
    BY <2>2, <2>3, <2>4 DEF Rank, B
<1>3. ASSUME NEW n \in S, NEW p \in S, n < p PROVE Rank(S, n) < Rank(S, p)
  <2> DEFINE B == {m \in S : m < n}
             C == {m \in S : m < p}
  <2>0. \A m \in S : m < n => m < p
    BY <1>3
  <2>1. B \in SUBSET C /\ n \in C /\ n \notin B
    <3>1. B \in SUBSET C
      BY <2>0
    <3>2. n \in C
      BY <1>3
    <3>3. n \in Nat /\ ~(n < n)
      OBVIOUS
    <3>4. n \notin B
      BY <3>3
    <3>5. QED
      BY <3>1, <3>2, <3>4
  <2>2. IsFiniteSet(C) /\ Cardinality(C) \in Nat /\ Cardinality(B) \in Nat
    BY <1>2 DEF Rank
  <2> HIDE DEF B, C
  <2>3. Cardinality(B) <= Cardinality(C) /\ (Cardinality(C) = Cardinality(B) => C = B)
    BY <2>1, <2>2, FS_Subset
  <2>4. Cardinality(B) < Cardinality(C)
    BY <2>1, <2>2, <2>3
  <2>5. QED
    BY <2>4 DEF Rank, B, C
<1>4. QED
  BY <1>1, <1>2, <1>3

\* Every place of the order is taken by one number.
LEMMA Places ==
    ASSUME NEW S \in SUBSET Nat, IsFiniteSet(S), NEW k \in 1 .. Cardinality(S)
    PROVE  \E n \in S : Rank(S, n) = k - 1
<1> DEFINE rank == [n \in S |-> Rank(S, n)]
           ranks == 0 .. Cardinality(S) - 1
<1>1. Cardinality(S) \in Nat
  BY FS_CardinalityType
<1>2. rank \in [S -> ranks]
  BY <1>1, Ranks
<1>3. \A n, p \in S : rank[n] = rank[p] => n = p
  <2> SUFFICES ASSUME NEW n \in S, NEW p \in S, rank[n] = rank[p], n # p PROVE FALSE
    OBVIOUS
  <2>1. n < p \/ p < n
    OBVIOUS
  <2>2. rank[n] \in Nat /\ rank[p] \in Nat
    BY <1>1, <1>2
  <2>3. rank[n] < rank[p] \/ rank[p] < rank[n]
    BY <2>1, Ranks
  <2>4. QED
    BY <2>2, <2>3
<1>4. rank \in Injection(S, ranks)
  BY <1>2, <1>3 DEF Injection, IsInjective
<1>5. IsFiniteSet(ranks) /\ Cardinality(ranks) = Cardinality(S)
  <2>1. 0 \in Int /\ Cardinality(S) - 1 \in Int
    BY <1>1
  <2>2. /\ IsFiniteSet(0 .. Cardinality(S) - 1)
        /\ Cardinality(0 .. Cardinality(S) - 1) = IF 0 > Cardinality(S) - 1 THEN 0 ELSE (Cardinality(S) - 1) - 0 + 1
    BY <2>1, FS_Interval
  <2>3. QED
    BY <1>1, <2>2
<1>6. rank \in Surjection(S, ranks)
  BY <1>4, <1>5, FS_Injection
<1>7. k - 1 \in ranks
  BY <1>1
<1>8. \E n \in S : rank[n] = k - 1
  BY <1>6, <1>7 DEF Surjection
<1>9. QED
  BY <1>8

\* A set of numbers in ascending order holds each of them once.
LEMMA AscendingIs ==
    ASSUME NEW S \in SUBSET Nat, IsFiniteSet(S)
    PROVE  /\ Ascending(S) \in Seq(S)
           /\ ToSet(Ascending(S)) = S
           /\ IsInjective(Ascending(S))
<1> DEFINE A == Ascending(S)
<1>1. Cardinality(S) \in Nat
  BY FS_CardinalityType
<1>2. \A k \in 1 .. Cardinality(S) : A[k] \in S /\ Rank(S, A[k]) = k - 1
  <2> SUFFICES ASSUME NEW k \in 1 .. Cardinality(S)
               PROVE  A[k] \in S /\ Rank(S, A[k]) = k - 1
    OBVIOUS
  <2>1. A[k] = CHOOSE n \in S : Rank(S, n) = k - 1
    BY DEF Ascending
  <2>2. QED
    BY <2>1, Places
<1>3. DOMAIN A = 1 .. Cardinality(S) /\ A \in [1 .. Cardinality(S) -> S]
  BY <1>2 DEF Ascending
<1>4. A \in Seq(S)
  <2> HIDE DEF A
  <2>1. QED
    BY <1>1, <1>3
<1>5. S \subseteq ToSet(A)
  <2> SUFFICES ASSUME NEW n \in S PROVE n \in ToSet(A)
    OBVIOUS
  <2> DEFINE k == Rank(S, n) + 1
  <2>1. k \in 1 .. Cardinality(S)
    BY <1>1, Ranks
  <2> HIDE DEF A
  <2>2. A[k] \in S /\ Rank(S, A[k]) = Rank(S, n)
    <3>1. A[k] \in S /\ Rank(S, A[k]) = k - 1
      BY <1>2, <2>1
    <3>2. Rank(S, n) \in Nat
      BY Ranks
    <3>3. QED
      BY <3>1, <3>2
  <2>3. ~(A[k] < n) /\ ~(n < A[k])
    <3>1. Rank(S, n) \in Nat
      BY Ranks
    <3>2. /\ A[k] < n => Rank(S, A[k]) < Rank(S, n)
          /\ n < A[k] => Rank(S, n) < Rank(S, A[k])
      BY <2>2, Ranks
    <3>3. QED
      BY <2>2, <3>1, <3>2
  <2>4. A[k] = n
    <3>1. A[k] \in Nat /\ n \in Nat
      BY <2>2
    <3>2. QED
      BY <2>3, <3>1
  <2>5. QED
    BY <1>3, <2>1, <2>4 DEF ToSet
<1>6. ToSet(A) \subseteq S
  BY <1>2, <1>3 DEF ToSet
<1>7. IsInjective(A)
  <2> SUFFICES ASSUME NEW i \in 1 .. Cardinality(S), NEW j \in 1 .. Cardinality(S), A[i] = A[j]
               PROVE  i = j
    BY <1>3 DEF IsInjective
  <2>1. i - 1 = j - 1
    BY <1>2
  <2>2. QED
    BY <1>1, <2>1
<1>8. QED
  BY <1>4, <1>5, <1>6, <1>7

\* A page is of the listing, each item once, and leaves nothing out between
\* the cursor and any of its items.
LEMMA PageIs ==
    ASSUME NEW listing \in SUBSET Nat, IsFiniteSet(listing), NEW after \in Nat
    PROVE  /\ Page(listing, after) \in Seq(Nat)
           /\ ToSet(Page(listing, after)) \subseteq listing
           /\ IsInjective(Page(listing, after))
           /\ \A n \in ToSet(Page(listing, after)), m \in listing :
                 after < m /\ m <= n => m \in ToSet(Page(listing, after))
<1> DEFINE all == {n \in listing : n > after}
           S == {n \in all : Rank(all, n) < Limit}
<1>1. all \in SUBSET Nat /\ all \in SUBSET listing
  OBVIOUS
<1>2. IsFiniteSet(all)
  BY <1>1, FS_Subset
<1>3. S \in SUBSET all /\ S \in SUBSET Nat
  BY <1>1
<1>4. IsFiniteSet(S)
  BY <1>2, <1>3, FS_Subset
<1>5. Page(listing, after) = Ascending(S)
  BY DEF Page
<1>6. ASSUME NEW n \in S, NEW m \in listing, after < m, m <= n PROVE m \in S
  <2>1. m \in all /\ n \in all
    BY <1>3, <1>6
  <2>2. Rank(all, m) <= Rank(all, n)
    <3>1. CASE m = n
      BY <1>1, <1>2, <2>1, <3>1, Ranks
    <3>2. CASE m < n
      <4>1. Rank(all, m) < Rank(all, n)
        BY <1>1, <1>2, <2>1, <3>2, Ranks
      <4>2. QED
        BY <1>1, <1>2, <2>1, <4>1, Ranks
    <3>3. QED
      BY <1>6, <1>1, <2>1, <3>1, <3>2
  <2>3. Rank(all, n) < Limit
    OBVIOUS
  <2>4. Rank(all, m) \in Nat /\ Rank(all, n) \in Nat /\ Limit \in Nat
    BY <1>1, <1>2, <2>1, Ranks, ChannelViewAssumption
  <2>5. QED
    BY <2>1, <2>2, <2>3, <2>4
<1>7. /\ Ascending(S) \in Seq(S) /\ ToSet(Ascending(S)) = S /\ IsInjective(Ascending(S))
  BY <1>3, <1>4, AscendingIs
<1> HIDE DEF all, S
<1>8. Ascending(S) \in Seq(Nat)
  <2>1. S \subseteq Nat
    BY <1>3
  <2>2. QED
    BY <1>7, <2>1, Widens
<1>9. S \subseteq listing
  BY <1>1, <1>3
<1>10. QED
  BY <1>5, <1>6, <1>7, <1>8, <1>9

\* A finite set in some order.
LEMMA SetToSeqIs ==
    ASSUME NEW S, IsFiniteSet(S)
    PROVE  SetToSeq(S) \in Seq(S) /\ ToSet(SetToSeq(S)) \subseteq S /\ IsInjective(SetToSeq(S))
<1>1. Cardinality(S) \in Nat /\ ExistsBijection(1 .. Cardinality(S), S)
  BY FS_CardinalityType
<1>2. \E f \in [1 .. Cardinality(S) -> S] : IsInjective(f)
  BY <1>1 DEF ExistsBijection, Bijection, Injection
<1>3. SetToSeq(S) \in [1 .. Cardinality(S) -> S] /\ IsInjective(SetToSeq(S))
  BY <1>2 DEF SetToSeq
<1>4. QED
  BY <1>1, <1>3 DEF ToSet

\* What a sequence without repetition holds is as many as it is long.
LEMMA DistinctLength ==
    ASSUME NEW T, NEW s \in Seq(T), IsInjective(s)
    PROVE  Cardinality(ToSet(s)) = Len(s)
<1>1. Len(s) \in Nat /\ DOMAIN s = 1 .. Len(s) /\ s \in [1 .. Len(s) -> ToSet(s)]
  BY DEF ToSet
<1>2. s \in Bijection(1 .. Len(s), ToSet(s))
  BY <1>1 DEF Bijection, Injection, Surjection, ToSet
<1>3. ExistsBijection(1 .. Len(s), ToSet(s))
  BY <1>2 DEF ExistsBijection
<1>4. QED
  BY <1>1, <1>3, FS_CountingElements

\* Two sequences that share nothing.
LEMMA Concatenated ==
    ASSUME NEW T, NEW s \in Seq(T), NEW t \in Seq(T), IsInjective(s), IsInjective(t),
           ToSet(s) \cap ToSet(t) = {}
    PROVE  /\ s \o t \in Seq(T) /\ IsInjective(s \o t)
           /\ ToSet(s \o t) = ToSet(s) \cup ToSet(t)
<1>1. /\ s \o t \in Seq(T) /\ Len(s \o t) = Len(s) + Len(t)
      /\ Len(s) \in Nat /\ Len(t) \in Nat
      /\ DOMAIN s = 1 .. Len(s) /\ DOMAIN t = 1 .. Len(t) /\ DOMAIN (s \o t) = 1 .. Len(s) + Len(t)
  OBVIOUS
<1>2. /\ \A i \in 1 .. Len(s) : (s \o t)[i] = s[i]
      /\ \A i \in 1 .. Len(t) : (s \o t)[Len(s) + i] = t[i]
  OBVIOUS
<1>3. \A i \in DOMAIN (s \o t) : \/ i \in DOMAIN s /\ (s \o t)[i] = s[i]
                                 \/ i - Len(s) \in DOMAIN t /\ (s \o t)[i] = t[i - Len(s)]
  BY <1>1, <1>2
<1>4. ToSet(s \o t) \subseteq ToSet(s) \cup ToSet(t)
  BY <1>3 DEF ToSet
<1>5. ToSet(s) \subseteq ToSet(s \o t)
  BY <1>1, <1>2 DEF ToSet
<1>6. ToSet(t) \subseteq ToSet(s \o t)
  <2> SUFFICES ASSUME NEW i \in DOMAIN t PROVE t[i] \in ToSet(s \o t)
    BY DEF ToSet
  <2>1. i \in 1 .. Len(t) /\ Len(s) + i \in 1 .. Len(s) + Len(t)
    BY <1>1
  <2>2. Len(s) + i \in DOMAIN (s \o t) /\ (s \o t)[Len(s) + i] = t[i]
    BY <1>1, <1>2, <2>1
  <2>3. QED
    BY <2>2 DEF ToSet
<1>7. IsInjective(s \o t)
  <2> SUFFICES ASSUME NEW i \in DOMAIN (s \o t), NEW j \in DOMAIN (s \o t), (s \o t)[i] = (s \o t)[j]
               PROVE  i = j
    BY DEF IsInjective
  <2>1. i \in Nat /\ j \in Nat
    BY <1>1
  <2>2. CASE i \in DOMAIN s /\ (s \o t)[i] = s[i] /\ j \in DOMAIN s /\ (s \o t)[j] = s[j]
    BY <2>2 DEF IsInjective
  <2>3. CASE i - Len(s) \in DOMAIN t /\ (s \o t)[i] = t[i - Len(s)] /\ j - Len(s) \in DOMAIN t /\ (s \o t)[j] = t[j - Len(s)]
    <3>1. i - Len(s) = j - Len(s)
      BY <2>3 DEF IsInjective
    <3>2. QED
      BY <1>1, <2>1, <3>1
  <2>4. CASE i \in DOMAIN s /\ (s \o t)[i] = s[i] /\ j - Len(s) \in DOMAIN t /\ (s \o t)[j] = t[j - Len(s)]
    BY <2>4 DEF ToSet
  <2>5. CASE j \in DOMAIN s /\ (s \o t)[j] = s[j] /\ i - Len(s) \in DOMAIN t /\ (s \o t)[i] = t[i - Len(s)]
    BY <2>5 DEF ToSet
  <2>6. QED
    BY <1>3, <2>2, <2>3, <2>4, <2>5
<1>8. QED
  BY <1>1, <1>4, <1>5, <1>6, <1>7

\* The last item.
LEMMA LastIs ==
    ASSUME NEW T, NEW s \in Seq(T), s # <<>>
    PROVE  Last(s) \in ToSet(s) /\ Last(s) \in T
BY DEF Last, ToSet
-----------------------------------------------------------------------------
(* ChannelView: the invariant.                                             *)

\* The requests that can move what a section shows, and the cursors with it.
Numbered == {"load", "refresh", "events", "thread"}
Panels == {"panel", "enable", "disable"}

\* What is listed where a request asks, and what may be drawn.
Listing(a) ==
    CASE a.what \in {"load", "refresh", "send"} -> ListMessages(a.place)
      [] a.what = "events" -> ListChannelEvents(a.place)
      [] a.what = "list" -> ListThreads(a.place)
      [] a.what \in {"thread", "reply"} -> ListThreadMessages(a.place)
      [] OTHER -> Subs
Drawable == IF section = "panel" THEN Subs ELSE Written

\* What the server keeps.
ServerOK ==
    /\ said \in [Channels -> Nat] /\ \A c \in Channels : said[c] <= MaxSaid[c]
    /\ bound \in [Channels -> SUBSET (Nat \ {0})]
    /\ \A c \in Channels : bound[c] \subseteq Bindable[c] /\ IsFiniteSet(bound[c])
    /\ late \subseteq Channels \X Nat
    /\ \A x \in late : x[2] \in bound[x[1]]

\* A request belongs to the section and asks about a place that is there.
KindOK(a) ==
    \/ section = "messages" /\ a.what \in {"load", "refresh", "send"}
    \/ section = "events" /\ a.what = "events"
    \/ section = "list" /\ a.what = "list"
    \/ section = "thread" /\ a.what \in {"thread", "reply"}
    \/ section = "panel" /\ a.what \in Panels
PlaceOK(a) ==
    /\ a.what \in {"load", "refresh", "send", "events", "list"} => a.place \in Channels
    /\ a.what \in {"thread", "reply"} \cup Panels => a.place \in made

\* Its page is of the listing, each item once, and leaves nothing out between
\* its cursor and any of its items but what was bound late.
PageOK(a) ==
    /\ ToSet(a.page) \subseteq Listing(a) /\ IsInjective(a.page)
    /\ a.next = 0 \/ (a.page # <<>> /\ a.next = Last(a.page))
    /\ a.what \in Numbered =>
         \A n \in ToSet(a.page), m \in Listing(a) :
             a.after < m /\ m <= n => m \in ToSet(a.page) \/ <<a.place, m>> \in late

AskedOK(a) ==
    /\ KindOK(a) /\ PlaceOK(a) /\ PageOK(a)
    /\ a.what = "disable" => a.after \in Subs

\* A cursor is a message or event of the place, or nothing yet.
Mark(k) == k = 0 \/ k \in Written

\* Nothing at or before a cursor is missing.
Whole(k) == \A n \in Written : n <= k => <<Place, n>> \in ToSet(shown) \cup late

\* A request whose token is current asks about the open place, after a cursor
\* up to which all is drawn, unless what was drawn has been cleared since.
FreshOK(a) ==
    a.fresh =>
      /\ a.what \in {"load", "refresh", "events", "list"} => a.place = channel
      /\ a.what \in {"thread"} \cup Panels => a.place = thread
      /\ a.what \in Numbered =>
           /\ Mark(a.after)
           /\ blurred \/ Whole(a.after) \/ (shown = <<>> /\ section \in {"events", "thread"})
      /\ a.what \in {"load", "thread"} /\ a.after = 0 => latest = 0

OneRead(S) == \A a, b \in S : a.fresh /\ b.fresh /\ a.what \in Reads /\ b.what \in Reads => a = b

RequestsOK ==
    /\ asks \subseteq Asks /\ OneRead(asks)
    /\ \A a \in asks : AskedOK(a) /\ FreshOK(a)

ShownOK ==
    /\ shown \in Seq((Channels \cup Threads) \X Items) /\ IsInjective(shown)
    /\ \A x \in ToSet(shown) : x[1] = Place /\ x[2] \in Drawable

CursorsOK ==
    /\ latest \in Nat /\ cursor \in Nat /\ retry \in SUBSET Nat
    /\ retry # {} => section = "events" /\ \A q, r \in retry : q = r
    /\ Place # None => Mark(latest) /\ Mark(cursor) /\ \A r \in retry : Mark(r)
    /\ section \in {"messages", "thread", "events"} /\ ~blurred =>
         /\ Whole(latest) /\ Whole(cursor)
         /\ \A r \in retry : Whole(r) \/ shown = <<>>

TabOK ==
    /\ section \in Sections
    /\ channel \in Channels \cup {None} /\ thread \in made \cup {None}
    /\ waiting \in BOOLEAN /\ busy \in BOOLEAN /\ blurred \in BOOLEAN
    /\ clicks \in 0 .. MaxClicks[section] /\ lost \in 0 .. MaxLost
    /\ busy => \E a \in asks : a.fresh /\ a.what \in Panels

ViewInv == ServerOK /\ TabOK /\ ShownOK /\ CursorsOK /\ RequestsOK

-----------------------------------------------------------------------------
(* ChannelView: what is written only grows.                                *)

\* What others write never goes away, and what is written before something
\* else that is there has been bound late.
Grows ==
    /\ section' = section /\ made \subseteq made'
    /\ \A t \in made : posts[t] <= posts'[t]
    /\ \A c \in Channels : said[c] <= said'[c] /\ bound[c] \subseteq bound'[c]
    /\ late \subseteq late'
    /\ \A c \in Channels, e \in Nat :
          e \in bound'[c] /\ e \notin bound[c] => \A f \in bound[c] : f > e => <<c, e>> \in late'

\* The types the lemmas need.
Grown == /\ ServerOK /\ ServerOK' /\ made \in SUBSET Threads /\ made' \in SUBSET Threads
         /\ posts \in [Threads -> Nat] /\ posts' \in [Threads -> Nat]

\* Nothing is no channel and no thread.
LEMMA PlacesApart == None \notin Channels /\ None \notin Threads /\ IsFiniteSet(Threads)
BY ChannelViewAssumption, ThreadAgentsAssumption

\* The numbers up to one of them are positive and finitely many.
LEMMA Intervals ==
    ASSUME NEW n \in Nat PROVE 1 .. n \in SUBSET (Nat \ {0}) /\ IsFiniteSet(1 .. n)
<1>1. 1 \in Int /\ n \in Int
  OBVIOUS
<1>2. IsFiniteSet(1 .. n)
  BY <1>1, FS_Interval
<1>3. QED
  BY <1>2

\* The listings of numbers hold none but positive ones.
LEMMA ListingsAreNumbers ==
    ASSUME ServerOK, posts \in [Threads -> Nat], made \in SUBSET Threads,
           NEW a, PlaceOK(a), a.what \in Numbered \cup {"send"}
    PROVE  Listing(a) \in SUBSET (Nat \ {0}) /\ IsFiniteSet(Listing(a))
<1>1. CASE a.what \in {"load", "refresh", "send"}
  <2>1. Listing(a) = 1 .. said[a.place] /\ said[a.place] \in Nat
    BY <1>1 DEF Listing, ListMessages, PlaceOK, ServerOK
  <2>2. QED
    BY <2>1, Intervals
<1>2. CASE a.what = "events"
  BY <1>2 DEF Listing, ListChannelEvents, PlaceOK, ServerOK
<1>3. CASE a.what = "thread"
  <2>1. Listing(a) = 1 .. posts[a.place] /\ posts[a.place] \in Nat
    BY <1>3 DEF Listing, ListThreadMessages, PlaceOK
  <2>2. QED
    BY <2>1, Intervals
<1>4. QED
  BY <1>1, <1>2, <1>3 DEF Numbered

\* A listing keeps what it had; what it gets before one of its items is late.
LEMMA ListingGrows ==
    ASSUME Grown, Grows, NEW a, PlaceOK(a)
    PROVE  /\ Listing(a) \subseteq Listing(a)'
           /\ a.what \in Numbered =>
                \A n \in Listing(a), m \in Listing(a)' :
                    m <= n => m \in Listing(a) \/ <<a.place, m>> \in late'
<1> USE DEF Grown, Grows
<1>1. CASE a.what \in {"load", "refresh", "send"}
  <2>1. /\ Listing(a) = 1 .. said[a.place] /\ Listing(a)' = 1 .. said'[a.place]
        /\ said[a.place] \in Nat /\ said'[a.place] \in Nat /\ said[a.place] <= said'[a.place]
    BY <1>1 DEF Listing, ListMessages, PlaceOK, ServerOK
  <2>2. QED
    BY <2>1
<1>2. CASE a.what = "events"
  <2>1. /\ Listing(a) = bound[a.place] /\ Listing(a)' = bound'[a.place] /\ a.place \in Channels
        /\ bound[a.place] \subseteq bound'[a.place]
        /\ bound'[a.place] \subseteq Nat /\ bound[a.place] \subseteq Nat
    BY <1>2 DEF Listing, ListChannelEvents, PlaceOK, ServerOK
  <2>2. ASSUME NEW n \in bound[a.place], NEW m \in bound'[a.place], m <= n, m \notin bound[a.place]
        PROVE  <<a.place, m>> \in late'
    <3>1. n > m /\ m \in Nat
      BY <2>1, <2>2
    <3>2. QED
      BY <2>1, <2>2, <3>1
  <2>3. QED
    BY <2>1, <2>2
<1>3. CASE a.what \in {"thread", "reply"}
  <2>1. /\ Listing(a) = 1 .. posts[a.place] /\ Listing(a)' = 1 .. posts'[a.place]
        /\ posts[a.place] \in Nat /\ posts'[a.place] \in Nat /\ posts[a.place] <= posts'[a.place]
    BY <1>3 DEF Listing, ListThreadMessages, PlaceOK
  <2>2. QED
    BY <2>1
<1>4. CASE a.what = "list"
  BY <1>4 DEF Listing, ListThreads, Numbered
<1>5. CASE a.what \notin {"load", "refresh", "send", "events", "thread", "reply", "list"}
  BY <1>5 DEF Listing, Numbered
<1>6. QED
  BY <1>1, <1>2, <1>3, <1>4, <1>5

\* The same of what the section should show.
LEMMA WrittenGrows ==
    ASSUME Grown, Grows, TabOK, channel' = channel, thread' = thread
    PROVE  /\ Place' = Place /\ Written \subseteq Written' /\ Drawable \subseteq Drawable'
           /\ section \in {"messages", "thread", "events"} =>
                /\ Written \in SUBSET (Nat \ {0}) /\ Written' \in SUBSET (Nat \ {0})
                /\ \A n \in Written, m \in Written' :
                      m <= n => m \in Written \/ <<Place, m>> \in late'
<1> USE DEF Grown, Grows
<1>0. Place' = Place
  BY DEF Place
<1>1. CASE Place = None
  BY <1>0, <1>1 DEF Written, Drawable
<1>2. CASE Place # None /\ section = "messages"
  <2>1. /\ Written = 1 .. said[channel] /\ Written' = 1 .. said'[channel]
        /\ said[channel] \in Nat /\ said'[channel] \in Nat /\ said[channel] <= said'[channel]
    BY <1>2, <1>0 DEF Written, Place, ListMessages, ServerOK, TabOK
  <2>2. QED
    BY <1>0, <1>2, <2>1 DEF Drawable
<1>3. CASE Place # None /\ section = "events"
  <2>1. /\ Written = bound[channel] /\ Written' = bound'[channel] /\ channel \in Channels /\ Place = channel
        /\ bound[channel] \subseteq bound'[channel]
        /\ bound'[channel] \subseteq Nat \ {0} /\ bound[channel] \subseteq Nat \ {0}
    BY <1>0, <1>3 DEF Written, Place, ListChannelEvents, ServerOK, TabOK
  <2>2. ASSUME NEW n \in bound[channel], NEW m \in bound'[channel], m <= n, m \notin bound[channel]
        PROVE  <<channel, m>> \in late'
    <3>1. n > m /\ m \in Nat
      BY <2>1, <2>2
    <3>2. QED
      BY <2>1, <2>2, <3>1
  <2>3. QED
    BY <1>0, <1>3, <2>1, <2>2 DEF Drawable
<1>4. CASE Place # None /\ section = "thread"
  <2>1. /\ Written = 1 .. posts[thread] /\ Written' = 1 .. posts'[thread]
        /\ posts[thread] \in Nat /\ posts'[thread] \in Nat /\ posts[thread] <= posts'[thread]
    BY <1>0, <1>4 DEF Written, Place, ListThreadMessages, TabOK
  <2>2. QED
    BY <1>0, <1>4, <2>1 DEF Drawable
<1>5. CASE Place # None /\ section = "list"
  BY <1>0, <1>5 DEF Written, Place, ListThreads, Drawable
<1>6. CASE Place # None /\ section \notin {"messages", "events", "thread", "list"}
  BY <1>0, <1>6 DEF Written, Drawable
<1>7. QED
  BY <1>0, <1>1, <1>2, <1>3, <1>4, <1>5, <1>6

\* A request that is well formed stays so.
LEMMA RequestStands ==
    ASSUME Grown, Grows, NEW a \in Asks, AskedOK(a)
    PROVE  AskedOK(a)'
<1>1. PlaceOK(a) /\ KindOK(a) /\ PageOK(a)
  BY DEF AskedOK
<1>2. PlaceOK(a)'
  BY <1>1 DEF PlaceOK, Grows
<1>3. KindOK(a)'
  BY <1>1 DEF KindOK, Grows
<1>4. ToSet(a.page) \subseteq Listing(a)'
  BY <1>1, ListingGrows DEF PageOK
<1>5. ASSUME a.what \in Numbered, NEW n \in ToSet(a.page), NEW m \in Listing(a)', a.after < m, m <= n
      PROVE  m \in ToSet(a.page) \/ <<a.place, m>> \in late'
  <2>1. n \in Listing(a)
    BY <1>1 DEF PageOK
  <2>2. m \in Listing(a) \/ <<a.place, m>> \in late'
    BY <1>1, <1>5, <2>1, ListingGrows
  <2>3. QED
    BY <1>1, <1>5, <2>2 DEF PageOK, Grows
<1>6. PageOK(a)'
  BY <1>1, <1>4, <1>5 DEF PageOK
<1>7. QED
  BY <1>2, <1>3, <1>6 DEF AskedOK

\* A cursor stays one, and nothing goes missing before it.
LEMMA CursorStands ==
    ASSUME Grown, Grows, TabOK, TabOK', channel' = channel, thread' = thread, NEW k \in Nat,
           section \in {"messages", "thread", "events"}, Place = None \/ Mark(k)
    PROVE  /\ Place # None => Mark(k)'
           /\ Whole(k) /\ ToSet(shown) \subseteq ToSet(shown') => Whole(k)'
<1>1. /\ Place' = Place /\ Written \subseteq Written'
      /\ \A n \in Written, m \in Written' : m <= n => m \in Written \/ <<Place, m>> \in late'
  BY WrittenGrows
<1>2. Written' \in SUBSET (Nat \ {0})
  BY WrittenGrows
<1>3. Place # None => Mark(k)'
  BY <1>1 DEF Mark
<1>4. ASSUME Whole(k), ToSet(shown) \subseteq ToSet(shown'), NEW m \in Written', m <= k
      PROVE  <<Place, m>> \in ToSet(shown') \cup late'
  <2>1. Place # None
    BY <1>1, <1>4 DEF Written
  <2>2. k \in Written
    BY <1>2, <1>4, <2>1 DEF Mark
  <2>3. m \in Written \/ <<Place, m>> \in late'
    BY <1>1, <1>4, <2>2
  <2>4. QED
    BY <1>4, <2>3 DEF Whole, Grows
<1>5. QED
  BY <1>1, <1>3, <1>4 DEF Whole

-----------------------------------------------------------------------------
(* ChannelView: requests.                                                  *)

\* What leaves the server and the agents alone leaves what was written as it is.
LEMMA QuietGrows ==
    ASSUME ViewInv, AgentTypeOK, UNCHANGED <<agentVars, server>>, section' = section
    PROVE  Grown /\ Grows
<1>1. /\ said' = said /\ bound' = bound /\ late' = late /\ made' = made /\ posts' = posts
  BY DEF server, agentVars
<1>2. ServerOK /\ ServerOK'
  BY <1>1 DEF ViewInv, ServerOK
<1>3. made \in SUBSET Threads /\ posts \in [Threads -> Nat]
  BY DEF AgentTypeOK
<1>4. Grown
  BY <1>1, <1>2, <1>3 DEF Grown
<1>5. \A t \in made : posts[t] <= posts[t]
  BY <1>3
<1>6. \A c \in Channels : said[c] <= said[c]
  BY <1>2 DEF ServerOK
<1>7. QED
  BY <1>1, <1>4, <1>5, <1>6 DEF Grows

\* A current request with a cursor asks about a place that is open.
LEMMA FreshIsOpen ==
    ASSUME made \in SUBSET Threads, NEW a, AskedOK(a), FreshOK(a), a.fresh, a.what \in Numbered
    PROVE  /\ Place # None /\ Place = a.place /\ Listing(a) = Written
           /\ section \in {"messages", "thread", "events"}
<1> USE PlacesApart
<1>1. KindOK(a) /\ PlaceOK(a)
  BY DEF AskedOK
<1>2. CASE section = "messages" /\ a.what \in {"load", "refresh"}
  BY <1>1, <1>2 DEF FreshOK, PlaceOK, Place, Listing, Written
<1>3. CASE section = "events" /\ a.what = "events"
  BY <1>1, <1>3 DEF FreshOK, PlaceOK, Place, Listing, Written
<1>4. CASE section = "thread" /\ a.what = "thread"
  BY <1>1, <1>4 DEF FreshOK, PlaceOK, Place, Listing, Written
<1>5. QED
  BY <1>1, <1>2, <1>3, <1>4 DEF KindOK, Numbered, Panels

\* A current request stays good while the place is open and what is drawn
\* before its cursor stays drawn.
LEMMA FreshStands ==
    ASSUME Grown, Grows, TabOK, TabOK', channel' = channel, thread' = thread,
           NEW a \in Asks, AskedOK(a), FreshOK(a),
           ToSet(shown) \subseteq ToSet(shown'), blurred => blurred',
           shown = <<>> /\ section \in {"events", "thread"} => shown' = <<>>,
           a.fresh /\ a.what \in {"load", "thread"} => latest' = latest
    PROVE  FreshOK(a)'
<1> SUFFICES ASSUME a.fresh PROVE FreshOK(a)'
  BY DEF FreshOK
<1>1. ASSUME a.what \in Numbered
      PROVE  Mark(a.after)' /\ (blurred' \/ Whole(a.after)' \/ (shown' = <<>> /\ section' \in {"events", "thread"}))
  <2>1. Place # None /\ section \in {"messages", "thread", "events"}
    BY <1>1, FreshIsOpen DEF Grown
  <2>2. PICK k \in Nat : k = a.after
    BY DEF Asks
  <2>3. Mark(k) /\ (blurred \/ Whole(k) \/ (shown = <<>> /\ section \in {"events", "thread"}))
    BY <1>1, <2>2 DEF FreshOK
  <2>4. Mark(k)' /\ (Whole(k) => Whole(k)')
    BY <2>1, <2>3, CursorStands
  <2>5. QED
    BY <2>2, <2>3, <2>4 DEF Grows
<1>2. QED
  BY <1>1 DEF FreshOK

\* A request that is not a current read depends on nothing that is drawn.
LEMMA FreshAside ==
    ASSUME NEW a, FreshOK(a), ~(a.fresh /\ a.what \in Reads), thread' = thread
    PROVE  FreshOK(a)'
BY DEF FreshOK, Reads, Numbered, Panels

\* Without its token a request is as well formed as it was.
LEMMA Unfresh ==
    ASSUME NEW c \in Asks, NEW b, b = [c EXCEPT !.fresh = FALSE], AskedOK(c)'
    PROVE  b \in Asks /\ ~b.fresh /\ AskedOK(b)' /\ FreshOK(b)'
<1>1. /\ b \in Asks /\ b.fresh = FALSE /\ b.what = c.what /\ b.place = c.place /\ b.after = c.after
      /\ b.page = c.page /\ b.next = c.next
  BY DEF Asks
<1>2. Listing(b)' = Listing(c)'
  BY <1>1 DEF Listing, ListMessages, ListChannelEvents, ListThreads, ListThreadMessages
<1>3. KindOK(b)' /\ PlaceOK(b)'
  BY <1>1 DEF AskedOK, KindOK, PlaceOK
<1>4. PageOK(b)'
  BY <1>1, <1>2 DEF AskedOK, PageOK
<1>5. AskedOK(b)'
  BY <1>1, <1>3, <1>4 DEF AskedOK
<1>6. QED
  BY <1>1, <1>5 DEF FreshOK

\* What an Ask leaves of the requests before it.
LEMMA StaleIs ==
    ASSUME NEW S \in SUBSET Asks, NEW whats, NEW b \in Stale(S, whats)
    PROVE  \/ b \in S /\ b.what \notin whats
           \/ \E c \in S : b = [c EXCEPT !.fresh = FALSE]
BY DEF Stale

\* After any Ask, good requests are good and one read at most is current.
LEMMA Requested ==
    ASSUME NEW S \in SUBSET Asks, OneRead(S), \A c \in S : AskedOK(c)' /\ FreshOK(c)',
           NEW what \in Reads \cup Writes, NEW spot, NEW after, NEW own, NEW n \in Asks,
           n = [what |-> what, place |-> spot, after |-> after, fresh |-> TRUE, own |-> own,
                pages |-> 0, served |-> FALSE, page |-> <<>>, next |-> 0],
           AskedOK(n)', FreshOK(n)',
           asks' = S \/ asks' = Ask(S, what, spot, after, own)
    PROVE  RequestsOK'
<1>1. CASE asks' = S
  BY <1>1 DEF RequestsOK, OneRead
<1>2. CASE asks' = Ask(S, what, spot, after, own)
  <2> DEFINE old == Stale(S, Group(what))
  <2>1. asks' = old \cup {n}
    BY <1>2 DEF Ask
  <2>2. n.what = what /\ KindOK(n)'
    BY DEF AskedOK
  <2>3. ASSUME NEW b \in old
        PROVE  /\ b \in Asks /\ AskedOK(b)' /\ FreshOK(b)'
               /\ b.fresh => b \in S /\ b.what \notin Group(what)
    <3> HIDE DEF old
    <3>1. CASE b \in S /\ b.what \notin Group(what)
      BY <3>1
    <3>2. ASSUME NEW c \in S, b = [c EXCEPT !.fresh = FALSE]
          PROVE  b \in Asks /\ AskedOK(b)' /\ FreshOK(b)' /\ ~b.fresh
      BY <3>2, Unfresh
    <3>3. QED
      BY <2>3, <3>1, <3>2, StaleIs DEF old
  <2>4. ASSUME NEW b \in old, b.fresh, b.what \in Reads PROVE what \notin Reads
    <3>1. b.what \notin Group(what) /\ KindOK(b)'
      BY <2>3, <2>4 DEF AskedOK
    <3>2. QED
      BY <2>2, <2>4, <3>1 DEF KindOK, Group, Reads, Writes, Panels
  <2> HIDE DEF old
  <2>5. OneRead(asks')
    <3> SUFFICES ASSUME NEW a \in old \cup {n}, NEW b \in old \cup {n}, a.fresh, b.fresh,
                        a.what \in Reads, b.what \in Reads
                 PROVE  a = b
      BY <2>1 DEF OneRead
    <3>1. CASE a \in old /\ b \in old
      BY <2>3, <3>1 DEF OneRead
    <3>2. CASE a = n /\ b = n
      BY <3>2
    <3>3. CASE (a = n /\ b \in old) \/ (b = n /\ a \in old)
      BY <2>2, <2>4, <3>3
    <3>4. QED
      BY <3>1, <3>2, <3>3
  <2>6. asks' \subseteq Asks /\ \A b \in asks' : AskedOK(b)' /\ FreshOK(b)'
    BY <2>1, <2>3
  <2>7. QED
    BY <2>5, <2>6 DEF RequestsOK, OneRead
<1>3. QED
  BY <1>1, <1>2

\* A new request for a numbered page.
LEMMA NumberedRequest ==
    ASSUME NEW S \in SUBSET Asks, OneRead(S), \A c \in S : AskedOK(c)' /\ FreshOK(c)',
           NEW what \in Numbered, NEW spot, NEW after \in Nat, NEW own \in BOOLEAN,
           \/ section' = "messages" /\ what \in {"load", "refresh"}
           \/ section' = "events" /\ what = "events"
           \/ section' = "thread" /\ what = "thread",
           what = "thread" => spot = thread' /\ spot \in made',
           what # "thread" => spot = channel' /\ spot \in Channels,
           made' \in SUBSET Threads,
           after = 0 \/ after \in Written',
           \/ blurred'
           \/ \A m \in Written' : m <= after => <<Place', m>> \in ToSet(shown') \cup late'
           \/ shown' = <<>> /\ section' \in {"events", "thread"},
           what \in {"load", "thread"} /\ after = 0 => latest' = 0,
           asks' = S \/ asks' = Ask(S, what, spot, after, own)
    PROVE  RequestsOK'
<1>1. PICK n : n = [what |-> what, place |-> spot, after |-> after, fresh |-> TRUE, own |-> own,
                    pages |-> 0, served |-> FALSE, page |-> <<>>, next |-> 0]
  OBVIOUS
<1>2. /\ n.what = what /\ n.place = spot /\ n.after = after /\ n.page = <<>> /\ n.next = 0
  BY <1>1
<1>3. spot \in Channels \cup Threads /\ <<>> \in Seq(Items)
  BY DEF Numbered
<1>4. n \in Asks
  BY <1>1, <1>3 DEF Asks, Reads, Numbered
<1>5. KindOK(n)' /\ PlaceOK(n)'
  BY <1>2 DEF KindOK, PlaceOK, Numbered, Panels
<1>6. PageOK(n)'
  BY <1>2 DEF PageOK, ToSet, IsInjective
<1>7. AskedOK(n)'
  BY <1>2, <1>5, <1>6 DEF AskedOK, Numbered
<1>8. Mark(n.after)' /\ (blurred' \/ Whole(n.after)' \/ (shown' = <<>> /\ section' \in {"events", "thread"}))
  BY <1>2 DEF Mark, Whole
<1>9. FreshOK(n)'
  BY <1>2, <1>8 DEF FreshOK, Numbered, Panels
<1>10. what \in Reads \cup Writes
  BY DEF Numbered, Reads
<1>11. QED
  BY <1>1, <1>4, <1>7, <1>9, <1>10, Requested

\* A new request of another kind.
LEMMA OtherRequest ==
    ASSUME NEW S \in SUBSET Asks, OneRead(S), \A c \in S : AskedOK(c)' /\ FreshOK(c)',
           NEW what, NEW spot, NEW after \in Nat, NEW own \in BOOLEAN,
           \/ section' = "list" /\ what = "list" /\ spot = channel' /\ spot \in Channels
           \/ section' = "messages" /\ what = "send" /\ spot \in Channels
           \/ section' = "thread" /\ what = "reply" /\ spot \in made'
           \/ section' = "panel" /\ what \in Panels /\ spot = thread' /\ spot \in made',
           what = "disable" => after \in Subs,
           made' \in SUBSET Threads,
           asks' = S \/ asks' = Ask(S, what, spot, after, own)
    PROVE  RequestsOK'
<1>1. PICK n : n = [what |-> what, place |-> spot, after |-> after, fresh |-> TRUE, own |-> own,
                    pages |-> 0, served |-> FALSE, page |-> <<>>, next |-> 0]
  OBVIOUS
<1>2. /\ n.what = what /\ n.place = spot /\ n.after = after /\ n.page = <<>> /\ n.next = 0
  BY <1>1
<1>3. spot \in Channels \cup Threads /\ <<>> \in Seq(Items) /\ what \in Reads \cup Writes
  BY DEF Panels, Reads, Writes
<1>4. n \in Asks
  BY <1>1, <1>3 DEF Asks
<1>5. KindOK(n)' /\ PlaceOK(n)'
  BY <1>2 DEF KindOK, PlaceOK, Panels
<1>6. PageOK(n)'
  BY <1>2 DEF PageOK, ToSet, IsInjective
<1>7. AskedOK(n)'
  BY <1>2, <1>5, <1>6 DEF AskedOK
<1>8. FreshOK(n)'
  BY <1>2 DEF FreshOK, Numbered, Panels
<1>9. QED
  BY <1>1, <1>3, <1>4, <1>7, <1>8, Requested

-----------------------------------------------------------------------------
(* ChannelView: steps that draw nothing.                                   *)

\* While what is drawn stays, or in the timeline grows, the cursors stay
\* good and so do the requests.
LEMMA DrawnMore ==
    ASSUME ViewInv, Grown, Grows, TabOK', UNCHANGED <<channel, thread, latest, cursor, retry, blurred>>,
           ToSet(shown) \subseteq ToSet(shown'), shown' = shown \/ section = "messages"
    PROVE  CursorsOK' /\ \A c \in asks : AskedOK(c)' /\ FreshOK(c)'
<1> USE DEF ViewInv
<1>1. /\ Place' = Place /\ Written \subseteq Written' /\ Drawable \subseteq Drawable' /\ section' = section
  BY WrittenGrows DEF Grows
<1>3. ASSUME section \in {"messages", "thread", "events"}, NEW k \in Nat, Place = None \/ Mark(k), Whole(k)
      PROVE  Whole(k)'
  BY <1>3, CursorStands
<1>4. CursorsOK'
  <2>1. /\ latest' \in Nat /\ cursor' \in Nat /\ retry' \in SUBSET Nat
        /\ (retry' # {} => section' = "events" /\ \A q, r \in retry' : q = r)
    BY <1>1 DEF CursorsOK
  <2>2. Place' # None => Mark(latest)' /\ Mark(cursor)' /\ \A r \in retry' : Mark(r)'
    BY <1>1 DEF CursorsOK, Mark
  <2>3. ASSUME section' \in {"messages", "thread", "events"}, ~blurred'
        PROVE  Whole(latest)' /\ Whole(cursor)' /\ \A r \in retry' : Whole(r)' \/ shown' = <<>>
    <3>1. /\ section \in {"messages", "thread", "events"} /\ Whole(latest) /\ Whole(cursor)
          /\ \A r \in retry : Whole(r) \/ shown = <<>>
          /\ retry # {} => shown' = shown
      BY <1>1, <2>3 DEF CursorsOK
    <3>2. PICK k \in Nat : k = latest
      BY DEF CursorsOK
    <3>3. PICK l \in Nat : l = cursor
      BY DEF CursorsOK
    <3>4. Whole(k) /\ (Place = None \/ Mark(k)) /\ Whole(l) /\ (Place = None \/ Mark(l))
      BY <3>1, <3>2, <3>3 DEF CursorsOK, Whole, Mark
    <3>5. Whole(k)' /\ Whole(l)'
      BY <1>3, <3>1, <3>4
    <3>6. latest' = k /\ cursor' = l
      BY <3>2, <3>3
    <3>7. Whole(latest)' /\ Whole(cursor)'
      BY <3>5, <3>6 DEF Whole
    <3>8. \A r \in retry : r \in Nat /\ (Place = None \/ Mark(r))
      BY DEF CursorsOK
    <3>9. \A r \in retry : Whole(r)' \/ shown' = <<>>
      BY <1>3, <3>1, <3>8
    <3>10. QED
      BY <3>7, <3>9
  <2>4. QED
    BY <2>1, <2>2, <2>3 DEF CursorsOK
<1>5. ASSUME NEW c \in asks PROVE AskedOK(c)' /\ FreshOK(c)'
  <2>1. c \in Asks /\ AskedOK(c) /\ FreshOK(c)
    BY DEF RequestsOK
  <2>2. QED
    BY <2>1, RequestStands, FreshStands
<1>6. QED
  BY <1>4, <1>5

\* Where nothing is drawn and no cursor moves, what more is written leaves the
\* drawn items and every request good.
LEMMA StillDrawn ==
    ASSUME ViewInv, Grown, Grows, TabOK', UNCHANGED <<channel, thread, shown, latest, cursor, retry, blurred>>
    PROVE  ShownOK' /\ CursorsOK' /\ \A c \in asks : AskedOK(c)' /\ FreshOK(c)'
<1>1. Place' = Place /\ Drawable \subseteq Drawable'
  BY WrittenGrows DEF ViewInv
<1>2. ShownOK'
  BY <1>1 DEF ViewInv, ShownOK
<1>3. QED
  BY <1>2, DrawnMore

\* A step of the tab that only asks.
LEMMA OnlyAsks ==
    ASSUME ViewInv, AgentTypeOK,
           UNCHANGED <<agentVars, server, section, channel, thread, shown, latest, cursor, retry, blurred>>,
           waiting' \in BOOLEAN, busy' \in BOOLEAN,
           clicks' \in 0 .. MaxClicks[section], lost' \in 0 .. MaxLost,
           busy' => \E a \in asks' : a.fresh /\ a.what \in Panels
    PROVE  /\ ServerOK' /\ TabOK' /\ ShownOK' /\ CursorsOK'
           /\ \A c \in asks : AskedOK(c)' /\ FreshOK(c)'
           /\ RequestsOK' => ViewInv'
<1>1. Grown /\ Grows
  BY QuietGrows
<1>2. made' = made
  BY DEF agentVars
<1>3. TabOK'
  BY <1>2 DEF ViewInv, TabOK
<1>4. ServerOK'
  BY <1>1 DEF Grown
<1>5. ShownOK' /\ CursorsOK' /\ \A c \in asks : AskedOK(c)' /\ FreshOK(c)'
  BY <1>1, <1>3, StillDrawn
<1>6. QED
  BY <1>3, <1>4, <1>5 DEF ViewInv

\* A click is counted up to its bound.
LEMMA ClicksTyped ==
    ASSUME TabOK, Clicks PROVE clicks' \in 0 .. MaxClicks[section]
<1>1. section \in Sections /\ MaxClicks[section] \in Nat
  BY ChannelViewAssumption DEF TabOK
<1>2. QED
  BY <1>1 DEF TabOK, Clicks

\* An Ask keeps a current request of the panel, or makes one.
LEMMA PanelsAsked ==
    ASSUME NEW S, NEW what, NEW spot, NEW after, NEW own, what \in Reads \cup Writes,
           what \notin Panels
    PROVE  \A a \in S : a.what \in Panels => a \in Ask(S, what, spot, after, own)
<1> SUFFICES ASSUME NEW a \in S, a.what \in Panels PROVE a \in Ask(S, what, spot, after, own)
  OBVIOUS
<1>1. a.what \notin Group(what)
  BY DEF Group, Panels, Reads, Writes
<1>2. QED
  BY <1>1 DEF Ask, Stale

\* The buttons of a section, its poll and its composers.
LEMMA AsksKept ==
    ASSUME ViewInv, AgentTypeOK, More \/ Again \/ Send \/ Reply \/ Operate \/ PollForMessages
    PROVE  ViewInv'
<1> USE PlacesApart
<1>a. TabOK /\ ShownOK /\ CursorsOK /\ asks \in SUBSET Asks /\ OneRead(asks)
  BY DEF ViewInv, RequestsOK
<1>b. made \in SUBSET Threads
  BY DEF AgentTypeOK
<1>c. \A c \in asks : c.what \in Panels => section = "panel"
  BY DEF ViewInv, RequestsOK, AskedOK, KindOK, Panels
<1>d. section # "panel" => ~busy
  BY <1>a, <1>c DEF TabOK
<1>1. CASE More \/ Again \/ PollForMessages
  <2>1. /\ UNCHANGED <<agentVars, server, section, channel, thread, shown, latest, cursor, retry, blurred>>
        /\ busy' = busy /\ lost' = lost /\ section # "panel" /\ channel # None
        /\ clicks' = clicks \/ Clicks
    BY <1>1 DEF More, Again, PollForMessages, Reconcile, drawn
  <2>2. waiting' \in BOOLEAN
    BY <1>1, <1>a DEF More, Again, PollForMessages, Reconcile, drawn, TabOK, LoadThreadMessages, ReconcileEvents
  <2>3. clicks' \in 0 .. MaxClicks[section] /\ lost' \in 0 .. MaxLost
    BY <1>a, <2>1, ClicksTyped DEF TabOK
  <2>4. /\ \A c \in asks : AskedOK(c)' /\ FreshOK(c)'
        /\ TabOK' /\ (RequestsOK' => ViewInv')
    BY <1>a, <1>d, <2>1, <2>2, <2>3, OnlyAsks DEF TabOK
  <2>5. Written' = Written /\ Place' = Place /\ made' = made /\ late' = late
    BY <2>1 DEF Written, Place, ListMessages, ListChannelEvents, ListThreads, ListThreadMessages, server, agentVars
  <2>6. ASSUME NEW k \in Nat, NEW what \in Numbered,
               \/ section = "messages" /\ what \in {"load", "refresh"}
               \/ section = "events" /\ what = "events"
               \/ section = "thread" /\ what = "thread" /\ thread # None,
               Mark(k), section \in {"messages", "thread", "events"} /\ ~blurred => Whole(k) \/ (shown = <<>> /\ section = "events"),
               what \in {"load", "thread"} /\ k = 0 => latest = 0,
               asks' = asks \/ asks' = Ask(asks, what, IF what = "thread" THEN thread ELSE channel, k, FALSE)
        PROVE  RequestsOK'
    <3>1. \/ section' = "messages" /\ what \in {"load", "refresh"}
          \/ section' = "events" /\ what = "events"
          \/ section' = "thread" /\ what = "thread"
      BY <2>1, <2>6
    <3>2. /\ what = "thread" => thread = thread' /\ thread \in made'
          /\ what # "thread" => channel = channel' /\ channel \in Channels
      BY <1>a, <2>1, <2>5, <2>6 DEF TabOK
    <3>3. k = 0 \/ k \in Written'
      BY <2>5, <2>6 DEF Mark
    <3>4. \/ blurred'
          \/ \A m \in Written' : m <= k => <<Place', m>> \in ToSet(shown') \cup late'
          \/ shown' = <<>> /\ section' \in {"events", "thread"}
      BY <2>1, <2>5, <2>6 DEF Whole
    <3>5. what \in {"load", "thread"} /\ k = 0 => latest' = 0
      BY <2>1, <2>6
    <3>6. CASE what = "thread"
      BY <1>a, <1>b, <2>4, <2>5, <2>6, <3>1, <3>2, <3>3, <3>4, <3>5, <3>6, NumberedRequest
    <3>7. CASE what # "thread"
      BY <1>a, <1>b, <2>4, <2>5, <2>6, <3>1, <3>2, <3>3, <3>4, <3>5, <3>7, NumberedRequest
    <3>8. QED
      BY <3>6, <3>7
  <2>7. Place # None /\ section \in {"messages", "events", "thread"} =>
          /\ latest \in Nat /\ cursor \in Nat /\ Mark(latest) /\ Mark(cursor)
          /\ ~blurred => Whole(latest) /\ Whole(cursor)
    BY <1>a DEF CursorsOK
  <2>8. CASE section = "messages"
    <3>1. Place # None
      BY <2>1, <2>8 DEF Place
    <3>2. \/ cursor # 0 /\ LoadMessages(asks, cursor)
          \/ RefreshMessages(asks, latest, FALSE)
      BY <1>1, <2>8 DEF More, Again, PollForMessages, Reconcile
    <3>3. CASE cursor # 0 /\ LoadMessages(asks, cursor)
      <4>1. asks' = asks \/ asks' = Ask(asks, "load", channel, cursor, FALSE)
        BY <3>3 DEF LoadMessages
      <4>2. QED
        BY <2>4, <2>6, <2>7, <2>8, <3>1, <3>3, <4>1 DEF Numbered
    <3>4. CASE RefreshMessages(asks, latest, FALSE)
      <4>1. asks' = asks \/ asks' = Ask(asks, "refresh", channel, latest, FALSE)
        BY <3>4 DEF RefreshMessages
      <4>2. QED
        BY <2>4, <2>6, <2>7, <2>8, <3>1, <4>1 DEF Numbered
    <3>5. QED
      BY <3>2, <3>3, <3>4
  <2>9. CASE section = "events"
    <3>1. Place # None
      BY <2>1, <2>9 DEF Place
    <3>2. \E k \in {latest, cursor} \cup retry \cup {0} : asks' = asks \/ asks' = Ask(asks, "events", channel, k, FALSE)
      BY <1>1, <2>9 DEF More, Again, PollForMessages, Reconcile, LoadEvents, ReconcileEvents
    <3>3. PICK k \in {latest, cursor} \cup retry \cup {0} : asks' = asks \/ asks' = Ask(asks, "events", channel, k, FALSE)
      BY <3>2
    <3>4. k \in Nat /\ Mark(k)
      BY <1>a, <3>1, <3>3 DEF CursorsOK, Mark
    <3>5. Whole(0)
      <4>1. Written \subseteq Nat \ {0}
        BY <1>a, <2>9, <3>1 DEF Written, Place, ListChannelEvents, TabOK, ViewInv, ServerOK
      <4>2. QED
        BY <4>1 DEF Whole
    <3>6. ~blurred => Whole(k) \/ shown = <<>>
      BY <1>a, <2>9, <3>3, <3>5 DEF CursorsOK
    <3>7. QED
      BY <2>4, <2>6, <2>9, <3>3, <3>4, <3>6 DEF Numbered
  <2>10. CASE section = "thread"
    <3>1. thread # None
      BY <1>1, <2>10 DEF More, Again, PollForMessages, Reconcile
    <3>2. Place # None
      BY <2>10, <3>1 DEF Place
    <3>3. \/ cursor # 0 /\ (asks' = asks \/ asks' = Ask(asks, "thread", thread, cursor, FALSE))
          \/ asks' = asks \/ asks' = Ask(asks, "thread", thread, latest, FALSE)
      BY <1>1, <2>10 DEF More, Again, PollForMessages, Reconcile, LoadThreadMessages
    <3>4. QED
      BY <2>4, <2>6, <2>7, <2>10, <3>1, <3>2, <3>3 DEF Numbered
  <2>11. CASE section = "list"
    <3>1. asks' = Ask(asks, "list", channel, 0, FALSE) /\ channel' = channel /\ section' = "list"
      BY <1>1, <2>1, <2>11 DEF More, Again, PollForMessages, Reconcile
    <3>2. channel \in Channels
      BY <1>a, <2>1 DEF TabOK
    <3>3. PICK what, after, own : what = "list" /\ after = 0 /\ own = FALSE
      OBVIOUS
    <3>4. /\ after \in Nat /\ own \in BOOLEAN /\ asks' = Ask(asks, what, channel, after, own)
          /\ section' = "list" /\ what = "list" /\ channel = channel' /\ channel \in Channels
          /\ what = "disable" => after \in Subs
      BY <3>1, <3>2, <3>3
    <3>5. made' \in SUBSET Threads
      BY <1>b, <2>5
    <3>6. RequestsOK'
      BY <1>a, <2>4, <3>4, <3>5, OtherRequest
    <3>7. QED
      BY <2>4, <3>6
  <2>12. QED
    BY <1>1, <1>a, <2>1, <2>8, <2>9, <2>10, <2>11 DEF TabOK, Sections, PollForMessages, Reconcile, More, Again
<1>2. CASE Send \/ Reply
  <2>1. PICK what \in {"send", "reply"}, spot \in Channels \cup Threads :
          /\ Compose(what, spot)
          /\ \/ section = "messages" /\ what = "send" /\ spot \in Channels
             \/ section = "thread" /\ what = "reply" /\ spot \in made
    BY <1>2, <1>a, <1>b DEF Send, Reply, TabOK
  <2>2. /\ UNCHANGED <<agentVars, server, section, channel, thread, shown, latest, cursor, retry, blurred>>
        /\ busy' = busy /\ lost' = lost /\ waiting' = waiting /\ Clicks
        /\ asks' = Ask(asks, what, spot, 0, TRUE) /\ made' = made
    BY <2>1 DEF Compose, drawn, agentVars
  <2>3. clicks' \in 0 .. MaxClicks[section] /\ lost' \in 0 .. MaxLost
    BY <1>a, <2>2, ClicksTyped DEF TabOK
  <2>4. /\ \A c \in asks : AskedOK(c)' /\ FreshOK(c)'
        /\ RequestsOK' => ViewInv'
    BY <1>a, <1>d, <2>1, <2>2, <2>3, OnlyAsks DEF TabOK
  <2>5. RequestsOK'
    BY <1>a, <1>b, <2>1, <2>2, <2>4, OtherRequest
  <2>6. QED
    BY <2>4, <2>5
<1>3. CASE Operate
  <2>1. PICK after : after = IF shown = <<>> THEN 0 ELSE Head(shown)[2]
    OBVIOUS
  <2>2. /\ UNCHANGED <<agentVars, server, section, channel, thread, shown, latest, cursor, retry, blurred>>
        /\ busy' = TRUE /\ lost' = lost /\ waiting' = waiting /\ Clicks
        /\ section = "panel" /\ thread # None
        /\ asks' = Ask(asks, Button, thread, after, FALSE) /\ made' = made
    BY <1>3, <2>1 DEF Operate, drawn, agentVars
  <2>3. clicks' \in 0 .. MaxClicks[section] /\ lost' \in 0 .. MaxLost
    BY <1>a, <2>2, ClicksTyped DEF TabOK
  <2>4. \E a \in asks' : a.fresh /\ a.what \in Panels
    <3>1. PICK a : a = [what |-> Button, place |-> thread, after |-> after, fresh |-> TRUE, own |-> FALSE,
                        pages |-> 0, served |-> FALSE, page |-> <<>>, next |-> 0]
      OBVIOUS
    <3>2. a \in asks' /\ a.fresh /\ a.what = Button
      BY <2>2, <3>1 DEF Ask
    <3>3. Button \in Panels
      BY DEF Button, Panels
    <3>4. QED
      BY <3>2, <3>3
  <2>5. /\ \A c \in asks : AskedOK(c)' /\ FreshOK(c)'
        /\ RequestsOK' => ViewInv'
    BY <1>a, <2>2, <2>3, <2>4, OnlyAsks DEF TabOK
  <2>6. after \in Nat /\ (Button = "disable" => after \in Subs) /\ Button \in Panels
    <3>1. CASE shown = <<>>
      BY <2>1, <3>1 DEF Button, Panels
    <3>2. CASE shown # <<>>
      <4>1. Head(shown) \in ToSet(shown)
        BY <1>a, <3>2 DEF ShownOK, ToSet
      <4>2. Head(shown)[2] \in Subs
        BY <1>a, <2>2, <4>1 DEF ShownOK, Drawable
      <4>3. QED
        BY <2>1, <3>2, <4>2, ThreadAgentsAssumption DEF Button, Panels, Subs
    <3>3. QED
      BY <3>1, <3>2
  <2>7. thread \in made
    BY <1>a, <2>2 DEF TabOK
  <2>8. RequestsOK'
    BY <1>a, <1>b, <2>2, <2>5, <2>6, <2>7, OtherRequest
  <2>9. QED
    BY <2>5, <2>8
<1>4. QED
  BY <1>1, <1>2, <1>3

-----------------------------------------------------------------------------
(* ChannelView: steps that open or close a place.                          *)

\* Where nothing has been drawn nothing is missing.
LEMMA Afresh ==
    ASSUME ServerOK', TabOK', made' \in SUBSET Threads, posts' \in [Threads -> Nat],
           latest' = 0, cursor' = 0, retry' = {}
    PROVE  CursorsOK' /\ \A m \in Written' : section' \in {"messages", "thread", "events"} => ~(m <= 0)
<1>1. section' \in {"messages", "thread", "events"} => Written' \in SUBSET (Nat \ {0})
  <2>1. CASE Place' = None
    BY <2>1 DEF Written
  <2>2. CASE Place' # None /\ section' = "messages"
    <3>1. Written' = 1 .. said'[channel'] /\ said'[channel'] \in Nat
      BY <2>2 DEF Written, Place, ListMessages, ServerOK, TabOK
    <3>2. QED
      BY <3>1
  <2>3. CASE Place' # None /\ section' = "events"
    BY <2>3 DEF Written, Place, ListChannelEvents, ServerOK, TabOK
  <2>4. CASE Place' # None /\ section' = "thread"
    <3>1. Written' = 1 .. posts'[thread'] /\ posts'[thread'] \in Nat
      BY <2>4 DEF Written, Place, ListThreadMessages, TabOK
    <3>2. QED
      BY <3>1
  <2>5. QED
    BY <2>1, <2>2, <2>3, <2>4
<1>2. ASSUME section' \in {"messages", "thread", "events"}, NEW m \in Written' PROVE ~(m <= 0)
  BY <1>1, <1>2
<1>3. CursorsOK'
  BY <1>2 DEF CursorsOK, Mark, Whole
<1>4. QED
  BY <1>2, <1>3

\* An empty section shows nothing twice.
LEMMA NothingShown == ASSUME shown' = <<>> PROVE ShownOK'
BY DEF ShownOK, ToSet, IsInjective

\* Requests that have lost their token are good.
LEMMA AllStale ==
    ASSUME ViewInv, Grown, Grows, NEW whats, \A c \in asks : c.fresh /\ c.what \in Reads => c.what \in whats,
           \A c \in asks : c.what \in Panels => c.what \in whats
    PROVE  /\ Stale(asks, whats) \in SUBSET Asks /\ OneRead(Stale(asks, whats))
           /\ \A c \in Stale(asks, whats) : AskedOK(c)' /\ FreshOK(c)'
<1>1. ASSUME NEW c \in Stale(asks, whats)
      PROVE  c \in Asks /\ AskedOK(c)' /\ FreshOK(c)' /\ ~(c.fresh /\ c.what \in Reads)
  <2>1. CASE c \in asks /\ c.what \notin whats
    <3>1. c \in Asks /\ AskedOK(c) /\ ~(c.fresh /\ c.what \in Reads \cup Panels)
      BY <2>1 DEF ViewInv, RequestsOK
    <3>2. FreshOK(c)'
      BY <3>1 DEF FreshOK, Reads, Numbered, Panels
    <3>3. QED
      BY <3>1, <3>2, RequestStands
  <2>2. ASSUME NEW b \in asks, c = [b EXCEPT !.fresh = FALSE]
        PROVE  c \in Asks /\ AskedOK(c)' /\ FreshOK(c)' /\ ~c.fresh
    <3>1. b \in Asks /\ AskedOK(b)
      BY DEF ViewInv, RequestsOK
    <3>2. AskedOK(b)'
      BY <3>1, RequestStands
    <3>3. QED
      BY <2>2, <3>1, <3>2, Unfresh
  <2>3. asks \in SUBSET Asks
    BY DEF ViewInv, RequestsOK
  <2>4. QED
    BY <2>1, <2>2, <2>3, StaleIs
<1>2. QED
  BY <1>1 DEF OneRead

\* Choosing a channel (select) empties the section and makes every request
\* of another one stale.
LEMMA SelectKept ==
    ASSUME ViewInv, AgentTypeOK, NEW c \in Channels, Select(c)
    PROVE  ViewInv'
<1> USE PlacesApart
<1>1. /\ UNCHANGED <<agentVars, server>> /\ section' = section /\ lost' = lost /\ Clicks
      /\ channel' = c /\ thread' = None /\ shown' = <<>> /\ latest' = 0 /\ cursor' = 0 /\ retry' = {}
      /\ waiting' = FALSE /\ busy' = FALSE /\ blurred' = FALSE
  BY DEF Select
<1>2. Grown /\ Grows
  BY <1>1, QuietGrows
<1>3. made' = made /\ posts' = posts /\ made' \in SUBSET Threads /\ posts' \in [Threads -> Nat]
  BY <1>1 DEF agentVars, AgentTypeOK
<1>4. TabOK'
  BY <1>1, <1>3, ClicksTyped DEF TabOK, ViewInv
<1>5. ServerOK' /\ CursorsOK'
  BY <1>1, <1>2, <1>3, <1>4, Afresh DEF Grown
<1>6. ShownOK'
  BY <1>1, NothingShown
<1>7. PICK S : S = Stale(asks, Reads \cup Writes)
  OBVIOUS
<1>8. S \in SUBSET Asks /\ OneRead(S) /\ \A b \in S : AskedOK(b)' /\ FreshOK(b)'
  <2>1. Panels \subseteq Reads \cup Writes
    BY DEF Panels, Reads, Writes
  <2>2. QED
    BY <1>2, <1>7, <2>1, AllStale
<1>9. RequestsOK'
  <2>1. CASE section \in {"messages", "events"}
    <3>1. PICK what, after, own : what = (IF section = "messages" THEN "load" ELSE "events") /\ after = 0 /\ own = FALSE
      OBVIOUS
    <3>2. asks' = Ask(S, what, c, after, own) /\ what \in Numbered /\ after \in Nat /\ own \in BOOLEAN
      BY <1>7, <2>1, <3>1 DEF Select, Numbered
    <3>3. /\ (section' = "messages" /\ what \in {"load", "refresh"}) \/ (section' = "events" /\ what = "events")
          /\ what # "thread"
      BY <1>1, <2>1, <3>1
    <3>4. \A m \in Written' : m <= after => <<Place', m>> \in ToSet(shown') \cup late'
      BY <1>1, <1>2, <1>3, <1>4, <2>1, <3>1, Afresh DEF Grown
    <3>5. QED
      BY <1>1, <1>3, <1>8, <3>1, <3>2, <3>3, <3>4, NumberedRequest
  <2>2. CASE section = "list"
    <3>1. PICK what, after, own : what = "list" /\ after = 0 /\ own = FALSE
      OBVIOUS
    <3>2. asks' = Ask(S, what, c, after, own) /\ section' = "list" /\ after \in Nat /\ own \in BOOLEAN
          /\ what # "disable" /\ c = channel'
      BY <1>1, <1>7, <2>2, <3>1 DEF Select
    <3>3. QED
      BY <1>3, <1>8, <3>1, <3>2, OtherRequest
  <2>3. CASE section \notin {"messages", "events", "list"}
    <3>1. asks' = S
      BY <1>7, <2>3 DEF Select
    <3>2. QED
      BY <1>8, <3>1 DEF RequestsOK, OneRead
  <2>4. QED
    BY <2>1, <2>2, <2>3
<1>10. QED
  BY <1>4, <1>5, <1>6, <1>9 DEF ViewInv

\* Leaving the channel (syncRoutedChannel) does so too.
LEMMA LeaveKept ==
    ASSUME ViewInv, AgentTypeOK, Leave
    PROVE  ViewInv'
<1>1. /\ UNCHANGED <<agentVars, server>> /\ section' = section /\ lost' = lost /\ Clicks
      /\ channel' = None /\ thread' = None /\ shown' = <<>> /\ busy' = FALSE
      /\ UNCHANGED <<latest, cursor, retry, waiting, blurred>>
      /\ asks' = Stale(asks, Reads \cup Writes)
  BY DEF Leave
<1>2. Grown /\ Grows
  BY <1>1, QuietGrows
<1>3. made' = made
  BY <1>1 DEF agentVars
<1>4. TabOK'
  BY <1>1, <1>3, ClicksTyped DEF TabOK, ViewInv
<1>5. Place' = None /\ Written' = {}
  BY <1>1 DEF Place, Written
<1>6. CursorsOK'
  BY <1>1, <1>5 DEF ViewInv, CursorsOK, Whole
<1>7. RequestsOK'
  <2>1. Panels \subseteq Reads \cup Writes
    BY DEF Panels, Reads, Writes
  <2>2. QED
    BY <1>1, <1>2, <2>1, AllStale DEF RequestsOK, OneRead
<1>8. QED
  BY <1>1, <1>2, <1>4, <1>6, <1>7, NothingShown DEF ViewInv, Grown

\* What has lost its token cannot lose it again.
LEMMA StaleAgain ==
    ASSUME NEW S \in SUBSET Asks, NEW whats
    PROVE  Stale(Stale(S, whats), whats) = Stale(S, whats)
<1>1. ASSUME NEW b \in Stale(S, whats)
      PROVE  b \in Stale(Stale(S, whats), whats) /\ (b.what \in whats => [b EXCEPT !.fresh = FALSE] = b)
  <2>1. CASE b \in S /\ b.what \notin whats
    BY <2>1 DEF Stale
  <2>2. ASSUME NEW a \in S, b = [a EXCEPT !.fresh = FALSE] PROVE [b EXCEPT !.fresh = FALSE] = b
    BY <2>2 DEF Asks
  <2>3. QED
    BY <2>1, <2>2, StaleIs DEF Stale
<1>2. ASSUME NEW b \in Stale(Stale(S, whats), whats) PROVE b \in Stale(S, whats)
  BY <1>1, <1>2 DEF Stale
<1>3. QED
  BY <1>1, <1>2

\* So does opening a thread (selectThread).
LEMMA OpenThreadKept ==
    ASSUME ViewInv, AgentTypeOK, NEW t \in Threads, OpenThread(t)
    PROVE  ViewInv'
<1> USE PlacesApart
<1>1. /\ UNCHANGED <<agentVars, server>> /\ section' = section /\ lost' = lost /\ Clicks
      /\ channel' = channel /\ thread' = t /\ t \in made /\ section \in {"thread", "panel"}
      /\ shown' = <<>> /\ latest' = 0 /\ cursor' = 0 /\ blurred' = FALSE /\ retry' = retry
  BY DEF OpenThread
<1>2. Grown /\ Grows
  BY <1>1, QuietGrows
<1>3. made' = made /\ posts' = posts /\ made' \in SUBSET Threads /\ posts' \in [Threads -> Nat]
  BY <1>1 DEF agentVars, AgentTypeOK
<1>4. retry' = {}
  BY <1>1 DEF ViewInv, CursorsOK
<1>5. ShownOK'
  BY <1>1, NothingShown
<1>6. PICK S : S = Stale(asks, Panels)
  OBVIOUS
<1>7. asks \in SUBSET Asks /\ OneRead(asks) /\ \A c \in asks : AskedOK(c) /\ FreshOK(c) /\ KindOK(c)
  BY DEF ViewInv, RequestsOK, AskedOK
<1>8. CASE section = "panel"
  <2>1. PICK what, after, own : what = "panel" /\ after = 0 /\ own = FALSE
    OBVIOUS
  <2>2. /\ asks' = Ask(S, what, t, after, own) /\ busy' = TRUE /\ waiting' = waiting
        /\ section' = "panel" /\ what \in Panels /\ after \in Nat /\ own \in BOOLEAN /\ t = thread' /\ t \in made'
        /\ what # "disable"
    BY <1>1, <1>3, <1>6, <1>8, <2>1 DEF OpenThread, Panels
  <2>3. \E a \in asks' : a.fresh /\ a.what \in Panels
    <3>1. PICK a : a = [what |-> what, place |-> t, after |-> after, fresh |-> TRUE, own |-> own,
                        pages |-> 0, served |-> FALSE, page |-> <<>>, next |-> 0]
      OBVIOUS
    <3>2. a \in asks' /\ a.fresh /\ a.what = what
      BY <2>2, <3>1 DEF Ask
    <3>3. QED
      BY <2>2, <3>2
  <2>4. TabOK'
    BY <1>1, <1>3, <2>2, <2>3, ClicksTyped DEF TabOK, ViewInv
  <2>5. ServerOK' /\ CursorsOK'
    BY <1>1, <1>2, <1>3, <1>4, <2>4, Afresh DEF Grown
  <2>6. \A c \in asks : c.what \in Panels
    BY <1>7, <1>8 DEF KindOK
  <2>7. S \in SUBSET Asks /\ OneRead(S) /\ \A b \in S : AskedOK(b)' /\ FreshOK(b)'
    BY <1>2, <1>6, <2>6, AllStale
  <2>8. RequestsOK'
    BY <1>3, <2>2, <2>7, OtherRequest
  <2>9. QED
    BY <1>5, <2>4, <2>5, <2>8 DEF ViewInv
<1>9. CASE section = "thread"
  <2>1. /\ busy' = FALSE /\ LoadThreadMessages(S, t, 0, FALSE, waiting)
    BY <1>6, <1>9 DEF OpenThread, Panels
  <2>2. waiting' \in BOOLEAN
    BY <2>1 DEF LoadThreadMessages, ViewInv, TabOK
  <2>3. TabOK'
    BY <1>1, <1>3, <2>1, <2>2, ClicksTyped DEF TabOK, ViewInv
  <2>4. ServerOK' /\ CursorsOK'
    BY <1>1, <1>2, <1>3, <1>4, <2>3, Afresh DEF Grown
  <2>5. \A c \in asks : c.what \in {"thread", "reply"}
    BY <1>7, <1>9 DEF KindOK
  <2>6. S = asks
    <3>1. \A c \in asks : (IF c.what \in Panels THEN [c EXCEPT !.fresh = FALSE] ELSE c) = c
      BY <2>5 DEF Panels
    <3>2. QED
      BY <1>6, <3>1 DEF Stale
  <2>7. CASE {a \in Fresh(S, {"thread"}) : a.place = t} # {}
    <3>1. asks' = asks
      BY <2>1, <2>6, <2>7 DEF LoadThreadMessages
    <3>2. PICK u \in asks : u.fresh /\ u.what = "thread" /\ u.place = t
      BY <2>6, <2>7 DEF Fresh
    <3>3. thread = t
      BY <1>7, <3>2 DEF FreshOK
    <3>4. Written' = Written /\ Place' = Place
      BY <1>1, <1>3, <3>3 DEF Written, Place, ListMessages, ListChannelEvents, ListThreads, ListThreadMessages, server
    <3>5. ASSUME NEW c \in asks PROVE AskedOK(c)' /\ FreshOK(c)'
      <4>1. c \in Asks /\ AskedOK(c)'
        BY <1>2, <1>7, RequestStands
      <4>2. ASSUME c.fresh, c.what \in Numbered PROVE Mark(c.after)' /\ c.place = thread'
        BY <1>1, <1>7, <2>5, <3>3, <3>4, <4>2 DEF FreshOK, Mark, Numbered
      <4>3. FreshOK(c)'
        BY <1>1, <1>9, <2>5, <4>2 DEF FreshOK, Numbered, Panels
      <4>4. QED
        BY <4>1, <4>3
    <3>6. RequestsOK'
      BY <1>7, <3>1, <3>5 DEF RequestsOK, OneRead
    <3>7. QED
      BY <1>5, <2>3, <2>4, <3>6 DEF ViewInv
  <2>8. CASE {a \in Fresh(S, {"thread"}) : a.place = t} = {}
    <3>1. PICK what, after, own : what = "thread" /\ after = 0 /\ own = FALSE
      OBVIOUS
    <3>2. asks' = Ask(S, what, t, after, own)
      BY <2>1, <2>8, <3>1 DEF LoadThreadMessages
    <3>3. PICK R : R = Stale(asks, {"thread"})
      OBVIOUS
    <3>4. Group(what) = {"thread"}
      BY <3>1 DEF Group
    <3>5. asks' = Ask(R, what, t, after, own)
      BY <1>7, <2>6, <3>2, <3>3, <3>4, StaleAgain DEF Ask
    <3>6. \A c \in asks : /\ c.fresh /\ c.what \in Reads => c.what \in {"thread"}
                          /\ c.what \in Panels => c.what \in {"thread"}
      BY <2>5 DEF Reads, Panels
    <3>7. R \in SUBSET Asks /\ OneRead(R) /\ \A b \in R : AskedOK(b)' /\ FreshOK(b)'
      BY <1>2, <3>3, <3>6, AllStale
    <3>8. /\ what \in Numbered /\ after \in Nat /\ own \in BOOLEAN /\ section' = "thread" /\ what = "thread"
          /\ t = thread' /\ t \in made' /\ shown' = <<>> /\ latest' = 0 /\ after = 0
      BY <1>1, <1>3, <1>9, <3>1 DEF Numbered
    <3>9. RequestsOK'
      BY <1>3, <3>5, <3>7, <3>8, NumberedRequest
    <3>10. QED
      BY <1>5, <2>3, <2>4, <3>9 DEF ViewInv
  <2>9. QED
    BY <2>7, <2>8
<1>10. QED
  BY <1>1, <1>8, <1>9

-----------------------------------------------------------------------------
(* ChannelView: what an answer draws.                                      *)

\* What a page is drawn as.
Pairs(a) == {<<a.place, n>> : n \in ToSet(a.page)}

\* A page is drawn as one item for each of its numbers, in their order.
LEMMA TaggedIs ==
    ASSUME NEW a \in Asks, IsInjective(a.page)
    PROVE  /\ Tagged(a) \in Seq((Channels \cup Threads) \X Items)
           /\ IsInjective(Tagged(a)) /\ ToSet(Tagged(a)) = Pairs(a)
           /\ a.page # <<>> => Tagged(a) # <<>> /\ Last(Tagged(a)) = <<a.place, Last(a.page)>>
           /\ a.page = <<>> => Tagged(a) = <<>>
<1>1. PICK s \in Seq(Items) : s = a.page
  BY DEF Asks
<1>2. PICK p \in Channels \cup Threads : p = a.place
  BY DEF Asks
<1>3. Len(s) \in Nat /\ DOMAIN s = 1 .. Len(s) /\ \A k \in 1 .. Len(s) : s[k] \in Items
  OBVIOUS
<1>4. Tagged(a) = [k \in 1 .. Len(s) |-> <<p, s[k]>>]
  BY <1>1, <1>2, <1>3 DEF Tagged
<1>5. PICK q : q = [k \in 1 .. Len(s) |-> <<p, s[k]>>]
  OBVIOUS
<1>6. q \in Seq((Channels \cup Threads) \X Items) /\ Len(q) = Len(s)
  BY <1>3, <1>5
<1>7. IsInjective(q)
  BY <1>1, <1>3, <1>5 DEF IsInjective
<1>8. ToSet(q) = Pairs(a)
  BY <1>1, <1>2, <1>3, <1>5 DEF ToSet, Pairs
<1>9. s # <<>> => q # <<>> /\ Last(q) = <<p, Last(s)>>
  <2> SUFFICES ASSUME s # <<>> PROVE q # <<>> /\ Last(q) = <<p, Last(s)>>
    OBVIOUS
  <2>1. Len(s) \in 1 .. Len(s)
    BY <1>3
  <2>2. q[Len(s)] = <<p, s[Len(s)]>>
    BY <1>5, <2>1
  <2>3. q # <<>>
    BY <1>6, <2>1
  <2>4. QED
    BY <1>6, <2>2, <2>3 DEF Last
<1>10. s = <<>> => q = <<>>
  BY <1>6
<1>11. QED
  BY <1>1, <1>2, <1>4, <1>5, <1>6, <1>7, <1>8, <1>9, <1>10

\* A sequence has finitely many items.
LEMMA RangeIsFinite ==
    ASSUME NEW T, NEW s \in Seq(T) PROVE IsFiniteSet(ToSet(s))
<1>1. Len(s) \in Nat /\ DOMAIN s = 1 .. Len(s)
  OBVIOUS
<1>2. s \in Surjection(1 .. Len(s), ToSet(s))
  BY <1>1 DEF Surjection, ToSet
<1>3. IsFiniteSet(1 .. Len(s))
  BY <1>1, Intervals
<1>4. QED
  BY <1>2, <1>3, FS_Surjection

\* What is drawn with a page after it: each item once.
LEMMA UnseenIs ==
    ASSUME ShownOK, NEW a \in Asks, IsInjective(a.page), ToSet(a.page) \in SUBSET Nat
    PROVE  /\ shown \o Unseen(a) \in Seq((Channels \cup Threads) \X Items)
           /\ IsInjective(shown \o Unseen(a))
           /\ ToSet(shown \o Unseen(a)) = ToSet(shown) \cup Pairs(a)
<1> DEFINE New == {n \in ToSet(a.page) : <<a.place, n>> \notin ToSet(shown)}
<1>1. PICK s \in Seq(Items) : s = a.page
  BY DEF Asks
<1>2. PICK p \in Channels \cup Threads : p = a.place
  BY DEF Asks
<1>3. IsFiniteSet(ToSet(a.page))
  BY <1>1, RangeIsFinite
<1>4. New \in SUBSET ToSet(a.page) /\ New \in SUBSET Nat
  OBVIOUS
<1>5. IsFiniteSet(New)
  BY <1>3, <1>4, FS_Subset
<1>6. PICK A : A = Ascending(New)
  OBVIOUS
<1>7. A \in Seq(New) /\ ToSet(A) = New /\ IsInjective(A)
  BY <1>4, <1>5, <1>6, AscendingIs
<1>8. Len(A) \in Nat /\ DOMAIN A = 1 .. Len(A) /\ \A k \in 1 .. Len(A) : A[k] \in New
  BY <1>7
<1>9. PICK q : q = [k \in 1 .. Len(A) |-> <<p, A[k]>>]
  OBVIOUS
<1>10. Unseen(a) = q
  BY <1>2, <1>6, <1>8, <1>9 DEF Unseen
<1>11. \A k \in 1 .. Len(A) : A[k] \in Items
  BY <1>4, <1>8 DEF Items
<1>12. q \in Seq((Channels \cup Threads) \X Items)
  BY <1>8, <1>9, <1>11
<1>13. IsInjective(q)
  BY <1>7, <1>8, <1>9 DEF IsInjective
<1>14. ToSet(q) = {<<p, n>> : n \in New}
  <2>1. \A k \in 1 .. Len(A) : q[k] = <<p, A[k]>>
    BY <1>9
  <2>2. ToSet(q) \subseteq {<<p, n>> : n \in New}
    BY <1>8, <1>9, <2>1 DEF ToSet
  <2>3. ASSUME NEW n \in New PROVE <<p, n>> \in ToSet(q)
    <3>1. PICK k \in 1 .. Len(A) : A[k] = n
      BY <1>7, <1>8, <2>3 DEF ToSet
    <3>2. QED
      BY <1>9, <2>1, <3>1 DEF ToSet
  <2>4. QED
    BY <2>2, <2>3
<1>15. ToSet(shown) \cap ToSet(q) = {}
  BY <1>2, <1>14
<1>16. /\ shown \o q \in Seq((Channels \cup Threads) \X Items) /\ IsInjective(shown \o q)
       /\ ToSet(shown \o q) = ToSet(shown) \cup ToSet(q)
  BY <1>12, <1>13, <1>15, Concatenated DEF ShownOK
<1>17. ToSet(shown) \cup {<<p, n>> : n \in New} = ToSet(shown) \cup Pairs(a)
  BY <1>2 DEF Pairs
<1>18. QED
  BY <1>10, <1>14, <1>16, <1>17

-----------------------------------------------------------------------------
(* ChannelView: answers.                                                   *)

\* Where the tab stands while a request ends.
Stays == UNCHANGED <<agentVars, server, section, channel, thread, clicks>> /\ lost' \in 0 .. MaxLost

\* While the tab stands and a request ends, nothing is written.
LEMMA StaysGrows ==
    ASSUME ViewInv, AgentTypeOK, Stays
    PROVE  /\ Grown /\ Grows /\ made' = made /\ made' \in SUBSET Threads /\ late' = late
           /\ section' = section /\ channel' = channel /\ thread' = thread /\ Place' = Place
           /\ Written' = Written /\ Drawable' = Drawable
           /\ section \in {"messages", "thread", "events"} => Written \in SUBSET (Nat \ {0})
<1>1. UNCHANGED <<agentVars, server>> /\ section' = section /\ channel' = channel /\ thread' = thread
  BY DEF Stays
<1>2. Grown /\ Grows
  BY <1>1, QuietGrows
<1>3. made' = made /\ posts' = posts /\ late' = late /\ said' = said /\ bound' = bound
  BY <1>1 DEF agentVars, server
<1>4. made' \in SUBSET Threads
  BY <1>3 DEF AgentTypeOK
<1>5. Place' = Place
  BY <1>1 DEF Place
<1>6. Written' = Written
  BY <1>1, <1>3, <1>5 DEF Written, ListMessages, ListChannelEvents, ListThreads, ListThreadMessages
<1>7. Drawable' = Drawable
  BY <1>1, <1>6 DEF Drawable
<1>8. section \in {"messages", "thread", "events"} => Written \in SUBSET (Nat \ {0})
  BY <1>1, <1>2, WrittenGrows DEF ViewInv
<1>9. QED
  BY <1>1, <1>2, <1>3, <1>4, <1>5, <1>6, <1>7, <1>8

\* The tab's own state after an answer in a section that is never busy.
LEMMA TabStays ==
    ASSUME ViewInv, AgentTypeOK, Stays, section # "panel", busy' = busy,
           waiting' \in BOOLEAN, blurred' \in BOOLEAN
    PROVE  TabOK'
<1>1. \A c \in asks : c.what \notin Panels
  BY DEF ViewInv, RequestsOK, AskedOK, KindOK, Panels
<1>2. ~busy
  BY <1>1 DEF ViewInv, TabOK
<1>3. made' = made
  BY StaysGrows
<1>4. QED
  BY <1>2, <1>3 DEF ViewInv, TabOK, Stays

\* What is left when a current read is taken.
LEMMA OthersStand ==
    ASSUME ViewInv, AgentTypeOK, Stays, NEW a \in asks, a.fresh, a.what \in Reads
    PROVE  /\ asks \ {a} \in SUBSET Asks /\ OneRead(asks \ {a})
           /\ \A c \in asks \ {a} : /\ ~(c.fresh /\ c.what \in Reads)
                                    /\ AskedOK(c)' /\ FreshOK(c)'
<1>1. asks \in SUBSET Asks /\ OneRead(asks) /\ \A c \in asks : AskedOK(c) /\ FreshOK(c)
  BY DEF ViewInv, RequestsOK
<1>2. Grown /\ Grows /\ thread' = thread
  BY StaysGrows
<1>3. ASSUME NEW c \in asks \ {a} PROVE ~(c.fresh /\ c.what \in Reads) /\ AskedOK(c)' /\ FreshOK(c)'
  <2>1. ~(c.fresh /\ c.what \in Reads)
    BY <1>1 DEF OneRead
  <2>2. QED
    BY <1>1, <1>2, <2>1, RequestStands, FreshAside
<1>4. QED
  BY <1>1, <1>3 DEF OneRead

\* An answer that is taken draws its page, whole up to any of its items.
LEMMA PageDrawn ==
    ASSUME ViewInv, AgentTypeOK, Stays, NEW a \in asks, a.fresh, a.what \in Numbered,
           \/ a.after = 0 /\ shown' = Tagged(a)
           \/ shown' = shown \o Unseen(a)
    PROVE  /\ ShownOK'
           /\ Place # None /\ Place = a.place /\ section \in {"messages", "thread", "events"}
           /\ ToSet(a.page) \subseteq Written /\ a.page \in Seq(Items)
           /\ a.page = <<>> => shown' = shown \/ shown' = <<>>
           /\ ToSet(shown') = Pairs(a) \/ ToSet(shown') = ToSet(shown) \cup Pairs(a)
           /\ a.page # <<>> => Last(a.page) \in ToSet(a.page)
           /\ a.next = 0 \/ (a.page # <<>> /\ a.next = Last(a.page))
           /\ \A n \in ToSet(a.page) : n \in Nat /\ Mark(n)'
           /\ a.after = 0 \/ Whole(a.after) => \A n \in ToSet(a.page) : Whole(n)'
           /\ Whole(0)' /\ Mark(0)'
<1>1. a \in Asks /\ AskedOK(a) /\ FreshOK(a)
  BY DEF ViewInv, RequestsOK
<1>2. made \in SUBSET Threads
  BY DEF AgentTypeOK
<1>3. Place # None /\ Place = a.place /\ Listing(a) = Written /\ section \in {"messages", "thread", "events"}
  BY <1>1, <1>2, FreshIsOpen
<1>4. /\ Place' = Place /\ Written' = Written /\ Drawable' = Drawable /\ late' = late /\ section' = section
      /\ Written \in SUBSET (Nat \ {0})
  BY <1>3, StaysGrows
<1>5. ToSet(a.page) \subseteq Written /\ IsInjective(a.page) /\ a.page \in Seq(Items) /\ ToSet(a.page) \in SUBSET Nat
  BY <1>1, <1>3, <1>4 DEF AskedOK, PageOK, Asks
<1>6. ShownOK
  BY DEF ViewInv
<1>7. /\ Tagged(a) \in Seq((Channels \cup Threads) \X Items) /\ IsInjective(Tagged(a)) /\ ToSet(Tagged(a)) = Pairs(a)
      /\ a.page = <<>> => Tagged(a) = <<>>
  BY <1>1, <1>5, TaggedIs
<1>8. /\ shown \o Unseen(a) \in Seq((Channels \cup Threads) \X Items) /\ IsInjective(shown \o Unseen(a))
      /\ ToSet(shown \o Unseen(a)) = ToSet(shown) \cup Pairs(a)
  BY <1>1, <1>5, <1>6, UnseenIs
<1>9. \A x \in ToSet(shown') : x \in ToSet(shown) \/ x \in Pairs(a)
  BY <1>7, <1>8
<1>10. \A x \in Pairs(a) : x[1] = Place /\ x[2] \in Drawable
  BY <1>3, <1>5 DEF Pairs, Drawable
<1>11. ShownOK'
  BY <1>4, <1>6, <1>7, <1>8, <1>9, <1>10 DEF ShownOK
<1>12. ToSet(shown') = Pairs(a) \/ ToSet(shown') = ToSet(shown) \cup Pairs(a)
  BY <1>7, <1>8
<1>13. a.page # <<>> => Last(a.page) \in ToSet(a.page)
  BY <1>5, LastIs
<1>14. a.next = 0 \/ (a.page # <<>> /\ a.next = Last(a.page))
  BY <1>1 DEF AskedOK, PageOK
<1>15. \A n \in ToSet(a.page) : n \in Nat /\ Mark(n)'
  BY <1>4, <1>5 DEF Mark
<1>16. Whole(0)' /\ Mark(0)'
  BY <1>4 DEF Whole, Mark
<1>17. ASSUME a.after = 0 \/ Whole(a.after), NEW n \in ToSet(a.page), NEW m \in Written, m <= n
       PROVE  <<Place, m>> \in ToSet(shown') \cup late'
  <2>1. a.after \in Nat /\ m \in Nat \ {0}
    BY <1>1, <1>4 DEF Asks
  <2>2. CASE a.after < m
    <3>1. m \in ToSet(a.page) \/ <<a.place, m>> \in late
      BY <1>1, <1>3, <1>17, <2>2 DEF AskedOK, PageOK
    <3>2. CASE m \in ToSet(a.page)
      BY <1>3, <1>12, <3>2 DEF Pairs
    <3>3. QED
      BY <1>3, <1>4, <3>1, <3>2
  <2>3. CASE m <= a.after
    <3>1. Whole(a.after) /\ a.after # 0
      BY <1>17, <2>1, <2>3
    <3>2. <<Place, m>> \in ToSet(shown) \cup late
      BY <1>17, <2>3, <3>1 DEF Whole
    <3>3. ToSet(shown) \subseteq ToSet(shown')
      BY <1>8, <3>1
    <3>4. QED
      BY <1>4, <3>2, <3>3
  <2>4. QED
    BY <2>1, <2>2, <2>3
<1>18. a.after = 0 \/ Whole(a.after) => \A n \in ToSet(a.page) : Whole(n)'
  BY <1>4, <1>17 DEF Whole
<1>19. a.page = <<>> => shown' = shown \/ shown' = <<>>
  <2>1. ASSUME a.page = <<>> PROVE shown \o Unseen(a) = shown
    <3>1. DOMAIN a.page = {} /\ ToSet(a.page) = {}
      BY <2>1 DEF ToSet
    <3>2. PICK A : A = Ascending({})
      OBVIOUS
    <3>3. {n \in ToSet(a.page) : <<a.place, n>> \notin ToSet(shown)} = {}
      BY <3>1
    <3>4. Cardinality({}) = 0
      BY FS_EmptySet
    <3>5. DOMAIN A = 1 .. 0
      BY <3>2, <3>4 DEF Ascending
    <3>6. Unseen(a) = <<>>
      <4>1. PICK q : q = [k \in 1 .. 0 |-> <<a.place, A[k]>>]
        OBVIOUS
      <4>2. q \in Seq({}) /\ Len(q) = 0
        BY <4>1
      <4>3. q = <<>>
        BY <4>2
      <4>4. Unseen(a) = q
        BY <3>2, <3>3, <3>5, <4>1 DEF Unseen
      <4>5. QED
        BY <4>3, <4>4
    <3>7. QED
      BY <1>6, <3>6 DEF ShownOK
  <2>2. QED
    BY <1>7, <2>1
<1>20. QED
  BY <1>3, <1>5, <1>11, <1>12, <1>13, <1>14, <1>15, <1>16, <1>18, <1>19

\* A cursor that is kept while more is drawn.
LEMMA CursorKept ==
    ASSUME ViewInv, AgentTypeOK, Stays, ToSet(shown) \subseteq ToSet(shown'), NEW k
    PROVE  (Mark(k) => Mark(k)') /\ (Whole(k) => Whole(k)')
BY StaysGrows DEF Mark, Whole

\* After an answer: new cursors, each nothing, an item of the page, or kept.
LEMMA CursorsSet ==
    ASSUME Place' # None, section' \in {"messages", "thread", "events"},
           retry' = {}, NEW l \in Nat, NEW k \in Nat, latest' = l, cursor' = k,
           Mark(l)', Mark(k)', ~blurred' => Whole(l)' /\ Whole(k)'
    PROVE  CursorsOK'
BY DEF CursorsOK, Mark, Whole

\* Only events are asked for again by their cursor.
LEMMA NoRetry == ASSUME ViewInv, section # "events" PROVE retry = {}
BY DEF ViewInv, CursorsOK

\* The first page of messages and the next ones (loadMessages).
LEMMA GotMessagesKept ==
    ASSUME ViewInv, AgentTypeOK, Stays, NEW a \in asks, a.fresh, GotMessages(a)
    PROVE  ViewInv'
<1>1. /\ a.what = "load" /\ cursor' = a.next /\ asks' = asks \ {a} /\ UNCHANGED <<retry, waiting, busy>>
      /\ (a.after = 0 /\ shown' = Tagged(a)) \/ (a.after # 0 /\ shown' = shown \o Unseen(a))
      /\ latest' = IF a.page = <<>> THEN latest ELSE Last(shown')[2]
      /\ blurred' = (a.after # 0 /\ (blurred \/ (a.page # <<>> /\ Last(shown') \notin ToSet(Tagged(a)))))
  BY DEF GotMessages
<1>2. a.what \in Numbered /\ a.what \in Reads
  BY <1>1 DEF Numbered, Reads
<1>3. a \in Asks /\ AskedOK(a) /\ FreshOK(a)
  BY DEF ViewInv, RequestsOK
<1>4. /\ ShownOK' /\ Place # None /\ Place = a.place /\ section \in {"messages", "thread", "events"}
      /\ ToSet(a.page) \subseteq Written /\ a.page \in Seq(Items)
      /\ ToSet(shown') = Pairs(a) \/ ToSet(shown') = ToSet(shown) \cup Pairs(a)
      /\ a.page # <<>> => Last(a.page) \in ToSet(a.page)
      /\ a.next = 0 \/ (a.page # <<>> /\ a.next = Last(a.page))
      /\ \A n \in ToSet(a.page) : n \in Nat /\ Mark(n)'
      /\ a.after = 0 \/ Whole(a.after) => \A n \in ToSet(a.page) : Whole(n)'
      /\ Whole(0)' /\ Mark(0)'
  BY <1>1, <1>2, PageDrawn
<1>5. section = "messages"
  BY <1>1, <1>3 DEF AskedOK, KindOK, Panels
<1>6. retry' = {}
  BY <1>1, <1>5, NoRetry
<1>7. /\ Grown /\ Grows /\ Place' = Place /\ Written' = Written /\ section' = section /\ Drawable' = Drawable
      /\ Written \in SUBSET (Nat \ {0})
  BY <1>5, StaysGrows
<1>8. blurred' \in BOOLEAN /\ waiting' \in BOOLEAN
  BY <1>1 DEF ViewInv, TabOK
<1>9. TabOK'
  BY <1>1, <1>5, <1>8, TabStays
<1>10. ~blurred' => a.after = 0 \/ Whole(a.after)
  BY <1>1, <1>2, <1>3, <1>5 DEF FreshOK
<1>11. PICK k \in Nat : k = a.next
  BY <1>4
<1>12. Mark(k)' /\ (~blurred' => Whole(k)')
  BY <1>4, <1>10, <1>11
<1>13. PICK l : l = latest'
  OBVIOUS
<1>14. l \in Nat /\ Mark(l)' /\ (~blurred' => Whole(l)')
  <2>1. CASE a.page = <<>> /\ a.after = 0
    <3>1. l = 0
      BY <1>1, <1>3, <1>13, <2>1 DEF FreshOK
    <3>2. QED
      BY <1>4, <3>1
  <2>2. CASE a.page = <<>> /\ a.after # 0
    <3>1. l = latest
      BY <1>1, <1>13, <2>2
    <3>2. ToSet(shown) \subseteq ToSet(shown')
      BY <1>1, <1>2, <1>3, <2>2, UnseenIs, <1>7, <1>4 DEF ViewInv, AskedOK, PageOK
    <3>3. (Mark(l) => Mark(l)') /\ (Whole(l) => Whole(l)')
      BY <3>2, CursorKept
    <3>4. l \in Nat /\ Mark(l) /\ (~blurred => Whole(l))
      BY <1>4, <1>5, <3>1 DEF ViewInv, CursorsOK, Mark, Whole
    <3>5. QED
      BY <1>1, <2>2, <3>3, <3>4
  <2>3. CASE a.page # <<>>
    <3>1. ToSet(shown') # {} /\ shown' \in Seq((Channels \cup Threads) \X Items)
      BY <1>4, <2>3 DEF Pairs, ShownOK
    <3>2. shown' # <<>>
      BY <3>1 DEF ToSet
    <3>3. Last(shown') \in ToSet(shown')
      BY <3>1, <3>2, LastIs
    <3>4. l = Last(shown')[2] /\ l \in Written
      BY <1>1, <1>4, <1>5, <1>7, <1>13, <2>3, <3>3 DEF ShownOK, Drawable
    <3>5. l \in Nat /\ Mark(l)'
      BY <1>7, <3>4 DEF Mark
    <3>6. Last(shown') \in ToSet(Tagged(a)) => l \in ToSet(a.page)
      <4>1. ToSet(Tagged(a)) = Pairs(a)
        BY <1>3, TaggedIs DEF AskedOK, PageOK
      <4>2. QED
        BY <3>4, <4>1 DEF Pairs
    <3>7. ~blurred' => Last(shown') \in ToSet(Tagged(a))
      <4>1. a.after = 0 => ToSet(shown') = ToSet(Tagged(a))
        BY <1>1
      <4>2. QED
        BY <1>1, <2>3, <3>3, <4>1
    <3>8. QED
      BY <1>4, <1>10, <3>5, <3>6, <3>7
  <2>4. QED
    BY <2>1, <2>2, <2>3
<1>15. CursorsOK'
  BY <1>1, <1>4, <1>6, <1>7, <1>11, <1>12, <1>13, <1>14, CursorsSet
<1>16. RequestsOK'
  BY <1>1, <1>2, OthersStand DEF RequestsOK, OneRead
<1>17. QED
  BY <1>4, <1>7, <1>9, <1>15, <1>16 DEF ViewInv, Grown

\* More drawn: what the earlier cursors promised still holds.
LEMMA EarlierCursors ==
    ASSUME ViewInv, AgentTypeOK, Stays, Place # None, section \in {"messages", "thread", "events"},
           ToSet(shown) \subseteq ToSet(shown'), NEW k \in {latest, cursor}
    PROVE  k \in Nat /\ Mark(k)' /\ (~blurred => Whole(k)')
<1>1. k \in Nat /\ Mark(k) /\ (~blurred => Whole(k))
  BY DEF ViewInv, CursorsOK, Mark, Whole
<1>2. QED
  BY <1>1, CursorKept

\* The next request of a refresh that goes on.
LEMMA RefreshGoesOn ==
    ASSUME NEW a \in Asks, a.what = "refresh", a.fresh, AskedOK(a), FreshOK(a),
           section' = section, channel' = channel, NEW l \in Nat, Mark(l)', blurred' \/ Whole(l)', NEW n,
           n = [a EXCEPT !.after = l, !.pages = @ + 1, !.served = FALSE, !.page = <<>>, !.next = 0]
    PROVE  n \in Asks /\ AskedOK(n)' /\ FreshOK(n)'
<1>1. <<>> \in Seq(Items) /\ a.pages + 1 \in Nat
  BY DEF Asks
<1>2. n \in Asks
  BY <1>1 DEF Asks
<1>3. /\ n.what = "refresh" /\ n.place = a.place /\ n.after = l /\ n.fresh = a.fresh
      /\ n.page = <<>> /\ n.next = 0
  BY DEF Asks
<1>4. KindOK(n)' /\ PlaceOK(n)'
  BY <1>3 DEF AskedOK, KindOK, PlaceOK, Panels
<1>5. PageOK(n)'
  BY <1>3 DEF PageOK, ToSet, IsInjective
<1>6. AskedOK(n)'
  BY <1>3, <1>4, <1>5 DEF AskedOK
<1>7. Mark(n.after)' /\ (blurred' \/ Whole(n.after)')
  BY <1>3 DEF Mark, Whole
<1>8. FreshOK(n)'
  BY <1>3, <1>7 DEF FreshOK, Numbered, Panels
<1>9. QED
  BY <1>2, <1>6, <1>8

\* A refresh of the messages, which goes on while its pages are full
\* (refreshMessages).
LEMMA GotRefreshKept ==
    ASSUME ViewInv, AgentTypeOK, Stays, NEW a \in asks, a.fresh, GotRefresh(a)
    PROVE  ViewInv'
<1>1. PICK goes, l :
          /\ goes \in BOOLEAN /\ l = LastOf(a) /\ latest' = l
          /\ shown' = shown \o Unseen(a)
          /\ cursor' = l \/ cursor' = 0 \/ cursor' = cursor
          /\ asks' = IF goes THEN (asks \ {a}) \cup
                        {[a EXCEPT !.after = l, !.pages = @ + 1, !.served = FALSE, !.page = <<>>, !.next = 0]}
                     ELSE asks \ {a}
  BY DEF GotRefresh
<1>2. a.what = "refresh" /\ UNCHANGED <<retry, waiting, blurred, busy>>
  BY DEF GotRefresh
<1>3. a.what \in Numbered /\ a.what \in Reads
  BY <1>2 DEF Numbered, Reads
<1>4. a \in Asks /\ AskedOK(a) /\ FreshOK(a)
  BY DEF ViewInv, RequestsOK
<1>5. section = "messages"
  BY <1>2, <1>4 DEF AskedOK, KindOK, Panels
<1>6. /\ ShownOK' /\ Place # None /\ a.page \in Seq(Items)
      /\ a.page # <<>> => Last(a.page) \in ToSet(a.page)
      /\ \A n \in ToSet(a.page) : n \in Nat /\ Mark(n)'
      /\ a.after = 0 \/ Whole(a.after) => \A n \in ToSet(a.page) : Whole(n)'
      /\ Whole(0)' /\ Mark(0)' /\ ToSet(a.page) \subseteq Written
  BY <1>1, <1>3, PageDrawn
<1>7. /\ Grown /\ Grows /\ Place' = Place /\ section' = section /\ channel' = channel
      /\ Written \in SUBSET (Nat \ {0})
  BY <1>5, StaysGrows
<1>8. TabOK'
  BY <1>2, <1>5, TabStays DEF ViewInv, TabOK
<1>9. ToSet(shown) \subseteq ToSet(shown')
  <2>1. IsInjective(a.page) /\ ToSet(a.page) \in SUBSET Nat
    BY <1>4, <1>6, <1>7 DEF AskedOK, PageOK
  <2>2. QED
    BY <1>1, <1>4, <2>1, UnseenIs DEF ViewInv
<1>10. ~blurred => Whole(a.after)
  BY <1>3, <1>4, <1>5 DEF FreshOK
<1>11. l \in Nat /\ Mark(l)' /\ (~blurred' => Whole(l)')
  <2>1. CASE a.page = <<>>
    BY <1>1, <1>2, <1>5, <1>6, <1>9, <2>1, EarlierCursors DEF LastOf
  <2>2. CASE a.page # <<>>
    BY <1>1, <1>2, <1>6, <1>10, <2>2 DEF LastOf
  <2>3. QED
    BY <2>1, <2>2
<1>12. PICK k : k = cursor'
  OBVIOUS
<1>13. k \in Nat /\ Mark(k)' /\ (~blurred' => Whole(k)')
  <2>1. CASE k = l
    BY <1>11, <2>1
  <2>2. CASE k = 0
    BY <1>6, <2>2
  <2>3. CASE k = cursor
    BY <1>2, <1>5, <1>6, <1>9, <2>3, EarlierCursors
  <2>4. QED
    BY <1>1, <1>12, <2>1, <2>2, <2>3
<1>14. retry' = {}
  BY <1>2, <1>5, NoRetry
<1>15. CursorsOK'
  BY <1>1, <1>5, <1>6, <1>7, <1>11, <1>12, <1>13, <1>14, CursorsSet
<1>16. RequestsOK'
  <2>1. /\ asks \ {a} \in SUBSET Asks
        /\ \A c \in asks \ {a} : ~(c.fresh /\ c.what \in Reads) /\ AskedOK(c)' /\ FreshOK(c)'
    BY <1>3, OthersStand
  <2>2. PICK n : n = [a EXCEPT !.after = l, !.pages = @ + 1, !.served = FALSE, !.page = <<>>, !.next = 0]
    OBVIOUS
  <2>3. n \in Asks /\ AskedOK(n)' /\ FreshOK(n)'
    BY <1>2, <1>4, <1>7, <1>11, <2>2, RefreshGoesOn
  <2>4. asks' = (asks \ {a}) \cup {n} \/ asks' = asks \ {a}
    BY <1>1, <2>2
  <2>5. QED
    BY <2>1, <2>3, <2>4 DEF RequestsOK, OneRead
<1>17. QED
  BY <1>6, <1>7, <1>8, <1>15, <1>16 DEF ViewInv, Grown

\* The answer of the list.
LEMMA GotListKept ==
    ASSUME ViewInv, AgentTypeOK, Stays, NEW a \in asks, a.fresh, GotList(a)
    PROVE  ViewInv'
<1>1. /\ a.what = "list" /\ shown' = Tagged(a) /\ asks' = asks \ {a}
      /\ UNCHANGED <<latest, cursor, retry, waiting, blurred, busy>>
  BY DEF GotList
<1>2. a \in Asks /\ AskedOK(a) /\ FreshOK(a)
  BY DEF ViewInv, RequestsOK
<1>3. section = "list" /\ a.place = channel /\ channel \in Channels
  BY <1>1, <1>2 DEF AskedOK, KindOK, Panels, FreshOK, PlaceOK
<1>4. /\ Grown /\ Grows /\ Place' = Place /\ section' = section /\ channel' = channel
      /\ Written' = Written /\ Drawable' = Drawable
  BY StaysGrows
<1>5. TabOK'
  BY <1>1, <1>3, TabStays DEF ViewInv, TabOK
<1>6. Place = channel /\ Drawable = Listing(a)
  BY <1>1, <1>3, PlacesApart DEF Place, Drawable, Written, Listing
<1>7. ShownOK'
  <2>1. /\ shown' \in Seq((Channels \cup Threads) \X Items) /\ IsInjective(shown')
        /\ ToSet(shown') = Pairs(a) /\ ToSet(a.page) \subseteq Listing(a)
    BY <1>1, <1>2, TaggedIs DEF AskedOK, PageOK
  <2>2. QED
    BY <1>3, <1>4, <1>6, <2>1 DEF ShownOK, Pairs
<1>8. CursorsOK'
  BY <1>1, <1>3, <1>4 DEF ViewInv, CursorsOK, Mark
<1>9. RequestsOK'
  BY <1>1, OthersStand DEF RequestsOK, OneRead, Reads
<1>10. QED
  BY <1>4, <1>5, <1>7, <1>8, <1>9 DEF ViewInv, Grown

\* What was asked for while a request was under way is asked for after it,
\* from the last cursor.
LEMMA AsksAgain ==
    ASSUME ViewInv, AgentTypeOK, Stays, NEW a \in asks, a.fresh, a.what \in Reads,
           NEW what, NEW spot, NEW l \in Nat,
           section \in {"events", "thread"}, what = section, Place # None, spot = Place,
           Mark(l)', blurred' \/ Whole(l)' \/ shown' = <<>>, latest' = l,
           asks' = asks \ {a} \/ asks' = Ask(asks \ {a}, what, spot, l, FALSE)
    PROVE  RequestsOK'
<1>1. PICK S : S = asks \ {a}
  OBVIOUS
<1>2. S \in SUBSET Asks /\ OneRead(S) /\ \A b \in S : AskedOK(b)' /\ FreshOK(b)'
  BY <1>1, OthersStand
<1>3. PICK own \in BOOLEAN : own = FALSE
  OBVIOUS
<1>4. asks' = S \/ asks' = Ask(S, what, spot, l, own)
  BY <1>1, <1>3
<1>5. section' = section /\ channel' = channel /\ thread' = thread /\ made' = made /\ made' \in SUBSET Threads
  BY StaysGrows
<1>6. what \in Numbered
  BY DEF Numbered
<1>7. /\ \/ section' = "messages" /\ what \in {"load", "refresh"}
         \/ section' = "events" /\ what = "events"
         \/ section' = "thread" /\ what = "thread"
      /\ what = "thread" => spot = thread' /\ spot \in made'
      /\ what # "thread" => spot = channel' /\ spot \in Channels
  BY <1>5 DEF Place, ViewInv, TabOK
<1>8. /\ l = 0 \/ l \in Written'
      /\ \/ blurred'
         \/ \A m \in Written' : m <= l => <<Place', m>> \in ToSet(shown') \cup late'
         \/ shown' = <<>> /\ section' \in {"events", "thread"}
  BY <1>5 DEF Mark, Whole
<1>9. what \in {"load", "thread"} /\ l = 0 => latest' = 0
  OBVIOUS
<1>10. QED
  BY <1>2, <1>3, <1>4, <1>5, <1>6, <1>7, <1>8, <1>9, NumberedRequest

\* An answer that draws and is followed by what was asked for meanwhile.
LEMMA AnswerFollowed ==
    ASSUME ViewInv, AgentTypeOK, Stays, NEW a \in asks, a.fresh, a.what \in {"events", "thread"},
           \/ a.after = 0 /\ shown' = Tagged(a)
           \/ shown' = shown \o Unseen(a),
           busy' = busy, waiting' \in BOOLEAN, blurred' \in BOOLEAN, retry' = {}, cursor' = a.next,
           NEW l, latest' = l,
           l = IF a.page = <<>> THEN (IF a.what = "events" THEN a.after ELSE latest) ELSE Last(a.page),
           ~blurred' /\ (a.what = "events" \/ a.page # <<>>) => a.after = 0 \/ Whole(a.after),
           a.page = <<>> /\ a.what = "thread" /\ a.after # 0 /\ ~blurred' => ~blurred,
           a.after # 0 => shown' = shown \o Unseen(a),
           asks' = asks \ {a} \/ asks' = Ask(asks \ {a}, a.what, a.place, l, FALSE)
    PROVE  ViewInv'
<1>1. a.what \in Numbered /\ a.what \in Reads
  BY DEF Numbered, Reads
<1>2. a \in Asks /\ AskedOK(a) /\ FreshOK(a)
  BY DEF ViewInv, RequestsOK
<1>3. (section = "events" /\ a.what = "events") \/ (section = "thread" /\ a.what = "thread")
  BY <1>2 DEF AskedOK, KindOK, Panels
<1>4. /\ ShownOK' /\ Place # None /\ Place = a.place /\ a.page \in Seq(Items)
      /\ ToSet(a.page) \subseteq Written
      /\ a.page # <<>> => Last(a.page) \in ToSet(a.page)
      /\ a.next = 0 \/ (a.page # <<>> /\ a.next = Last(a.page))
      /\ \A n \in ToSet(a.page) : n \in Nat /\ Mark(n)'
      /\ a.after = 0 \/ Whole(a.after) => \A n \in ToSet(a.page) : Whole(n)'
      /\ Whole(0)' /\ Mark(0)'
  BY <1>1, PageDrawn
<1>5. /\ Grown /\ Grows /\ Place' = Place /\ section' = section /\ channel' = channel /\ thread' = thread
      /\ made' = made /\ made' \in SUBSET Threads
      /\ Written' = Written /\ Written \in SUBSET (Nat \ {0})
  BY <1>3, StaysGrows
<1>6. TabOK'
  BY <1>3, TabStays
<1>7. a.after # 0 => ToSet(shown) \subseteq ToSet(shown')
  <2>1. IsInjective(a.page) /\ ToSet(a.page) \in SUBSET Nat
    BY <1>2, <1>4, <1>5 DEF AskedOK, PageOK
  <2>2. QED
    BY <1>2, <2>1, UnseenIs DEF ViewInv
<1>8. PICK k \in Nat : k = a.after
  BY <1>2 DEF Asks
<1>9. Mark(k)' /\ (~blurred' /\ a.what = "events" => Whole(k)')
  <2>1. CASE k = 0
    BY <1>4, <2>1
  <2>2. CASE k # 0
    <3>1. Mark(k) /\ (~blurred' /\ a.what = "events" => Whole(k))
      BY <1>1, <1>2, <1>8, <2>2 DEF FreshOK
    <3>2. QED
      BY <1>7, <1>8, <2>2, <3>1, CursorKept
  <2>3. QED
    BY <2>1, <2>2
<1>10. l \in Nat /\ Mark(l)' /\ (~blurred' => Whole(l)')
  <2>1. CASE a.page # <<>>
    BY <1>4, <2>1
  <2>2. CASE a.page = <<>> /\ a.what = "events"
    BY <1>8, <1>9, <2>2
  <2>3. CASE a.page = <<>> /\ a.what = "thread" /\ a.after = 0
    <3>1. l = 0
      BY <1>2, <2>3 DEF FreshOK
    <3>2. QED
      BY <1>4, <3>1
  <2>4. CASE a.page = <<>> /\ a.what = "thread" /\ a.after # 0
    BY <1>3, <1>4, <1>7, <2>4, EarlierCursors
  <2>5. QED
    BY <2>1, <2>2, <2>3, <2>4
<1>11. PICK c : c = a.next
  OBVIOUS
<1>12. c \in Nat /\ Mark(c)' /\ (~blurred' => Whole(c)')
  BY <1>4, <1>11
<1>13. CursorsOK'
  BY <1>3, <1>4, <1>5, <1>10, <1>11, <1>12, CursorsSet
<1>14. RequestsOK'
  <2>1. a.place = IF section = "thread" THEN thread ELSE channel
    BY <1>3, <1>4 DEF Place
  <2>2. blurred' \/ Whole(l)' \/ shown' = <<>>
    BY <1>10
  <2>3. asks' = asks \ {a} \/ asks' = Ask(asks \ {a}, a.what, a.place, l, FALSE)
    OBVIOUS
  <2>4. QED
    BY <1>1, <1>3, <1>4, <1>10, <2>1, <2>2, <2>3, AsksAgain
<1>15. QED
  BY <1>4, <1>5, <1>6, <1>13, <1>14 DEF ViewInv, Grown

\* A page of events (loadEvents).
LEMMA GotEventsKept ==
    ASSUME ViewInv, AgentTypeOK, Stays, NEW a \in asks, a.fresh, GotEvents(a)
    PROVE  ViewInv'
<1>1. /\ a.what = "events" /\ cursor' = a.next /\ retry' = {} /\ busy' = busy
      /\ shown' = IF a.after = 0 THEN Tagged(a) ELSE shown \o Unseen(a)
      /\ latest' = IF a.page = <<>> THEN a.after ELSE Last(a.page)
      /\ blurred' = (a.after # 0 /\ (blurred \/ shown = <<>>))
  BY DEF GotEvents
<1>2. PICK l : l = latest'
  OBVIOUS
<1>3. waiting' \in BOOLEAN /\ (asks' = asks \ {a} \/ asks' = Ask(asks \ {a}, "events", channel, l, FALSE))
  BY <1>2 DEF GotEvents, ReconcileEvents, LoadEvents, ViewInv, TabOK
<1>4. FreshOK(a)
  BY DEF ViewInv, RequestsOK
<1>5. a.place = channel /\ (blurred \/ Whole(a.after) \/ shown = <<>>)
  BY <1>1, <1>4 DEF FreshOK, Numbered
<1>6. QED
  BY <1>1, <1>2, <1>3, <1>5, AnswerFollowed

\* A page of a thread's messages (loadThreadMessages).
LEMMA GotThreadKept ==
    ASSUME ViewInv, AgentTypeOK, Stays, NEW a \in asks, a.fresh, GotThread(a)
    PROVE  ViewInv'
<1>1. a \in Asks /\ AskedOK(a) /\ FreshOK(a) /\ a.what = "thread"
  BY DEF ViewInv, RequestsOK, GotThread
<1>2. a.place = thread /\ (blurred \/ Whole(a.after) \/ shown = <<>>) /\ section = "thread"
  BY <1>1 DEF FreshOK, Numbered, AskedOK, KindOK, Panels
<1>3. /\ cursor' = a.next /\ UNCHANGED <<retry, busy>>
      /\ shown' = IF a.after = 0 THEN Tagged(a) ELSE shown \o Unseen(a)
      /\ latest' = LastOf(a)
      /\ blurred' = (a.after # 0 /\ (blurred \/ (shown = <<>> /\ a.page # <<>>)))
  BY <1>1, <1>2 DEF GotThread
<1>4. PICK l : l = latest'
  OBVIOUS
<1>5. waiting' \in BOOLEAN /\ (asks' = asks \ {a} \/ asks' = Ask(asks \ {a}, "thread", thread, l, FALSE))
  BY <1>1, <1>2, <1>4 DEF GotThread, FollowUp, LoadThreadMessages, ViewInv, TabOK
<1>6. retry' = {} /\ blurred' \in BOOLEAN
  BY <1>2, <1>3, NoRetry DEF ViewInv, TabOK
<1>7. QED
  BY <1>1, <1>2, <1>3, <1>4, <1>5, <1>6, AnswerFollowed DEF LastOf

\* When a request ends and nothing that is drawn changes.
LEMMA EndsQuietly ==
    ASSUME ViewInv, AgentTypeOK, Stays, NEW a \in asks,
           UNCHANGED <<shown, latest, cursor, retry, blurred>>, TabOK'
    PROVE  /\ asks \ {a} \in SUBSET Asks /\ OneRead(asks \ {a})
           /\ \A c \in asks \ {a} : AskedOK(c)' /\ FreshOK(c)'
           /\ CursorsOK' /\ (RequestsOK' => ViewInv')
<1>1. /\ Grown /\ Grows /\ channel' = channel /\ thread' = thread
  BY StaysGrows
<1>2. ShownOK' /\ CursorsOK' /\ \A c \in asks : AskedOK(c)' /\ FreshOK(c)'
  BY <1>1, StillDrawn
<1>3. asks \in SUBSET Asks /\ OneRead(asks)
  BY DEF ViewInv, RequestsOK
<1>4. asks \ {a} \in SUBSET Asks /\ OneRead(asks \ {a})
  BY <1>3 DEF OneRead
<1>5. QED
  BY <1>1, <1>2, <1>4 DEF ViewInv, Grown

\* An answer that nobody waits for.
LEMMA IgnoredKept ==
    ASSUME ViewInv, AgentTypeOK, Stays, NEW a \in asks,
           UNCHANGED <<shown, latest, cursor, retry, blurred, waiting, busy>>, asks' = asks \ {a},
           ~(a.fresh /\ a.what \in Panels)
    PROVE  ViewInv'
<1>1. made' = made /\ section' = section /\ channel' = channel /\ thread' = thread
  BY StaysGrows
<1>2. TabOK'
  BY <1>1 DEF ViewInv, TabOK, Stays
<1>3. RequestsOK'
  BY <1>2, EndsQuietly DEF RequestsOK, OneRead
<1>4. QED
  BY <1>2, <1>3, EndsQuietly

\* The answer to a reply, after which the thread is read on (threadComposer).
LEMMA GotReplyKept ==
    ASSUME ViewInv, AgentTypeOK, Stays, NEW a \in asks, a.what = "reply", thread = a.place, GotReply(a), a.fresh
    PROVE  ViewInv'
<1>1. LoadThreadMessages(asks \ {a}, thread, latest, TRUE, waiting) /\ UNCHANGED <<shown, latest, cursor, retry, blurred, busy>>
  BY DEF GotReply
<1>2. a \in Asks /\ AskedOK(a)
  BY DEF ViewInv, RequestsOK
<1>3. section = "thread" /\ thread \in made
  BY <1>2 DEF AskedOK, KindOK, PlaceOK, Panels
<1>4. made \in SUBSET Threads
  BY DEF AgentTypeOK
<1>5. thread # None /\ Place # None
  BY <1>3, <1>4, PlacesApart DEF Place
<1>6. waiting' \in BOOLEAN /\ blurred' \in BOOLEAN
  BY <1>1 DEF LoadThreadMessages, ViewInv, TabOK
<1>7. TabOK'
  BY <1>1, <1>3, <1>6, TabStays
<1>8. PICK S : S = asks \ {a}
  OBVIOUS
<1>9. /\ S \in SUBSET Asks /\ OneRead(S) /\ \A c \in S : AskedOK(c)' /\ FreshOK(c)'
      /\ CursorsOK' /\ (RequestsOK' => ViewInv')
  BY <1>1, <1>7, <1>8, EndsQuietly
<1>10. PICK what, own, k : what = "thread" /\ own = TRUE /\ k = latest
  OBVIOUS
<1>11. asks' = S \/ asks' = Ask(S, what, thread, k, own)
  BY <1>1, <1>8, <1>10 DEF LoadThreadMessages
<1>12. section' = section /\ thread' = thread /\ made' = made /\ Place' = Place
  BY StaysGrows
<1>13. k \in Nat /\ latest' = k
  BY <1>1, <1>10 DEF ViewInv, CursorsOK
<1>14. Mark(k)' /\ (blurred' \/ Whole(k)')
  BY <1>3, <1>5, <1>9, <1>12, <1>13 DEF CursorsOK, Mark, Whole
<1>15. /\ k = 0 \/ k \in Written'
       /\ \/ blurred'
          \/ \A m \in Written' : m <= k => <<Place', m>> \in ToSet(shown') \cup late'
          \/ shown' = <<>> /\ section' \in {"events", "thread"}
  BY <1>14 DEF Mark, Whole
<1>16. /\ what \in Numbered /\ what = "thread" /\ section' = "thread" /\ own \in BOOLEAN
       /\ thread = thread' /\ thread \in made' /\ made' \in SUBSET Threads
  BY <1>3, <1>4, <1>10, <1>12 DEF Numbered
<1>17. RequestsOK'
  BY <1>9, <1>11, <1>13, <1>15, <1>16, NumberedRequest
<1>18. QED
  BY <1>9, <1>17

\* The answer to a message that was sent: it is drawn, but the cursor stays where it
\* was, so what others wrote meanwhile is still read (composer).
LEMMA GotSendKept ==
    ASSUME ViewInv, AgentTypeOK, Stays, NEW a \in asks, channel = a.place, GotSend(a)
    PROVE  ViewInv'
<1>1. /\ a.what = "send" /\ shown' = shown \o Unseen(a) /\ RefreshMessages(asks \ {a}, latest, TRUE)
      /\ UNCHANGED <<latest, cursor, retry, waiting, blurred, busy>>
  BY DEF GotSend
<1>2. a \in Asks /\ AskedOK(a)
  BY DEF ViewInv, RequestsOK
<1>3. section = "messages" /\ channel \in Channels
  BY <1>1, <1>2 DEF AskedOK, KindOK, PlaceOK, Panels
<1>4. Place = channel /\ Place # None /\ Listing(a) = Written
  BY <1>1, <1>3, PlacesApart DEF Place, Listing, Written
<1>5. /\ Grown /\ Grows /\ Place' = Place /\ section' = section /\ channel' = channel /\ thread' = thread
      /\ made' \in SUBSET Threads /\ Written' = Written /\ Drawable' = Drawable /\ Written \in SUBSET (Nat \ {0})
  BY <1>3, StaysGrows
<1>6. ToSet(a.page) \subseteq Written /\ IsInjective(a.page) /\ ToSet(a.page) \in SUBSET Nat
  BY <1>2, <1>4, <1>5 DEF AskedOK, PageOK
<1>7. /\ shown' \in Seq((Channels \cup Threads) \X Items) /\ IsInjective(shown')
      /\ ToSet(shown') = ToSet(shown) \cup Pairs(a)
  BY <1>1, <1>2, <1>6, UnseenIs DEF ViewInv
<1>8. ShownOK'
  BY <1>3, <1>4, <1>5, <1>6, <1>7 DEF ViewInv, ShownOK, Pairs, Drawable
<1>9. TabOK'
  BY <1>1, <1>3, TabStays DEF ViewInv, TabOK
<1>10. CursorsOK' /\ \A c \in asks : AskedOK(c)' /\ FreshOK(c)'
  BY <1>1, <1>3, <1>5, <1>7, <1>9, DrawnMore
<1>11. PICK S : S = asks \ {a}
  OBVIOUS
<1>12. /\ S \in SUBSET Asks /\ OneRead(S) /\ \A c \in S : AskedOK(c)' /\ FreshOK(c)'
  BY <1>10, <1>11 DEF ViewInv, RequestsOK, OneRead
<1>13. PICK what, own, k : what = "refresh" /\ own = TRUE /\ k = latest
  OBVIOUS
<1>14. asks' = S \/ asks' = Ask(S, what, channel, k, own)
  BY <1>1, <1>11, <1>13 DEF RefreshMessages
<1>15. k \in Nat /\ latest' = k
  BY <1>1, <1>13 DEF ViewInv, CursorsOK
<1>16. Mark(k)' /\ (blurred' \/ Whole(k)')
  BY <1>3, <1>4, <1>5, <1>10, <1>15 DEF CursorsOK, Mark, Whole
<1>17. /\ k = 0 \/ k \in Written'
       /\ \/ blurred'
          \/ \A m \in Written' : m <= k => <<Place', m>> \in ToSet(shown') \cup late'
          \/ shown' = <<>> /\ section' \in {"events", "thread"}
  BY <1>16 DEF Mark, Whole
<1>18. /\ what \in Numbered /\ what = "refresh" /\ section' = "messages" /\ own \in BOOLEAN
       /\ channel = channel' /\ channel \in Channels
  BY <1>3, <1>5, <1>13 DEF Numbered
<1>19. RequestsOK'
  BY <1>5, <1>12, <1>14, <1>15, <1>17, <1>18, NumberedRequest
<1>20. QED
  BY <1>5, <1>8, <1>9, <1>10, <1>19 DEF ViewInv, Grown

\* The subscriptions of a thread (loadAgentSubscription).
LEMMA GotPanelKept ==
    ASSUME ViewInv, AgentTypeOK, Stays, NEW a \in asks, a.fresh, thread = a.place, GotPanel(a)
    PROVE  ViewInv'
<1>1. /\ a.what = "panel" /\ shown' = Tagged(a) /\ busy' = FALSE /\ asks' = asks \ {a}
      /\ UNCHANGED <<latest, cursor, retry, waiting, blurred>>
  BY DEF GotPanel
<1>2. a \in Asks /\ AskedOK(a)
  BY DEF ViewInv, RequestsOK
<1>3. section = "panel" /\ Place = thread /\ Listing(a) = Subs
  BY <1>1, <1>2 DEF AskedOK, KindOK, Panels, Place, Listing
<1>4. /\ Grown /\ Grows /\ Place' = Place /\ section' = section /\ channel' = channel /\ thread' = thread
      /\ Written' = Written /\ Drawable' = Drawable /\ made' = made
  BY StaysGrows
<1>5. TabOK'
  BY <1>1, <1>4 DEF ViewInv, TabOK, Stays
<1>6. ShownOK'
  <2>1. /\ shown' \in Seq((Channels \cup Threads) \X Items) /\ IsInjective(shown')
        /\ ToSet(shown') = Pairs(a) /\ ToSet(a.page) \subseteq Subs
    BY <1>1, <1>2, <1>3, TaggedIs DEF AskedOK, PageOK
  <2>2. QED
    BY <1>3, <1>4, <2>1 DEF ShownOK, Pairs, Drawable
<1>7. CursorsOK'
  BY <1>1, <1>3, <1>4 DEF ViewInv, CursorsOK, Mark
<1>8. RequestsOK'
  BY <1>1, OthersStand DEF RequestsOK, OneRead, Reads
<1>9. QED
  BY <1>4, <1>5, <1>6, <1>7, <1>8 DEF ViewInv, Grown

\* The end of an operation on them, which draws the panel again.
LEMMA GotOperationKept ==
    ASSUME ViewInv, AgentTypeOK, Stays, NEW a \in asks, a.fresh, thread = a.place, GotOperation(a)
    PROVE  ViewInv'
<1>1. /\ a.what \in Panels /\ asks' = Ask(asks \ {a}, "panel", thread, 0, FALSE) /\ busy' = TRUE
      /\ UNCHANGED <<shown, latest, cursor, retry, waiting, blurred>>
  BY DEF GotOperation, drawn, Panels
<1>2. a \in Asks /\ AskedOK(a)
  BY DEF ViewInv, RequestsOK
<1>3. section = "panel" /\ thread \in made
  BY <1>1, <1>2 DEF AskedOK, KindOK, PlaceOK, Panels
<1>4. section' = section /\ thread' = thread /\ made' = made /\ channel' = channel /\ made' \in SUBSET Threads
  BY StaysGrows
<1>5. PICK S, what, after, own : S = asks \ {a} /\ what = "panel" /\ after = 0 /\ own = FALSE
  OBVIOUS
<1>6. asks' = Ask(S, what, thread, after, own)
  BY <1>1, <1>5
<1>7. \E b \in asks' : b.fresh /\ b.what \in Panels
  <2>1. PICK b : b = [what |-> what, place |-> thread, after |-> after, fresh |-> TRUE, own |-> own,
                      pages |-> 0, served |-> FALSE, page |-> <<>>, next |-> 0]
    OBVIOUS
  <2>2. b \in asks' /\ b.fresh /\ b.what = what
    BY <1>6, <2>1 DEF Ask
  <2>3. QED
    BY <1>5, <2>2 DEF Panels
<1>8. TabOK'
  BY <1>1, <1>4, <1>7 DEF ViewInv, TabOK, Stays
<1>9. /\ S \in SUBSET Asks /\ OneRead(S) /\ \A c \in S : AskedOK(c)' /\ FreshOK(c)'
      /\ RequestsOK' => ViewInv'
  BY <1>1, <1>5, <1>8, EndsQuietly
<1>10. /\ after \in Nat /\ own \in BOOLEAN /\ what # "disable" /\ what \in Panels
       /\ section' = "panel" /\ thread = thread' /\ thread \in made'
  BY <1>3, <1>4, <1>5 DEF Panels
<1>11. RequestsOK'
  BY <1>4, <1>6, <1>9, <1>10, OtherRequest
<1>12. QED
  BY <1>9, <1>11

\* Whichever answer comes, late or not.
LEMMA ReceiveKept ==
    ASSUME ViewInv, AgentTypeOK, NEW a \in asks, Receive(a)
    PROVE  ViewInv'
<1>1. Stays
  BY DEF Receive, Stays, ViewInv, TabOK
<1>2. FreshOK(a)
  BY DEF ViewInv, RequestsOK
<1>3. a.fresh /\ a.what \in Panels => thread = a.place
  BY <1>2 DEF FreshOK
<1>4. CASE Ignore(a) /\ ~(a.fresh /\ a.what \in Panels)
  <2>1. UNCHANGED <<shown, latest, cursor, retry, blurred, waiting, busy>> /\ asks' = asks \ {a}
    BY <1>4 DEF Ignore, drawn
  <2>2. QED
    BY <1>1, <1>4, <2>1, IgnoredKept
<1>5. ASSUME a.fresh, GotMessages(a) \/ GotRefresh(a) \/ GotEvents(a) \/ GotList(a) \/ GotThread(a) PROVE ViewInv'
  BY <1>1, <1>5, GotMessagesKept, GotRefreshKept, GotEventsKept, GotListKept, GotThreadKept
<1>6. ASSUME ~a.fresh, GotMessages(a) \/ GotRefresh(a) \/ GotEvents(a) \/ GotList(a) \/ GotThread(a) PROVE Ignore(a)
  BY <1>6 DEF GotMessages, GotRefresh, GotEvents, GotList, GotThread
<1>7. CASE GotSend(a)
  <2>1. CASE channel = a.place
    BY <1>1, <1>7, <2>1, GotSendKept
  <2>2. CASE channel # a.place
    BY <1>4, <1>7, <2>2 DEF GotSend, Panels
  <2>3. QED
    BY <2>1, <2>2
<1>8. CASE GotReply(a)
  <2>1. CASE a.fresh /\ thread = a.place
    BY <1>1, <1>8, <2>1, GotReplyKept DEF GotReply
  <2>2. CASE ~(a.fresh /\ thread = a.place)
    BY <1>4, <1>8, <2>2 DEF GotReply, Panels
  <2>3. QED
    BY <2>1, <2>2
<1>9. CASE GotPanel(a)
  <2>1. CASE a.fresh
    BY <1>1, <1>3, <1>9, <2>1, GotPanelKept DEF GotPanel, Panels
  <2>2. CASE ~a.fresh
    BY <1>4, <1>9, <2>2 DEF GotPanel
  <2>3. QED
    BY <2>1, <2>2
<1>10. CASE GotOperation(a)
  <2>1. CASE a.fresh
    BY <1>1, <1>3, <1>10, <2>1, GotOperationKept DEF GotOperation, Panels
  <2>2. CASE ~a.fresh
    BY <1>4, <1>10, <2>2 DEF GotOperation
  <2>3. QED
    BY <2>1, <2>2
<1>11. QED
  BY <1>4, <1>5, <1>6, <1>7, <1>8, <1>9, <1>10 DEF Receive

-----------------------------------------------------------------------------
(* ChannelView: requests that fail.                                        *)

\* Events that could not be read are asked for again from the same cursor,
\* which is good as long as what was drawn stays or all of it goes.
LEMMA FailEventsKept ==
    ASSUME ViewInv, AgentTypeOK, Stays, NEW a \in asks, NEW denied \in BOOLEAN, FailEvents(a, denied)
    PROVE  ViewInv'
<1>1. a \in Asks /\ AskedOK(a) /\ FreshOK(a) /\ a.what = "events" /\ a.fresh
  BY DEF ViewInv, RequestsOK, FailEvents
<1>2. a.what \in Numbered /\ a.what \in Reads /\ made \in SUBSET Threads
  BY <1>1 DEF Numbered, Reads, AgentTypeOK
<1>3. section = "events" /\ Place # None /\ Place = a.place /\ a.place = channel
  BY <1>1, <1>2, FreshIsOpen DEF AskedOK, KindOK, Panels, FreshOK
<1>4. /\ Grown /\ Grows /\ Place' = Place /\ section' = section /\ channel' = channel /\ thread' = thread
      /\ Written' = Written /\ Drawable' = Drawable /\ late' = late /\ Written \in SUBSET (Nat \ {0})
  BY <1>3, StaysGrows
<1>5. /\ retry' = {a.after} /\ blurred' = blurred /\ busy' = busy
      /\ \/ shown' = shown /\ latest' = latest /\ cursor' = cursor
         \/ shown' = <<>> /\ latest' = 0 /\ cursor' = 0
  BY DEF FailEvents
<1>6. PICK l : l = latest'
  OBVIOUS
<1>7. waiting' \in BOOLEAN /\ (asks' = asks \ {a} \/ asks' = Ask(asks \ {a}, "events", channel, l, FALSE))
  BY <1>6 DEF FailEvents, ReconcileEvents, LoadEvents, ViewInv, TabOK
<1>8. TabOK'
  BY <1>3, <1>5, <1>7, TabStays DEF ViewInv, TabOK
<1>9. ShownOK'
  <2>1. CASE shown' = <<>>
    BY <2>1, NothingShown
  <2>2. CASE shown' = shown
    BY <1>4, <2>2 DEF ViewInv, ShownOK
  <2>3. QED
    BY <1>5, <2>1, <2>2
<1>10. CursorsOK'
  <2>1. PICK k \in Nat : k = a.after
    BY <1>1 DEF Asks
  <2>2. Mark(k) /\ (blurred \/ Whole(k) \/ shown = <<>>)
    BY <1>1, <1>2, <2>1 DEF FreshOK
  <2>3. retry' = {k}
    BY <1>5, <2>1
  <2>4. Mark(k)'
    BY <1>4, <2>2 DEF Mark
  <2>5. CASE shown' = shown /\ latest' = latest /\ cursor' = cursor
    <3>1. blurred' \/ Whole(k)' \/ shown' = <<>>
      BY <1>4, <1>5, <2>2, <2>5 DEF Whole
    <3>2. /\ latest' \in Nat /\ cursor' \in Nat /\ Mark(latest)' /\ Mark(cursor)'
          /\ ~blurred' => Whole(latest)' /\ Whole(cursor)'
      BY <1>3, <1>4, <1>5, <2>5 DEF ViewInv, CursorsOK, Mark, Whole
    <3>3. QED
      BY <1>3, <1>4, <2>3, <2>4, <3>1, <3>2 DEF CursorsOK
  <2>6. CASE shown' = <<>> /\ latest' = 0 /\ cursor' = 0
    <3>1. Mark(latest)' /\ Mark(cursor)' /\ Whole(latest)' /\ Whole(cursor)'
      BY <1>4, <2>6 DEF Mark, Whole
    <3>2. QED
      BY <1>3, <1>4, <2>3, <2>4, <2>6, <3>1 DEF CursorsOK
  <2>7. QED
    BY <1>5, <2>5, <2>6
<1>11. RequestsOK'
  <2>1. l \in Nat /\ Mark(l)' /\ (blurred' \/ Whole(l)')
    BY <1>3, <1>4, <1>6, <1>10 DEF CursorsOK, Mark, Whole
  <2>2. QED
    BY <1>1, <1>2, <1>3, <1>6, <1>7, <2>1, AsksAgain DEF Place
<1>12. QED
  BY <1>4, <1>8, <1>9, <1>10, <1>11 DEF ViewInv, Grown

\* A page of a thread that fails.
LEMMA FailThreadKept ==
    ASSUME ViewInv, AgentTypeOK, Stays, NEW a \in asks, FailThread(a)
    PROVE  ViewInv'
<1>1. a \in Asks /\ AskedOK(a) /\ FreshOK(a) /\ a.what = "thread" /\ a.fresh
  BY DEF ViewInv, RequestsOK, FailThread
<1>2. a.what \in Numbered /\ a.what \in Reads /\ made \in SUBSET Threads
  BY <1>1 DEF Numbered, Reads, AgentTypeOK
<1>3. section = "thread" /\ Place # None /\ Place = a.place /\ a.place = thread
  BY <1>1, <1>2, FreshIsOpen DEF AskedOK, KindOK, Panels, FreshOK
<1>4. UNCHANGED <<shown, latest, cursor, retry, blurred, busy>>
  BY DEF FailThread
<1>5. PICK l : l = latest
  OBVIOUS
<1>6. waiting' \in BOOLEAN /\ (asks' = asks \ {a} \/ asks' = Ask(asks \ {a}, "thread", thread, l, FALSE))
  BY <1>5 DEF FailThread, FollowUp, LoadThreadMessages, ViewInv, TabOK
<1>7. TabOK'
  BY <1>3, <1>4, <1>6, TabStays DEF ViewInv, TabOK
<1>8. CursorsOK' /\ (RequestsOK' => ViewInv')
  BY <1>4, <1>7, EndsQuietly
<1>9. section' = section /\ Place' = Place
  BY StaysGrows
<1>10. l \in Nat /\ latest' = l /\ Mark(l)' /\ (blurred' \/ Whole(l)')
  BY <1>3, <1>4, <1>5, <1>8, <1>9 DEF CursorsOK, Mark, Whole
<1>11. RequestsOK'
  BY <1>1, <1>2, <1>3, <1>6, <1>10, AsksAgain
<1>12. QED
  BY <1>8, <1>11

\* Any other request that fails.
LEMMA FailOtherKept ==
    ASSUME ViewInv, AgentTypeOK, Stays, NEW a \in asks, NEW denied \in BOOLEAN, FailOther(a, denied)
    PROVE  ViewInv'
<1>1. /\ asks' = asks \ {a} /\ UNCHANGED <<latest, cursor, retry, waiting, blurred>>
      /\ busy' = (busy /\ ~(a.fresh /\ a.what \in Panels))
      /\ shown' = shown \/ (shown' = <<>> /\ a.fresh /\ a.what \in {"panel", "list"})
  BY DEF FailOther, Panels
<1>2. a \in Asks /\ AskedOK(a)
  BY DEF ViewInv, RequestsOK
<1>3. /\ Grown /\ Grows /\ Place' = Place /\ section' = section /\ channel' = channel /\ thread' = thread
      /\ Written' = Written /\ made' = made
  BY StaysGrows
<1>4. TabOK'
  BY <1>1, <1>3 DEF ViewInv, TabOK, Stays
<1>5. CASE shown' = shown
  <2>1. RequestsOK'
    BY <1>1, <1>4, <1>5, EndsQuietly DEF RequestsOK
  <2>2. QED
    BY <1>1, <1>4, <1>5, <2>1, EndsQuietly
<1>6. CASE shown' = <<>> /\ a.fresh /\ a.what \in {"panel", "list"}
  <2>1. section \in {"panel", "list"} /\ a.what \in Reads
    BY <1>2, <1>6 DEF AskedOK, KindOK, Panels, Reads
  <2>2. ShownOK'
    BY <1>6, NothingShown
  <2>3. CursorsOK'
    BY <1>1, <1>3, <2>1 DEF ViewInv, CursorsOK, Mark
  <2>4. RequestsOK'
    BY <1>1, <1>6, <2>1, OthersStand DEF RequestsOK
  <2>5. QED
    BY <1>3, <1>4, <2>2, <2>3, <2>4 DEF ViewInv, Grown
<1>7. QED
  BY <1>1, <1>5, <1>6

\* Together: every request that fails or is refused.
LEMMA LoseKept ==
    ASSUME ViewInv, AgentTypeOK, NEW a \in asks, Lose(a)
    PROVE  ViewInv'
<1>1. lost' \in 0 .. MaxLost
  BY ChannelViewAssumption DEF Lose, ViewInv, TabOK
<1>2. Stays
  BY <1>1 DEF Lose, Stays
<1>3. QED
  BY <1>2, FailEventsKept, FailThreadKept, FailOtherKept DEF Lose

-----------------------------------------------------------------------------
(* ChannelView: what the server and others do.                             *)

\* Every step of the view is one of the agents' model or leaves it alone.
LEMMA StepsAreTheAgents ==
    ASSUME ViewInv, AgentTypeOK, [ViewNext \/ (AgentNext /\ UNCHANGED viewVars)]_<<agentVars, viewVars>>
    PROVE  [AgentNext]_agentVars
<1>1. ASSUME NEW a \in asks, Serve(a) PROVE [AgentNext]_agentVars
  <2>1. AskedOK(a) /\ made \in SUBSET Threads
    BY DEF ViewInv, RequestsOK, AgentTypeOK
  <2>2. CASE ServeSubscription(a)
    <3>1. \/ UNCHANGED agentVars
          \/ \E s \in Servers, i \in Subs : GetState(s, i)
      BY <2>2 DEF ServeSubscription
    <3>2. QED
      BY <3>1 DEF AgentNext, AgentRequest
  <2>3. CASE ServeReply(a)
    <3>1. a.place \in Threads /\ AppendHumanMessage(a.place, TRUE)
      BY <2>1, <2>3 DEF ServeReply, AskedOK, PlaceOK
    <3>2. QED
      BY <3>1 DEF AgentNext, AgentRequest
  <2>4. CASE ServeEnable(a)
    <3>1. a.place \in Threads /\ \E s \in Servers, g \in Agents : Create(s, a.place, g)
      BY <2>1, <2>4 DEF ServeEnable, AskedOK, PlaceOK, Panels
    <3>2. QED
      BY <3>1 DEF AgentNext, AgentRequest
  <2>5. CASE ServeDisable(a)
    <3>1. a.after \in Subs /\ (Disable(a.after) \/ UNCHANGED agentVars)
      BY <2>1, <2>5 DEF ServeDisable, AskedOK
    <3>2. QED
      BY <3>1 DEF AgentNext, AgentRequest
  <2>6. CASE ServeSend(a) \/ UNCHANGED agentVars
    BY <2>6 DEF ServeSend
  <2>7. QED
    BY <1>1, <2>2, <2>3, <2>4, <2>5, <2>6 DEF Serve
<1>2. CASE Others
  <2>1. \/ UNCHANGED agentVars
        \/ \E t \in Threads : CreateThread(t, 1)
        \/ \E t \in Threads : AppendHumanMessage(t, TRUE)
        \/ \E i \in Subs : Disable(i)
    BY <1>2 DEF Others
  <2>2. 1 \in 0 .. 1 /\ TRUE \in BOOLEAN
    OBVIOUS
  <2>3. QED
    BY <2>1, <2>2 DEF AgentNext, AgentRequest
<1>3. ASSUME NEW a \in asks, Receive(a) \/ Lose(a) PROVE UNCHANGED agentVars
  BY <1>3 DEF Receive, Lose
<1>4. ASSUME NEW c, Select(c) PROVE UNCHANGED agentVars
  BY <1>4 DEF Select
<1>5. ASSUME NEW t, OpenThread(t) PROVE UNCHANGED agentVars
  BY <1>5 DEF OpenThread
<1>6. CASE Leave \/ More \/ Again \/ Send \/ Reply \/ Operate \/ PollForMessages
  <2>1. UNCHANGED agentVars
    BY <1>6 DEF Leave, More, Again, Send, Reply, Compose, Operate, PollForMessages
  <2>2. QED
    BY <2>1
<1>7. QED
  BY <1>1, <1>2, <1>3, <1>4, <1>5, <1>6 DEF ViewNext, RefreshChannels, Notified

\* Threads and their messages are only ever added.
LEMMA ThreadsOnlyGrow ==
    ASSUME AgentTypeOK, [AgentNext]_agentVars
    PROVE  made \subseteq made' /\ \A t \in made : posts[t] <= posts'[t]
<1>1. made \in SUBSET Threads /\ posts \in [Threads -> Nat]
  BY DEF AgentTypeOK
<1>2. CASE made' = made /\ posts' = posts
  BY <1>1, <1>2
<1>3. ASSUME NEW t, made' = made, posts' = [posts EXCEPT ![t] = posts[t] + 1]
      PROVE  \A u \in made : posts[u] <= posts'[u]
  BY <1>1, <1>3
<1>4. ASSUME NEW t \in Threads, NEW m \in 0 .. 1, CreateThread(t, m)
      PROVE  made \subseteq made' /\ \A u \in made : posts[u] <= posts'[u]
  BY <1>1, <1>4 DEF CreateThread
<1>5. ASSUME NEW s \in Servers, CommitReply(s)
      PROVE  made \subseteq made' /\ \A u \in made : posts[u] <= posts'[u]
  <2>1. made' = made /\ (posts' = posts \/ \E t : posts' = [posts EXCEPT ![t] = posts[t] + 1])
    BY <1>5 DEF CommitReply
  <2>2. QED
    BY <1>2, <1>3, <2>1
<1>6. CASE AgentRequest
  <2>1. ASSUME NEW t \in Threads, NEW byMember \in BOOLEAN, AppendHumanMessage(t, byMember)
        PROVE  made' = made /\ posts' = [posts EXCEPT ![t] = posts[t] + 1]
    BY <2>1 DEF AppendHumanMessage
  <2>2. ASSUME NEW s \in Servers, NEW t \in Threads, NEW a \in Agents, Create(s, t, a)
        PROVE  made' = made /\ posts' = posts
    BY <2>2 DEF Create
  <2>3. ASSUME NEW i \in Subs, Disable(i) PROVE made' = made /\ posts' = posts
    BY <2>3 DEF Disable
  <2>4. ASSUME NEW a \in Agents, RemoveAgent(a) \/ AddAgent(a) PROVE made' = made /\ posts' = posts
    BY <2>4 DEF RemoveAgent, AddAgent
  <2>5. QED
    BY <1>2, <1>3, <1>4, <1>6, <2>1, <2>2, <2>3, <2>4 DEF AgentRequest, GetState
<1>7. ASSUME NEW s \in Servers, Poll(s) \/ Fails(s) \/ Restart(s), ~CommitReply(s)
      PROVE  made' = made /\ posts' = posts
  <2>1. CASE Claim(s)
    BY <2>1 DEF Claim
  <2>2. CASE Fetch(s) \/ ReadSubscription(s) \/ StartCall(s) \/ CallProvider(s) \/ LookUp(s) \/ Finish(s) \/ Fails(s)
    <3>1. UNCHANGED rows
      BY <2>2 DEF Fetch, ReadSubscription, StartCall, CallProvider, LookUp, Finish, Fails
    <3>2. QED
      BY <3>1 DEF rows
  <2>3. CASE Restart(s)
    BY <2>3 DEF Restart
  <2>4. QED
    BY <1>7, <2>1, <2>2, <2>3 DEF Poll
<1>8. ASSUME NEW x \in Turns, Lapse(x) PROVE made' = made /\ posts' = posts
  BY <1>8 DEF Lapse, rows
<1>9. CASE UNCHANGED agentVars
  BY <1>2, <1>9 DEF agentVars
<1>10. QED
  BY <1>2, <1>5, <1>6, <1>7, <1>8, <1>9 DEF AgentNext

\* So are the messages and events of channels.
LEMMA SaidGrows ==
    ASSUME ServerOK,
           \/ UNCHANGED server
           \/ \E c \in Channels : SaySomething(c)
           \/ \E c \in Channels : \E e \in Bindable[c] : BindEvent(c, e)
    PROVE  /\ ServerOK'
           /\ \A c \in Channels : said[c] <= said'[c] /\ bound[c] \subseteq bound'[c]
           /\ late \subseteq late'
           /\ \A c \in Channels, e \in Nat :
                e \in bound'[c] /\ e \notin bound[c] => \A f \in bound[c] : f > e => <<c, e>> \in late'
<1>0. \A c \in Channels : said[c] \in Nat /\ said[c] <= said[c]
  BY DEF ServerOK
<1>1. CASE UNCHANGED server
  <2>1. said' = said /\ bound' = bound /\ late' = late
    BY <1>1 DEF server
  <2>2. QED
    BY <1>0, <2>1 DEF ServerOK
<1>2. CASE \E c \in Channels : SaySomething(c)
  <2>1. PICK c \in Channels : SaySomething(c)
    BY <1>2
  <2>2. /\ said[c] < MaxSaid[c] /\ said' = [said EXCEPT ![c] = said[c] + 1]
        /\ bound' = bound /\ late' = late /\ MaxSaid[c] \in Nat /\ said[c] \in Nat
    BY <2>1, ChannelViewAssumption DEF SaySomething, ServerOK
  <2>3. \A d \in Channels : said'[d] \in Nat /\ said'[d] <= MaxSaid[d] /\ said[d] <= said'[d]
    BY <2>2 DEF ServerOK
  <2>4. said' \in [Channels -> Nat]
    BY <2>2, <2>3 DEF ServerOK
  <2>5. QED
    BY <2>2, <2>3, <2>4 DEF ServerOK
<1>3. CASE \E c \in Channels : \E e \in Bindable[c] : BindEvent(c, e)
  <2>1. PICK c, e : c \in Channels /\ e \in Bindable[c] /\ BindEvent(c, e)
    BY <1>3
  <2>2. /\ c \in Channels /\ e \in Bindable[c] /\ e \notin bound[c] /\ e \in Nat \ {0}
        /\ bound' = [bound EXCEPT ![c] = bound[c] \cup {e}] /\ said' = said
        /\ late' = IF \E f \in bound[c] : f > e THEN late \cup {<<c, e>>} ELSE late
    BY <2>1, ChannelViewAssumption DEF BindEvent
  <2>3. \A d \in Channels : bound'[d] = IF d = c THEN bound[d] \cup {e} ELSE bound[d]
    BY <2>1, <2>2 DEF ServerOK
  <2>4. \A d \in Channels : IsFiniteSet(bound'[d]) /\ bound'[d] \subseteq Bindable[d] /\ bound[d] \subseteq bound'[d]
    <3>1. IsFiniteSet(bound[c] \cup {e})
      BY <2>1, FS_AddElement DEF ServerOK
    <3>2. QED
      BY <2>2, <2>3, <3>1 DEF ServerOK
  <2>5. bound' \in [Channels -> SUBSET (Nat \ {0})]
    BY <2>2, <2>3 DEF ServerOK
  <2>6. late' \subseteq Channels \X Nat /\ late \subseteq late' /\ \A x \in late' : x[2] \in bound'[x[1]]
    <3>1. \A x \in late : x \in Channels \X Nat /\ x[2] \in bound'[x[1]]
      BY <2>4 DEF ServerOK
    <3>2. <<c, e>> \in Channels \X Nat /\ e \in bound'[c]
      BY <2>2, <2>3
    <3>3. QED
      BY <2>2, <3>1, <3>2
  <2>7. ASSUME NEW d \in Channels, NEW g \in Nat, g \in bound'[d], g \notin bound[d], NEW f \in bound[d], f > g
        PROVE  <<d, g>> \in late'
    BY <2>2, <2>3, <2>7
  <2>8. QED
    BY <1>0, <2>2, <2>4, <2>5, <2>6, <2>7 DEF ServerOK
<1>4. QED
  BY <1>1, <1>2, <1>3

\* What others do leaves the tab as it is, and as good as it was.
LEMMA Undisturbed ==
    ASSUME ViewInv, Grown, Grows, UNCHANGED <<channel, thread, drawn, busy, asks, clicks, lost>>
    PROVE  ViewInv'
<1>1. UNCHANGED <<shown, latest, cursor, retry, waiting, blurred>> /\ section' = section /\ made \subseteq made'
  BY DEF drawn, Grows
<1>2. TabOK'
  BY <1>1 DEF ViewInv, TabOK
<1>3. ShownOK' /\ CursorsOK' /\ \A c \in asks : AskedOK(c)' /\ FreshOK(c)'
  BY <1>1, <1>2, StillDrawn
<1>4. RequestsOK'
  BY <1>3 DEF ViewInv, RequestsOK, OneRead
<1>5. QED
  BY <1>2, <1>3, <1>4 DEF ViewInv, Grown

\* A request that has been answered.
LEMMA Answered ==
    ASSUME ViewInv, Grown, Grows, UNCHANGED <<channel, thread, drawn, busy, clicks, lost>>,
           NEW a \in asks, NEW page \in Seq(Items), NEW next \in Nat, Answer(a, page, next),
           ToSet(page) \subseteq Listing(a)', IsInjective(page),
           next = 0 \/ (page # <<>> /\ next = Last(page)),
           a.what \in Numbered =>
             \A n \in ToSet(page), m \in Listing(a)' :
               a.after < m /\ m <= n => m \in ToSet(page) \/ <<a.place, m>> \in late'
    PROVE  ViewInv'
<1>1. UNCHANGED <<shown, latest, cursor, retry, waiting, blurred>> /\ section' = section /\ made \subseteq made'
  BY DEF drawn, Grows
<1>2. PICK b : b = [a EXCEPT !.served = TRUE, !.page = page, !.next = next]
  OBVIOUS
<1>3. a \in Asks /\ AskedOK(a) /\ FreshOK(a) /\ asks \in SUBSET Asks /\ OneRead(asks)
  BY DEF ViewInv, RequestsOK
<1>4. /\ b \in Asks /\ b.what = a.what /\ b.place = a.place /\ b.after = a.after /\ b.fresh = a.fresh
      /\ b.page = page /\ b.next = next
  BY <1>2, <1>3 DEF Asks
<1>5. asks' = (asks \ {a}) \cup {b}
  BY <1>2 DEF Answer
<1>6. TabOK'
  <2>1. busy' => \E c \in asks' : c.fresh /\ c.what \in Panels
    <3>1. ASSUME NEW c \in asks, c.fresh, c.what \in Panels PROVE \E d \in asks' : d.fresh /\ d.what \in Panels
      BY <1>4, <1>5, <3>1
    <3>2. QED
      BY <3>1 DEF ViewInv, TabOK
  <2>2. QED
    BY <1>1, <2>1 DEF ViewInv, TabOK
<1>7. ShownOK' /\ CursorsOK' /\ \A c \in asks : AskedOK(c)' /\ FreshOK(c)'
  BY <1>1, <1>6, StillDrawn
<1>8. AskedOK(b)'
  <2>1. KindOK(b)' /\ PlaceOK(b)' /\ (b.what = "disable" => b.after \in Subs)
    BY <1>4, <1>7 DEF AskedOK, KindOK, PlaceOK
  <2>2. Listing(b)' = Listing(a)'
    BY <1>4 DEF Listing, ListMessages, ListChannelEvents, ListThreads, ListThreadMessages
  <2>3. PageOK(b)'
    BY <1>4, <2>2 DEF PageOK
  <2>4. QED
    BY <2>1, <2>3 DEF AskedOK
<1>9. FreshOK(b)'
  BY <1>4, <1>7 DEF FreshOK, Mark, Whole
<1>10. OneRead(asks')
  <2> SUFFICES ASSUME NEW c \in asks', NEW d \in asks', c.fresh, d.fresh, c.what \in Reads, d.what \in Reads
               PROVE  c = d
    BY DEF OneRead
  <2>1. CASE c = b /\ d = b
    BY <2>1
  <2>2. CASE c \in asks \ {a} /\ d \in asks \ {a}
    BY <1>3, <2>2 DEF OneRead
  <2>3. ASSUME NEW e \in asks \ {a}, e.fresh, e.what \in Reads, b.fresh, b.what \in Reads PROVE FALSE
    BY <1>3, <1>4, <2>3 DEF OneRead
  <2>4. QED
    BY <1>5, <2>1, <2>2, <2>3
<1>11. RequestsOK'
  BY <1>3, <1>4, <1>5, <1>7, <1>8, <1>9, <1>10 DEF RequestsOK, OneRead
<1>12. QED
  BY <1>6, <1>7, <1>11 DEF ViewInv, Grown

\* The listings that the server pages.
LEMMA NumbersServed ==
    ASSUME ViewInv, AgentTypeOK, UNCHANGED <<agentVars, server, section, channel, thread, drawn, busy, clicks, lost>>,
           NEW a \in asks, a.what \in Numbered, NEW page, page = Page(Listing(a), a.after), NEW next,
           next = 0 \/ (page # <<>> /\ next = Last(page)), Answer(a, page, next)
    PROVE  ViewInv'
<1>1. a \in Asks /\ AskedOK(a) /\ PlaceOK(a) /\ a.after \in Nat
  BY DEF ViewInv, RequestsOK, AskedOK, Asks
<1>2. Listing(a) \in SUBSET (Nat \ {0}) /\ IsFiniteSet(Listing(a))
  BY <1>1, ListingsAreNumbers DEF ViewInv, AgentTypeOK
<1>3. /\ page \in Seq(Nat) /\ ToSet(page) \subseteq Listing(a) /\ IsInjective(page)
      /\ \A n \in ToSet(page), m \in Listing(a) : a.after < m /\ m <= n => m \in ToSet(page)
  BY <1>1, <1>2, PageIs
<1>4. page \in Seq(Items)
  BY <1>3, Widens DEF Items
<1>5. next \in Nat
  BY <1>3, LastIs
<1>6. Grown /\ Grows
  BY QuietGrows
<1>7. Listing(a)' = Listing(a)
  BY DEF Listing, ListMessages, ListChannelEvents, ListThreads, ListThreadMessages, agentVars, server
<1>8. QED
  BY <1>3, <1>4, <1>5, <1>6, <1>7, Answered

\* Whatever the server answers.
LEMMA ServeKept ==
    ASSUME ViewInv, AgentTypeOK, Grown, Grows, NEW a \in asks, Serve(a)
    PROVE  ViewInv'
<1>1. a \in Asks /\ AskedOK(a) /\ PlaceOK(a) /\ made \in SUBSET Threads
  BY DEF ViewInv, RequestsOK, AskedOK, AgentTypeOK
<1>2. UNCHANGED <<section, channel, thread, drawn, busy, clicks, lost>>
  BY DEF Serve
<1>3. CASE UNCHANGED <<agentVars, server>> /\ (ServeMessages(a) \/ ServeThreadMessages(a))
  <2>1. PICK page : page = Page(Listing(a), a.after)
    OBVIOUS
  <2>2. a.what \in Numbered /\ Answer(a, page, NextIfFull(page))
    BY <1>3, <2>1 DEF ServeMessages, ServeThreadMessages, Listing, Numbered
  <2>3. page \in Seq(Nat)
    <3>1. Listing(a) \in SUBSET (Nat \ {0}) /\ IsFiniteSet(Listing(a)) /\ a.after \in Nat
      BY <1>1, <2>2, ListingsAreNumbers DEF ViewInv, AgentTypeOK, Asks
    <3>2. QED
      BY <2>1, <3>1, PageIs
  <2>4. NextIfFull(page) = 0 \/ (page # <<>> /\ NextIfFull(page) = Last(page))
    BY <2>3, ChannelViewAssumption DEF NextIfFull
  <2>5. QED
    BY <1>2, <1>3, <2>1, <2>2, <2>4, NumbersServed
<1>4. CASE UNCHANGED <<agentVars, server>> /\ ServeEvents(a)
  <2>1. PICK page : page = Page(Listing(a), a.after)
    OBVIOUS
  <2>2. a.what \in Numbered /\ \E next : Answer(a, page, next) /\ (next = 0 \/ (page # <<>> /\ next = Last(page)))
    BY <1>4, <2>1 DEF ServeEvents, Listing, Numbered
  <2>3. QED
    BY <1>2, <1>4, <2>1, <2>2, NumbersServed
<1>5. CASE UNCHANGED <<agentVars, server>> /\ ServeThreads(a)
  <2>1. PICK page : page = SetToSeq(ListThreads(a.place))
    OBVIOUS
  <2>2. a.what = "list" /\ Answer(a, page, 0) /\ Listing(a)' = ListThreads(a.place)
    BY <1>5, <2>1 DEF ServeThreads, Listing, ListThreads, agentVars
  <2>3. ListThreads(a.place) \in SUBSET Threads /\ IsFiniteSet(Threads)
    BY <1>1, ChannelViewAssumption DEF ListThreads
  <2>4. IsFiniteSet(ListThreads(a.place))
    BY <2>3, FS_Subset
  <2>5. page \in Seq(ListThreads(a.place)) /\ ToSet(page) \subseteq ListThreads(a.place) /\ IsInjective(page)
    BY <2>1, <2>4, SetToSeqIs
  <2>6. page \in Seq(Items)
    BY <2>3, <2>5, Widens DEF Items
  <2>7. a.what \notin Numbered
    BY <2>2 DEF Numbered
  <2>8. QED
    BY <1>2, <2>2, <2>5, <2>6, <2>7, Answered
<1>6. CASE ServeSubscription(a)
  <2>1. a.what = "panel" /\ Listing(a)' = Subs
    BY <1>6 DEF ServeSubscription, Listing
  <2>2. a.what \notin Numbered
    BY <2>1 DEF Numbered
  <2>3. PICK stream : stream = {i \in Subs : sub[i] = "on" /\ home[i] = a.place}
    OBVIOUS
  <2>4. Answer(a, SetToSeq(stream), 0) \/ Answer(a, <<>>, 0)
    BY <1>6, <2>3 DEF ServeSubscription
  <2>5. IsFiniteSet(stream) /\ stream \in SUBSET Subs
    <3>1. IsFiniteSet(Subs)
      BY Intervals, ThreadAgentsAssumption DEF Subs
    <3>2. QED
      BY <2>3, <3>1, FS_Subset
  <2>6. SetToSeq(stream) \in Seq(stream) /\ ToSet(SetToSeq(stream)) \subseteq Subs /\ IsInjective(SetToSeq(stream))
    BY <2>5, SetToSeqIs
  <2>7. SetToSeq(stream) \in Seq(Items)
    <3>1. Subs \subseteq Nat
      BY ThreadAgentsAssumption DEF Subs
    <3>2. QED
      BY <2>5, <2>6, <3>1, Widens DEF Items
  <2>8. <<>> \in Seq(Items) /\ ToSet(<<>>) = {} /\ IsInjective(<<>>)
    BY DEF ToSet, IsInjective
  <2>9. PICK page \in Seq(Items) : Answer(a, page, 0) /\ ToSet(page) \subseteq Listing(a)' /\ IsInjective(page)
    BY <2>1, <2>4, <2>6, <2>7, <2>8
  <2>10. QED
    BY <1>2, <2>2, <2>9, Answered
<1>7. CASE ServeSend(a)
  <2>1. a.what = "send" /\ SaySomething(a.place) /\ Answer(a, <<said[a.place] + 1>>, 0) /\ a.place \in Channels
    BY <1>1, <1>7 DEF ServeSend, PlaceOK
  <2>2. PICK k : k = said[a.place] + 1
    OBVIOUS
  <2>3. k \in Nat \ {0} /\ said'[a.place] = k
    BY <2>1, <2>2 DEF SaySomething, ViewInv, ServerOK
  <2>4. Listing(a)' = 1 .. k
    BY <2>1, <2>3 DEF Listing, ListMessages
  <2>5. PICK page : page = <<k>>
    OBVIOUS
  <2>6. page \in Seq(Items) /\ ToSet(page) = {k} /\ IsInjective(page)
    BY <2>3, <2>5 DEF Items, ToSet, IsInjective
  <2>7. a.what \notin Numbered /\ k \in 1 .. k
    BY <2>1, <2>3 DEF Numbered
  <2>8. Answer(a, page, 0)
    BY <2>1, <2>2, <2>5
  <2>9. QED
    BY <1>2, <2>4, <2>6, <2>7, <2>8, Answered
<1>8. CASE ServeReply(a) \/ ServeEnable(a) \/ ServeDisable(a)
  <2>1. Answer(a, <<>>, 0) /\ a.what \notin Numbered
    BY <1>8 DEF ServeReply, ServeEnable, ServeDisable, Numbered
  <2>2. PICK page : page = <<>>
    OBVIOUS
  <2>3. page \in Seq(Items) /\ ToSet(page) = {} /\ IsInjective(page) /\ Answer(a, page, 0)
    BY <2>1, <2>2 DEF ToSet, IsInjective
  <2>4. QED
    BY <1>2, <2>1, <2>3, Answered
<1>9. QED
  BY <1>3, <1>4, <1>5, <1>6, <1>7, <1>8 DEF Serve

\* Every step keeps the invariant.
LEMMA ViewInvKept ==
    ASSUME ViewInv, AgentTypeOK, AgentTypeOK',
           [ViewNext \/ (AgentNext /\ UNCHANGED viewVars)]_<<agentVars, viewVars>>
    PROVE  ViewInv'
<1>1. [AgentNext]_agentVars
  BY StepsAreTheAgents
<1>2. made \subseteq made' /\ \A t \in made : posts[t] <= posts'[t]
  BY <1>1, ThreadsOnlyGrow
<1>3. ASSUME section' = section,
             \/ UNCHANGED server
             \/ \E c \in Channels : SaySomething(c)
             \/ \E c \in Channels : \E e \in Bindable[c] : BindEvent(c, e)
      PROVE  Grown /\ Grows
  <2>1. /\ ServerOK /\ ServerOK'
        /\ \A c \in Channels : said[c] <= said'[c] /\ bound[c] \subseteq bound'[c]
        /\ late \subseteq late'
        /\ \A c \in Channels, e \in Nat :
             e \in bound'[c] /\ e \notin bound[c] => \A f \in bound[c] : f > e => <<c, e>> \in late'
    BY <1>3, SaidGrows DEF ViewInv
  <2>2. Grown
    BY <2>1 DEF Grown, AgentTypeOK
  <2>3. QED
    BY <1>2, <1>3, <2>1, <2>2 DEF Grows
<1>4. CASE UNCHANGED viewVars
  <2>1. UNCHANGED <<server, section, channel, thread, drawn, busy, asks, clicks, lost>>
    BY <1>4 DEF viewVars
  <2>2. QED
    BY <1>3, <2>1, Undisturbed
<1>5. CASE Others /\ UNCHANGED <<section, channel, thread, drawn, busy, asks, clicks, lost>>
  BY <1>3, <1>5, Undisturbed DEF Others
<1>6. ASSUME NEW a \in asks, Serve(a) PROVE ViewInv'
  <2>1. UNCHANGED server \/ \E c \in Channels : SaySomething(c)
    BY <1>6 DEF Serve, ServeSend, ServeReply, ServeEnable, ServeDisable, ViewInv, RequestsOK, AskedOK, PlaceOK
  <2>2. section' = section
    BY <1>6 DEF Serve
  <2>3. QED
    BY <1>3, <1>6, <2>1, <2>2, ServeKept
<1>7. ASSUME NEW a \in asks, Receive(a) \/ Lose(a) PROVE ViewInv'
  BY <1>7, ReceiveKept, LoseKept
<1>8. CASE RefreshChannels
  BY <1>8, SelectKept, LeaveKept DEF RefreshChannels, ViewInv, TabOK
<1>9. CASE \E c \in Channels : Select(c)
  BY <1>9, SelectKept
<1>10. CASE \E t \in Threads : OpenThread(t)
  BY <1>10, OpenThreadKept
<1>11. CASE Leave \/ More \/ Again \/ Send \/ Reply \/ Operate \/ PollForMessages \/ Notified
  BY <1>11, LeaveKept, AsksKept DEF Notified
<1>12. QED
  BY <1>4, <1>5, <1>6, <1>7, <1>8, <1>9, <1>10, <1>11 DEF ViewNext

\* It holds of the initial states.
LEMMA ViewBegins == AgentInit /\ ViewInit => ViewInv
<1> SUFFICES ASSUME AgentInit, ViewInit PROVE ViewInv
  OBVIOUS
<1> USE DEF ViewInit
<1>1. section \in Sections /\ MaxClicks[section] \in Nat /\ MaxLost \in Nat
  BY ChannelViewAssumption
<1>2. TabOK
  <2>1. clicks \in 0 .. MaxClicks[section] /\ lost \in 0 .. MaxLost
    BY <1>1
  <2>2. waiting \in BOOLEAN /\ busy \in BOOLEAN /\ blurred \in BOOLEAN /\ ~busy
    OBVIOUS
  <2>3. channel \in Channels \cup {None} /\ thread \in made \cup {None}
    OBVIOUS
  <2>4. QED
    BY <1>1, <2>1, <2>2, <2>3 DEF TabOK
<1>3. ServerOK
  <2>1. \A c \in Channels : MaxSaid[c] \in Nat
    BY ChannelViewAssumption
  <2>2. IsFiniteSet({})
    BY FS_EmptySet
  <2>3. QED
    BY <2>1, <2>2 DEF ServerOK
<1>4. ShownOK
  BY DEF ShownOK, ToSet, IsInjective
<1>5. Place = None /\ Written = {}
  BY DEF Place, Written
<1>6. CursorsOK
  BY <1>5 DEF CursorsOK, Whole
<1>7. RequestsOK
  BY DEF RequestsOK, OneRead
<1>8. QED
  BY <1>2, <1>3, <1>4, <1>6, <1>7 DEF ViewInv

\* What the invariant says of the type and of what is drawn.
LEMMA ViewInvSays == ViewInv /\ AgentTypeOK => ViewTypeOK /\ ShownIsWhole
<1> SUFFICES ASSUME ViewInv, AgentTypeOK PROVE ViewTypeOK /\ ShownIsWhole
  OBVIOUS
<1>1. Cardinality(retry) <= 1
  <2>1. CASE retry = {}
    BY <2>1, FS_EmptySet
  <2>2. CASE retry # {}
    <3>1. PICK r \in retry : TRUE
      BY <2>2
    <3>2. retry = {r}
      BY <3>1 DEF ViewInv, CursorsOK
    <3>3. QED
      BY <3>2, FS_Singleton
  <2>3. QED
    BY <2>1, <2>2
<1>2. \A c \in Channels : said[c] \in 0 .. MaxSaid[c] /\ bound[c] \subseteq Bindable[c]
  <2>1. \A c \in Channels : MaxSaid[c] \in Nat
    BY ChannelViewAssumption
  <2>2. QED
    BY <2>1 DEF ViewInv, ServerOK
<1>3. ViewTypeOK
  BY <1>1, <1>2 DEF ViewInv, ServerOK, TabOK, ShownOK, CursorsOK, RequestsOK, OneRead, ViewTypeOK
<1>4. Cardinality(ToSet(shown)) = Len(shown)
  BY DistinctLength DEF ViewInv, ShownOK
<1>5. busy => \E a \in Fresh(asks, {"panel", "enable", "disable"}) : a.place = thread
  BY DEF ViewInv, TabOK, RequestsOK, FreshOK, Fresh, Panels
<1>6. NoGap
  BY DEF ViewInv, CursorsOK, Whole, NoGap
<1>7. QED
  BY <1>3, <1>4, <1>5, <1>6 DEF ShownIsWhole, ShownBelongs, ViewInv, ShownOK

-----------------------------------------------------------------------------
(* ChannelView: what always holds of the tab.                              *)

\* A step of the view keeps both invariants: the agents' for it is one of their
\* steps or none, the tab's by what the step does.
LEMMA BothKept ==
    AgentInv /\ ViewInv /\ [ViewNext \/ (AgentNext /\ UNCHANGED viewVars)]_<<agentVars, viewVars>>
    => (AgentInv /\ ViewInv)'
<1> SUFFICES ASSUME AgentInv, ViewInv, [ViewNext \/ (AgentNext /\ UNCHANGED viewVars)]_<<agentVars, viewVars>>
             PROVE  AgentInv' /\ ViewInv'
  OBVIOUS
<1>1. AgentTypeOK
  BY DEF AgentInv, TypeInv
<1>2. AgentInv'
  BY <1>1, StepsAreTheAgents, AgentInvKept
<1>3. AgentTypeOK'
  BY <1>2 DEF AgentInv, TypeInv
<1>4. QED
  BY <1>1, <1>2, <1>3, ViewInvKept

\* The invariants of the agents and of the tab hold together.
THEOREM ViewInvariance == ViewSpec => [](AgentInv /\ ViewInv)
<1>1. AgentInit /\ ViewInit => AgentInv /\ ViewInv
  BY AgentInvInit, ViewBegins
<1>2. QED
  BY <1>1, BothKept, PTL DEF ViewSpec

\* The tab, its requests and what the server keeps have their types, for any number
\* of channels, threads, clicks and losses (channels-ui.mjs).
THEOREM ViewTypesCorrect == ViewSpec => []ViewTypeOK
<1>1. AgentInv /\ ViewInv => ViewTypeOK
  BY ViewInvSays DEF AgentInv, TypeInv
<1>2. QED
  BY <1>1, ViewInvariance, PTL

\* Only items of the open channel or thread are drawn, each once; nothing at or
\* before the cursor the tab polls from is missing but what was bound late; and a
\* busy panel has a request that will end that (loadMessages, refreshMessages,
\* loadEvents, loadThreadMessages and loadAgentSubscription, channels-ui.mjs).
THEOREM ShownStaysWhole == ViewSpec => []ShownIsWhole
<1>1. AgentInv /\ ViewInv => ShownIsWhole
  BY ViewInvSays DEF AgentInv, TypeInv
<1>2. QED
  BY <1>1, ViewInvariance, PTL

\* The tab and its server refine the agents' model: all that a page does to threads
\* and their agents is a step that ThreadAgents has, or none.
THEOREM ViewKeepsTheAgents == ViewSpec => AgentInit /\ [][AgentNext]_agentVars
<1>1. ASSUME AgentInv, ViewInv, [ViewNext \/ (AgentNext /\ UNCHANGED viewVars)]_<<agentVars, viewVars>>
      PROVE  [AgentNext]_agentVars
  BY <1>1, StepsAreTheAgents DEF AgentInv, TypeInv
<1>2. QED
  BY <1>1, ViewInvariance, PTL DEF ViewSpec

\* So the agents keep their promises whatever the page asks for: a turn is sent once
\* at most, as it was consented to, and answered once, while it stands.
THEOREM AgentsBeneathThePage == ViewSpec => [](SentOnceAsConsented /\ ReplyOfAStandingTurn)
<1>1. AgentInit => SentOnceAsConsented
  BY DEF AgentInit, SentOnceAsConsented
<1>2. AgentInv => ReplyOfAStandingTurn
  BY DEF AgentInv
<1>3. QED
  BY <1>1, <1>2, SendingKept, ViewInvariance, ViewKeepsTheAgents, PTL

-----------------------------------------------------------------------------
(* ConnectorIngress: the invariant.                                        *)

\* A connector that is there keeps the row of its newest revision.
ConnectorOK(c) ==
  IF defn[c] = Nothing THEN version[c] = 0 /\ ~live[c] /\ ~released[c]
                       ELSE version[c] \in Versions /\ kept[c][version[c]] = defn[c]

\* An edit that is under way is about a connector, and publishes what it read.
EditOK(e) ==
  /\ edit[e] \notin {"new", "done"} => about[e] \in Connectors
  /\ edit[e] = "publish" => took[e] \in Definitions

\* A post was received under a revision that is kept as long as its connector is;
\* a replay is of a post.
HandlerOK(h) ==
  /\ phase[h] = "none" <=> kind[h] = "none"
  /\ phase[h] = "capture" => kind[h] = "post"
  /\ kind[h] # "none" => of[h] \in Connectors /\ under[h] \in Definitions \X Versions
  /\ kind[h] = "post" /\ of[h] \notin deleted =>
       /\ defn[of[h]] # Nothing /\ under[h][2] <= version[of[h]]
       /\ kept[of[h]][under[h][2]] = under[h][1]
  /\ kind[h] = "replay" => receipt[h] \in Handlers /\ kind[receipt[h]] = "post"

\* How far a handler has come with its events.
Indices(h) == {e.index : e \in Led(h)}
LedOK(h) ==
  /\ phase[h] \in {"none", "capture", "evaluate"} => Led(h) = {}
  /\ phase[h] = "publish" =>
       /\ index[h] \in 1 .. Emits[under[h][1]]
       /\ Indices(h) = 1 .. (index[h] - 1) /\ Led(h) \subseteq fanned
  /\ phase[h] = "fanout" =>
       /\ index[h] \in 1 .. Emits[under[h][1]]
       /\ Indices(h) = 1 .. index[h]
       /\ \A e \in Led(h) : e.index # index[h] => e \in fanned
  /\ phase[h] = "finish" => Indices(h) = 1 .. Emits[under[h][1]] /\ Led(h) \subseteq fanned
  /\ row[h] \in {"queued", "unmatched"} => phase[h] = "over"

IngressInv ==
  /\ IngressTypeOK
  /\ \A c \in Connectors : ConnectorOK(c)
  /\ \A e \in Edits : EditOK(e)
  /\ \A h \in Handlers : HandlerOK(h) /\ LedOK(h)
  /\ EventsFollowReceipts

\* What a step leaves of a connector that is not deleted: its row, and the
\* revisions that it has kept.
RowsStand ==
  /\ deleted \subseteq deleted'
  /\ \A c \in Connectors : c \notin deleted' /\ defn[c] # Nothing =>
       /\ defn'[c] # Nothing /\ version[c] <= version'[c]
       /\ \A v \in Versions : v <= version[c] => kept'[c][v] = kept[c][v]

-----------------------------------------------------------------------------
(* ConnectorIngress: connectors and edits keep it.                         *)

\* Versions, tokens and handlers are numbers; nothing is none of its kinds.
LEMMA IngressFacts ==
  /\ 1 \in Versions /\ \A v \in Versions : v \in 0 .. MaxVersions /\ v \in Nat \ {0} /\ v <= v
  /\ \A v \in 0 .. MaxVersions : v \in Nat /\ v <= v /\ (v < MaxVersions => v + 1 \in Versions /\ v + 1 > v /\ v <= v + 1)
  /\ 0 \in 0 .. MaxVersions
  /\ \A n \in 0 .. MaxTokens : n < MaxTokens => n + 1 \in Tokens /\ n + 1 \in 0 .. MaxTokens
  /\ Nothing \notin Definitions /\ Nothing \notin Connectors /\ Nothing \notin Tokens
  /\ Anonymous \notin Deliveries
  /\ \A d \in Definitions : Emits[d] \in Nat
  /\ \A h \in Handlers : h \in 0 .. MaxHandlers
BY ConnectorIngressAssumption DEF Versions, Tokens, Handlers

\* Every step keeps the connectors' rows and the revisions they are kept under.
LEMMA ConnectorsKept ==
  IngressInv /\ IngressNext => ConnectorTypes' /\ (\A c \in Connectors : ConnectorOK(c)') /\ RowsStand
<1> DEFINE Goal == ConnectorTypes' /\ (\A c \in Connectors : ConnectorOK(c)') /\ RowsStand
<1> SUFFICES ASSUME IngressInv, IngressNext PROVE Goal
  OBVIOUS
<1>know. /\ defn \in [Connectors -> Definitions \cup {Nothing}]
         /\ pending \in [Connectors -> Definitions \cup {Nothing}]
         /\ version \in [Connectors -> 0 .. MaxVersions]
         /\ live \in [Connectors -> BOOLEAN] /\ released \in [Connectors -> BOOLEAN]
         /\ hash \in [Connectors -> Tokens \cup {Nothing}]
         /\ kept \in [Connectors -> [Versions -> Definitions \cup {Nothing}]]
         /\ issued \in 0 .. MaxTokens /\ deleted \subseteq Connectors
  BY DEF IngressInv, IngressTypeOK, ConnectorTypes
<1>ok. \A c \in Connectors : ConnectorOK(c)
  BY DEF IngressInv
<1>edits. \A e \in Edits : EditOK(e)
  BY DEF IngressInv
<1>num. \A c \in Connectors : version[c] <= version[c]
  BY <1>know, IngressFacts
<1>same. ASSUME UNCHANGED connectorVars PROVE Goal
  BY <1>same, <1>know, <1>ok, <1>num DEF connectorVars, ConnectorTypes, ConnectorOK, RowsStand
\* A step that leaves definitions and revisions alone.
<1>flags. ASSUME UNCHANGED <<defn, version, kept, deleted>>, ConnectorTypes',
                 \A c \in Connectors : live'[c] => live[c] \/ defn[c] # Nothing,
                 \A c \in Connectors : released'[c] => released[c] \/ defn[c] # Nothing
          PROVE  Goal
  BY <1>flags, <1>ok, <1>num DEF ConnectorOK, RowsStand
\* A step that gives one connector a new revision, the first one or the next.
<1>writes. ASSUME NEW c \in Connectors, NEW d \in Definitions, NEW v \in Versions, ConnectorTypes',
                  defn' = [defn EXCEPT ![c] = d], version' = [version EXCEPT ![c] = v],
                  kept' = [kept EXCEPT ![c][v] = d], deleted' = deleted,
                  defn[c] # Nothing => v = version[c] + 1,
                  \A u \in Connectors : u # c => live'[u] = live[u] /\ released'[u] = released[u]
           PROVE  Goal
  <2>1. /\ defn'[c] = d /\ version'[c] = v /\ kept'[c] = [kept[c] EXCEPT ![v] = d]
        /\ kept[c] \in [Versions -> Definitions \cup {Nothing}]
        /\ \A u \in Connectors : u # c => defn'[u] = defn[u] /\ version'[u] = version[u] /\ kept'[u] = kept[u]
    BY <1>writes, <1>know
  <2>2. kept'[c][v] = d /\ \A w \in Versions : w # v => kept'[c][w] = kept[c][w]
    BY <2>1
  <2>3. d # Nothing
    BY IngressFacts
  <2>4. \A u \in Connectors : ConnectorOK(u)'
    BY <1>writes, <1>ok, <2>1, <2>2, <2>3 DEF ConnectorOK
  <2>5. defn[c] # Nothing => version[c] <= v /\ \A w \in Versions : w <= version[c] => w # v
    <3>1. version[c] \in Nat
      BY <1>know, IngressFacts
    <3>2. \A w \in Versions : w \in Nat
      BY IngressFacts
    <3>3. QED
      BY <1>writes, <3>1, <3>2
  <2>6. RowsStand
    BY <1>writes, <1>num, <2>1, <2>2, <2>3, <2>5 DEF RowsStand
  <2>7. QED
    BY <1>writes, <2>4, <2>6
<1>draw. ASSUME Draw PROVE issued' \in Tokens /\ issued' \in 0 .. MaxTokens
  BY <1>draw, <1>know, IngressFacts DEF Draw
<1>insert. ASSUME NEW c \in Connectors, NEW d \in Definitions, Insert(c, d) PROVE Goal
  <2>1. /\ defn' = [defn EXCEPT ![c] = d] /\ version' = [version EXCEPT ![c] = 1]
        /\ kept' = [kept EXCEPT ![c][1] = d] /\ live' = [live EXCEPT ![c] = TRUE]
        /\ released' = [released EXCEPT ![c] = TRUE] /\ hash' = [hash EXCEPT ![c] = issued']
        /\ defn[c] = Nothing /\ pending' = pending /\ deleted' = deleted /\ Draw
    BY <1>insert DEF Insert
  <2>2. ConnectorTypes'
    BY <1>know, <1>draw, <2>1, IngressFacts DEF ConnectorTypes
  <2>3. \A u \in Connectors : u # c => live'[u] = live[u] /\ released'[u] = released[u]
    BY <1>know, <2>1
  <2>4. QED
    BY <1>writes, <2>1, <2>2, <2>3, IngressFacts
<1>remove. ASSUME NEW c \in Connectors, RemoveConnector(c) PROVE Goal
  <2>1. /\ defn' = [defn EXCEPT ![c] = Nothing] /\ pending' = [pending EXCEPT ![c] = Nothing]
        /\ version' = [version EXCEPT ![c] = 0] /\ kept' = [kept EXCEPT ![c] = [v \in Versions |-> Nothing]]
        /\ live' = [live EXCEPT ![c] = FALSE] /\ released' = [released EXCEPT ![c] = FALSE]
        /\ hash' = [hash EXCEPT ![c] = Nothing] /\ deleted' = deleted \cup {c} /\ issued' = issued
    BY <1>remove DEF RemoveConnector
  <2>2. ConnectorTypes'
    BY <1>know, <2>1, IngressFacts DEF ConnectorTypes
  <2>3. /\ defn'[c] = Nothing /\ version'[c] = 0 /\ live'[c] = FALSE /\ released'[c] = FALSE
        /\ \A u \in Connectors : u # c => /\ defn'[u] = defn[u] /\ version'[u] = version[u]
                                          /\ kept'[u] = kept[u] /\ live'[u] = live[u]
                                          /\ released'[u] = released[u]
    BY <1>know, <2>1
  <2>4. \A u \in Connectors : ConnectorOK(u)'
    BY <1>ok, <2>3 DEF ConnectorOK
  <2>5. RowsStand
    BY <1>num, <2>1, <2>3 DEF RowsStand
  <2>6. QED
    BY <2>2, <2>4, <2>5
\* The token of a connector that is published or enabled.
<1>token. ASSUME NEW e \in Edits, NEW c \in Connectors, Token(e, c)
          PROVE  hash' \in [Connectors -> Tokens \cup {Nothing}] /\ issued' \in 0 .. MaxTokens
  <2>1. CASE knew[e]
    BY <1>token, <1>know, <2>1 DEF Token
  <2>2. CASE ~knew[e]
    BY <1>token, <1>know, <1>draw, <2>2 DEF Token
  <2>3. QED
    BY <2>1, <2>2
<1>revise. ASSUME NEW c \in Connectors, NEW d \in Definitions, Revise(c, d), defn[c] # Nothing
           PROVE  /\ version[c] + 1 \in Versions /\ version' = [version EXCEPT ![c] = version[c] + 1]
                  /\ defn' = [defn EXCEPT ![c] = d] /\ kept' = [kept EXCEPT ![c][version[c] + 1] = d]
                  /\ defn' \in [Connectors -> Definitions \cup {Nothing}]
                  /\ version' \in [Connectors -> 0 .. MaxVersions]
                  /\ kept' \in [Connectors -> [Versions -> Definitions \cup {Nothing}]]
  <2>1. version[c] + 1 \in Versions
    BY <1>revise, <1>know, IngressFacts DEF Revise
  <2>2. /\ version' = [version EXCEPT ![c] = version[c] + 1]
        /\ defn' = [defn EXCEPT ![c] = d] /\ kept' = [kept EXCEPT ![c][version[c] + 1] = d]
    BY <1>revise DEF Revise
  <2>3. version[c] + 1 \in 0 .. MaxVersions
    BY <2>1, IngressFacts
  <2>4. QED
    BY <1>know, <2>1, <2>2, <2>3
<1>1. ASSUME NEW c \in Connectors, NEW d \in Definitions, CreateForWorkspace(c, d) PROVE Goal
  BY <1>1, <1>insert DEF CreateForWorkspace
<1>2. ASSUME NEW c \in Connectors, NEW d \in Definitions, SaveConnectorDraft(c, d) PROVE Goal
  <2>1. pending' = [pending EXCEPT ![c] = d] /\ UNCHANGED <<live, released, hash, issued, deleted>>
    BY <1>2 DEF SaveConnectorDraft
  <2>2. CASE defn[c] = Nothing
    <3>1. /\ defn' = [defn EXCEPT ![c] = d] /\ version' = [version EXCEPT ![c] = 1]
          /\ kept' = [kept EXCEPT ![c][1] = d]
      BY <1>2, <2>2 DEF SaveConnectorDraft
    <3>2. ConnectorTypes'
      BY <1>know, <2>1, <3>1, IngressFacts DEF ConnectorTypes
    <3>3. QED
      BY <1>writes, <2>1, <2>2, <3>1, <3>2, IngressFacts
  <2>3. CASE defn[c] # Nothing
    <3>1. UNCHANGED <<defn, version, kept>>
      BY <1>2, <2>3 DEF SaveConnectorDraft
    <3>2. ConnectorTypes'
      BY <1>know, <2>1, <3>1 DEF ConnectorTypes
    <3>3. QED
      BY <1>flags, <2>1, <3>1, <3>2
  <2>4. QED
    BY <2>2, <2>3
<1>3. ASSUME NEW c \in Connectors, NEW d \in Definitions, UpdateForWorkspace(c, d) PROVE Goal
  <2>1. /\ defn[c] # Nothing /\ Revise(c, d)
        /\ UNCHANGED <<pending, live, released, hash, issued, deleted>>
    BY <1>3 DEF UpdateForWorkspace
  <2>2. ConnectorTypes'
    BY <1>know, <1>revise, <2>1 DEF ConnectorTypes
  <2>3. QED
    BY <1>revise, <1>writes, <2>1, <2>2
<1>4. ASSUME NEW c \in Connectors, Disable_(c) PROVE Goal
  <2>1. /\ live' = [live EXCEPT ![c] = FALSE] /\ hash' = [hash EXCEPT ![c] = Nothing]
        /\ UNCHANGED <<defn, pending, version, released, kept, issued, deleted>>
    BY <1>4 DEF Disable_
  <2>2. ConnectorTypes' /\ \A u \in Connectors : live'[u] => live[u]
    BY <1>know, <2>1 DEF ConnectorTypes
  <2>3. QED
    BY <1>flags, <2>1, <2>2
<1>5. ASSUME NEW c \in Connectors, DeleteForWorkspace(c) PROVE Goal
  BY <1>5, <1>remove DEF DeleteForWorkspace
<1>6. ASSUME NEW e \in Edits, NEW c \in Connectors, NEW d \in Definitions, Install(e, c, d) PROVE Goal
  BY <1>6, <1>insert DEF Install
<1>7. ASSUME NEW e \in Edits, PublishDraft(e) PROVE Goal
  <2> DEFINE c == about[e]
  <2>1. c \in Connectors /\ took[e] \in Definitions
    BY <1>7, <1>edits DEF PublishDraft, EditOK
  <2>2. CASE defn[c] = Nothing
    BY <1>7, <1>same, <2>2 DEF PublishDraft
  <2>3. CASE defn[c] # Nothing
    <3>1. /\ Revise(c, took[e]) /\ Token(e, c) /\ pending' = [pending EXCEPT ![c] = Nothing]
          /\ live' = [live EXCEPT ![c] = TRUE] /\ released' = [released EXCEPT ![c] = TRUE]
          /\ deleted' = deleted
      BY <1>7, <2>3 DEF PublishDraft
    <3> HIDE DEF c
    <3>2. ConnectorTypes'
      BY <1>know, <1>revise, <1>token, <2>1, <2>3, <3>1 DEF ConnectorTypes
    <3>3. \A u \in Connectors : u # c => live'[u] = live[u] /\ released'[u] = released[u]
      BY <1>know, <3>1
    <3>4. PICK d \in Definitions : d = took[e]
      BY <2>1
    <3>5. Revise(c, d)
      BY <3>1, <3>4
    <3>6. /\ version[c] + 1 \in Versions /\ version' = [version EXCEPT ![c] = version[c] + 1]
          /\ defn' = [defn EXCEPT ![c] = d] /\ kept' = [kept EXCEPT ![c][version[c] + 1] = d]
      BY <1>revise, <2>1, <2>3, <3>5
    <3>7. QED
      BY <1>writes, <2>1, <3>1, <3>2, <3>3, <3>6
  <2>4. QED
    BY <2>2, <2>3
<1>8. ASSUME NEW e \in Edits, Enable(e) PROVE Goal
  <2> DEFINE c == about[e]
  <2>1. c \in Connectors
    BY <1>8, <1>edits DEF Enable, EditOK
  <2>2. CASE defn[c] = Nothing
    BY <1>8, <1>same, <2>2 DEF Enable
  <2>3. CASE defn[c] # Nothing
    <3>1. /\ Token(e, c) /\ live' = [live EXCEPT ![c] = TRUE]
          /\ UNCHANGED <<defn, pending, version, released, kept, deleted>>
      BY <1>8, <2>3 DEF Enable
    <3> HIDE DEF c
    <3>2. ConnectorTypes' /\ \A u \in Connectors : live'[u] => live[u] \/ u = c
      BY <1>know, <1>token, <2>1, <3>1 DEF ConnectorTypes
    <3>3. QED
      BY <1>flags, <2>3, <3>1, <3>2
  <2>4. QED
    BY <2>2, <2>3
<1>9. ASSUME NEW e \in Edits, CleanUp(e) PROVE Goal
  <2>1. about[e] \in Connectors
    BY <1>9, <1>edits DEF CleanUp, EditOK
  <2>2. QED
    BY <1>9, <1>remove, <1>same, <2>1 DEF CleanUp
<1>10. ASSUME NEW e \in Edits,
              \/ \E c \in Connectors : ReadDraft(e, c) \/ ReadEnabled(e, c)
              \/ \E fails \in BOOLEAN : RotateSecret(e, fails)
       PROVE  Goal
  BY <1>10, <1>same DEF ReadDraft, ReadEnabled, RotateSecret
<1>11. ASSUME Serve_ \/ ServerDies PROVE Goal
  <2>1. UNCHANGED connectorVars
    BY <1>11 DEF Serve_, ServerDies, Post, Replay, Capture, Evaluate, PublishEvent, Fanout, FinishReceipt,
                 HandlerFails, MarkFailed
  <2>2. QED
    BY <1>same, <2>1
<1> HIDE DEF Goal
<1>12. QED
  BY <1>1, <1>2, <1>3, <1>4, <1>5, <1>6, <1>7, <1>8, <1>9, <1>10, <1>11
     DEF IngressNext, ConnectorEdit, EditStep

\* Every step keeps what an edit read and what it is about.
LEMMA EditsKept == IngressInv /\ IngressNext => EditTypes' /\ \A e \in Edits : EditOK(e)'
<1> DEFINE Goal == EditTypes' /\ \A e \in Edits : EditOK(e)'
<1> SUFFICES ASSUME IngressInv, IngressNext PROVE Goal
  OBVIOUS
<1>know. /\ edit \in [Edits -> {"new", "publish", "enable", "install", "clean", "done"}]
         /\ about \in [Edits -> Connectors \cup {Nothing}]
         /\ knew \in [Edits -> BOOLEAN] /\ took \in [Edits -> Definitions \cup {Nothing}]
         /\ live \in [Connectors -> BOOLEAN] /\ pending \in [Connectors -> Definitions \cup {Nothing}]
  BY DEF IngressInv, IngressTypeOK, EditTypes, ConnectorTypes
<1>ok. \A e \in Edits : EditOK(e)
  BY DEF IngressInv
<1>same. ASSUME UNCHANGED editVars PROVE Goal
  BY <1>same, <1>know, <1>ok DEF editVars, EditTypes, EditOK
<1>begins. ASSUME NEW e \in Edits, NEW what \in {"publish", "enable", "install"}, NEW c \in Connectors,
                  NEW d \in Definitions \cup {Nothing}, BeginEdit(e, what, c, d),
                  what = "publish" => d \in Definitions
           PROVE  Goal
  <2>1. /\ edit' = [edit EXCEPT ![e] = what] /\ about' = [about EXCEPT ![e] = c]
        /\ knew' = [knew EXCEPT ![e] = live[c]] /\ took' = [took EXCEPT ![e] = d]
    BY <1>begins DEF BeginEdit
  <2>2. EditTypes'
    BY <1>know, <2>1 DEF EditTypes
  <2>3. \A f \in Edits : EditOK(f)'
    BY <1>begins, <1>know, <1>ok, <2>1 DEF EditOK
  <2>4. QED
    BY <2>2, <2>3
<1>ends. ASSUME NEW e \in Edits, EditEnds(e) PROVE Goal
  <2>1. EditTypes'
    BY <1>ends, <1>know DEF EditEnds, EditTypes
  <2>2. \A f \in Edits : EditOK(f)'
    BY <1>ends, <1>know, <1>ok DEF EditEnds, EditOK
  <2>3. QED
    BY <2>1, <2>2
<1>1. ASSUME NEW e \in Edits, NEW c \in Connectors, ReadDraft(e, c) PROVE Goal
  BY <1>1, <1>know, <1>begins DEF ReadDraft
<1>2. ASSUME NEW e \in Edits, NEW c \in Connectors, ReadEnabled(e, c) PROVE Goal
  BY <1>2, <1>begins DEF ReadEnabled
<1>3. ASSUME NEW e \in Edits, NEW c \in Connectors, NEW d \in Definitions, Install(e, c, d) PROVE Goal
  BY <1>3, <1>begins DEF Install
<1>4. ASSUME NEW e \in Edits, PublishDraft(e) \/ Enable(e) \/ CleanUp(e) PROVE Goal
  BY <1>4, <1>ends DEF PublishDraft, Enable, CleanUp
<1>5. ASSUME NEW e \in Edits, NEW fails \in BOOLEAN, RotateSecret(e, fails) PROVE Goal
  <2>1. CASE EditEnds(e)
    BY <1>ends, <2>1
  <2>2. CASE edit[e] = "install" /\ edit' = [edit EXCEPT ![e] = "clean"] /\ UNCHANGED <<about, knew, took>>
    BY <1>know, <1>ok, <2>2 DEF EditTypes, EditOK
  <2>3. QED
    BY <1>5, <2>1, <2>2 DEF RotateSecret
<1>6. ASSUME ServerDies PROVE Goal
  BY <1>6, <1>know, <1>ok DEF ServerDies, EditTypes, EditOK
<1>7. ASSUME Serve_ PROVE Goal
  <2>1. UNCHANGED editVars
    BY <1>7 DEF Serve_, Post, Replay, Capture, Evaluate, PublishEvent, Fanout, FinishReceipt,
                HandlerFails, MarkFailed
  <2>2. QED
    BY <1>same, <2>1
<1>8. ASSUME NEW c \in Connectors,
             \/ Disable_(c) \/ DeleteForWorkspace(c)
             \/ \E d \in Definitions : CreateForWorkspace(c, d) \/ SaveConnectorDraft(c, d)
                                       \/ UpdateForWorkspace(c, d)
      PROVE  Goal
  BY <1>8, <1>same DEF Disable_, DeleteForWorkspace, CreateForWorkspace, SaveConnectorDraft, UpdateForWorkspace
<1> HIDE DEF Goal
<1>9. QED
  BY <1>1, <1>2, <1>3, <1>4, <1>5, <1>6, <1>7, <1>8 DEF IngressNext, ConnectorEdit, EditStep

-----------------------------------------------------------------------------
(* ConnectorIngress: posts and replays keep it.                            *)

\* Every step keeps how far a post or a replay has come, and that receipts and
\* events agree.
LEMMA HandlersKept ==
  IngressInv /\ IngressNext /\ RowsStand =>
    /\ HandlerTypes' /\ EventsFollowReceipts'
    /\ \A h \in Handlers : HandlerOK(h)' /\ LedOK(h)'
<1> DEFINE Goal == /\ HandlerTypes' /\ EventsFollowReceipts'
                   /\ \A h \in Handlers : HandlerOK(h)' /\ LedOK(h)'
<1> SUFFICES ASSUME IngressInv, IngressNext, RowsStand PROVE Goal
  OBVIOUS
<1>know. /\ kind \in [Handlers -> {"none", "post", "replay"}]
         /\ phase \in [Handlers -> {"none", "capture", "evaluate", "publish", "fanout", "finish", "fail", "over"}]
         /\ of \in [Handlers -> Connectors \cup {Nothing}]
         /\ under \in [Handlers -> (Definitions \X Versions) \cup {Nothing}]
         /\ delivery \in [Handlers -> Deliveries \cup {Anonymous}]
         /\ index \in [Handlers -> Nat] /\ receipt \in [Handlers -> 0 .. MaxHandlers]
         /\ row \in [Handlers -> {"none", "received", "queued", "unmatched", "failed"}]
         /\ events \subseteq Events /\ fanned \subseteq events /\ faulty \subseteq Handlers
  BY DEF IngressInv, IngressTypeOK, HandlerTypes
<1>rows. /\ defn \in [Connectors -> Definitions \cup {Nothing}] /\ version \in [Connectors -> 0 .. MaxVersions]
         /\ kept \in [Connectors -> [Versions -> Definitions \cup {Nothing}]]
         /\ \A c \in Connectors : ConnectorOK(c)
  BY DEF IngressInv, IngressTypeOK, ConnectorTypes
<1>ok. /\ \A h \in Handlers : HandlerOK(h) /\ LedOK(h)
       /\ ReceiptTellsTheTruth /\ OneEventPerOccurrence /\ ReplayIsFaithful
  BY DEF IngressInv, EventsFollowReceipts
\* Nobody's post loses the revision it was received under.
<1>stands. ASSUME NEW h \in Handlers, kind[h] = "post", of[h] \notin deleted'
           PROVE  /\ defn'[of[h]] # Nothing /\ under[h][2] <= version'[of[h]]
                  /\ kept'[of[h]][under[h][2]] = under[h][1]
  <2>1. of[h] \in Connectors /\ under[h] \in Definitions \X Versions /\ of[h] \notin deleted
    BY <1>stands, <1>ok DEF HandlerOK, RowsStand
  <2>2. /\ defn[of[h]] # Nothing /\ under[h][2] <= version[of[h]]
        /\ kept[of[h]][under[h][2]] = under[h][1]
    BY <1>stands, <1>ok, <2>1 DEF HandlerOK
  <2>3. /\ defn'[of[h]] # Nothing /\ version[of[h]] <= version'[of[h]]
        /\ kept'[of[h]][under[h][2]] = kept[of[h]][under[h][2]]
    BY <1>stands, <2>1, <2>2 DEF RowsStand
  <2>4. version'[of[h]] \in 0 .. MaxVersions
    <3>1. ConnectorTypes'
      BY ConnectorsKept
    <3>2. QED
      BY <2>1, <3>1 DEF ConnectorTypes
  <2>5. version[of[h]] \in Nat /\ version'[of[h]] \in Nat /\ under[h][2] \in Nat
    BY <1>rows, <2>1, <2>4, IngressFacts
  <2>6. under[h][2] <= version'[of[h]]
    BY <2>2, <2>3, <2>5
  <2>7. QED
    BY <2>2, <2>3, <2>6
\* Every handler that stays what it is satisfies what HandlerOK says of that.
<1>stays. ASSUME NEW h \in Handlers, kind'[h] = kind[h], of'[h] = of[h], under'[h] = under[h],
                 receipt'[h] = receipt[h] \/ kind[h] = "post",
                 kind[h] = "replay" => kind'[receipt[h]] = "post",
                 phase'[h] = "none" <=> phase[h] = "none", phase'[h] = "capture" => phase[h] = "capture"
          PROVE  HandlerOK(h)'
  <2>1. HandlerOK(h)
    BY <1>ok
  <2>2. kind[h] = "post" => receipt[h] = receipt[h] /\ kind[h] # "replay"
    OBVIOUS
  <2>3. kind[h] = "post" /\ of[h] \notin deleted' =>
           /\ defn'[of[h]] # Nothing /\ under[h][2] <= version'[of[h]]
           /\ kept'[of[h]][under[h][2]] = under[h][1]
    BY <1>stands
  <2>4. QED
    BY <1>stays, <2>1, <2>2, <2>3 DEF HandlerOK
<1>same. ASSUME UNCHANGED handlerVars PROVE Goal
  <2>1. HandlerTypes'
    BY <1>same, <1>know DEF handlerVars, HandlerTypes
  <2>2. \A h \in Handlers : HandlerOK(h)'
    <3> TAKE h \in Handlers
    <3>1. kind[h] = "replay" => kind'[receipt[h]] = "post"
      BY <1>same, <1>ok DEF HandlerOK, handlerVars
    <3>2. QED
      BY <1>same, <1>stays, <3>1 DEF handlerVars
  <2>3. \A h \in Handlers : LedOK(h)'
    BY <1>same, <1>ok DEF handlerVars, LedOK, Indices, Led
  <2>4. ReceiptTellsTheTruth' /\ OneEventPerOccurrence'
    BY <1>same, <1>ok DEF handlerVars, ReceiptTellsTheTruth, Led, OneEventPerOccurrence
  <2>5. ReplayIsFaithful'
    BY <1>same, <1>ok DEF handlerVars, ReplayIsFaithful, RowsStand
  <2>6. QED
    BY <2>1, <2>2, <2>3, <2>4, <2>5 DEF EventsFollowReceipts
\* A step of one handler that stores and fans out nothing.
<1>one. ASSUME NEW h \in Handlers, HandlerTypes', UNCHANGED <<events, fanned>>,
               \A u \in Handlers : u # h =>
                 /\ phase'[u] = phase[u] /\ kind'[u] = kind[u] /\ of'[u] = of[u] /\ under'[u] = under[u]
                 /\ index'[u] = index[u] /\ receipt'[u] = receipt[u] /\ row'[u] = row[u],
               kind[h] # "none" => kind'[h] = kind[h] /\ under'[h] = under[h],
               HandlerOK(h)', LedOK(h)',
               row'[h] \in {"queued", "unmatched"} =>
                 Indices(h) = 1 .. Emits[under'[h][1]] /\ Led(h) \subseteq fanned,
               kind'[h] = "replay" /\ of'[h] \notin deleted' => under'[h] = under'[receipt'[h]]
        PROVE  Goal
  <2>1. \A u \in Handlers : Led(u)' = Led(u) /\ Indices(u)' = Indices(u)
    BY <1>one DEF Led, Indices
  <2>2. \A u \in Handlers : u # h /\ kind[u] = "replay" =>
           /\ receipt[u] \in Handlers /\ kind[receipt[u]] = "post"
           /\ kind'[receipt[u]] = "post" /\ under'[receipt[u]] = under[receipt[u]]
    <3> TAKE u \in Handlers
    <3>1. kind[u] = "replay" => receipt[u] \in Handlers /\ kind[receipt[u]] = "post"
      BY <1>ok DEF HandlerOK
    <3>2. QED
      BY <1>one, <3>1
  <2>3. \A u \in Handlers : HandlerOK(u)'
    <3> TAKE u \in Handlers
    <3>1. CASE u = h
      BY <1>one, <3>1
    <3>2. CASE u # h
      BY <1>one, <1>stays, <2>2, <3>2
    <3>3. QED
      BY <3>1, <3>2
  <2>4. \A u \in Handlers : LedOK(u)'
    <3> TAKE u \in Handlers
    <3>1. CASE u = h
      BY <1>one, <3>1
    <3>2. CASE u # h
      <4>1. LedOK(u)
        BY <1>ok
      <4>2. QED
        BY <1>one, <2>1, <3>2, <4>1 DEF LedOK
    <3>3. QED
      BY <3>1, <3>2
  <2>5. ReceiptTellsTheTruth'
    <3> SUFFICES ASSUME NEW u \in Handlers, row'[u] \in {"queued", "unmatched"}
                 PROVE  Indices(u)' = 1 .. Emits[under'[u][1]] /\ Led(u)' \subseteq fanned'
      BY DEF ReceiptTellsTheTruth, Indices
    <3>1. CASE u = h
      BY <1>one, <2>1, <3>1
    <3>2. CASE u # h
      <4>1. row[u] \in {"queued", "unmatched"} /\ under'[u] = under[u]
        BY <1>one, <3>2
      <4>2. Indices(u) = 1 .. Emits[under[u][1]] /\ Led(u) \subseteq fanned
        BY <1>ok, <4>1 DEF ReceiptTellsTheTruth, Indices
      <4>3. QED
        BY <1>one, <2>1, <4>1, <4>2
    <3>3. QED
      BY <3>1, <3>2
  <2>6. \A e \in events : e.by \in Handlers /\ kind'[e.by] = kind[e.by]
    <3> TAKE e \in events
    <3>1. e.by \in Handlers
      BY <1>know DEF Events
    <3>2. e \in Led(e.by)
      BY DEF Led
    <3>3. kind[e.by] # "none"
      BY <1>ok, <3>1, <3>2 DEF LedOK, HandlerOK
    <3>4. QED
      BY <1>one, <3>1, <3>3
  <2>7. OneEventPerOccurrence'
    BY <1>one, <1>ok, <2>6 DEF OneEventPerOccurrence
  <2>8. ReplayIsFaithful'
    <3> SUFFICES ASSUME NEW u \in Handlers, kind'[u] = "replay", of'[u] \notin deleted'
                 PROVE  under'[u] = under'[receipt'[u]]
      BY DEF ReplayIsFaithful
    <3>1. CASE u = h
      BY <1>one, <3>1
    <3>2. CASE u # h
      <4>1. kind[u] = "replay" /\ of[u] \notin deleted /\ receipt'[u] = receipt[u] /\ under'[u] = under[u]
        BY <1>one, <3>2 DEF RowsStand
      <4>2. under[u] = under[receipt[u]]
        BY <1>ok, <4>1 DEF ReplayIsFaithful
      <4>3. QED
        BY <2>2, <3>2, <4>1, <4>2
    <3>3. QED
      BY <3>1, <3>2
  <2>9. QED
    BY <1>one, <2>3, <2>4, <2>5, <2>7, <2>8 DEF EventsFollowReceipts
\* A handler goes on: what it is stays, and its events.
<1>goes. ASSUME NEW h \in Handlers, NEW p \in {"evaluate", "publish", "finish", "fail", "over"}, Goto_(h, p),
                phase[h] \notin {"none", "over"},
                HandlerTypes', UNCHANGED <<kind, of, under, events, fanned>>,
                \A u \in Handlers : u # h => index'[u] = index[u] /\ receipt'[u] = receipt[u] /\ row'[u] = row[u],
                receipt'[h] = receipt[h] \/ kind[h] = "post",
                LedOK(h)', p # "over" => row'[h] \notin {"queued", "unmatched"},
                row'[h] \in {"queued", "unmatched"} => phase[h] = "finish"
         PROVE  Goal
  <2>1. phase' = [phase EXCEPT ![h] = p] /\ phase'[h] = p
    BY <1>goes, <1>know DEF Goto_
  <2>2. kind[h] = "replay" => kind'[receipt[h]] = "post"
    BY <1>goes, <1>ok DEF HandlerOK
  <2>3. HandlerOK(h)'
    BY <1>goes, <1>stays, <2>1, <2>2
  <2>4. row'[h] \in {"queued", "unmatched"} =>
          Indices(h) = 1 .. Emits[under'[h][1]] /\ Led(h) \subseteq fanned
    BY <1>goes, <1>ok DEF LedOK
  <2>5. kind'[h] = "replay" /\ of'[h] \notin deleted' => under'[h] = under'[receipt'[h]]
    BY <1>goes, <1>ok DEF ReplayIsFaithful, RowsStand
  <2>6. \A u \in Handlers : u # h =>
          /\ phase'[u] = phase[u] /\ kind'[u] = kind[u] /\ of'[u] = of[u] /\ under'[u] = under[u]
          /\ index'[u] = index[u] /\ receipt'[u] = receipt[u] /\ row'[u] = row[u]
    BY <1>goes, <1>know, <2>1
  <2>7. QED
    BY <1>goes, <1>one, <2>3, <2>4, <2>5, <2>6
<1>rowOK. \A h \in Handlers : phase[h] # "over" => row[h] \notin {"queued", "unmatched"}
  BY <1>ok DEF LedOK
<1>1. ASSUME NEW h \in Handlers, NEW c \in Connectors, NEW x \in Deliveries \cup {Anonymous}, Post(h, c, x)
      PROVE  Goal
  <2>1. /\ kind[h] = "none" /\ live[c]
        /\ kind' = [kind EXCEPT ![h] = "post"] /\ phase' = [phase EXCEPT ![h] = "capture"]
        /\ of' = [of EXCEPT ![h] = c] /\ under' = [under EXCEPT ![h] = <<defn[c], version[c]>>]
        /\ delivery' = [delivery EXCEPT ![h] = x]
        /\ UNCHANGED <<connectorVars, index, receipt, row, events, fanned, faulty>>
    BY <1>1 DEF Post, Goto_
  <2>2. /\ defn[c] # Nothing /\ defn[c] \in Definitions /\ version[c] \in Versions
        /\ kept[c][version[c]] = defn[c] /\ version[c] <= version[c]
    BY <1>rows, <2>1, IngressFacts DEF ConnectorOK
  <2>3. HandlerTypes'
    BY <1>know, <2>1, <2>2 DEF HandlerTypes
  <2>4. /\ kind'[h] = "post" /\ phase'[h] = "capture" /\ of'[h] = c /\ under'[h] = <<defn[c], version[c]>>
        /\ row'[h] = row[h] /\ Led(h)' = Led(h)
        /\ \A u \in Handlers : u # h =>
             /\ phase'[u] = phase[u] /\ kind'[u] = kind[u] /\ of'[u] = of[u] /\ under'[u] = under[u]
             /\ index'[u] = index[u] /\ receipt'[u] = receipt[u] /\ row'[u] = row[u]
    BY <1>know, <2>1 DEF Led
  <2>5. phase[h] = "none" /\ Led(h) = {} /\ row[h] \notin {"queued", "unmatched"}
    BY <1>ok, <1>rowOK, <2>1 DEF HandlerOK, LedOK
  <2>6. LedOK(h)'
    BY <2>4, <2>5 DEF LedOK
  <2>7. HandlerOK(h)'
    BY <2>1, <2>2, <2>4 DEF HandlerOK, connectorVars
  <2>8. QED
    BY <1>one, <2>1, <2>3, <2>4, <2>5, <2>6, <2>7
<1>2. ASSUME NEW h \in Handlers, NEW r \in Handlers, Replay(h, r) PROVE Goal
  <2> DEFINE c == of[r]
             v == under[r][2]
  <2>1. /\ kind[h] = "none" /\ kind[r] = "post" /\ kept[c][v] # Nothing
        /\ kind' = [kind EXCEPT ![h] = "replay"] /\ phase' = [phase EXCEPT ![h] = "evaluate"]
        /\ of' = [of EXCEPT ![h] = c] /\ under' = [under EXCEPT ![h] = <<kept[c][v], v>>]
        /\ receipt' = [receipt EXCEPT ![h] = r] /\ row' = [row EXCEPT ![h] = "received"]
        /\ UNCHANGED <<connectorVars, delivery, index, events, fanned, faulty>>
    BY <1>2 DEF Replay, Goto_
  <2>2. /\ c \in Connectors /\ under[r] \in Definitions \X Versions /\ v \in Versions /\ kept[c][v] \in Definitions
        /\ c \notin deleted => kept[c][v] = under[r][1]
    <3>1. c \in Connectors /\ under[r] \in Definitions \X Versions
      BY <1>ok, <2>1 DEF HandlerOK
    <3>2. c \notin deleted => kept[c][v] = under[r][1]
      BY <1>ok, <2>1 DEF HandlerOK
    <3>3. v \in Versions
      BY <3>1
    <3>4. kept[c][v] \in Definitions
      BY <1>rows, <2>1, <3>1, <3>3
    <3>5. QED
      BY <3>1, <3>2, <3>3, <3>4
  <2>3. h # r /\ r \in 0 .. MaxHandlers
    BY <2>1, IngressFacts
  <2> HIDE DEF c, v
  <2>4. HandlerTypes'
    BY <1>know, <2>1, <2>2, <2>3 DEF HandlerTypes
  <2>5. /\ kind'[h] = "replay" /\ phase'[h] = "evaluate" /\ of'[h] = c /\ under'[h] = <<kept[c][v], v>>
        /\ receipt'[h] = r /\ row'[h] = "received" /\ kind'[r] = "post" /\ under'[r] = under[r]
        /\ Led(h)' = Led(h)
        /\ \A u \in Handlers : u # h =>
             /\ phase'[u] = phase[u] /\ kind'[u] = kind[u] /\ of'[u] = of[u] /\ under'[u] = under[u]
             /\ index'[u] = index[u] /\ receipt'[u] = receipt[u] /\ row'[u] = row[u]
    BY <1>know, <2>1, <2>3 DEF Led
  <2>6. Led(h) = {}
    BY <1>ok, <2>1 DEF HandlerOK, LedOK
  <2>7. LedOK(h)'
    BY <2>5, <2>6 DEF LedOK
  <2>8. HandlerOK(h)'
    BY <2>2, <2>5 DEF HandlerOK
  <2>9. of'[h] \notin deleted' => under'[h] = under'[receipt'[h]]
    <3>1. under[r] = <<under[r][1], under[r][2]>>
      BY <2>2
    <3>2. QED
      BY <2>1, <2>2, <2>5, <3>1 DEF connectorVars, v
  <2>10. QED
    BY <1>one, <2>1, <2>4, <2>5, <2>7, <2>8, <2>9
<1>3. ASSUME NEW h \in Handlers, Capture(h) PROVE Goal
  <2>1. /\ phase[h] = "capture" /\ Goto_(h, "evaluate") /\ phase' = [phase EXCEPT ![h] = "evaluate"]
        /\ receipt' = [receipt EXCEPT ![h] = h] /\ row' = [row EXCEPT ![h] = "received"]
        /\ UNCHANGED <<kind, of, under, delivery, index, events, fanned, faulty>>
    BY <1>3 DEF Capture, Goto_
  <2>2. HandlerTypes'
    BY <1>know, <2>1, IngressFacts DEF HandlerTypes
  <2>3. Led(h) = {} /\ kind[h] = "post"
    BY <1>ok, <2>1 DEF HandlerOK, LedOK
  <2>4. /\ phase'[h] = "evaluate" /\ row'[h] = "received" /\ Led(h)' = Led(h)
        /\ \A u \in Handlers : u # h => index'[u] = index[u] /\ receipt'[u] = receipt[u] /\ row'[u] = row[u]
    BY <1>know, <2>1 DEF Led
  <2>5. LedOK(h)'
    BY <2>3, <2>4 DEF LedOK
  <2>6. QED
    BY <1>goes, <2>1, <2>2, <2>3, <2>4, <2>5
<1>emits. ASSUME NEW h \in Handlers, kind[h] # "none" PROVE under[h][1] \in Definitions /\ Emits[under[h][1]] \in Nat
  BY <1>emits, <1>ok, IngressFacts DEF HandlerOK
<1>4. ASSUME NEW h \in Handlers, Evaluate(h) PROVE Goal
  <2> DEFINE p == IF 1 > Emits[under[h][1]] THEN "finish" ELSE "publish"
  <2>1. /\ phase[h] = "evaluate" /\ Goto_(h, p) /\ phase' = [phase EXCEPT ![h] = p]
        /\ index' = [index EXCEPT ![h] = 1]
        /\ UNCHANGED <<kind, of, under, delivery, receipt, row, events, fanned, faulty>>
    BY <1>4 DEF Evaluate, Next_, Goto_
  <2>2. HandlerTypes'
    BY <1>know, <2>1 DEF HandlerTypes
  <2>3. Led(h) = {} /\ kind[h] # "none" /\ row[h] \notin {"queued", "unmatched"}
    BY <1>ok, <1>rowOK, <2>1 DEF HandlerOK, LedOK
  <2>4. Emits[under[h][1]] \in Nat
    BY <1>emits, <2>3
  <2>5. /\ phase'[h] = p /\ row'[h] = row[h] /\ index'[h] = 1 /\ Led(h)' = {} /\ Indices(h)' = {} /\ under'[h] = under[h]
        /\ \A u \in Handlers : u # h => index'[u] = index[u] /\ receipt'[u] = receipt[u] /\ row'[u] = row[u]
    BY <1>know, <2>1, <2>3 DEF Led, Indices
  <2>6. \/ p = "finish" /\ 1 .. Emits[under[h][1]] = {}
        \/ p = "publish" /\ 1 \in 1 .. Emits[under[h][1]] /\ 1 .. (1 - 1) = {}
    BY <2>4
  <2> HIDE DEF p
  <2>7. LedOK(h)'
    BY <2>3, <2>5, <2>6 DEF LedOK
  <2>8. QED
    BY <1>goes, <2>1, <2>2, <2>3, <2>5, <2>6, <2>7
<1>5. ASSUME NEW h \in Handlers, NEW stands \in {"queued", "unmatched"}, FinishReceipt(h, stands) PROVE Goal
  <2>1. /\ phase[h] = "finish" /\ Goto_(h, "over") /\ phase' = [phase EXCEPT ![h] = "over"]
        /\ row' = [row EXCEPT ![h] = stands]
        /\ UNCHANGED <<kind, of, under, delivery, index, receipt, events, fanned, faulty>>
    BY <1>5 DEF FinishReceipt, Goto_
  <2>2. HandlerTypes'
    BY <1>know, <2>1 DEF HandlerTypes
  <2>3. /\ phase'[h] = "over"
        /\ \A u \in Handlers : u # h => index'[u] = index[u] /\ receipt'[u] = receipt[u] /\ row'[u] = row[u]
    BY <1>know, <2>1
  <2>4. LedOK(h)'
    BY <2>3 DEF LedOK
  <2>5. QED
    BY <1>goes, <2>1, <2>2, <2>3, <2>4
<1>6. ASSUME NEW h \in Handlers, HandlerFails(h) PROVE Goal
  <2>1. /\ phase[h] \in {"capture", "evaluate", "publish", "fanout", "finish"} /\ Goto_(h, "fail")
        /\ phase' = [phase EXCEPT ![h] = "fail"] /\ faulty' = faulty \cup {h}
        /\ UNCHANGED <<kind, of, under, delivery, index, receipt, row, events, fanned>>
    BY <1>6 DEF HandlerFails, Goto_
  <2>2. HandlerTypes'
    BY <1>know, <2>1 DEF HandlerTypes
  <2>3. row[h] \notin {"queued", "unmatched"} /\ phase'[h] = "fail"
    BY <1>know, <1>rowOK, <2>1
  <2>4. LedOK(h)'
    BY <2>1, <2>3 DEF LedOK
  <2>5. QED
    BY <1>goes, <2>1, <2>2, <2>3, <2>4
<1>7. ASSUME NEW h \in Handlers, MarkFailed(h) PROVE Goal
  <2>1. /\ phase[h] = "fail" /\ Goto_(h, "over") /\ phase' = [phase EXCEPT ![h] = "over"]
        /\ row' = [row EXCEPT ![h] = IF @ = "none" THEN @ ELSE "failed"]
        /\ UNCHANGED <<kind, of, under, delivery, index, receipt, events, fanned, faulty>>
    BY <1>7 DEF MarkFailed, Goto_
  <2>2. HandlerTypes'
    BY <1>know, <2>1 DEF HandlerTypes
  <2>3. /\ phase'[h] = "over" /\ row'[h] \in {"none", "failed"}
        /\ \A u \in Handlers : u # h => index'[u] = index[u] /\ receipt'[u] = receipt[u] /\ row'[u] = row[u]
    BY <1>know, <2>1
  <2>4. LedOK(h)'
    BY <2>3 DEF LedOK
  <2>5. QED
    BY <1>goes, <2>1, <2>2, <2>3, <2>4
<1>8. ASSUME NEW h \in Handlers, PublishEvent(h) PROVE Goal
  <2> DEFINE n == index[h]
             e == [by |-> h, connector |-> of[h], delivery |-> delivery[h],
                   index |-> n, from |-> under[h][1]]
  <2>1. /\ phase[h] = "publish"
        /\ UNCHANGED <<kind, of, under, delivery, index, receipt, row, fanned, faulty>>
    BY <1>8 DEF PublishEvent
  <2>2. kind[h] # "none" /\ row[h] \notin {"queued", "unmatched"}
    BY <1>ok, <1>rowOK, <2>1 DEF HandlerOK
  <2>3. CASE \E f \in events : SameKey(h, f)
    <3>1. Goto_(h, "fail") /\ phase' = [phase EXCEPT ![h] = "fail"] /\ events' = events
      BY <1>8, <2>3 DEF PublishEvent, Goto_
    <3>2. HandlerTypes'
      BY <1>know, <2>1, <3>1 DEF HandlerTypes
    <3>3. phase'[h] = "fail"
      BY <1>know, <3>1
    <3>4. LedOK(h)'
      BY <2>1, <2>2, <3>3 DEF LedOK
    <3>5. QED
      BY <1>goes, <2>1, <2>2, <3>1, <3>2, <3>4
  <2>4. CASE ~\E f \in events : SameKey(h, f)
    <3>1. phase' = [phase EXCEPT ![h] = "fanout"] /\ events' = events \cup {e}
      BY <1>8, <2>4 DEF PublishEvent, Goto_
    <3>2. e \in Events
      BY <1>know, <1>ok, <2>2 DEF Events, HandlerOK
    <3>3. /\ e.by = h /\ e.index = n /\ e.connector = of[h] /\ e.delivery = delivery[h]
      OBVIOUS
    <3> HIDE DEF e
    <3>4. HandlerTypes'
      BY <1>know, <2>1, <3>1, <3>2 DEF HandlerTypes
    <3>5. /\ Led(h)' = Led(h) \cup {e} /\ Indices(h)' = Indices(h) \cup {n}
          /\ \A u \in Handlers : u # h => Led(u)' = Led(u) /\ Indices(u)' = Indices(u) /\ phase'[u] = phase[u]
          /\ phase'[h] = "fanout"
      BY <1>know, <3>1, <3>3 DEF Led, Indices
    <3>6. /\ n \in 1 .. Emits[under[h][1]] /\ Indices(h) = 1 .. (n - 1) /\ Led(h) \subseteq fanned
      BY <1>ok, <2>1 DEF LedOK
    <3>7. n \in Nat \ {0}
      BY <1>emits, <2>2, <3>6
    <3>8. (1 .. (n - 1)) \cup {n} = 1 .. n
      BY <3>7
    <3>9. \A u \in Handlers : HandlerOK(u)'
      <4> TAKE u \in Handlers
      <4>1. kind[u] = "replay" => kind'[receipt[u]] = "post"
        BY <1>ok, <2>1 DEF HandlerOK
      <4>2. QED
        BY <1>know, <1>stays, <2>1, <3>1, <4>1
    <3>10. \A u \in Handlers : LedOK(u)'
      <4> TAKE u \in Handlers
      <4>1. CASE u = h
        BY <2>1, <2>2, <3>3, <3>5, <3>6, <3>8, <4>1 DEF LedOK
      <4>2. CASE u # h
        <5>1. LedOK(u)
          BY <1>ok
        <5>2. QED
          BY <2>1, <3>5, <4>2, <5>1 DEF LedOK
      <4>3. QED
        BY <4>1, <4>2
    <3>11. ReceiptTellsTheTruth'
      <4> SUFFICES ASSUME NEW u \in Handlers, row'[u] \in {"queued", "unmatched"}
                   PROVE  Indices(u)' = 1 .. Emits[under'[u][1]] /\ Led(u)' \subseteq fanned'
        BY DEF ReceiptTellsTheTruth, Indices
      <4>1. row[u] \in {"queued", "unmatched"} /\ u # h
        BY <2>1, <2>2
      <4>2. Indices(u) = 1 .. Emits[under[u][1]] /\ Led(u) \subseteq fanned
        BY <1>ok, <4>1 DEF ReceiptTellsTheTruth, Indices
      <4>3. QED
        BY <2>1, <3>5, <4>1, <4>2
    <3>12. OneEventPerOccurrence'
      <4>1. \A f \in events : delivery[h] # Anonymous /\ f.delivery = delivery[h] /\ f.connector = of[h] => f.index # n
        BY <2>4 DEF SameKey
      <4>2. QED
        BY <1>ok, <2>1, <3>1, <3>3, <4>1 DEF OneEventPerOccurrence
    <3>13. ReplayIsFaithful'
      BY <1>ok, <2>1 DEF ReplayIsFaithful, RowsStand
    <3>14. QED
      BY <3>4, <3>9, <3>10, <3>11, <3>12, <3>13 DEF EventsFollowReceipts
  <2>5. QED
    BY <2>3, <2>4
<1>9. ASSUME NEW h \in Handlers, Fanout(h) PROVE Goal
  <2> DEFINE n == index[h]
             p == IF n + 1 > Emits[under[h][1]] THEN "finish" ELSE "publish"
  <2>1. /\ phase[h] = "fanout" /\ phase' = [phase EXCEPT ![h] = p]
        /\ index' = [index EXCEPT ![h] = n + 1]
        /\ fanned' = fanned \cup {e \in events : SameKey(h, e)}
        /\ UNCHANGED <<kind, of, under, delivery, receipt, row, events, faulty>>
    BY <1>9 DEF Fanout, Next_, Goto_
  <2>2. kind[h] # "none" /\ row[h] \notin {"queued", "unmatched"} /\ n \in Nat
    BY <1>know, <1>ok, <1>rowOK, <2>1 DEF HandlerOK
  <2>3. /\ n \in 1 .. Emits[under[h][1]] /\ Indices(h) = 1 .. n
        /\ \A e \in Led(h) : e.index # n => e \in fanned
    BY <1>ok, <2>1 DEF LedOK
  <2>4. Led(h) \subseteq fanned'
    BY <2>1, <2>3 DEF Led, SameKey
  <2>5. \/ p = "finish" /\ 1 .. n = 1 .. Emits[under[h][1]]
        \/ p = "publish" /\ n + 1 \in 1 .. Emits[under[h][1]] /\ 1 .. n = 1 .. ((n + 1) - 1)
    <3>1. Emits[under[h][1]] \in Nat
      BY <1>emits, <2>2
    <3>2. QED
      BY <2>2, <2>3, <3>1
  <2>6. HandlerTypes'
    BY <1>know, <2>1, <2>2 DEF HandlerTypes
  <2> HIDE DEF p
  <2>7. /\ \A u \in Handlers : Led(u)' = Led(u) /\ Indices(u)' = Indices(u)
        /\ \A u \in Handlers : u # h => phase'[u] = phase[u] /\ index'[u] = index[u]
        /\ phase'[h] = p /\ index'[h] = n + 1 /\ fanned \subseteq fanned'
    BY <1>know, <2>1 DEF Led, Indices
  <2>8. \A u \in Handlers : HandlerOK(u)'
    <3> TAKE u \in Handlers
    <3>1. kind[u] = "replay" => kind'[receipt[u]] = "post"
      BY <1>ok, <2>1 DEF HandlerOK
    <3>2. phase'[u] = "none" <=> phase[u] = "none"
      BY <2>1, <2>5, <2>7
    <3>3. phase'[u] = "capture" => phase[u] = "capture"
      BY <2>5, <2>7
    <3>4. QED
      BY <1>stays, <2>1, <3>1, <3>2, <3>3
  <2>9. \A u \in Handlers : LedOK(u)'
    <3> TAKE u \in Handlers
    <3>1. CASE u = h
      BY <2>1, <2>2, <2>3, <2>4, <2>5, <2>7, <3>1 DEF LedOK
    <3>2. CASE u # h
      <4>1. LedOK(u)
        BY <1>ok
      <4>2. QED
        BY <2>1, <2>7, <3>2, <4>1 DEF LedOK
    <3>3. QED
      BY <3>1, <3>2
  <2>10. ReceiptTellsTheTruth'
    <3> SUFFICES ASSUME NEW u \in Handlers, row'[u] \in {"queued", "unmatched"}
                 PROVE  Indices(u)' = 1 .. Emits[under'[u][1]] /\ Led(u)' \subseteq fanned'
      BY DEF ReceiptTellsTheTruth, Indices
    <3>1. Indices(u) = 1 .. Emits[under[u][1]] /\ Led(u) \subseteq fanned
      BY <1>ok, <2>1 DEF ReceiptTellsTheTruth, Indices
    <3>2. QED
      BY <2>1, <2>7, <3>1
  <2>11. OneEventPerOccurrence' /\ ReplayIsFaithful'
    BY <1>ok, <2>1 DEF OneEventPerOccurrence, ReplayIsFaithful, RowsStand
  <2>12. QED
    BY <2>6, <2>8, <2>9, <2>10, <2>11 DEF EventsFollowReceipts
<1>10. ASSUME ServerDies PROVE Goal
  <2>1. /\ phase' = [u \in Handlers |-> IF phase[u] = "none" THEN "none" ELSE "over"]
        /\ faulty' \subseteq Handlers
        /\ UNCHANGED <<kind, of, under, delivery, index, receipt, row, events, fanned>>
    BY <1>10, <1>know DEF ServerDies
  <2>2. HandlerTypes'
    BY <1>know, <2>1 DEF HandlerTypes
  <2>3. \A u \in Handlers : HandlerOK(u)'
    <3> TAKE u \in Handlers
    <3>1. kind[u] = "replay" => kind'[receipt[u]] = "post"
      BY <1>ok, <2>1 DEF HandlerOK
    <3>2. QED
      BY <1>stays, <2>1, <3>1
  <2>4. \A u \in Handlers : LedOK(u)'
    <3> TAKE u \in Handlers
    <3>1. LedOK(u) /\ Led(u)' = Led(u)
      BY <1>ok, <2>1 DEF Led
    <3>2. phase'[u] \in {"none", "over"} /\ (phase'[u] = "none" => phase[u] = "none")
      BY <2>1
    <3>3. QED
      BY <2>1, <3>1, <3>2 DEF LedOK
  <2>5. EventsFollowReceipts'
    BY <1>ok, <2>1 DEF EventsFollowReceipts, ReceiptTellsTheTruth, Led, OneEventPerOccurrence, ReplayIsFaithful, RowsStand
  <2>6. QED
    BY <2>2, <2>3, <2>4, <2>5
<1>11. ASSUME ConnectorEdit \/ EditStep PROVE Goal
  <2>1. UNCHANGED handlerVars
    BY <1>11 DEF ConnectorEdit, EditStep, Disable_, DeleteForWorkspace, CreateForWorkspace, SaveConnectorDraft,
                 UpdateForWorkspace, ReadDraft, ReadEnabled, Install, PublishDraft, Enable, CleanUp, RotateSecret
  <2>2. QED
    BY <1>same, <2>1
<1> HIDE DEF Goal
<1>12. QED
  BY <1>1, <1>2, <1>3, <1>4, <1>5, <1>6, <1>7, <1>8, <1>9, <1>10, <1>11 DEF IngressNext, Serve_

-----------------------------------------------------------------------------
(* ConnectorIngress: the theorems.                                         *)

\* The invariant holds of the initial states.
LEMMA IngressBegins == IngressInit => IngressInv
<1> SUFFICES ASSUME IngressInit PROVE IngressInv
  OBVIOUS
<1>1. ConnectorTypes
  BY IngressFacts, ConnectorIngressAssumption DEF IngressInit, ConnectorTypes
<1>2. EditTypes
  BY DEF IngressInit, EditTypes
<1>3. HandlerTypes
  BY ConnectorIngressAssumption DEF IngressInit, HandlerTypes
<1>4. (\A c \in Connectors : ConnectorOK(c)) /\ \A e \in Edits : EditOK(e)
  BY DEF IngressInit, ConnectorOK, EditOK
<1>5. \A h \in Handlers : HandlerOK(h) /\ LedOK(h)
  BY DEF IngressInit, HandlerOK, LedOK, Led
<1>6. EventsFollowReceipts
  BY DEF IngressInit, EventsFollowReceipts, ReceiptTellsTheTruth, OneEventPerOccurrence, ReplayIsFaithful
<1>7. QED
  BY <1>1, <1>2, <1>3, <1>4, <1>5, <1>6 DEF IngressInv, IngressTypeOK

\* Every step keeps it.
LEMMA IngressKept == IngressInv /\ [IngressNext]_ingressVars => IngressInv'
<1> SUFFICES ASSUME IngressInv, [IngressNext]_ingressVars PROVE IngressInv'
  OBVIOUS
<1>1. CASE IngressNext
  <2>1. ConnectorTypes' /\ (\A c \in Connectors : ConnectorOK(c)') /\ RowsStand
    BY <1>1, ConnectorsKept
  <2>2. EditTypes' /\ \A e \in Edits : EditOK(e)'
    BY <1>1, EditsKept
  <2>3. /\ HandlerTypes' /\ EventsFollowReceipts'
        /\ \A h \in Handlers : HandlerOK(h)' /\ LedOK(h)'
    BY <1>1, <2>1, HandlersKept
  <2>4. QED
    BY <2>1, <2>2, <2>3 DEF IngressInv, IngressTypeOK
<1>2. CASE UNCHANGED ingressVars
  BY <1>2 DEF ingressVars, connectorVars, editVars, handlerVars, IngressInv, IngressTypeOK, ConnectorTypes,
              EditTypes, HandlerTypes, ConnectorOK, EditOK, HandlerOK, LedOK, Indices, Led,
              EventsFollowReceipts, ReceiptTellsTheTruth, OneEventPerOccurrence, ReplayIsFaithful
<1>3. QED
  BY <1>1, <1>2

\* IngressInv always holds: the types of connectors, edits, receipts and events,
\* what is kept of a connector's revisions, and how far a handler has come.
THEOREM IngressInvariance == IngressSpec => []IngressInv
BY IngressBegins, IngressKept, PTL DEF IngressSpec

\* The type invariant of connectors and their receipts.
THEOREM IngressTypesCorrect == IngressSpec => []IngressTypeOK
<1>1. IngressInv => IngressTypeOK
  BY DEF IngressInv
<1>2. QED
  BY <1>1, IngressInvariance, PTL

\* Receipts and events agree with each other and with what senders delivered,
\* wherever posts are cut short, repeated or replayed (processIncomingEvent and
\* the replay of server.ts; DomainEventRepository.publish).
THEOREM ReceiptsAndEventsAgree == IngressSpec => []EventsFollowReceipts
<1>1. IngressInv => EventsFollowReceipts
  BY DEF IngressInv
<1>2. QED
  BY <1>1, IngressInvariance, PTL

-----------------------------------------------------------------------------
(* WorkflowCatalogue: the invariant.                                       *)

\* The row of a workflow that was never deleted, and its revisions: they are
\* numbered from 1, and the newest is the draft.
RowOK(k) ==
  /\ owner[k] = Null <=> draft[k] = Null
  /\ k \notin gone => \E n \in 0 .. MaxRevisions :
        /\ Stored(k) = 1 .. n
        /\ IF owner[k] = Null THEN n = 0 ELSE n # 0 /\ draft[k] = revisions[k][n]

\* What a request is about, and what it has read.
RequestOK(r) ==
  /\ task[r] \notin {"new", "done"} => key[r] \in Keys /\ by[r] \in Workspaces
  /\ task[r] = "save" => text[r] \in Sources
  /\ Doing(r, "save", 2) /\ key[r] \notin gone =>
        seen[r] = 0 \/ revisions[key[r]][seen[r]] # Null
  /\ task[r] = "delete" /\ stage[r] # 1 => key[r] \in gone

\* A trigger that was read names a revision that stands.
TriggerStands(p) == p[1] \notin gone => revisions[p[1]][p[2]] = p[3]
\* A tick that queues holds its claim, alone, and has queued the variants before
\* the one it is at.
ClaimOf(t) == <<IdOf[current[t][3]], minute[t]>>
TickOK(t) ==
  /\ \A p \in todo[t] : TriggerStands(p)
  /\ place[t] = "queueing" =>
       /\ current[t] \in Triggers /\ TriggerStands(current[t])
       /\ ClaimOf(t)[1] \notin gone =>
            /\ ClaimOf(t) \in claims
            /\ \A u \in Ticks \ {t} : place[u] = "queueing" => ClaimOf(u) # ClaimOf(t)
            /\ \A j \in jobs : <<j.name, j.minute>> = ClaimOf(t) => j.variant < variant[t]

\* Jobs were made by a claim.
JobsOK ==
  /\ IsFiniteSet(jobs)
  /\ \A j \in jobs : j.name \notin gone => <<j.name, j.minute>> \in claims

\* No two workflows of a workspace name one definition id.
IdsApart ==
  \A j, k \in Keys :
    j # k /\ owner[j] # Null /\ owner[j] = owner[k] => IdOf[draft[j]] # IdOf[draft[k]]

CatalogueInv ==
  /\ CatalogueTypeOK
  /\ \A k \in Keys : RowOK(k)
  /\ \A r \in Requests : RequestOK(r)
  /\ \A t \in Ticks : TickOK(t)
  /\ JobsOK
  /\ IdsApart /\ JobsFollowWorkflows

\* What a step leaves of a workflow that is not deleted: its revisions, and its
\* workspace once it has run.
RevisionsStand ==
  /\ gone \subseteq gone'
  /\ \A k \in Keys : k \notin gone' =>
       /\ \A v \in Revisions : revisions[k][v] # Null => revisions'[k][v] = revisions[k][v]
       /\ owner[k] # Null /\ (\E j \in jobs : j.into = k) => owner'[k] = owner[k]

-----------------------------------------------------------------------------
(* WorkflowCatalogue: the newest revision.                                 *)

\* Revisions are numbers; a source is something.
LEMMA CatalogueFacts ==
  /\ MaxRevisions \in Nat \ {0} /\ Revisions \subseteq 0 .. MaxRevisions /\ \A v \in Revisions : v \in Nat \ {0}
  /\ 0 \in 0 .. MaxRevisions /\ \A n \in 0 .. MaxRevisions : n \in Nat /\ n <= MaxRevisions
  /\ Null \notin Sources /\ Null \notin Workspaces /\ Null \notin Keys
  /\ \A s \in Sources : IdOf[s] \in Names /\ Variants[s] \in Nat
BY WorkflowCatalogueAssumption DEF Revisions

\* A bounded set of numbers that is not empty has a greatest member: the family
\* of the intervals above its members has a smallest set.
LEMMA GreatestExists ==
  ASSUME NEW n \in Nat, NEW S, S \subseteq 0 .. n, S # {}
  PROVE  \E x \in S : \A y \in S : y <= x
<1> DEFINE T == {x .. n : x \in S}
<1>1. T \subseteq FiniteSubsetsOf(Nat) /\ T # {}
  <2>1. \A x \in 0 .. n : IsFiniteSet(x .. n) /\ x .. n \in SUBSET Nat
    BY FS_Interval
  <2>2. QED
    BY <2>1 DEF FiniteSubsetsOf
<1>2. IsWellFoundedOn(StrictSubsetOrdering(Nat), FiniteSubsetsOf(Nat))
  BY FS_StrictSubsetOrderingWellFounded
<1>3. \E X \in T : \A Y \in T : ~(<<Y, X>> \in StrictSubsetOrdering(Nat))
  <2> HIDE DEF T
  <2> QED
    BY <1>1, <1>2, WFMin
<1>4. PICK m \in S : \A y \in S : ~(<<y .. n, m .. n>> \in StrictSubsetOrdering(Nat))
  BY <1>3
<1>5. \A y \in S : y <= m
  <2> SUFFICES ASSUME NEW y \in S, m < y PROVE FALSE
    OBVIOUS
  <2>1. m \in 0 .. n /\ y \in 0 .. n
    OBVIOUS
  <2>2. y .. n \in SUBSET Nat /\ m .. n \in SUBSET Nat /\ y .. n \subseteq m .. n
    BY <2>1
  <2>3. m \in m .. n /\ m \notin y .. n
    BY <2>1
  <2>4. QED
    BY <1>4, <2>2, <2>3 DEF StrictSubsetOrdering
<1>6. QED
  BY <1>5

\* Latest is the newest revision that is stored, or 0.
LEMMA LatestIsStored ==
  ASSUME NEW k \in Keys
  PROVE  /\ Latest(k) \in 0 .. MaxRevisions
         /\ Stored(k) # {} => Latest(k) \in Stored(k) /\ \A q \in Stored(k) : q <= Latest(k)
<1>1. CASE Stored(k) = {}
  BY <1>1, CatalogueFacts DEF Latest
<1>2. CASE Stored(k) # {}
  <2>1. Stored(k) \subseteq 0 .. MaxRevisions /\ MaxRevisions \in Nat
    BY CatalogueFacts DEF Stored
  <2>2. \E x \in Stored(k) : \A y \in Stored(k) : y <= x
    BY <1>2, <2>1, GreatestExists
  <2>3. Latest(k) \in Stored(k) /\ \A q \in Stored(k) : q <= Latest(k)
    BY <1>2, <2>2 DEF Latest
  <2>4. QED
    BY <2>1, <2>3
<1>3. QED
  BY <1>1, <1>2

\* Of revisions that are numbered without a gap it is their count.
LEMMA LatestOfMany ==
  ASSUME NEW k \in Keys, NEW n \in 0 .. MaxRevisions, Stored(k) = 1 .. n, n # 0
  PROVE  Latest(k) = n
<1>1. n \in Nat \ {0} /\ n \in 1 .. n
  BY CatalogueFacts
<1>2. Latest(k) \in 1 .. n /\ n <= Latest(k)
  BY <1>1, LatestIsStored
<1>3. QED
  BY <1>1, <1>2

\* The two parts of CatalogueAgrees.
LEMMA AgreesFromParts ==
  (\A k \in Keys : RowOK(k)) /\ IdsApart => CatalogueAgrees
<1> SUFFICES ASSUME \A k \in Keys : RowOK(k), IdsApart, NEW k \in Keys, owner[k] # Null
             PROVE  /\ ~Taken(k, owner[k], IdOf[draft[k]])
                    /\ k \notin gone => draft[k] = revisions[k][Latest(k)]
  BY DEF CatalogueAgrees
<1>1. ~Taken(k, owner[k], IdOf[draft[k]])
  BY DEF Taken, IdsApart
<1>2. k \notin gone => draft[k] = revisions[k][Latest(k)]
  BY LatestOfMany DEF RowOK
<1>3. QED
  BY <1>1, <1>2

-----------------------------------------------------------------------------
(* WorkflowCatalogue: rows keep it.                                        *)

\* Every step keeps the workflows' rows, their ids apart and their revisions.
LEMMA RowsKept ==
  CatalogueInv /\ CatalogueNext =>
    RowTypes' /\ (\A k \in Keys : RowOK(k)') /\ IdsApart' /\ RevisionsStand
<1> DEFINE Goal == RowTypes' /\ (\A k \in Keys : RowOK(k)') /\ IdsApart' /\ RevisionsStand
<1> SUFFICES ASSUME CatalogueInv, CatalogueNext PROVE Goal
  OBVIOUS
<1>know. /\ owner \in [Keys -> Workspaces \cup {Null}] /\ draft \in [Keys -> Sources \cup {Null}]
         /\ status \in [Keys -> {"draft", "published"}] /\ on \in [Keys -> BOOLEAN]
         /\ active \in [Keys -> 0 .. MaxRevisions]
         /\ revisions \in [Keys -> [Revisions -> Sources \cup {Null}]]
         /\ gone \subseteq Keys
  BY DEF CatalogueInv, CatalogueTypeOK, RowTypes
<1>reads. /\ text \in [Requests -> Sources \cup {Null}] /\ seen \in [Requests -> 0 .. MaxRevisions]
          /\ \A r \in Requests : RequestOK(r)
  BY DEF CatalogueInv, CatalogueTypeOK, RequestTypes
<1>ok. (\A k \in Keys : RowOK(k)) /\ IdsApart
  BY DEF CatalogueInv
<1>same. ASSUME UNCHANGED <<rowVars, gone>> PROVE Goal
  BY <1>same, <1>know, <1>ok DEF rowVars, RowTypes, RowOK, Stored, IdsApart, RevisionsStand
\* A step that changes neither whose a workflow is nor its sources.
<1>flags. ASSUME UNCHANGED <<owner, draft, revisions, gone>>, RowTypes' PROVE Goal
  BY <1>flags, <1>ok DEF RowOK, Stored, IdsApart, RevisionsStand
<1>1. ASSUME NEW r \in Requests, NEW enabled \in BOOLEAN, SaveDraft(r, enabled) PROVE Goal
  <2>1. CASE UNCHANGED rowVars
    BY <1>1, <1>same, <2>1 DEF SaveDraft
  <2>2. CASE ~UNCHANGED rowVars
    <3>rigid. PICK k \in Keys, next \in Revisions : k = key[r] /\ next = seen[r] + 1
      BY <1>1, <1>reads DEF SaveDraft, Doing, RequestOK
    <3>1. /\ Doing(r, "save", 2) /\ next \in Revisions /\ next \notin Stored(k) /\ owner[k] \in {Null, by[r]}
          /\ ~Taken(k, by[r], IdOf[text[r]])
          /\ owner' = [owner EXCEPT ![k] = by[r]] /\ draft' = [draft EXCEPT ![k] = text[r]]
          /\ status' = [status EXCEPT ![k] = "draft"] /\ on' = [on EXCEPT ![k] = enabled]
          /\ revisions' = [revisions EXCEPT ![k][next] = text[r]]
          /\ active' = (IF owner[k] = Null THEN [active EXCEPT ![k] = 0] ELSE active)
          /\ gone' = gone
      BY <1>1, <2>2, <3>rigid DEF SaveDraft
    <3>2. k \in Keys /\ by[r] \in Workspaces /\ text[r] \in Sources /\ text[r] # Null /\ by[r] # Null
      BY <1>reads, <3>1, <3>rigid, CatalogueFacts DEF RequestOK, Doing
    <3>3. RowTypes'
      <4>1. active' \in [Keys -> 0 .. MaxRevisions]
        BY <1>know, <3>1, <3>2, CatalogueFacts
      <4>2. revisions' \in [Keys -> [Revisions -> Sources \cup {Null}]]
        BY <1>know, <3>1, <3>2
      <4>3. QED
        BY <1>know, <3>1, <3>2, <4>1, <4>2 DEF RowTypes
    <3>4. /\ owner'[k] = by[r] /\ draft'[k] = text[r]
          /\ revisions[k] \in [Revisions -> Sources \cup {Null}]
          /\ revisions'[k] = [revisions[k] EXCEPT ![next] = text[r]]
          /\ \A j \in Keys : j # k => owner'[j] = owner[j] /\ draft'[j] = draft[j] /\ revisions'[j] = revisions[j]
      BY <1>know, <3>1, <3>2
    <3>5. revisions'[k][next] = text[r] /\ \A v \in Revisions : v # next => revisions'[k][v] = revisions[k][v]
      BY <3>1, <3>4
    <3>6. Stored(k)' = Stored(k) \cup {next} /\ \A j \in Keys : j # k => Stored(j)' = Stored(j)
      <4>1. \A j \in Keys : j # k => Stored(j)' = Stored(j)
        BY <3>4 DEF Stored
      <4>2. \A v \in Revisions : revisions'[k][v] # Null <=> (v = next \/ revisions[k][v] # Null)
        BY <3>2, <3>5, CatalogueFacts
      <4>3. next \in Revisions
        BY <3>1
      <4>4. Stored(k)' = Stored(k) \cup {next}
        BY <4>2, <4>3 DEF Stored
      <4>5. QED
        BY <4>1, <4>4
    <3>7. k \notin gone => \E n \in 0 .. MaxRevisions : n # 0 /\ Stored(k)' = 1 .. n /\ draft'[k] = revisions'[k][n]
      <4> SUFFICES ASSUME k \notin gone
                   PROVE \E n \in 0 .. MaxRevisions : n # 0 /\ Stored(k)' = 1 .. n /\ draft'[k] = revisions'[k][n]
        OBVIOUS
      <4>1. PICK n \in 0 .. MaxRevisions : Stored(k) = 1 .. n
        BY <1>ok, <3>2 DEF RowOK
      <4>2. seen[r] = 0 \/ seen[r] \in Stored(k)
        <5>1. seen[r] = 0 \/ revisions[k][seen[r]] # Null
          BY <1>reads, <3>1, <3>rigid DEF RequestOK
        <5>2. seen[r] \in 0 .. MaxRevisions /\ (seen[r] # 0 => seen[r] \in Revisions)
          BY <1>reads, CatalogueFacts DEF Revisions
        <5>3. QED
          BY <5>1, <5>2 DEF Stored
      <4>3. n \in Nat /\ seen[r] \in Nat /\ next \in 0 .. MaxRevisions
        <5>1. next \in Revisions /\ seen[r] \in 0 .. MaxRevisions
          BY <1>reads, <3>1
        <5>2. QED
          BY <5>1, CatalogueFacts
      <4>4. next = n + 1
        BY <3>1, <3>rigid, <4>1, <4>2, <4>3
      <4>5. (1 .. n) \cup {n + 1} = 1 .. (n + 1) /\ n + 1 # 0
        BY <4>3
      <4>6. Stored(k)' = 1 .. (n + 1)
        BY <3>6, <4>1, <4>4, <4>5
      <4>7. n + 1 \in 0 .. MaxRevisions /\ n + 1 # 0 /\ draft'[k] = revisions'[k][n + 1]
        BY <3>4, <3>5, <4>3, <4>4, <4>5
      <4>8. QED
        BY <4>6, <4>7
    <3>8. \A j \in Keys : RowOK(j)'
      <4> TAKE j \in Keys
      <4>1. CASE j = k
        BY <3>1, <3>2, <3>4, <3>7, <4>1 DEF RowOK
      <4>2. CASE j # k
        <5>1. RowOK(j)
          BY <1>ok
        <5>2. QED
          BY <3>1, <3>4, <3>6, <4>2, <5>1 DEF RowOK
      <4>3. QED
        BY <4>1, <4>2
    <3>9. IdsApart'
      <4>1. \A j \in Keys : j # k /\ owner[j] = by[r] => IdOf[draft[j]] # IdOf[text[r]]
        BY <3>1 DEF Taken
      <4>2. QED
        BY <1>ok, <3>4, <4>1 DEF IdsApart
    <3>10. RevisionsStand
      <4>1. \A v \in Revisions : revisions[k][v] # Null => revisions'[k][v] = revisions[k][v]
        BY <3>1, <3>5 DEF Stored
      <4>2. owner[k] # Null => owner'[k] = owner[k]
        BY <3>1, <3>4
      <4>3. QED
        BY <3>1, <3>4, <4>1, <4>2 DEF RevisionsStand
    <3>11. QED
      BY <3>3, <3>8, <3>9, <3>10
  <2>3. QED
    BY <2>1, <2>2
<1>2. ASSUME NEW r \in Requests, Publish(r) PROVE Goal
  <2> DEFINE k == key[r]
  <2>1. /\ UNCHANGED <<owner, draft, on, revisions, gone>> /\ Doing(r, "publish", 1)
        /\ \/ UNCHANGED <<status, active>>
           \/ status' = [status EXCEPT ![k] = "published"] /\ active' = [active EXCEPT ![k] = Latest(k)]
    BY <1>2 DEF Publish
  <2>2. k \in Keys
    BY <1>reads, <2>1 DEF RequestOK, Doing
  <2>3. Latest(k) \in 0 .. MaxRevisions
    BY <2>2, LatestIsStored
  <2>4. RowTypes'
    BY <1>know, <2>1, <2>3 DEF RowTypes
  <2>5. QED
    BY <1>flags, <2>1, <2>4
<1>3. ASSUME NEW k \in Keys, NEW ws \in Workspaces, NEW enabled \in BOOLEAN, SetEnabled(k, ws, enabled) PROVE Goal
  <2>1. /\ UNCHANGED <<owner, draft, status, active, revisions, gone>> /\ on' = [on EXCEPT ![k] = enabled]
    BY <1>3 DEF SetEnabled
  <2>2. RowTypes'
    BY <1>know, <2>1 DEF RowTypes
  <2>3. QED
    BY <1>flags, <2>1, <2>2
<1>4. ASSUME NEW k \in Keys, NEW ws \in Workspaces, NEW target \in Workspaces, Transfer(k, ws, target) PROVE Goal
  <2>1. /\ owner[k] = ws /\ owner' = [owner EXCEPT ![k] = target] /\ \A j \in jobs : j.into # k
        /\ ~Taken(k, target, IdOf[draft[k]])
        /\ UNCHANGED <<draft, status, on, active, revisions, gone>>
    BY <1>4 DEF Transfer
  <2>2. RowTypes'
    BY <1>know, <2>1 DEF RowTypes
  <2>3. /\ owner'[k] = target /\ target # Null /\ ws # Null
        /\ \A j \in Keys : j # k => owner'[j] = owner[j]
    BY <1>know, <2>1, CatalogueFacts
  <2>4. \A j \in Keys : RowOK(j)'
    BY <1>ok, <2>1, <2>3 DEF RowOK, Stored
  <2>5. IdsApart'
    <3>1. \A j \in Keys : j # k /\ owner[j] = target => IdOf[draft[j]] # IdOf[draft[k]]
      BY <2>1 DEF Taken
    <3>2. QED
      BY <1>ok, <2>1, <2>3, <3>1 DEF IdsApart
  <2>6. RevisionsStand
    BY <2>1, <2>3 DEF RevisionsStand
  <2>7. QED
    BY <2>2, <2>4, <2>5, <2>6
<1>5. ASSUME NEW r \in Requests, DropClaims(r) PROVE Goal
  <2>1. UNCHANGED rowVars /\ gone' = gone \cup {key[r]} /\ key[r] \in Keys
    BY <1>5, <1>reads DEF DropClaims, Doing, RequestOK
  <2>2. QED
    BY <1>know, <1>ok, <2>1 DEF rowVars, RowTypes, RowOK, Stored, IdsApart, RevisionsStand
<1>6. ASSUME NEW r \in Requests, DropRevisions(r) PROVE Goal
  <2> DEFINE k == key[r]
  <2>1. /\ revisions' = [revisions EXCEPT ![k] = [q \in Revisions |-> Null]] /\ Doing(r, "delete", 2)
        /\ UNCHANGED <<owner, draft, status, on, active, gone>>
    BY <1>6 DEF DropRevisions
  <2>2. k \in Keys /\ k \in gone
    BY <1>reads, <2>1 DEF RequestOK, Doing
  <2>3. RowTypes'
    BY <1>know, <2>1 DEF RowTypes
  <2>4. \A j \in Keys : j # k => revisions'[j] = revisions[j]
    BY <1>know, <2>1
  <2>5. \A j \in Keys : RowOK(j)'
    BY <1>ok, <2>1, <2>2, <2>4 DEF RowOK, Stored
  <2>6. QED
    BY <1>ok, <2>1, <2>2, <2>3, <2>4, <2>5 DEF IdsApart, RevisionsStand
<1>7. ASSUME NEW r \in Requests, DropRow(r) PROVE Goal
  <2> DEFINE k == key[r]
  <2>1. CASE UNCHANGED <<owner, draft, status, on, active>>
    BY <1>7, <1>same, <2>1 DEF DropRow, rowVars
  <2>2. CASE ~UNCHANGED <<owner, draft, status, on, active>>
    <3>1. /\ owner' = [owner EXCEPT ![k] = Null] /\ draft' = [draft EXCEPT ![k] = Null]
          /\ status' = [status EXCEPT ![k] = "draft"] /\ on' = [on EXCEPT ![k] = TRUE]
          /\ active' = [active EXCEPT ![k] = 0] /\ UNCHANGED <<revisions, gone>> /\ Doing(r, "delete", 3)
      BY <1>7, <2>2 DEF DropRow
    <3>2. k \in Keys /\ k \in gone
      BY <1>reads, <3>1 DEF RequestOK, Doing
    <3>3. RowTypes'
      BY <1>know, <3>1, CatalogueFacts DEF RowTypes
    <3>4. /\ owner'[k] = Null /\ draft'[k] = Null
          /\ \A j \in Keys : j # k => owner'[j] = owner[j] /\ draft'[j] = draft[j]
      BY <1>know, <3>1, <3>2
    <3>5. \A j \in Keys : RowOK(j)'
      BY <1>ok, <3>1, <3>2, <3>4 DEF RowOK, Stored
    <3>6. QED
      BY <1>ok, <3>1, <3>2, <3>3, <3>4, <3>5 DEF IdsApart, RevisionsStand
  <2>3. QED
    BY <2>1, <2>2
<1>8. ASSUME \/ \E r \in Requests, k \in Keys, ws \in Workspaces :
                  \/ \E src \in Sources : BeginSave(r, k, ws, src)
                  \/ BeginPublish(r, k, ws) \/ BeginDelete(r, k, ws)
             \/ \E r \in Requests : ReadRevision(r) \/ Abandon(r)
      PROVE  Goal
  BY <1>8, <1>same DEF BeginSave, BeginPublish, BeginDelete, ReadRevision, Abandon
<1>9. ASSUME SchedulerStep \/ Clock PROVE Goal
  <2>1. UNCHANGED <<rowVars, gone>>
    BY <1>9 DEF SchedulerStep, Clock, Tick, ReadPublished, TickEnds, Enqueue, SchedulerDies, ClaimScheduledRun, requests
  <2>2. QED
    BY <1>same, <2>1
<1> HIDE DEF Goal
<1>10. QED
  BY <1>1, <1>2, <1>3, <1>4, <1>5, <1>6, <1>7, <1>8, <1>9 DEF CatalogueNext, WorkflowRequest, WorkflowStep

-----------------------------------------------------------------------------
(* WorkflowCatalogue: requests keep it.                                    *)

\* What a request knows of its workflow stays true of it, whatever the others do.
LEMMA RequestsKept ==
  CatalogueInv /\ CatalogueNext /\ RevisionsStand => RequestTypes' /\ \A r \in Requests : RequestOK(r)'
<1> DEFINE Goal == RequestTypes' /\ \A r \in Requests : RequestOK(r)'
<1> SUFFICES ASSUME CatalogueInv, CatalogueNext, RevisionsStand PROVE Goal
  OBVIOUS
<1>know. /\ task \in [Requests -> {"new", "save", "publish", "delete", "done"}]
         /\ key \in [Requests -> Keys \cup {Null}]
         /\ text \in [Requests -> Sources \cup {Null}]
         /\ seen \in [Requests -> 0 .. MaxRevisions]
         /\ stage \in [Requests -> 0 .. 3]
         /\ by \in [Requests -> Workspaces \cup {Null}]
  BY DEF CatalogueInv, CatalogueTypeOK, RequestTypes
<1>rows. draft \in [Keys -> Sources \cup {Null}] /\ revisions \in [Keys -> [Revisions -> Sources \cup {Null}]]
         /\ owner \in [Keys -> Workspaces \cup {Null}]
  BY DEF CatalogueInv, CatalogueTypeOK, RowTypes
<1>ok. (\A r \in Requests : RequestOK(r)) /\ (\A k \in Keys : RowOK(k))
  BY DEF CatalogueInv
\* A request that stays as it is.
<1>same. ASSUME NEW r \in Requests, key'[r] = key[r], text'[r] = text[r], by'[r] = by[r], task'[r] = task[r],
                seen'[r] = seen[r], stage'[r] = stage[r]
         PROVE  RequestOK(r)'
  <2>1. RequestOK(r)
    BY <1>ok
  <2>2. gone \subseteq gone'
    BY DEF RevisionsStand
  <2>3. ASSUME Doing(r, "save", 2), key[r] \notin gone' PROVE seen[r] = 0 \/ revisions'[key[r]][seen[r]] # Null
    <3>1. key[r] \in Keys /\ (seen[r] = 0 \/ revisions[key[r]][seen[r]] # Null)
      BY <2>1, <2>2, <2>3 DEF RequestOK, Doing
    <3>2. seen[r] = 0 \/ seen[r] \in Revisions
      BY <1>know, CatalogueFacts DEF Revisions
    <3>3. \A v \in Revisions : revisions[key[r]][v] # Null => revisions'[key[r]][v] = revisions[key[r]][v]
      BY <2>3, <3>1 DEF RevisionsStand
    <3>4. QED
      BY <3>1, <3>2, <3>3
  <2>4. Doing(r, "save", 2)' <=> Doing(r, "save", 2)
    BY <1>same DEF Doing
  <2>5. QED
    BY <1>same, <2>1, <2>2, <2>3, <2>4 DEF RequestOK
<1>stay. ASSUME UNCHANGED requestVars PROVE Goal
  BY <1>stay, <1>same, <1>know DEF requestVars, RequestTypes
\* A request that begins.
<1>begins. ASSUME NEW r \in Requests, NEW what \in {"save", "publish", "delete"}, NEW k \in Keys, NEW ws \in Workspaces,
                  NEW src \in Sources \cup {Null}, Begin(r, what, k, ws, src), what = "save" => src \in Sources
           PROVE  Goal
  <2>1. RequestTypes'
    BY <1>begins, <1>know DEF Begin, RequestTypes
  <2>2. RequestOK(r)'
    <3>1. task'[r] = what /\ key'[r] = k /\ by'[r] = ws /\ text'[r] = src /\ stage'[r] = 1
      BY <1>begins, <1>know DEF Begin
    <3>2. QED
      BY <1>begins, <3>1 DEF RequestOK, Doing
  <2>3. ASSUME NEW q \in Requests, q # r PROVE RequestOK(q)'
    <3>1. key'[q] = key[q] /\ text'[q] = text[q] /\ by'[q] = by[q] /\ task'[q] = task[q] /\ seen'[q] = seen[q] /\ stage'[q] = stage[q]
      BY <1>begins, <1>know, <2>3 DEF Begin
    <3>2. QED
      BY <1>same, <3>1
  <2>4. QED
    BY <2>1, <2>2, <2>3
\* A request that ends.
<1>ends. ASSUME NEW r \in Requests, Closes(r) PROVE Goal
  <2>1. RequestTypes'
    BY <1>ends, <1>know, CatalogueFacts DEF Closes, RequestTypes
  <2>2. RequestOK(r)'
    <3>1. task'[r] = "done"
      BY <1>ends, <1>know DEF Closes
    <3>2. QED
      BY <3>1 DEF RequestOK, Doing
  <2>3. ASSUME NEW q \in Requests, q # r PROVE RequestOK(q)'
    <3>1. key'[q] = key[q] /\ text'[q] = text[q] /\ by'[q] = by[q] /\ task'[q] = task[q] /\ seen'[q] = seen[q] /\ stage'[q] = stage[q]
      BY <1>ends, <1>know, <2>3 DEF Closes
    <3>2. QED
      BY <1>same, <3>1
  <2>4. QED
    BY <2>1, <2>2, <2>3
\* A request that goes on.
<1>goes. ASSUME NEW r \in Requests, GoesOn(r), stage[r] \in {1, 2}, seen' \in [Requests -> 0 .. MaxRevisions],
                \A q \in Requests \ {r} : seen'[q] = seen[q], RequestOK(r)'
         PROVE  Goal
  <2>1. RequestTypes'
    BY <1>goes, <1>know DEF GoesOn, RequestTypes
  <2>2. ASSUME NEW q \in Requests, q # r PROVE RequestOK(q)'
    <3>1. key'[q] = key[q] /\ text'[q] = text[q] /\ by'[q] = by[q] /\ task'[q] = task[q] /\ seen'[q] = seen[q] /\ stage'[q] = stage[q]
      BY <1>goes, <1>know, <2>2 DEF GoesOn
    <3>2. QED
      BY <1>same, <3>1
  <2>3. QED
    BY <1>goes, <2>1, <2>2
<1>1. ASSUME NEW r \in Requests, NEW k \in Keys, NEW ws \in Workspaces, NEW src \in Sources, BeginSave(r, k, ws, src) PROVE Goal
  BY <1>1, <1>begins DEF BeginSave
<1>2. ASSUME NEW r \in Requests, NEW k \in Keys, NEW ws \in Workspaces, BeginPublish(r, k, ws) PROVE Goal
  BY <1>2, <1>begins, <1>rows DEF BeginPublish
<1>3. ASSUME NEW r \in Requests, NEW k \in Keys, NEW ws \in Workspaces, BeginDelete(r, k, ws) PROVE Goal
  BY <1>3, <1>begins DEF BeginDelete
<1>4. ASSUME NEW r \in Requests, ReadRevision(r) PROVE Goal
  <2>1. /\ Doing(r, "save", 1) /\ GoesOn(r) /\ seen' = [seen EXCEPT ![r] = Latest(key[r])]
        /\ UNCHANGED <<rowVars, gone>>
    BY <1>4 DEF ReadRevision
  <2>2. key[r] \in Keys /\ by[r] \in Workspaces /\ text[r] \in Sources
    BY <1>ok, <2>1 DEF RequestOK, Doing
  <2>3. Latest(key[r]) \in 0 .. MaxRevisions
    BY <2>2, LatestIsStored
  <2>4. seen'[r] = Latest(key[r]) /\ stage'[r] = 2 /\ stage[r] = 1
    BY <1>know, <2>1 DEF GoesOn, Doing
  <2>5. Latest(key[r]) = 0 \/ revisions[key[r]][Latest(key[r])] # Null
    BY <2>2, LatestIsStored DEF Latest, Stored
  <2>6. RequestOK(r)'
    BY <2>1, <2>2, <2>4, <2>5 DEF RequestOK, Doing, GoesOn, rowVars
  <2>7. seen' \in [Requests -> 0 .. MaxRevisions] /\ \A q \in Requests \ {r} : seen'[q] = seen[q]
    BY <1>know, <2>1, <2>3
  <2>8. QED
    BY <1>goes, <2>1, <2>4, <2>6, <2>7
<1>5. ASSUME NEW r \in Requests, DropClaims(r) PROVE Goal
  <2>1. Doing(r, "delete", 1) /\ GoesOn(r) /\ seen' = seen /\ gone' = gone \cup {key[r]}
    BY <1>5 DEF DropClaims
  <2>2. key[r] \in Keys /\ by[r] \in Workspaces
    BY <1>ok, <2>1 DEF RequestOK, Doing
  <2>3. RequestOK(r)'
    BY <2>1, <2>2 DEF RequestOK, Doing, GoesOn
  <2>4. QED
    BY <1>goes, <1>know, <2>1, <2>3 DEF Doing
<1>6. ASSUME NEW r \in Requests, DropRevisions(r) PROVE Goal
  <2>1. Doing(r, "delete", 2) /\ GoesOn(r) /\ seen' = seen /\ gone' = gone
    BY <1>6 DEF DropRevisions
  <2>2. key[r] \in Keys /\ by[r] \in Workspaces /\ key[r] \in gone
    BY <1>ok, <2>1 DEF RequestOK, Doing
  <2>3. RequestOK(r)'
    BY <2>1, <2>2 DEF RequestOK, Doing, GoesOn
  <2>4. QED
    BY <1>goes, <1>know, <2>1, <2>3 DEF Doing
<1>7. ASSUME NEW r \in Requests, (\E enabled \in BOOLEAN : SaveDraft(r, enabled)) \/ Publish(r) \/ DropRow(r) \/ Abandon(r) PROVE Goal
  BY <1>7, <1>ends DEF SaveDraft, Publish, DropRow, Abandon
<1>8. ASSUME \/ \E k \in Keys, ws \in Workspaces :
                  \/ \E enabled \in BOOLEAN : SetEnabled(k, ws, enabled)
                  \/ \E target \in Workspaces : Transfer(k, ws, target)
             \/ SchedulerStep \/ Clock
      PROVE  Goal
  <2>1. UNCHANGED requestVars
    BY <1>8 DEF SetEnabled, Transfer, SchedulerStep, Clock, Tick, ReadPublished, TickEnds, Enqueue, SchedulerDies, ClaimScheduledRun, requests
  <2>2. QED
    BY <1>stay, <2>1
<1> HIDE DEF Goal
<1>9. QED
  BY <1>1, <1>2, <1>3, <1>4, <1>5, <1>6, <1>7, <1>8 DEF CatalogueNext, WorkflowRequest, WorkflowStep

-----------------------------------------------------------------------------
(* WorkflowCatalogue: ticks keep it.                                       *)

\* A revision that was read stands as long as its workflow is not deleted.
LEMMA TriggerStaysTrue ==
  ASSUME RevisionsStand, NEW p \in Triggers, TriggerStands(p)
  PROVE  TriggerStands(p)'
<1>1. p[1] \in Keys /\ p[2] \in Revisions /\ p[3] \in Sources
  BY DEF Triggers
<1>2. gone \subseteq gone' /\ (p[1] \notin gone' => (revisions[p[1]][p[2]] # Null => revisions'[p[1]][p[2]] = revisions[p[1]][p[2]]))
  BY <1>1 DEF RevisionsStand
<1>3. QED
  BY <1>1, <1>2, CatalogueFacts DEF TriggerStands

\* A tick that stays as it is, while claims of deleted keys go, others queue
\* under claims of their own, and jobs are made under those.
LEMMA TickStaysTrue ==
  ASSUME TickTypes, RevisionsStand, NEW t \in Ticks, TickOK(t),
         place'[t] = place[t], todo'[t] \subseteq todo[t], current'[t] = current[t],
         minute'[t] = minute[t], variant'[t] = variant[t],
         \A c \in claims : c[1] \notin gone' => c \in claims',
         \A u \in Ticks \ {t} : place'[u] = "queueing" /\ ClaimOf(t)[1] \notin gone' =>
            \/ place[u] = "queueing" /\ current'[u] = current[u] /\ minute'[u] = minute[u]
            \/ <<IdOf[current'[u][3]], minute'[u]>> # ClaimOf(t),
         ClaimOf(t)[1] \notin gone' => \A j \in jobs' \ jobs : <<j.name, j.minute>> # ClaimOf(t) \/ place[t] # "queueing"
  PROVE  TickOK(t)'
<1>1. todo[t] \subseteq Triggers
  BY DEF TickTypes
<1>2. \A p \in todo'[t] : TriggerStands(p)'
  <2> TAKE p \in todo'[t]
  <2>1. p \in Triggers /\ TriggerStands(p)
    BY <1>1 DEF TickOK
  <2>2. QED
    BY <2>1, TriggerStaysTrue
<1>3. CASE place[t] # "queueing"
  BY <1>2, <1>3 DEF TickOK
<1>4. CASE place[t] = "queueing"
  <2>0. PICK p : p = current[t]
    OBVIOUS
  <2>1. p \in Triggers /\ TriggerStands(p)
    BY <1>4, <2>0 DEF TickOK
  <2>2. TriggerStands(p)'
    BY <2>1, TriggerStaysTrue
  <2>3. TriggerStands(current[t])'
    BY <2>0, <2>2 DEF TriggerStands
  <2>4. gone \subseteq gone'
    BY DEF RevisionsStand
  <2>5. PICK c : c = ClaimOf(t)
    OBVIOUS
  <2>6. ClaimOf(t)' = c
    BY <2>5 DEF ClaimOf
  <2>7. ASSUME c[1] \notin gone'
        PROVE  /\ c \in claims'
               /\ \A u \in Ticks \ {t} : place'[u] = "queueing" => ClaimOf(u)' # c
               /\ \A j \in jobs' : <<j.name, j.minute>> = c => j.variant < variant[t]
    <3>1. /\ c \in claims
          /\ \A u \in Ticks \ {t} : place[u] = "queueing" => ClaimOf(u) # c
          /\ \A j \in jobs : <<j.name, j.minute>> = c => j.variant < variant[t]
      BY <1>4, <2>4, <2>5, <2>7 DEF TickOK
    <3>2. c \in claims'
      BY <2>7, <3>1
    <3>3. \A u \in Ticks \ {t} : place'[u] = "queueing" => ClaimOf(u)' # c
      BY <2>5, <2>7, <3>1 DEF ClaimOf
    <3>4. \A j \in jobs' : <<j.name, j.minute>> = c => j.variant < variant[t]
      BY <1>4, <2>5, <2>7, <3>1
    <3>5. QED
      BY <3>2, <3>3, <3>4
  <2>8. QED
    BY <1>2, <1>4, <2>0, <2>1, <2>2, <2>6, <2>7 DEF TickOK, TriggerStands
<1>5. QED
  BY <1>3, <1>4

\* However ticks overlap with requests and with each other, a definition's claim
\* is one tick's, and the jobs made under it are of the revision it read.
LEMMA TicksKept ==
  CatalogueInv /\ CatalogueNext /\ RevisionsStand =>
    TickTypes' /\ (\A t \in Ticks : TickOK(t)') /\ JobsOK' /\ JobsFollowWorkflows'
<1> DEFINE Goal == TickTypes' /\ (\A t \in Ticks : TickOK(t)') /\ JobsOK' /\ JobsFollowWorkflows'
<1> SUFFICES ASSUME CatalogueInv, CatalogueNext, RevisionsStand PROVE Goal
  OBVIOUS
<1>know. /\ TickTypes
         /\ now \in Minutes /\ claims \subseteq (Names \cup Keys) \X Minutes /\ jobs \subseteq Jobs
         /\ dealt \subseteq Keys \X Sources \X Minutes
         /\ place \in [Ticks -> {"idle", "reading", "looping", "queueing"}]
         /\ minute \in [Ticks -> Minutes] /\ todo \in [Ticks -> SUBSET Triggers]
         /\ current \in [Ticks -> Triggers \cup {Null}] /\ variant \in [Ticks -> Nat]
  BY DEF CatalogueInv, CatalogueTypeOK, TickTypes
<1>rows. /\ owner \in [Keys -> Workspaces \cup {Null}] /\ gone \subseteq Keys
         /\ revisions \in [Keys -> [Revisions -> Sources \cup {Null}]]
  BY DEF CatalogueInv, CatalogueTypeOK, RowTypes
<1>ok. /\ \A t \in Ticks : TickOK(t)
       /\ IsFiniteSet(jobs) /\ \A j \in jobs : j.name \notin gone => <<j.name, j.minute>> \in claims
       /\ JobsFollowWorkflows
  BY DEF CatalogueInv, JobsOK
<1>gone. gone \subseteq gone'
  BY DEF RevisionsStand
\* Jobs that are there follow their workflows still.
<1>old. \A j \in jobs : j.into \notin gone' =>
          /\ owner'[j.into] = j.team
          /\ j.into = j.key => revisions'[j.into][j.revision] = j.source
  <2> SUFFICES ASSUME NEW j \in jobs, j.into \notin gone'
               PROVE  /\ owner'[j.into] = j.team
                      /\ j.into = j.key => revisions'[j.into][j.revision] = j.source
    OBVIOUS
  <2>1. j.into \in Keys /\ j.team \in Workspaces /\ j.revision \in Revisions /\ j.source \in Sources
    BY <1>know DEF Jobs
  <2>2. owner[j.into] = j.team /\ (j.into = j.key => revisions[j.into][j.revision] = j.source)
    BY <1>ok, <1>gone DEF JobsFollowWorkflows, JobsStandByTheirWorkflow
  <2>3. owner'[j.into] = owner[j.into]
    BY <2>1, <2>2, CatalogueFacts DEF RevisionsStand
  <2>4. \A v \in Revisions : revisions[j.into][v] # Null => revisions'[j.into][v] = revisions[j.into][v]
    BY <2>1 DEF RevisionsStand
  <2>5. QED
    BY <2>1, <2>2, <2>3, <2>4, CatalogueFacts
<1>jobs. ASSUME jobs' = jobs, \A c \in claims : c[1] \notin gone' => c \in claims' PROVE JobsOK' /\ JobsFollowWorkflows'
  <2>1. JobsOK'
    BY <1>jobs, <1>ok, <1>gone DEF JobsOK
  <2>2. JobsStandByTheirWorkflow'
    BY <1>jobs, <1>old DEF JobsStandByTheirWorkflow
  <2>3. ScheduledOnce'
    BY <1>jobs, <1>ok, <1>gone DEF JobsFollowWorkflows, ScheduledOnce
  <2>4. QED
    BY <2>1, <2>2, <2>3 DEF JobsFollowWorkflows
\* A step of no tick.
<1>rest. ASSUME UNCHANGED <<jobs, tickVars, dealt>>, now' \in Minutes, claims' \subseteq claims,
                \A c \in claims : c[1] \notin gone' => c \in claims'
         PROVE  Goal
  <2>1. TickTypes'
    BY <1>rest, <1>know DEF tickVars, TickTypes
  <2>2. ASSUME NEW t \in Ticks PROVE TickOK(t)'
    BY <1>rest, <1>know, <1>ok, TickStaysTrue DEF tickVars
  <2>3. QED
    BY <1>rest, <1>jobs, <2>1, <2>2
\* The other ticks, when one takes a step under its own claim or under none.
<1>others. ASSUME NEW t \in Ticks, claims \subseteq claims',
                  \A u \in Ticks \ {t} : /\ place'[u] = place[u] /\ todo'[u] = todo[u] /\ current'[u] = current[u]
                                         /\ minute'[u] = minute[u] /\ variant'[u] = variant[u],
                  jobs' = jobs,
                  \/ place'[t] # "queueing"
                  \/ place[t] = "queueing" /\ current'[t] = current[t] /\ minute'[t] = minute[t]
                  \/ <<IdOf[current'[t][3]], minute'[t]>> \notin claims
           PROVE  \A u \in Ticks \ {t} : TickOK(u)'
  <2> TAKE u \in Ticks \ {t}
  <2>1. TickOK(u) /\ TickTypes
    BY <1>ok, <1>know
  <2>2. place[u] = "queueing" /\ ClaimOf(u)[1] \notin gone => ClaimOf(u) \in claims
    BY <2>1 DEF TickOK
  <2>3. CASE place[u] # "queueing"
    <3>1. \A p \in todo[u] : p \in Triggers /\ TriggerStands(p)
      BY <1>know, <2>1 DEF TickOK
    <3>2. \A p \in todo[u] : TriggerStands(p)'
      BY <3>1, TriggerStaysTrue
    <3>3. QED
      BY <1>others, <2>3, <3>2 DEF TickOK
  <2>4. CASE place[u] = "queueing"
    BY <1>others, <1>gone, <2>1, <2>2, <2>4, TickStaysTrue
  <2>5. QED
    BY <2>3, <2>4
\* Ticks that are cut short.
<1>cut. ASSUME NEW dead \in SUBSET Ticks, Cut(dead), UNCHANGED <<claims, jobs, gone, now>>,
               dealt' \subseteq Keys \X Sources \X Minutes
        PROVE  Goal
  <2>1. /\ place' = [t \in Ticks |-> IF t \in dead THEN "idle" ELSE place[t]]
        /\ minute' = [t \in Ticks |-> IF t \in dead THEN 1 ELSE minute[t]]
        /\ todo' = [t \in Ticks |-> IF t \in dead THEN {} ELSE todo[t]]
        /\ current' = [t \in Ticks |-> IF t \in dead THEN Null ELSE current[t]]
        /\ variant' = [t \in Ticks |-> IF t \in dead THEN 0 ELSE variant[t]]
    BY <1>cut DEF Cut
  <2>2. 1 \in Minutes
    BY WorkflowCatalogueAssumption DEF Minutes
  <2>3. TickTypes'
    BY <1>cut, <1>know, <2>1, <2>2 DEF TickTypes
  <2>4. ASSUME NEW t \in Ticks PROVE TickOK(t)'
    <3>1. CASE t \in dead
      <4>1. place'[t] = "idle" /\ todo'[t] = {}
        BY <2>1, <3>1
      <4>2. QED
        BY <4>1 DEF TickOK
    <3>2. CASE t \notin dead
      <4>1. place'[t] = place[t] /\ todo'[t] = todo[t] /\ current'[t] = current[t] /\ minute'[t] = minute[t] /\ variant'[t] = variant[t]
        BY <2>1, <3>2
      <4>2. \A u \in Ticks : place'[u] = "queueing" => place[u] = "queueing" /\ current'[u] = current[u] /\ minute'[u] = minute[u]
        BY <2>1
      <4>3. QED
        BY <1>cut, <1>ok, <1>know, <4>1, <4>2, TickStaysTrue
    <3>3. QED
      BY <3>1, <3>2
  <2>5. QED
    BY <1>cut, <1>jobs, <2>3, <2>4
<1>1. ASSUME NEW t \in Ticks, Tick(t) PROVE Goal
  <2>1. /\ place[t] = "idle" /\ place' = [place EXCEPT ![t] = "reading"] /\ minute' = [minute EXCEPT ![t] = now]
        /\ UNCHANGED <<claims, jobs, gone, now, todo, current, variant, dealt>>
    BY <1>1 DEF Tick, Goes, requests
  <2>2. place'[t] = "reading"
    BY <1>know, <2>1
  <2>3. TickTypes'
    BY <1>know, <2>1 DEF TickTypes
  <2>4. TickOK(t)'
    <3>1. \A p \in todo[t] : p \in Triggers /\ TriggerStands(p)
      BY <1>know, <1>ok DEF TickOK
    <3>2. \A p \in todo[t] : TriggerStands(p)'
      BY <3>1, TriggerStaysTrue
    <3>3. QED
      BY <2>1, <2>2, <3>2 DEF TickOK
  <2>5. \A u \in Ticks \ {t} : TickOK(u)'
    BY <1>know, <1>others, <2>1, <2>2
  <2>6. QED
    BY <1>jobs, <2>1, <2>3, <2>4, <2>5
<1>2. ASSUME NEW t \in Ticks, ReadPublished(t) PROVE Goal
  <2> DEFINE found == {p \in Published : Variants[p[3]] > 0}
  <2>1. /\ place' = [place EXCEPT ![t] = "looping"] /\ todo' = [todo EXCEPT ![t] = found]
        /\ UNCHANGED <<rowVars, claims, jobs, gone, now, minute, current, variant, dealt>>
    BY <1>2 DEF ReadPublished, Goes, requests
  <2>2. \A p \in Published : p \in Triggers /\ revisions[p[1]][p[2]] = p[3]
    <3> TAKE p \in Published
    <3>1. PICK k \in Keys : p = <<k, active[k], revisions[k][active[k]]>> /\ active[k] \in Revisions /\ revisions[k][active[k]] # Null
      BY DEF Published, Stored
    <3>2. QED
      BY <1>rows, <3>1 DEF Triggers
  <2>3. found \in SUBSET Triggers /\ place'[t] = "looping" /\ todo'[t] = found
    BY <1>know, <2>1, <2>2
  <2>4. TickTypes'
    BY <1>know, <2>1, <2>3 DEF TickTypes
  <2>5. TickOK(t)'
    BY <2>1, <2>2, <2>3 DEF TickOK, TriggerStands, rowVars
  <2>6. \A u \in Ticks \ {t} : TickOK(u)'
    BY <1>know, <1>others, <2>1, <2>3
  <2>7. QED
    BY <1>jobs, <2>1, <2>4, <2>5, <2>6
<1>3. ASSUME NEW t \in Ticks, TickEnds(t) PROVE Goal
  <2>1. /\ todo[t] = {} /\ place' = [place EXCEPT ![t] = "idle"] /\ minute' = [minute EXCEPT ![t] = 1]
        /\ UNCHANGED <<claims, jobs, gone, now, todo, current, variant, dealt>> /\ 1 \in Minutes
    BY <1>3, WorkflowCatalogueAssumption DEF TickEnds, Goes, requests, Minutes
  <2>2. place'[t] = "idle"
    BY <1>know, <2>1
  <2>3. TickTypes'
    BY <1>know, <2>1 DEF TickTypes
  <2>4. TickOK(t)'
    BY <2>1, <2>2 DEF TickOK
  <2>5. \A u \in Ticks \ {t} : TickOK(u)'
    BY <1>know, <1>others, <2>1, <2>2
  <2>6. QED
    BY <1>jobs, <2>1, <2>3, <2>4, <2>5
<1>4. ASSUME NEW t \in Ticks, NEW p \in todo[t], ClaimScheduledRun(t, p) PROVE Goal
  <2> DEFINE claim == <<IdOf[p[3]], minute[t]>>
  <2>1. /\ place[t] = "looping" /\ todo' = [todo EXCEPT ![t] = todo[t] \ {p}]
        /\ UNCHANGED <<rowVars, gone, now, jobs, minute, dealt>>
    BY <1>4 DEF ClaimScheduledRun, requests
  <2>2. p \in Triggers /\ p[1] \in Keys /\ p[3] \in Sources /\ TriggerStands(p)
    BY <1>know, <1>ok DEF TickOK, Triggers
  <2>3. claim \in (Names \cup Keys) \X Minutes
    BY <1>know, <2>2, CatalogueFacts
  <2>stands. \A q \in todo'[t] : TriggerStands(q)'
    <3>1. \A q \in todo[t] : q \in Triggers /\ TriggerStands(q)
      BY <1>know, <1>ok DEF TickOK
    <3>2. \A q \in todo[t] : TriggerStands(q)'
      BY <3>1, TriggerStaysTrue
    <3>3. QED
      BY <1>know, <2>1, <3>2
  <2>4. CASE claim \in claims
    <3>1. UNCHANGED <<claims, place, current, variant>>
      BY <1>4, <2>4 DEF ClaimScheduledRun
    <3>2. TickTypes'
      BY <1>know, <2>1, <3>1 DEF TickTypes
    <3>3. TickOK(t)'
      BY <2>1, <3>1, <2>stands DEF TickOK
    <3>4. \A u \in Ticks \ {t} : TickOK(u)'
      BY <1>know, <1>others, <2>1, <3>1
    <3>5. QED
      BY <1>jobs, <2>1, <3>1, <3>2, <3>3, <3>4
  <2>5. CASE claim \notin claims
    <3>1. /\ claims' = claims \cup {claim} /\ place' = [place EXCEPT ![t] = "queueing"]
          /\ current' = [current EXCEPT ![t] = p] /\ variant' = [variant EXCEPT ![t] = 1]
      BY <1>4, <2>5 DEF ClaimScheduledRun, Goes
    <3>2. TickTypes'
      BY <1>know, <2>1, <2>2, <2>3, <3>1 DEF TickTypes
    <3>3. current'[t] = p /\ variant'[t] = 1 /\ minute'[t] = minute[t]
      BY <1>know, <2>1, <3>1
    <3>4. ClaimOf(t)' = claim
      BY <3>3 DEF ClaimOf
    <3>5. ASSUME claim[1] \notin gone
          PROVE  /\ \A u \in Ticks \ {t} : place'[u] = "queueing" => ClaimOf(u)' # claim
                 /\ \A j \in jobs : <<j.name, j.minute>> # claim
      <4>1. \A j \in jobs : <<j.name, j.minute>> # claim
        BY <1>ok, <2>5, <3>5
      <4>2. ASSUME NEW u \in Ticks \ {t}, place'[u] = "queueing", ClaimOf(u)' = claim PROVE FALSE
        <5>1. place[u] = "queueing" /\ ClaimOf(u) = claim
          BY <1>know, <2>1, <3>1, <4>2 DEF ClaimOf
        <5>2. QED
          BY <1>ok, <2>5, <3>5, <5>1 DEF TickOK
      <4>3. QED
        BY <4>1, <4>2
    <3>6. TickOK(t)'
      <4>1. gone' = gone /\ jobs' = jobs /\ claim \in claims'
        BY <2>1, <3>1
      <4>2. TriggerStands(current[t])'
        BY <2>1, <2>2, <3>3 DEF TriggerStands, rowVars
      <4> HIDE DEF claim
      <4>3. QED
        BY <2>2, <2>stands, <3>3, <3>4, <3>5, <4>1, <4>2 DEF TickOK
    <3>7. \A u \in Ticks \ {t} : TickOK(u)'
      BY <1>know, <1>others, <2>1, <2>5, <3>1, <3>3
    <3>8. QED
      BY <1>jobs, <2>1, <3>1, <3>2, <3>6, <3>7
  <2>6. QED
    BY <2>4, <2>5
<1>5. ASSUME NEW t \in Ticks, Enqueue(t) PROVE Goal
  <2> DEFINE k == IdOf[current[t][3]]
             same == {j \in jobs : j.name = k /\ j.minute = minute[t] /\ j.variant = variant[t]}
             last == variant[t] = Variants[current[t][3]]
             added == [into |-> k, team |-> owner[k], revision |-> current[t][2], key |-> current[t][1],
                      source |-> current[t][3], name |-> k, minute |-> minute[t],
                      variant |-> variant[t], copy |-> Cardinality(same)]
  <2>1. place[t] = "queueing" /\ UNCHANGED <<rowVars, gone, now, claims>>
    BY <1>5 DEF Enqueue, requests
  <2>2. /\ current[t] \in Triggers /\ TriggerStands(current[t])
        /\ ClaimOf(t)[1] \notin gone =>
             /\ ClaimOf(t) \in claims
             /\ \A u \in Ticks \ {t} : place[u] = "queueing" => ClaimOf(u) # ClaimOf(t)
             /\ \A j \in jobs : <<j.name, j.minute>> = ClaimOf(t) => j.variant < variant[t]
    BY <1>ok, <2>1 DEF TickOK
  <2>3. /\ current[t][1] \in Keys /\ current[t][2] \in Revisions /\ current[t][3] \in Sources
        /\ k \in Names /\ minute[t] \in Minutes /\ variant[t] \in Nat
    BY <1>know, <2>2, CatalogueFacts DEF Triggers
  <2>4. ClaimOf(t) = <<k, minute[t]>>
    BY DEF ClaimOf
  <2>dealt. ASSUME NEW whole \in BOOLEAN, Over(t, whole) PROVE dealt' \subseteq Keys \X Sources \X Minutes
    BY <1>know, <2>3, <2>dealt DEF Over
  <2>5. CASE k \in Keys /\ owner[k] # Null
    <3>1. /\ jobs' = jobs \cup {added} /\ UNCHANGED <<minute, todo>>
          /\ place' = (IF last THEN [place EXCEPT ![t] = "looping"] ELSE place)
          /\ current' = (IF last THEN [current EXCEPT ![t] = Null] ELSE current)
          /\ variant' = [variant EXCEPT ![t] = IF last THEN 0 ELSE variant[t] + 1]
          /\ Over(t, last)
      BY <1>5, <2>5 DEF Enqueue, Goes
    <3>2. /\ added.name = k /\ added.minute = minute[t] /\ added.variant = variant[t] /\ added.copy = Cardinality(same)
          /\ added.into = k /\ added.team = owner[k] /\ added.key = current[t][1] /\ added.revision = current[t][2]
          /\ added.source = current[t][3]
      OBVIOUS
    <3>3. IsFiniteSet(same) /\ Cardinality(same) \in Nat /\ IsFiniteSet(jobs')
      <4>1. IsFiniteSet(same)
        BY <1>ok, FS_Subset
      <4>2. QED
        BY <1>ok, <3>1, <4>1, FS_AddElement, FS_CardinalityType
    <3>4. added \in Jobs
      BY <1>rows, <2>3, <2>5, <3>3 DEF Jobs
    <3>5. k \notin gone => same = {} /\ added.copy = 0
      <4>1. k \notin gone => same = {}
        <5> SUFFICES ASSUME k \notin gone, NEW j \in same PROVE FALSE
          OBVIOUS
        <5>1. j \in jobs /\ <<j.name, j.minute>> = ClaimOf(t) /\ j.variant = variant[t]
          BY <2>4
        <5>2. j.variant < variant[t] /\ variant[t] \in Nat
          BY <2>2, <2>3, <2>4, <5>1
        <5>3. QED
          BY <5>1, <5>2
      <4>2. QED
        BY <3>2, <4>1, FS_EmptySet
    <3>6. (k = current[t][1] /\ k \notin gone) => revisions[k][added.revision] = added.source
      BY <2>2, <3>2 DEF TriggerStands
    <3> HIDE DEF added, same
    <3>7. JobsOK'
      BY <1>ok, <2>1, <2>2, <2>4, <3>1, <3>2, <3>3 DEF JobsOK
    <3>8. JobsFollowWorkflows'
      <4>1. JobsStandByTheirWorkflow'
        <5>1. added.into \notin gone => owner[added.into] = added.team /\ (added.into = added.key => revisions[added.into][added.revision] = added.source)
          BY <3>2, <3>6
        <5>2. QED
          BY <1>old, <2>1, <3>1, <5>1 DEF JobsStandByTheirWorkflow, rowVars
      <4>2. ScheduledOnce'
        BY <1>ok, <2>1, <3>1, <3>2, <3>5 DEF JobsFollowWorkflows, ScheduledOnce
      <4>3. QED
        BY <4>1, <4>2 DEF JobsFollowWorkflows
    <3>9. variant'[t] \in Nat /\ (~last => variant'[t] = variant[t] + 1)
      BY <1>know, <2>3, <3>1
    <3>10. TickTypes'
      <4>1. dealt' \subseteq Keys \X Sources \X Minutes
        BY <2>dealt, <3>1
      <4>2. place' \in [Ticks -> {"idle", "reading", "looping", "queueing"}]
        BY <1>know, <3>1
      <4>3. current' \in [Ticks -> Triggers \cup {Null}]
        BY <1>know, <3>1
      <4>4. variant' \in [Ticks -> Nat]
        BY <1>know, <2>3, <3>1
      <4>5. jobs' \subseteq Jobs
        BY <1>know, <3>1, <3>4
      <4>6. QED
        BY <1>know, <2>1, <3>1, <4>1, <4>2, <4>3, <4>4, <4>5 DEF TickTypes
    <3>11. TickOK(t)'
      <4>1. \A p \in todo'[t] : TriggerStands(p)'
        <5>1. \A p \in todo[t] : TriggerStands(p)
          BY <1>ok DEF TickOK
        <5>2. QED
          BY <2>1, <3>1, <5>1 DEF TriggerStands, rowVars
      <4>2. CASE last
        <5>1. place'[t] = "looping"
          BY <1>know, <3>1, <4>2
        <5>2. QED
          BY <4>1, <5>1 DEF TickOK
      <4>3. CASE ~last
        <5>1. place' = place /\ current' = current /\ minute' = minute /\ variant'[t] = variant[t] + 1
          BY <3>1, <3>9, <4>3
        <5>2. TriggerStands(current[t])' /\ current'[t] \in Triggers
          BY <2>1, <2>2, <5>1 DEF TriggerStands, rowVars
        <5>3. ClaimOf(t)' = ClaimOf(t) /\ \A u \in Ticks : ClaimOf(u)' = ClaimOf(u)
          BY <5>1 DEF ClaimOf
        <5>4. ASSUME ClaimOf(t)[1] \notin gone, NEW j \in jobs', <<j.name, j.minute>> = ClaimOf(t) PROVE j.variant < variant[t] + 1
          <6>1. CASE j \in jobs
            <7>1. j.variant \in Nat /\ j.variant < variant[t]
              BY <1>know, <2>2, <5>4, <6>1 DEF Jobs
            <7>2. QED
              BY <2>3, <7>1
          <6>2. CASE j = added
            BY <2>3, <3>2, <6>2
          <6>3. QED
            BY <3>1, <6>1, <6>2
        <5>5. QED
          BY <2>1, <2>2, <4>1, <5>1, <5>2, <5>3, <5>4 DEF TickOK
      <4>4. QED
        BY <4>2, <4>3
    <3>12. ASSUME NEW u \in Ticks \ {t} PROVE TickOK(u)'
      <4>1. /\ place'[u] = place[u] /\ todo'[u] = todo[u] /\ current'[u] = current[u]
            /\ minute'[u] = minute[u] /\ variant'[u] = variant[u]
        BY <1>know, <3>1
      <4>2. \A w \in Ticks : place'[w] = "queueing" => place[w] = "queueing" /\ current'[w] = current[w] /\ minute'[w] = minute[w]
        BY <1>know, <3>1
      <4>3. ClaimOf(u)[1] \notin gone /\ place[u] = "queueing" => <<added.name, added.minute>> # ClaimOf(u)
        <5>1. TickOK(u)
          BY <1>ok
        <5>2. QED
          BY <2>1, <2>4, <3>2, <5>1 DEF TickOK
      <4>4. QED
        BY <1>know, <1>ok, <2>1, <3>1, <4>1, <4>2, <4>3, TickStaysTrue
    <3>13. QED
      BY <3>7, <3>8, <3>10, <3>11, <3>12
  <2>6. CASE ~(k \in Keys /\ owner[k] # Null)
    <3>1. Cut(SameProcess(t)) /\ Over(t, TRUE) /\ jobs' = jobs
      BY <1>5, <2>6 DEF Enqueue
    <3>2. dealt' \subseteq Keys \X Sources \X Minutes
      BY <2>dealt, <3>1
    <3>3. SameProcess(t) \in SUBSET Ticks
      BY DEF SameProcess
    <3>4. QED
      BY <1>cut, <2>1, <3>1, <3>2, <3>3
  <2>7. QED
    BY <2>5, <2>6
<1>6. ASSUME NEW t \in Ticks, SchedulerDies(t) PROVE Goal
  <2>1. Cut(SameProcess(t)) /\ UNCHANGED <<claims, jobs, gone, now, dealt>> /\ SameProcess(t) \in SUBSET Ticks
    BY <1>6 DEF SchedulerDies, requests, SameProcess
  <2>2. QED
    BY <1>cut, <1>know, <2>1
<1>7. ASSUME Clock PROVE Goal
  <2>1. now < MaxMinutes /\ now' = now + 1 /\ UNCHANGED <<gone, claims, jobs, tickVars, dealt>>
    BY <1>7 DEF Clock
  <2>2. now' \in Minutes
    BY <1>know, <2>1, WorkflowCatalogueAssumption DEF Minutes
  <2>3. QED
    BY <1>rest, <2>1, <2>2
<1>8. ASSUME NEW r \in Requests, DropClaims(r) PROVE Goal
  <2>1. claims' = {c \in claims : c[1] # key[r]} /\ gone' = gone \cup {key[r]} /\ UNCHANGED <<jobs, now, tickVars, dealt>>
    BY <1>8 DEF DropClaims
  <2>2. QED
    BY <1>know, <1>rest, <2>1
<1>9. ASSUME \/ WorkflowRequest
             \/ \E r \in Requests :
                  \/ ReadRevision(r) \/ Publish(r) \/ Abandon(r) \/ DropRevisions(r) \/ DropRow(r)
                  \/ \E enabled \in BOOLEAN : SaveDraft(r, enabled)
      PROVE  Goal
  <2>1. UNCHANGED rest
    BY <1>9 DEF WorkflowRequest, BeginSave, BeginPublish, BeginDelete, SetEnabled, Transfer, ReadRevision, Publish,
       Abandon, DropRevisions, DropRow, SaveDraft
  <2>2. QED
    BY <1>know, <1>rest, <2>1 DEF rest
<1> HIDE DEF Goal
<1>10. QED
  BY <1>1, <1>2, <1>3, <1>4, <1>5, <1>6, <1>7, <1>8, <1>9 DEF CatalogueNext, WorkflowStep, SchedulerStep

-----------------------------------------------------------------------------
(* WorkflowCatalogue: the theorems.                                        *)

\* The published workflows of the start satisfy it.
LEMMA CatalogueBegins == CatalogueInit => CatalogueInv
<1> SUFFICES ASSUME CatalogueInit PROVE CatalogueInv
  OBVIOUS
<1>0. /\ 1 \in Revisions /\ 1 \in Minutes /\ 1 \in 0 .. MaxRevisions /\ 0 \in 0 .. MaxRevisions
      /\ 0 \in 0 .. 3 /\ 0 \in Nat
  BY WorkflowCatalogueAssumption DEF Revisions, Minutes
<1>1. \A k \in DOMAIN Held : k \in Keys /\ Held[k][1] \in Workspaces /\ Held[k][2] \in Sources
  BY WorkflowCatalogueAssumption
<1>2. RowTypes
  <2>1. owner \in [Keys -> Workspaces \cup {Null}] /\ draft \in [Keys -> Sources \cup {Null}]
    BY <1>1 DEF CatalogueInit
  <2>2. revisions \in [Keys -> [Revisions -> Sources \cup {Null}]]
    BY <1>1 DEF CatalogueInit
  <2>3. QED
    BY <1>0, <2>1, <2>2 DEF CatalogueInit, RowTypes
<1>3. RequestTypes /\ TickTypes
  BY <1>0 DEF CatalogueInit, RequestTypes, TickTypes
<1>4. \A k \in Keys : RowOK(k)
  <2> TAKE k \in Keys
  <2>1. CASE k \in DOMAIN Held
    <3>1. owner[k] # Null /\ draft[k] = Held[k][2] /\ draft[k] # Null
      BY <1>1, <2>1, CatalogueFacts DEF CatalogueInit
    <3>2. \A v \in Revisions : revisions[k][v] = IF v = 1 THEN Held[k][2] ELSE Null
      BY <2>1 DEF CatalogueInit
    <3>3. Stored(k) = {1}
      BY <1>0, <1>1, <2>1, <3>2, CatalogueFacts DEF Stored
    <3>4. {1} = 1 .. 1 /\ 1 # 0
      OBVIOUS
    <3>5. revisions[k][1] = draft[k]
      BY <1>0, <3>1, <3>2
    <3>6. QED
      BY <1>0, <3>1, <3>3, <3>4, <3>5 DEF RowOK
  <2>2. CASE k \notin DOMAIN Held
    <3>1. owner[k] = Null /\ draft[k] = Null /\ \A v \in Revisions : revisions[k][v] = Null
      BY <2>2 DEF CatalogueInit
    <3>2. Stored(k) = {} /\ 1 .. 0 = {}
      BY <3>1 DEF Stored
    <3>3. QED
      BY <1>0, <3>1, <3>2 DEF RowOK
  <2>3. QED
    BY <2>1, <2>2
<1>5. (\A r \in Requests : RequestOK(r)) /\ \A t \in Ticks : TickOK(t)
  BY DEF CatalogueInit, RequestOK, TickOK, Doing
<1>6. JobsOK /\ JobsFollowWorkflows
  BY FS_EmptySet DEF CatalogueInit, JobsOK, JobsFollowWorkflows, JobsStandByTheirWorkflow, ScheduledOnce
<1>7. IdsApart
  <2> SUFFICES ASSUME NEW j \in Keys, NEW k \in Keys, j # k, owner[j] # Null, owner[j] = owner[k]
               PROVE  IdOf[draft[j]] # IdOf[draft[k]]
    BY DEF IdsApart
  <2>1. /\ j \in DOMAIN Held /\ owner[j] = Held[j][1] /\ draft[j] = Held[j][2]
        /\ k \in DOMAIN Held /\ owner[k] = Held[k][1] /\ draft[k] = Held[k][2]
    BY DEF CatalogueInit
  <2>2. QED
    BY <2>1, WorkflowCatalogueAssumption
<1>8. QED
  BY <1>2, <1>3, <1>4, <1>5, <1>6, <1>7 DEF CatalogueInv, CatalogueTypeOK

\* Every step keeps it, and so does a step of none of its variables.
LEMMA CatalogueKept == CatalogueInv /\ [CatalogueNext]_catalogueVars => CatalogueInv'
<1> SUFFICES ASSUME CatalogueInv, [CatalogueNext]_catalogueVars PROVE CatalogueInv'
  OBVIOUS
<1>1. ASSUME CatalogueNext PROVE CatalogueInv'
  <2>1. RowTypes' /\ (\A k \in Keys : RowOK(k)') /\ IdsApart' /\ RevisionsStand
    BY <1>1, RowsKept
  <2>2. RequestTypes' /\ \A r \in Requests : RequestOK(r)'
    BY <1>1, <2>1, RequestsKept
  <2>3. TickTypes' /\ (\A t \in Ticks : TickOK(t)') /\ JobsOK' /\ JobsFollowWorkflows'
    BY <1>1, <2>1, TicksKept
  <2>4. CatalogueTypeOK'
    BY <2>1, <2>2, <2>3 DEF CatalogueTypeOK
  <2>5. QED
    BY <2>1, <2>2, <2>3, <2>4 DEF CatalogueInv
<1>2. ASSUME UNCHANGED catalogueVars PROVE CatalogueInv'
  <2>1. CatalogueTypeOK'
    BY <1>2 DEF catalogueVars, rowVars, requestVars, tickVars, CatalogueInv, CatalogueTypeOK, RowTypes, RequestTypes, TickTypes
  <2>2. (\A k \in Keys : RowOK(k)') /\ IdsApart' /\ JobsOK'
    BY <1>2 DEF catalogueVars, rowVars, CatalogueInv, RowOK, Stored, IdsApart, JobsOK
  <2>3. \A r \in Requests : RequestOK(r)'
    BY <1>2 DEF catalogueVars, rowVars, requestVars, CatalogueInv, RequestOK, Doing
  <2>4. \A t \in Ticks : TickOK(t)'
    BY <1>2 DEF catalogueVars, rowVars, tickVars, CatalogueInv, TickOK, TriggerStands, ClaimOf
  <2>5. JobsFollowWorkflows'
    BY <1>2 DEF catalogueVars, rowVars, CatalogueInv, JobsFollowWorkflows, JobsStandByTheirWorkflow, ScheduledOnce
  <2>6. QED
    BY <2>1, <2>2, <2>3, <2>4, <2>5 DEF CatalogueInv
<1>3. QED
  BY <1>1, <1>2

\* The invariant of workflows, of the requests that change them and of the
\* schedulers that run them (workflows.ts, scheduler.ts).
THEOREM CatalogueInvariance == CatalogueSpec => []CatalogueInv
<1>1. CatalogueInit => CatalogueInv
  BY CatalogueBegins
<1>2. CatalogueInv /\ [CatalogueNext]_catalogueVars => CatalogueInv'
  BY CatalogueKept
<1>3. QED
  BY <1>1, <1>2, PTL DEF CatalogueSpec

\* Rows, requests and ticks are what the tables and the handlers hold.
THEOREM CatalogueTypesCorrect == CatalogueSpec => []CatalogueTypeOK
<1>1. CatalogueInv => CatalogueTypeOK
  BY DEF CatalogueInv
<1>2. QED
  BY <1>1, CatalogueInvariance, PTL

\* However saves, publications, moves and deletions interleave, definition ids
\* are a workspace's own one by one, and a workflow that was never deleted shows
\* the source that its publication activates (workflows.ts:683, 908).
THEOREM CatalogueStaysInAgreement == CatalogueSpec => []CatalogueAgrees
<1>1. CatalogueInv => CatalogueAgrees
  BY AgreesFromParts DEF CatalogueInv
<1>2. QED
  BY <1>1, CatalogueInvariance, PTL

\* However many schedulers tick, overlap, claim and die, a job of a workflow that
\* was never deleted is of the workspace and the revision it was made from, and
\* no claim makes a variant twice (scheduler.ts:145, server.ts:2003).
THEOREM JobsFollowTheirWorkflows == CatalogueSpec => []JobsFollowWorkflows
<1>1. CatalogueInv => JobsFollowWorkflows
  BY DEF CatalogueInv
<1>2. QED
  BY <1>1, CatalogueInvariance, PTL
=============================================================================
