---------------------------- MODULE ThreadAgents ----------------------------
(***************************************************************************)
(* The threads of a workspace and the agents that answer in them           *)
(* (thread-agents.ts, the thread handlers of server.ts, the triggers of    *)
(* migrations.ts).  A person enables an agent for a thread by consenting   *)
(* to a disclosure; from then on every message a person appends is a turn, *)
(* which the poll of a process claims, sends to the provider together with *)
(* what was said before, and answers with a message of the agent.          *)
(*                                                                         *)
(* The provider's fingerprint and notice come from the environment of a    *)
(* process, and so change only when it is restarted; two processes may     *)
(* disagree while a deployment is rolled out.  A poll stands between two   *)
(* statements while other processes, requests and triggers run.  Every     *)
(* claim draws a token of its own, and a claim's token is gone as soon as  *)
(* the turn is disabled, ended or claimed again: a turn whose token is     *)
(* still a claim's own also has the fence that it had then, and one of     *)
(* the two conditions stands for both.  The fence of a subscription counts *)
(* its only disabling: it stands for "on".                                 *)
(***************************************************************************)
EXTENDS Naturals, FiniteSets

CONSTANTS Threads,     \* threads of one stream
          Agents,      \* principals of kind "agent"
          Servers,     \* processes that poll and serve requests
          Configs,     \* provider and notice of a process's environment
          Unset,       \* an environment without a provider or notice
          MaxPosts,    \* bound: messages of a thread
          MaxSubs,     \* bound: subscriptions
          MaxRestarts, \* bound: restarts of a process, and removals of a member
          MaxAttempts, \* max_attempts of a turn
          None

ASSUME ThreadAgentsAssumption ==
    /\ MaxPosts \in Nat /\ MaxSubs \in Nat /\ MaxRestarts \in Nat
    /\ MaxAttempts \in Nat \ {0}
    /\ Unset \notin Configs /\ None \notin Servers \cup Configs \cup Threads \cup Agents

Posts == 1 .. MaxPosts
Subs == 1 .. MaxSubs
Turns == Subs \X Posts
Open == {"pending", "claimed", "calling"}
Ended == {"complete", "failed", "disabled"}

VARIABLES
    made,      \* channel_threads
    posts,     \* channel_thread_messages: how many a thread has
    config,    \* the environment of a process
    member,    \* agents that are members of the workspace
    sub,       \* thread_agent_subscriptions.enabled: "new", "on" or "off"
    home,      \* the thread of a subscription
    agent,     \* agent_principal_id of a subscription
    consent,   \* provider_notice, provider_fingerprint of a subscription
    turn,      \* thread_agent_turns.status of a subscription's source message
    attempts,  \* attempt_count
    token,     \* lease_token: the process whose claim it is
    lapsed,    \* lease_until has passed
    pc, mine, verdict, \* the poll of a process: its place, its turn, how to end it
    restarts,  \* restarts and removals so far
    sent,      \* history: environments whose provider was sent a turn
    calls,     \* history: how often a turn was sent
    replies    \* history: replies to a turn

subVars == <<sub, home, agent, consent>>
turnVars == <<turn, attempts, token, lapsed>>
polls == <<pc, mine, verdict>>
agentVars == <<made, posts, config, member, subVars, turnVars, polls, restarts, sent, calls, replies>>

AgentTypeOK ==
    /\ made \subseteq Threads
    /\ posts \in [Threads -> Nat]
    /\ config \in [Servers -> Configs \cup {Unset}]
    /\ member \subseteq Agents
    /\ sub \in [Subs -> {"new", "on", "off"}]
    /\ home \in [Subs -> Threads \cup {None}]
    /\ agent \in [Subs -> Agents \cup {None}]
    /\ consent \in [Subs -> Configs \cup {None}]
    /\ turn \in [Turns -> {"none"} \cup Open \cup Ended]
    /\ attempts \in [Turns -> 0 .. MaxAttempts]
    /\ token \in [Turns -> Servers \cup {None}]
    /\ lapsed \in [Turns -> BOOLEAN]
    /\ pc \in [Servers -> {"idle", "fetch", "read", "start", "call", "commit", "look", "finish"}]
    /\ mine \in [Servers -> Turns \cup {None}]
    /\ verdict \in [Servers -> {"failed", "disabled"}]
    /\ restarts \in 0 .. MaxRestarts
    /\ sent \in [Turns -> SUBSET Configs]
    /\ calls \in [Turns -> 0 .. MaxAttempts]
    /\ replies \in [Turns -> 0 .. MaxAttempts]
    /\ \A i, j \in Subs : sub[i] = "on" /\ sub[j] = "on" /\ home[i] = home[j] => i = j

AgentInit ==
    /\ made = {}
    /\ posts = [t \in Threads |-> 0]
    /\ config \in [Servers -> Configs \cup {Unset}]
    /\ member = Agents
    /\ sub = [i \in Subs |-> "new"]
    /\ home = [i \in Subs |-> None]
    /\ agent = [i \in Subs |-> None]
    /\ consent = [i \in Subs |-> None]
    /\ turn = [x \in Turns |-> "none"]
    /\ attempts = [x \in Turns |-> 0]
    /\ token = [x \in Turns |-> None]
    /\ lapsed = [x \in Turns |-> FALSE]
    /\ pc = [s \in Servers |-> "idle"]
    /\ mine = [s \in Servers |-> None]
    /\ verdict = [s \in Servers |-> "failed"]
    /\ restarts = 0
    /\ sent = [x \in Turns |-> {}]
    /\ calls = [x \in Turns |-> 0]
    /\ replies = [x \in Turns |-> 0]

---------------------------------------------------------------------------
(* Requests and the membership trigger.                                    *)

(* With or without a first message; no subscription is there yet.          *)
CreateThread(t, text) ==
    /\ t \notin made
    /\ made' = made \cup {t}
    /\ posts' = [posts EXCEPT ![t] = text]
    /\ UNCHANGED <<config, member, subVars, turnVars, polls, restarts, sent, calls, replies>>

(* The message and its turn in one transaction; the    *)
(* turn only if the author is a person who is still a member.              *)
AppendHumanMessage(t, byMember) ==
    LET m == posts[t] + 1
    IN  /\ t \in made /\ posts[t] < MaxPosts
        /\ posts' = [posts EXCEPT ![t] = m]
        /\ turn' = [x \in Turns |->
                      IF byMember /\ x[2] = m /\ sub[x[1]] = "on" /\ home[x[1]] = t
                      THEN "pending" ELSE turn[x]]
        /\ UNCHANGED <<made, config, member, subVars, attempts, token, lapsed, polls, restarts,
                       sent, calls, replies>>

(* The subscriptions of a set are switched off, and the open turns of what *)
(* is off then are disabled.                                               *)
SwitchOff(subs, turns) ==
    /\ sub' = [i \in Subs |-> IF i \in subs THEN "off" ELSE sub[i]]
    /\ turn' = [x \in Turns |-> IF x \in turns THEN "disabled" ELSE turn[x]]
    /\ token' = [x \in Turns |-> IF x \in turns THEN None ELSE token[x]]
    /\ lapsed' = [x \in Turns |-> IF x \in turns THEN FALSE ELSE lapsed[x]]

OpenTurns(subs) == {x \in Turns : x[1] \in subs /\ turn[x] \in Open}

Disable(i) ==
    /\ sub[i] = "on"
    /\ SwitchOff({i}, OpenTurns({i}))
    /\ UNCHANGED <<made, posts, config, member, home, agent, consent, attempts, polls, restarts,
                   sent, calls, replies>>

(* getState, which a GET and the end of a POST run: a subscription that    *)
(* the process's own environment does not match is disabled.               *)
GetState(s, i) ==
    /\ consent[i] # config[s]
    /\ Disable(i)

(* The consent is to the notice of the process that serves the POST.       *)
Create(s, t, a) ==
    \E i \in Subs :
        /\ sub[i] = "new" /\ \A j \in Subs : sub[j] = "new" => i <= j
        /\ t \in made /\ config[s] # Unset /\ a \in member
        /\ \A j \in Subs : ~(sub[j] = "on" /\ home[j] = t)
        /\ sub' = [sub EXCEPT ![i] = "on"]
        /\ home' = [home EXCEPT ![i] = t]
        /\ agent' = [agent EXCEPT ![i] = a]
        /\ consent' = [consent EXCEPT ![i] = config[s]]
        /\ UNCHANGED <<made, posts, config, member, turnVars, polls, restarts, sent, calls, replies>>

(* thread_agent_membership_removed.                                        *)
RemoveAgent(a) ==
    LET subs == {i \in Subs : agent[i] = a /\ sub[i] = "on"}
    IN  /\ a \in member /\ restarts < MaxRestarts
        /\ member' = member \ {a}
        /\ restarts' = restarts + 1
        /\ SwitchOff(subs, OpenTurns({i \in Subs : agent[i] = a}))
        /\ UNCHANGED <<made, posts, config, home, agent, consent, attempts, polls, sent, calls, replies>>

AddAgent(a) ==
    /\ a \notin member
    /\ member' = member \cup {a}
    /\ UNCHANGED <<made, posts, config, subVars, turnVars, polls, restarts, sent, calls, replies>>

---------------------------------------------------------------------------
(* The poll of a process.                                                  *)

At(s, place) == pc[s] = place
Goto(s, place) == pc' = [pc EXCEPT ![s] = place] /\ UNCHANGED <<mine, verdict>>
Ends(s) ==
    /\ pc' = [pc EXCEPT ![s] = "idle"]
    /\ mine' = [mine EXCEPT ![s] = None]
    /\ verdict' = [verdict EXCEPT ![s] = "failed"]
Finishes(s, how) ==
    /\ pc' = [pc EXCEPT ![s] = "finish"]
    /\ verdict' = [verdict EXCEPT ![s] = how]
    /\ UNCHANGED mine

Holds(s) == token[mine[s]] = s
Stands(s) ==
    LET i == mine[s][1]
    IN sub[i] = "on" /\ agent[i] \in member /\ consent[i] = config[s]

(* claim's transaction: subscriptions that do not match this environment   *)
(* go off; open turns of what is off are disabled; a lapsed call, and a    *)
(* lapsed claim without an attempt left, have failed; one turn is claimed. *)
\* Mutant: only claims that were tried too often are given up, not lapsed calls.
OnlySpentClaims(x) == lapsed[x] /\ turn[x] = "claimed" /\ attempts[x] >= MaxAttempts
Uncertain(x) ==
    /\ lapsed[x]
    /\ turn[x] = "calling" \/ (turn[x] = "claimed" /\ attempts[x] >= MaxAttempts)

Due(x) ==
    /\ sub[x[1]] = "on" /\ attempts[x] < MaxAttempts
    /\ turn[x] = "pending" \/ (turn[x] = "claimed" /\ lapsed[x])

Claim(s) ==
    LET off == {i \in Subs : sub[i] = "off" \/ (sub[i] = "on" /\ consent[i] # config[s])}
        dead == OpenTurns(off)
        failed == {x \in Turns \ dead : Uncertain(x)}
        due == {x \in Turns \ (dead \cup failed) : Due(x)}
    IN  /\ At(s, "idle")
        /\ \E one \in IF due = {} THEN {{}} ELSE {{x} : x \in due} :
              LET settled == dead \cup failed \cup one
              IN  /\ turn' = [x \in Turns |-> IF x \in dead THEN "disabled"
                                              ELSE IF x \in failed THEN "failed"
                                              ELSE IF x \in one THEN "claimed" ELSE turn[x]]
                  /\ attempts' = [x \in Turns |-> IF x \in one THEN attempts[x] + 1 ELSE attempts[x]]
                  /\ token' = [x \in Turns |-> IF x \in one THEN s
                                               ELSE IF x \in settled THEN None ELSE token[x]]
                  /\ lapsed' = [x \in Turns |-> lapsed[x] /\ x \notin settled]
                  /\ pc' = [pc EXCEPT ![s] = IF one = {} THEN "idle" ELSE "fetch"]
                  /\ mine' = [mine EXCEPT ![s] = IF one = {} THEN None ELSE CHOOSE x \in one : TRUE]
        /\ sub' = [i \in Subs |-> IF i \in off THEN "off" ELSE sub[i]]
        /\ UNCHANGED <<made, posts, config, member, home, agent, consent, verdict, restarts,
                       sent, calls, replies>>

rows == <<made, posts, config, member, subVars, attempts, restarts>>

(* The claimed row is read by its token.                                   *)
Fetch(s) ==
    /\ At(s, "fetch")
    /\ IF Holds(s) THEN Goto(s, "read") ELSE Ends(s)
    /\ UNCHANGED <<rows, turn, token, lapsed, sent, calls, replies>>

ReadSubscription(s) ==
    /\ At(s, "read")
    /\ IF Stands(s) THEN Goto(s, "start") ELSE Finishes(s, "disabled")
    /\ UNCHANGED <<rows, turn, token, lapsed, sent, calls, replies>>

(* The lease is renewed, whether or not it has lapsed.                     *)
\* Mutant: the row is marked whoever has claimed it since.
StartsAnyClaim(s) ==
    LET x == mine[s]
        mark == turn[x] \in {"claimed", "calling"} /\ Stands(s)
    IN  /\ At(s, "start")
        /\ turn' = [turn EXCEPT ![x] = IF mark THEN "calling" ELSE @]
        /\ lapsed' = [lapsed EXCEPT ![x] = @ /\ ~mark]
        /\ IF mark THEN Goto(s, "call") ELSE Ends(s)
        /\ UNCHANGED <<rows, token, sent, calls, replies>>
StartCall(s) ==
    LET x == mine[s]
        mark == turn[x] = "claimed" /\ Holds(s) /\ Stands(s)
    IN  /\ At(s, "start")
        /\ turn' = [turn EXCEPT ![x] = IF mark THEN "calling" ELSE @]
        /\ lapsed' = [lapsed EXCEPT ![x] = @ /\ ~mark]
        /\ IF mark THEN Goto(s, "call") ELSE Ends(s)
        /\ UNCHANGED <<rows, token, sent, calls, replies>>

(* The provider is sent the turn; it answers, or Fails.                    *)
CallProvider(s) ==
    /\ At(s, "call")
    /\ sent' = [sent EXCEPT ![mine[s]] = @ \cup {config[s]}]
    /\ calls' = [calls EXCEPT ![mine[s]] = @ + 1]
    /\ Goto(s, "commit")
    /\ UNCHANGED <<rows, turn, token, lapsed, replies>>

(* commitReply: the message and the end of the turn in one transaction.    *)
\* Mutant: the message is inserted whether or not the turn is still this claim's.
CommitsAnyway(s) ==
    LET x == mine[s]
        stands == turn[x] = "calling" /\ Holds(s) /\ Stands(s)
    IN  /\ At(s, "commit") /\ Goto(s, "look")
        /\ posts' = [posts EXCEPT ![home[x[1]]] = @ + 1]
        /\ replies' = [replies EXCEPT ![x] = @ + 1]
        /\ turn' = [turn EXCEPT ![x] = IF stands THEN "complete" ELSE @]
        /\ token' = [token EXCEPT ![x] = IF stands THEN None ELSE @]
        /\ lapsed' = [lapsed EXCEPT ![x] = @ /\ ~stands]
        /\ UNCHANGED <<made, config, member, subVars, attempts, restarts, sent, calls>>
CommitReply(s) ==
    LET x == mine[s]
    IN  /\ At(s, "commit") /\ Goto(s, "look")
        /\ IF turn[x] = "calling" /\ Holds(s) /\ Stands(s)
           THEN /\ posts' = [posts EXCEPT ![home[x[1]]] = @ + 1]
                /\ replies' = [replies EXCEPT ![x] = @ + 1]
                /\ turn' = [turn EXCEPT ![x] = "complete"]
                /\ token' = [token EXCEPT ![x] = None]
                /\ lapsed' = [lapsed EXCEPT ![x] = FALSE]
           ELSE UNCHANGED <<posts, replies, turn, token, lapsed>>
        /\ UNCHANGED <<made, config, member, subVars, attempts, restarts, sent, calls>>

LookUp(s) ==
    /\ At(s, "look")
    /\ IF turn[mine[s]] = "complete" THEN Ends(s) ELSE Finishes(s, "failed")
    /\ UNCHANGED <<rows, turn, token, lapsed, sent, calls, replies>>

Finish(s) ==
    LET x == mine[s]
        own == turn[x] \in {"claimed", "calling"} /\ Holds(s)
    IN  /\ At(s, "finish") /\ Ends(s)
        /\ turn' = [turn EXCEPT ![x] = IF own THEN verdict[s] ELSE @]
        /\ token' = [token EXCEPT ![x] = IF own THEN None ELSE @]
        /\ lapsed' = [lapsed EXCEPT ![x] = @ /\ ~own]
        /\ UNCHANGED <<rows, sent, calls, replies>>

(* A statement or the provider fails: from the mark on the turn is failed, *)
(* before it the poll ends and the claim is left to lapse.                 *)
Fails(s) ==
    /\ ~At(s, "idle")
    /\ IF pc[s] \in {"start", "call", "commit", "look"} THEN Finishes(s, "failed") ELSE Ends(s)
    /\ UNCHANGED <<rows, turn, token, lapsed, sent, calls, replies>>

Restart(s) ==
    /\ restarts < MaxRestarts
    /\ restarts' = restarts + 1
    /\ \E c \in Configs \cup {Unset} : config' = [config EXCEPT ![s] = c]
    /\ Ends(s)
    /\ UNCHANGED <<made, posts, member, subVars, turnVars, sent, calls, replies>>

Lapse(x) ==
    /\ turn[x] \in {"claimed", "calling"} /\ ~lapsed[x]
    /\ lapsed' = [lapsed EXCEPT ![x] = TRUE]
    /\ UNCHANGED <<rows, turn, token, polls, sent, calls, replies>>

---------------------------------------------------------------------------
Poll(s) == Claim(s) \/ Fetch(s) \/ ReadSubscription(s) \/ StartCall(s) \/ CallProvider(s)
           \/ CommitReply(s) \/ LookUp(s) \/ Finish(s)

AgentRequest ==
    \/ \E t \in Threads : \/ \E text \in 0 .. 1 : CreateThread(t, text)
                         \/ \E byMember \in BOOLEAN : AppendHumanMessage(t, byMember)
    \/ \E s \in Servers, t \in Threads, a \in Agents : Create(s, t, a)
    \/ \E s \in Servers, i \in Subs : GetState(s, i)
    \/ \E i \in Subs : Disable(i)
    \/ \E a \in Agents : RemoveAgent(a) \/ AddAgent(a)

AgentNext ==
    \/ AgentRequest
    \/ \E s \in Servers : Poll(s) \/ Fails(s) \/ Restart(s)
    \/ \E x \in Turns : Lapse(x)

(* Every process polls each second, and a lease lapses after 90.           *)
AgentFairness ==
    /\ \A s \in Servers : WF_agentVars(Poll(s))
    /\ \A x \in Turns : WF_agentVars(Lapse(x))

AgentSpec == AgentInit /\ [][AgentNext]_agentVars /\ AgentFairness

---------------------------------------------------------------------------
(* A turn is sent to a provider at most once, and only to the one that was *)
(* consented to, however many processes claim it, stall or are restarted   *)
(* with another environment ("not blindly retried", v3-contracts.md:305).  *)
SentOnceAsConsented ==
    \A x \in Turns : calls[x] <= 1 /\ sent[x] \subseteq {consent[x[1]]}

(* A complete turn has one reply and any other turn none; and nothing is   *)
(* left open by a subscription that is off, so a reply that is under way   *)
(* when the agent is disabled, removed or no longer the configured one is  *)
(* never stored (v3-contracts.md:306).                                     *)
ReplyOfAStandingTurn ==
    \A x \in Turns :
        /\ replies[x] = IF turn[x] = "complete" THEN 1 ELSE 0
        /\ turn[x] \in Open => sub[x[1]] = "on"

(* Every turn is answered, failed or disabled in the end, whatever fails,  *)
(* so that once people stop writing none is open (thread-agents.ts:294).   *)
EveryTurnEnds ==
    (\E x \in Turns : turn[x] \in Open) ~> (\A x \in Turns : turn[x] \notin Open)
=============================================================================
