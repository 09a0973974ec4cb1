-------------------------- MODULE ConnectorIngress --------------------------
(***************************************************************************)
(* The connectors of a workspace (connector-repository.ts), the requests   *)
(* that outside senders post to them, their receipts                       *)
(* (incoming-event-repository.ts), and the replay of a receipt (server.ts).*)
(* A connector has a definition, which is edited as a draft and published  *)
(* as a revision; a posted request is stored as a receipt, evaluated by    *)
(* the definition, and each event it emits is stored and fanned out.  A    *)
(* sender that gets no answer, or an error, may post the same delivery     *)
(* again.                                                                  *)
(*                                                                         *)
(* Every statement is a step.  What an event says is abstracted to the     *)
(* definition and the receipt it came from; which subscriptions a fan-out  *)
(* finds belongs to EventDelivery, here it finds some or none.             *)
(***************************************************************************)
EXTENDS Naturals, FiniteSets

CONSTANTS Connectors,
          Definitions, \* YAML sources of connectors
          Emits,       \* how many events a definition emits
          Deliveries,  \* delivery ids of senders
          Anonymous,   \* a request without a delivery id
          Edits,       \* bound: requests of people that take several steps
          MaxHandlers, \* bound: posts and replays
          MaxVersions, \* bound: revisions
          MaxTokens,   \* bound: tokens drawn
          Nothing

Handlers == 1 .. MaxHandlers
Versions == 1 .. MaxVersions
Tokens == 1 .. MaxTokens

ASSUME ConnectorIngressAssumption ==
    /\ MaxHandlers \in Nat /\ MaxVersions \in Nat \ {0} /\ MaxTokens \in Nat
    /\ Emits \in [Definitions -> Nat]
    /\ Anonymous \notin Deliveries /\ Nothing \notin Definitions \cup Connectors \cup Tokens

VARIABLES
    defn,      \* source_yaml; Nothing: there is no row
    pending,   \* draft_yaml
    version,   \* revision
    live,      \* enabled
    released,  \* published
    hash,      \* webhook_token_hash: the token it is of
    kept,      \* connector_revisions
    issued,    \* tokens drawn so far
    deleted,   \* history: connectors that were deleted
    edit, about, knew, took, \* an edit: what it does and what it has read
    kind, phase, of, under, delivery, index, \* a post or replay
    receipt,   \* of a handler: the receipt it stored, or the one it replays
    row,       \* processing_status of its incoming_events or incoming_event_replays row
    events,    \* domain_events of connectors
    fanned,    \* those of them that were fanned out
    faulty     \* history: handlers whose evaluation or statement failed

connectorVars == <<defn, pending, version, live, released, hash, kept, issued, deleted>>
editVars == <<edit, about, knew, took>>
handlerVars == <<kind, phase, of, under, delivery, index, receipt, row, events, fanned, faulty>>
ingressVars == <<connectorVars, editVars, handlerVars>>

Events == [by : Handlers, connector : Connectors, delivery : Deliveries \cup {Anonymous},
           index : Nat, from : Definitions]

ConnectorTypes ==
    /\ defn \in [Connectors -> Definitions \cup {Nothing}]
    /\ pending \in [Connectors -> Definitions \cup {Nothing}]
    /\ version \in [Connectors -> 0 .. MaxVersions]
    /\ live \in [Connectors -> BOOLEAN] /\ released \in [Connectors -> BOOLEAN]
    /\ hash \in [Connectors -> Tokens \cup {Nothing}]
    /\ kept \in [Connectors -> [Versions -> Definitions \cup {Nothing}]]
    /\ issued \in 0 .. MaxTokens /\ deleted \subseteq Connectors

EditTypes ==
    /\ edit \in [Edits -> {"new", "publish", "enable", "install", "clean", "done"}]
    /\ about \in [Edits -> Connectors \cup {Nothing}]
    /\ knew \in [Edits -> BOOLEAN] /\ took \in [Edits -> Definitions \cup {Nothing}]

HandlerTypes ==
    /\ kind \in [Handlers -> {"none", "post", "replay"}]
    /\ phase \in [Handlers -> {"none", "capture", "evaluate", "publish", "fanout", "finish", "fail", "over"}]
    /\ of \in [Handlers -> Connectors \cup {Nothing}]
    /\ under \in [Handlers -> (Definitions \X Versions) \cup {Nothing}]
    /\ delivery \in [Handlers -> Deliveries \cup {Anonymous}]
    /\ index \in [Handlers -> Nat] /\ receipt \in [Handlers -> 0 .. MaxHandlers]
    /\ row \in [Handlers -> {"none", "received", "queued", "unmatched", "failed"}]
    /\ events \subseteq Events /\ fanned \subseteq events /\ faulty \subseteq Handlers

IngressTypeOK == ConnectorTypes /\ EditTypes /\ HandlerTypes

IngressInit ==
    /\ defn = [c \in Connectors |-> Nothing] /\ pending = [c \in Connectors |-> Nothing]
    /\ version = [c \in Connectors |-> 0]
    /\ live = [c \in Connectors |-> FALSE] /\ released = [c \in Connectors |-> FALSE]
    /\ hash = [c \in Connectors |-> Nothing]
    /\ kept = [c \in Connectors |-> [v \in Versions |-> Nothing]]
    /\ issued = 0 /\ deleted = {}
    /\ edit = [e \in Edits |-> "new"] /\ about = [e \in Edits |-> Nothing]
    /\ knew = [e \in Edits |-> FALSE] /\ took = [e \in Edits |-> Nothing]
    /\ kind = [h \in Handlers |-> "none"] /\ phase = [h \in Handlers |-> "none"]
    /\ of = [h \in Handlers |-> Nothing] /\ under = [h \in Handlers |-> Nothing]
    /\ delivery = [h \in Handlers |-> Anonymous] /\ index = [h \in Handlers |-> 0]
    /\ receipt = [h \in Handlers |-> 0] /\ row = [h \in Handlers |-> "none"]
    /\ events = {} /\ fanned = {} /\ faulty = {}

---------------------------------------------------------------------------
(* The rows of connectors, with the triggers that keep their revisions.    *)

Draw == issued < MaxTokens /\ issued' = issued + 1

(* createForWorkspace: published and enabled at once, with a token.        *)
Insert(c, d) ==
    /\ defn[c] = Nothing /\ Draw
    /\ defn' = [defn EXCEPT ![c] = d]
    /\ version' = [version EXCEPT ![c] = 1]
    /\ kept' = [kept EXCEPT ![c][1] = d]
    /\ live' = [live EXCEPT ![c] = TRUE]
    /\ released' = [released EXCEPT ![c] = TRUE]
    /\ hash' = [hash EXCEPT ![c] = issued']
    /\ UNCHANGED <<pending, deleted>>

CreateForWorkspace(c, d) == Insert(c, d) /\ UNCHANGED <<editVars, handlerVars>>

SaveConnectorDraft(c, d) ==
    /\ pending' = [pending EXCEPT ![c] = d]
    /\ IF defn[c] = Nothing
       THEN /\ defn' = [defn EXCEPT ![c] = d]
            /\ version' = [version EXCEPT ![c] = 1]
            /\ kept' = [kept EXCEPT ![c][1] = d]
       ELSE UNCHANGED <<defn, version, kept>>
    /\ UNCHANGED <<live, released, hash, issued, deleted, editVars, handlerVars>>

(* A new revision, and the row the trigger keeps of it.                    *)
Revise(c, d) ==
    /\ version[c] < MaxVersions
    /\ defn' = [defn EXCEPT ![c] = d]
    /\ version' = [version EXCEPT ![c] = @ + 1]
    /\ kept' = [kept EXCEPT ![c][version[c] + 1] = d]

UpdateForWorkspace(c, d) ==
    /\ defn[c] # Nothing /\ live[c]
    /\ Revise(c, d)
    /\ UNCHANGED <<pending, live, released, hash, issued, deleted, editVars, handlerVars>>

Disable_(c) ==
    /\ defn[c] # Nothing
    /\ live' = [live EXCEPT ![c] = FALSE]
    /\ hash' = [hash EXCEPT ![c] = Nothing]
    /\ UNCHANGED <<defn, pending, version, released, kept, issued, deleted, editVars, handlerVars>>

(* The revisions go with the row.                                          *)
RemoveConnector(c) ==
    /\ defn' = [defn EXCEPT ![c] = Nothing]
    /\ pending' = [pending EXCEPT ![c] = Nothing]
    /\ version' = [version EXCEPT ![c] = 0]
    /\ kept' = [kept EXCEPT ![c] = [v \in Versions |-> Nothing]]
    /\ live' = [live EXCEPT ![c] = FALSE]
    /\ released' = [released EXCEPT ![c] = FALSE]
    /\ hash' = [hash EXCEPT ![c] = Nothing]
    /\ deleted' = deleted \cup {c}
    /\ UNCHANGED issued

DeleteForWorkspace(c) ==
    /\ defn[c] # Nothing
    /\ RemoveConnector(c)
    /\ UNCHANGED <<editVars, handlerVars>>

(* publishDraft and setEnabled read the row first.                         *)
BeginEdit(e, what, c, d) ==
    /\ edit[e] = "new"
    /\ edit' = [edit EXCEPT ![e] = what]
    /\ about' = [about EXCEPT ![e] = c]
    /\ knew' = [knew EXCEPT ![e] = live[c]]
    /\ took' = [took EXCEPT ![e] = d]

ReadDraft(e, c) ==
    /\ pending[c] # Nothing /\ BeginEdit(e, "publish", c, pending[c])
    /\ UNCHANGED <<connectorVars, handlerVars>>

ReadEnabled(e, c) ==
    /\ released[c] /\ BeginEdit(e, "enable", c, Nothing)
    /\ UNCHANGED <<connectorVars, handlerVars>>

EditEnds(e) ==
    /\ edit' = [edit EXCEPT ![e] = "done"]
    /\ about' = [about EXCEPT ![e] = Nothing]
    /\ knew' = [knew EXCEPT ![e] = FALSE]
    /\ took' = [took EXCEPT ![e] = Nothing]

(* A token is drawn for a connector that was disabled when it was read,    *)
(* and stored unless it has one by now.                                    *)
Token(e, c) ==
    /\ IF knew[e] THEN UNCHANGED issued ELSE Draw
    /\ hash' = IF hash[c] = Nothing /\ ~knew[e] THEN [hash EXCEPT ![c] = issued'] ELSE hash

PublishDraft(e) ==
    LET c == about[e]
    IN  /\ edit[e] = "publish" /\ EditEnds(e)
        /\ IF defn[c] = Nothing THEN UNCHANGED connectorVars
           ELSE /\ Revise(c, took[e]) /\ Token(e, c)
                /\ pending' = [pending EXCEPT ![c] = Nothing]
                /\ live' = [live EXCEPT ![c] = TRUE]
                /\ released' = [released EXCEPT ![c] = TRUE]
                /\ UNCHANGED deleted
        /\ UNCHANGED handlerVars

Enable(e) ==
    LET c == about[e]
    IN  /\ edit[e] = "enable" /\ EditEnds(e)
        /\ IF defn[c] = Nothing THEN UNCHANGED connectorVars
           ELSE /\ Token(e, c)
                /\ live' = [live EXCEPT ![c] = TRUE]
                /\ UNCHANGED <<defn, pending, version, released, kept, deleted>>
        /\ UNCHANGED handlerVars

(* The installation of a template: the connector, its signing secret and,  *)
(* if that fails, the connector's removal.                                 *)
Install(e, c, d) ==
    /\ Insert(c, d) /\ BeginEdit(e, "install", c, Nothing)
    /\ UNCHANGED handlerVars

RotateSecret(e, fails) ==
    /\ edit[e] = "install"
    /\ IF fails \/ defn[about[e]] = Nothing
       THEN edit' = [edit EXCEPT ![e] = "clean"] /\ UNCHANGED <<about, knew, took>>
       ELSE EditEnds(e)
    /\ UNCHANGED <<connectorVars, handlerVars>>

CleanUp(e) ==
    /\ edit[e] = "clean" /\ EditEnds(e)
    /\ IF defn[about[e]] # Nothing THEN RemoveConnector(about[e]) ELSE UNCHANGED connectorVars
    /\ UNCHANGED handlerVars

---------------------------------------------------------------------------
(* Posts and replays.                                                      *)

Goto_(h, where) == phase' = [phase EXCEPT ![h] = where]

(* lookupByToken: what a post is evaluated by is what the row says now.    *)
Post(h, c, x) ==
    /\ kind[h] = "none" /\ live[c] /\ hash[c] # Nothing
    /\ kind' = [kind EXCEPT ![h] = "post"] /\ Goto_(h, "capture")
    /\ of' = [of EXCEPT ![h] = c]
    /\ under' = [under EXCEPT ![h] = <<defn[c], version[c]>>]
    /\ delivery' = [delivery EXCEPT ![h] = x]
    /\ UNCHANGED <<connectorVars, editVars, index, receipt, row, events, fanned, faulty>>

Capture(h) ==
    /\ phase[h] = "capture" /\ Goto_(h, "evaluate")
    /\ receipt' = [receipt EXCEPT ![h] = h]
    /\ row' = [row EXCEPT ![h] = "received"]
    /\ UNCHANGED <<connectorVars, editVars, kind, of, under, delivery, index, events, fanned, faulty>>

(* A finished receipt of a connector that is enabled, as far as the        *)
(* revision it was received under is kept.                                 *)
Replay(h, r) ==
    LET c == of[r]
    IN  /\ kind[h] = "none" /\ kind[r] = "post" /\ row[r] \in {"queued", "unmatched", "failed"}
        /\ live[c] /\ kept[c][under[r][2]] # Nothing
        /\ kind' = [kind EXCEPT ![h] = "replay"] /\ Goto_(h, "evaluate")
        /\ of' = [of EXCEPT ![h] = c]
        /\ under' = [under EXCEPT ![h] = <<kept[c][under[r][2]], under[r][2]>>]
        /\ receipt' = [receipt EXCEPT ![h] = r]
        /\ row' = [row EXCEPT ![h] = "received"]
        /\ UNCHANGED <<connectorVars, editVars, delivery, index, events, fanned, faulty>>

Next_(h, i) == Goto_(h, IF i > Emits[under[h][1]] THEN "finish" ELSE "publish")

Evaluate(h) ==
    /\ phase[h] = "evaluate"
    /\ index' = [index EXCEPT ![h] = 1] /\ Next_(h, 1)
    /\ UNCHANGED <<connectorVars, editVars, kind, of, under, delivery, receipt, row, events, fanned, faulty>>

(* The idempotency key is made of the delivery id if there is one, of the  *)
(* receipt or the replay otherwise.                                        *)
SameKey(h, e) ==
    /\ e.index = index[h]
    /\ \/ e.by = h
       \/ delivery[h] # Anonymous /\ e.delivery = delivery[h] /\ e.connector = of[h]

(* DomainEventRepository.publish: an event of the key by another receipt   *)
(* differs in its cause, and so the publication conflicts with it.         *)
\* Mutant: and so it is taken for the event of this receipt.
LinksAnyEvent(h) ==
    /\ phase[h] = "publish" /\ Goto_(h, "fanout")
    /\ events' = IF \E e \in events : SameKey(h, e) THEN events
                 ELSE events \cup {[by |-> h, connector |-> of[h], delivery |-> delivery[h],
                                    index |-> index[h], from |-> under[h][1]]}
    /\ UNCHANGED <<connectorVars, editVars, kind, of, under, delivery, index, receipt, row, fanned, faulty>>
PublishEvent(h) ==
    /\ phase[h] = "publish"
    /\ IF \E e \in events : SameKey(h, e) THEN Goto_(h, "fail") /\ UNCHANGED events
       ELSE /\ Goto_(h, "fanout")
            /\ events' = events \cup {[by |-> h, connector |-> of[h], delivery |-> delivery[h],
                                       index |-> index[h], from |-> under[h][1]]}
    /\ UNCHANGED <<connectorVars, editVars, kind, of, under, delivery, index, receipt, row, fanned, faulty>>

Fanout(h) ==
    /\ phase[h] = "fanout"
    /\ fanned' = fanned \cup {e \in events : SameKey(h, e)}
    /\ index' = [index EXCEPT ![h] = @ + 1] /\ Next_(h, index[h] + 1)
    /\ UNCHANGED <<connectorVars, editVars, kind, of, under, delivery, receipt, row, events, faulty>>

FinishReceipt(h, status) ==
    /\ phase[h] = "finish" /\ Goto_(h, "over")
    /\ status = "queued" => Emits[under[h][1]] > 0
    /\ row' = [row EXCEPT ![h] = status]
    /\ UNCHANGED <<connectorVars, editVars, kind, of, under, delivery, index, receipt, events, fanned, faulty>>

(* An evaluation that throws, or a statement that is rejected; the catch   *)
(* marks the receipt, if there is one.                                     *)
HandlerFails(h) ==
    /\ phase[h] \in {"capture", "evaluate", "publish", "fanout", "finish"}
    /\ Goto_(h, "fail") /\ faulty' = faulty \cup {h}
    /\ UNCHANGED <<connectorVars, editVars, kind, of, under, delivery, index, receipt, row, events, fanned>>

MarkFailed(h) ==
    /\ phase[h] = "fail" /\ Goto_(h, "over")
    /\ row' = [row EXCEPT ![h] = IF @ = "none" THEN @ ELSE "failed"]
    /\ UNCHANGED <<connectorVars, editVars, kind, of, under, delivery, index, receipt, events, fanned, faulty>>

(* The process ends: whatever it handled stays as it is.                   *)
ServerDies ==
    /\ \E h \in Handlers : phase[h] \notin {"none", "over"}
    /\ phase' = [h \in Handlers |-> IF phase[h] = "none" THEN "none" ELSE "over"]
    /\ faulty' = faulty \cup {h \in Handlers : phase[h] \notin {"none", "over"}}
    /\ edit' = [e \in Edits |-> IF edit[e] = "new" THEN "new" ELSE "done"]
    /\ about' = [e \in Edits |-> Nothing] /\ knew' = [e \in Edits |-> FALSE]
    /\ took' = [e \in Edits |-> Nothing]
    /\ UNCHANGED <<connectorVars, kind, of, under, delivery, index, receipt, row, events, fanned>>

---------------------------------------------------------------------------
ConnectorEdit ==
    \E c \in Connectors :
        \/ Disable_(c) \/ DeleteForWorkspace(c)
        \/ \E d \in Definitions : CreateForWorkspace(c, d) \/ SaveConnectorDraft(c, d)
                                  \/ UpdateForWorkspace(c, d)
        \/ \E e \in Edits : ReadDraft(e, c) \/ ReadEnabled(e, c)
                            \/ \E d \in Definitions : Install(e, c, d)

EditStep ==
    \E e \in Edits : \/ PublishDraft(e) \/ Enable(e) \/ CleanUp(e)
                     \/ \E fails \in BOOLEAN : RotateSecret(e, fails)

Serve_ ==
    \E h \in Handlers :
        \/ \E c \in Connectors, x \in Deliveries \cup {Anonymous} : Post(h, c, x)
        \/ \E r \in Handlers : Replay(h, r)
        \/ Capture(h) \/ Evaluate(h) \/ PublishEvent(h) \/ Fanout(h)
        \/ \E status \in {"queued", "unmatched"} : FinishReceipt(h, status)
        \/ HandlerFails(h) \/ MarkFailed(h)

IngressNext == ConnectorEdit \/ EditStep \/ Serve_ \/ ServerDies
IngressSpec == IngressInit /\ [][IngressNext]_ingressVars

---------------------------------------------------------------------------
(* The events a receipt or a replay should have led to.                    *)
Led(h) == {e \in events : e.by = h}

(* A receipt or replay that says it is queued or unmatched has stored and  *)
(* fanned out every event that it emits, and one that never got that far   *)
(* does not say so, wherever it was cut short (server.ts:2965).            *)
ReceiptTellsTheTruth ==
    \A h \in Handlers : row[h] \in {"queued", "unmatched"} =>
        /\ {e.index : e \in Led(h)} = 1 .. Emits[under[h][1]]
        /\ Led(h) \subseteq fanned

(* An occurrence that its sender names, however often it is delivered and  *)
(* wherever a delivery is cut short, leads to one event for each that it   *)
(* emits, replays apart (v3-contracts.md:71).                              *)
OneEventPerOccurrence ==
    \A e, f \in events :
        (kind[e.by] = "post" /\ kind[f.by] = "post" /\ e.delivery = f.delivery
            /\ e.delivery # Anonymous /\ e.connector = f.connector /\ e.index = f.index) => e = f

(* A replay emits by the definition its receipt was received under, no     *)
(* matter how the connector was edited since, unless it was deleted        *)
(* (connector_revisions, migrations.ts:1055).                              *)
ReplayIsFaithful ==
    \A h \in Handlers : kind[h] = "replay" /\ of[h] \notin deleted =>
        under[h] = under[receipt[h]]

(* Wherever posts are cut short, repeated or replayed, and however their   *)
(* connector is edited, receipts and events agree with each other and with *)
(* what senders delivered.                                                 *)
EventsFollowReceipts == ReceiptTellsTheTruth /\ OneEventPerOccurrence /\ ReplayIsFaithful

=============================================================================
