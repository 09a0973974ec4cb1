---------------------------- MODULE ChannelView ----------------------------
(***************************************************************************)
(* The page of a channel in one browser tab (ui/channels-ui.mjs) over the  *)
(* API of the control plane: the messages of the channel, its saved        *)
(* events, its threads, the open thread and the panel of the thread's      *)
(* agent.  The tab asks for pages after a cursor, keeps what it was        *)
(* answered, and asks again when a notification arrives and every 15       *)
(* seconds.  An answer may be late, lost, or belong to a place that is     *)
(* closed by now.                                                          *)
(*                                                                         *)
(* The sections share only the open channel and thread, so a behaviour     *)
(* follows one of them, section; in "closed" no channel is ever opened.    *)
(* The tab's generation counters are only compared for equality: an ask is *)
(* fresh as long as they would be equal.                                   *)
(* Opening messages drawn in the timeline count as shown in their thread.  *)
(***************************************************************************)
EXTENDS ThreadAgents, SequencesExt

CONSTANTS Channels,
          StreamOf,  \* the channel of a thread
          MaxSaid,   \* bound: messages of a channel, for each
          Bindable,  \* the events, by their sequence, that a channel may be bound
          Limit,     \* size of a page: 50 or 100
          MaxPages,  \* pages one refresh may take: 10
          MaxClicks, \* bound: what a person does in a section of the tab
          MaxLost    \* bound: requests that fail

Sections == {"messages", "events", "list", "thread", "panel", "closed"}

ASSUME ChannelViewAssumption ==
    /\ None \notin Channels /\ IsFiniteSet(Threads) /\ StreamOf \in [Threads -> Channels]
    /\ MaxSaid \in [Channels -> Nat] /\ Bindable \in [Channels -> SUBSET (Nat \ {0})]
    /\ MaxClicks \in [Sections -> Nat] /\ MaxLost \in Nat
    /\ Limit \in Nat \ {0} /\ MaxPages \in Nat \ {0}

Reads == {"load", "refresh", "events", "list", "thread", "panel"}
Writes == {"send", "reply", "enable", "disable"}

VARIABLES
    said,    \* channel_messages: how many a channel has
    bound,   \* stream_event_bindings
    late,    \* history: events bound after one with a higher sequence
    section, \* the section a behaviour follows
    channel, \* selected
    thread,  \* selectedThread
    shown,   \* what is drawn, in its order: <<place, item>>
    latest,  \* latestMessageId, threadLatestMessageId, eventResumeCursor; 0 is null
    cursor,  \* cursor, threadCursor, eventCursor: what the "more" button asks after
    retry,   \* eventFailedCursor, if the button is there
    waiting, \* threadRefreshPending, eventRefreshPending
    busy,    \* agentBusy
    asks,    \* requests under way
    blurred, \* history: the two ways in which the cursor passes what was never drawn
    clicks, lost

server == <<said, bound, late>>
drawn == <<shown, latest, cursor, retry, waiting, blurred>>
viewVars == <<server, section, channel, thread, drawn, busy, asks, clicks, lost>>

Items == Nat \cup Threads
Place == IF section \in {"thread", "panel"} THEN thread ELSE channel
Asks == [what : Reads \cup Writes, place : Channels \cup Threads, after : Nat, fresh : BOOLEAN,
         own : BOOLEAN, pages : Nat, served : BOOLEAN, page : Seq(Items), next : Nat]

ViewTypeOK ==
    /\ \A c \in Channels : said[c] \in 0 .. MaxSaid[c] /\ bound[c] \subseteq Bindable[c]
    /\ \A x \in late : x[2] \in bound[x[1]]
    /\ section \in Sections
    /\ channel \in Channels \cup {None} /\ thread \in made \cup {None}
    /\ shown \in Seq((Channels \cup Threads) \X Items)
    /\ latest \in Nat /\ cursor \in Nat /\ retry \subseteq Nat /\ Cardinality(retry) <= 1
    /\ waiting \in BOOLEAN /\ busy \in BOOLEAN /\ blurred \in BOOLEAN
    /\ asks \subseteq Asks
    /\ \A a, b \in asks : a.fresh /\ b.fresh /\ a.what \in Reads /\ b.what \in Reads => a = b
    /\ clicks \in 0 .. MaxClicks[section] /\ lost \in 0 .. MaxLost

ViewInit ==
    /\ said = [c \in Channels |-> 0] /\ bound = [c \in Channels |-> {}] /\ late = {}
    /\ section \in Sections /\ channel = None /\ thread = None
    /\ shown = <<>> /\ latest = 0 /\ cursor = 0 /\ retry = {} /\ waiting = FALSE
    /\ busy = FALSE /\ asks = {} /\ blurred = FALSE /\ clicks = 0 /\ lost = 0

---------------------------------------------------------------------------
(* The server.                                                             *)

SaySomething(c) ==
    /\ said[c] < MaxSaid[c]
    /\ said' = [said EXCEPT ![c] = @ + 1]
    /\ UNCHANGED <<bound, late>>

(* bindEventToStream: an event of the workspace, however old.              *)
BindEvent(c, e) ==
    /\ e \in Bindable[c] \ bound[c]
    /\ bound' = [bound EXCEPT ![c] = @ \cup {e}]
    /\ late' = IF \E f \in bound[c] : f > e THEN late \cup {<<c, e>>} ELSE late
    /\ UNCHANGED said

(* The listings, in ascending order.                                       *)
ListMessages(c) == 1 .. said[c]
ListThreadMessages(t) == 1 .. posts[t]
ListThreads(c) == {t \in made : StreamOf[t] = c}
ListChannelEvents(c) == bound[c]

Rank(S, n) == Cardinality({m \in S : m < n})
Ascending(S) == [k \in 1 .. Cardinality(S) |-> CHOOSE n \in S : Rank(S, n) = k - 1]

(* ORDER BY ... LIMIT: what fewer than Limit others come before.           *)
Page(listing, after) ==
    LET all == {n \in listing : n > after}
    IN  Ascending({n \in all : Rank(all, n) < Limit})

Answer(a, page, next) ==
    asks' = (asks \ {a}) \cup {[a EXCEPT !.served = TRUE, !.page = page, !.next = next]}

(* The next cursor of messages is the last of a full page, whether or not  *)
(* there is more; that of events is there only if there is more.           *)
NextIfFull(page) == IF Len(page) = Limit THEN Last(page) ELSE 0

ServeMessages(a) ==
    LET page == Page(ListMessages(a.place), a.after)
    IN  a.what \in {"load", "refresh"} /\ Answer(a, page, NextIfFull(page))

ServeThreadMessages(a) ==
    LET page == Page(ListThreadMessages(a.place), a.after)
    IN  a.what = "thread" /\ Answer(a, page, NextIfFull(page))

ServeEvents(a) ==
    LET listing == ListChannelEvents(a.place)
        page == Page(listing, a.after)
        more == page # <<>> /\ \E n \in listing : n > Last(page)
    IN  a.what = "events" /\ Answer(a, page, IF more THEN Last(page) ELSE 0)

ServeThreads(a) == a.what = "list" /\ Answer(a, SetToSeq(ListThreads(a.place)), 0)

(* Reading the subscription disables one that the process does not match.  *)
ServeSubscription(a) ==
    LET on == {i \in Subs : sub[i] = "on" /\ home[i] = a.place}
    IN  /\ a.what = "panel"
        /\ \E s \in Servers :
              \/ /\ \A i \in on : consent[i] = config[s]
                 /\ Answer(a, SetToSeq(on), 0) /\ UNCHANGED agentVars
              \/ /\ \E i \in on : GetState(s, i)
                 /\ Answer(a, <<>>, 0)

ServeSend(a) ==
    /\ a.what = "send"
    /\ SaySomething(a.place)
    /\ Answer(a, <<said[a.place] + 1>>, 0)
    /\ UNCHANGED agentVars

ServeReply(a) ==
    /\ a.what = "reply"
    /\ AppendHumanMessage(a.place, TRUE)
    /\ Answer(a, <<>>, 0)
    /\ UNCHANGED server

ServeEnable(a) ==
    /\ a.what = "enable"
    /\ \E s \in Servers, g \in Agents : Create(s, a.place, g)
    /\ Answer(a, <<>>, 0)
    /\ UNCHANGED server

ServeDisable(a) ==
    /\ a.what = "disable"
    /\ Disable(a.after) \/ (sub[a.after] # "on" /\ UNCHANGED agentVars)
    /\ Answer(a, <<>>, 0)
    /\ UNCHANGED server

Serve(a) ==
    /\ ~a.served
    /\ \/ /\ ServeMessages(a) \/ ServeThreadMessages(a) \/ ServeEvents(a) \/ ServeThreads(a)
          /\ UNCHANGED <<agentVars, server>>
       \/ ServeSubscription(a) /\ UNCHANGED server
       \/ ServeSend(a) \/ ServeReply(a) \/ ServeEnable(a) \/ ServeDisable(a)
    /\ UNCHANGED <<section, channel, thread, drawn, busy, clicks, lost>>

---------------------------------------------------------------------------
(* The tab: asking.                                                        *)

Group(what) == CASE what \in {"load", "refresh"} -> {"load", "refresh"}
                 [] what \in {"enable", "disable"} -> {"enable", "disable"}
                 [] OTHER -> {what}
Fresh(S, whats) == {a \in S : a.fresh /\ a.what \in whats}
Stale(S, whats) == {IF a.what \in whats THEN [a EXCEPT !.fresh = FALSE] ELSE a : a \in S}

(* A new request; an older one of its group has lost its token.            *)
Ask(S, what, place, after, own) ==
    Stale(S, Group(what)) \cup
        {[what |-> what, place |-> place, after |-> after, fresh |-> TRUE, own |-> own,
          pages |-> 0, served |-> FALSE, page |-> <<>>, next |-> 0]}

Clicks == clicks < MaxClicks[section] /\ clicks' = clicks + 1

(* select: every generation moves on.                                      *)
Select(c) ==
    LET old == Stale(asks, Reads \cup Writes)
    IN  /\ Clicks
        /\ channel' = c /\ thread' = None
        /\ shown' = <<>> /\ latest' = 0 /\ cursor' = 0 /\ retry' = {}
        /\ waiting' = FALSE /\ busy' = FALSE /\ blurred' = FALSE
        /\ asks' = CASE section = "messages" -> Ask(old, "load", c, 0, FALSE)
                     [] section = "events" -> Ask(old, "events", c, 0, FALSE)
                     [] section = "list" -> Ask(old, "list", c, 0, FALSE)
                     [] OTHER -> old
        /\ UNCHANGED <<agentVars, server, section, lost>>

(* The route no longer names a channel, or one that is gone.               *)
Leave ==
    /\ Clicks /\ channel # None
    /\ channel' = None /\ thread' = None /\ shown' = <<>> /\ busy' = FALSE
    /\ asks' = Stale(asks, Reads \cup Writes)
    /\ UNCHANGED <<agentVars, server, section, latest, cursor, retry, waiting, blurred, lost>>

(* refreshChannels: the selected channel is selected anew, if still there. *)
RefreshChannels == channel # None /\ (Select(channel) \/ Leave)

(* loadMessages, refreshMessages and loadEvents do nothing while a request *)
(* of theirs is under way; loadThreadMessages and reconcileEvents remember *)
(* that they were called.                                                  *)
LoadMessages(S, after) ==
    asks' = IF Fresh(S, {"load", "refresh"}) # {} THEN S ELSE Ask(S, "load", channel, after, FALSE)

RefreshMessages(S, after, own) ==
    asks' = IF Fresh(S, {"load", "refresh"}) # {} THEN S ELSE Ask(S, "refresh", channel, after, own)

LoadEvents(S, after) ==
    asks' = IF Fresh(S, {"events"}) # {} THEN S ELSE Ask(S, "events", channel, after, FALSE)

ReconcileEvents(S, after, pending) ==
    /\ LoadEvents(S, after)
    /\ waiting' = (pending \/ Fresh(S, {"events"}) # {})

LoadThreadMessages(S, t, after, own, pending) ==
    LET under == {a \in Fresh(S, {"thread"}) : a.place = t} # {}
    IN  /\ asks' = IF under THEN S ELSE Ask(S, "thread", t, after, own)
        /\ waiting' = (pending \/ under)

(* selectThread: what was shown is cleared, but a request for the messages *)
(* of this same thread that is under way keeps its token.                  *)
OpenThread(t) ==
    /\ Clicks /\ section \in {"thread", "panel"}
    /\ t \in made /\ StreamOf[t] = channel
    /\ thread' = t
    /\ shown' = <<>> /\ latest' = 0 /\ cursor' = 0 /\ blurred' = FALSE
    /\ LET old == Stale(asks, {"panel", "enable", "disable"})
       IN  IF section = "thread" THEN LoadThreadMessages(old, t, 0, FALSE, waiting) /\ busy' = FALSE
           ELSE asks' = Ask(old, "panel", t, 0, FALSE) /\ busy' = TRUE /\ UNCHANGED waiting
    /\ UNCHANGED <<agentVars, server, section, channel, retry, lost>>

(* The "more" buttons.                                                     *)
More ==
    /\ Clicks /\ channel # None /\ cursor # 0
    /\ \/ section = "messages" /\ LoadMessages(asks, cursor) /\ UNCHANGED waiting
       \/ section = "events" /\ LoadEvents(asks, cursor) /\ UNCHANGED waiting
       \/ section = "thread" /\ thread # None
          /\ LoadThreadMessages(asks, thread, cursor, FALSE, waiting)
    /\ UNCHANGED <<agentVars, server, section, channel, thread, shown, latest, cursor, retry,
                   blurred, busy, lost>>

(* "Retry" and "Reload" of the events.                                     *)
Again ==
    /\ Clicks /\ channel # None /\ section = "events"
    /\ \E after \in retry \cup {0} : LoadEvents(asks, after)
    /\ UNCHANGED <<agentVars, server, section, channel, thread, drawn, busy, lost>>

(* What the section asks for to catch up.                                  *)
\* Mutant: events are reconciled only from a cursor.
ReconcileFromCursor ==
    CASE section = "messages" -> RefreshMessages(asks, latest, FALSE) /\ UNCHANGED waiting
      [] section = "events" -> latest # 0 /\ ReconcileEvents(asks, latest, waiting)
      [] section = "list" -> asks' = Ask(asks, "list", channel, 0, FALSE) /\ UNCHANGED waiting
      [] section = "thread" -> /\ thread # None
                               /\ LoadThreadMessages(asks, thread, latest, FALSE, waiting)
      [] OTHER -> FALSE
Reconcile ==
    CASE section = "messages" -> RefreshMessages(asks, latest, FALSE) /\ UNCHANGED waiting
      [] section = "events" -> ReconcileEvents(asks, latest, waiting)
      [] section = "list" -> asks' = Ask(asks, "list", channel, 0, FALSE) /\ UNCHANGED waiting
      [] section = "thread" -> /\ thread # None
                               /\ LoadThreadMessages(asks, thread, latest, FALSE, waiting)
      [] OTHER -> FALSE

PollForMessages ==
    /\ channel # None /\ Reconcile
    /\ UNCHANGED <<agentVars, server, section, channel, thread, shown, latest, cursor, retry,
                   blurred, busy, clicks, lost>>

(* A notification or a reconnection of /api/events: it may come late, more *)
(* than once or never, and only wakes the tab up.                          *)
Notified == PollForMessages

(* The composers; a button is disabled until its request and the refresh   *)
(* it leads to have ended.                                                 *)
Compose(what, place) ==
    /\ Clicks /\ \A a \in asks : ~a.own
    /\ asks' = Ask(asks, what, place, 0, TRUE)
    /\ UNCHANGED <<agentVars, server, section, channel, thread, drawn, busy, lost>>

Send == section = "messages" /\ channel # None /\ Compose("send", channel)
Reply == section = "thread" /\ thread # None /\ Compose("reply", thread)

(* The button of the panel, enableAgent or disableAgent.                   *)
Button == IF shown = <<>> THEN "enable" ELSE "disable"
Operate ==
    /\ Clicks /\ section = "panel" /\ thread # None /\ ~busy
    /\ busy' = TRUE
    /\ asks' = Ask(asks, Button, thread, IF shown = <<>> THEN 0 ELSE Head(shown)[2], FALSE)
    /\ UNCHANGED <<agentVars, server, section, channel, thread, drawn, lost>>

---------------------------------------------------------------------------
(* The tab: answers.                                                       *)

Tagged(a) == [k \in DOMAIN a.page |-> <<a.place, a.page[k]>>]

(* What of an ascending page is not drawn yet.                             *)
Unseen(a) ==
    LET new == Ascending({n \in ToSet(a.page) : <<a.place, n>> \notin ToSet(shown)})
    IN  [k \in DOMAIN new |-> <<a.place, new[k]>>]
LastOf(a) == IF a.page = <<>> THEN latest ELSE Last(a.page)
Ignore(a) == asks' = asks \ {a} /\ UNCHANGED <<drawn, busy>>

(* latestMessageId is that of the last message drawn, which is not one of  *)
(* the page when all of the page was drawn before.                         *)
GotMessages(a) ==
    /\ a.what = "load"
    /\ IF ~a.fresh THEN Ignore(a)
       ELSE /\ shown' = IF a.after = 0 THEN Tagged(a) ELSE shown \o Unseen(a)
            /\ latest' = IF a.page = <<>> THEN latest ELSE Last(shown')[2]
            /\ blurred' = (a.after # 0 /\ (blurred \/ (a.page # <<>> /\ Last(shown') \notin ToSet(Tagged(a)))))
            /\ cursor' = a.next
            /\ asks' = asks \ {a}
            /\ UNCHANGED <<retry, waiting, busy>>

(* One page of a refresh; after a full page it goes on with the next.      *)
GotRefresh(a) ==
    LET full == Len(a.page) = Limit
        goes == full /\ a.pages + 1 < MaxPages
        added == a.page # <<>> \/ a.pages > 0
    IN  /\ a.what = "refresh"
        /\ IF ~a.fresh THEN Ignore(a)
           ELSE /\ shown' = shown \o Unseen(a)
                /\ latest' = LastOf(a)
                /\ cursor' = IF ~goes /\ added /\ cursor # 0 THEN (IF full THEN latest' ELSE 0) ELSE cursor
                /\ asks' = IF goes THEN (asks \ {a}) \cup
                                {[a EXCEPT !.after = latest', !.pages = @ + 1, !.served = FALSE,
                                           !.page = <<>>, !.next = 0]}
                           ELSE asks \ {a}
                /\ UNCHANGED <<retry, waiting, blurred, busy>>

(* Our own message is drawn at once, ahead of what others said before it.  *)
\* Mutant: and the next refresh starts after it.
GotSendAsLatest(a) ==
    /\ a.what = "send"
    /\ IF channel # a.place THEN Ignore(a)
       ELSE /\ shown' = shown \o Unseen(a)
            /\ latest' = Last(a.page)
            /\ RefreshMessages(asks \ {a}, latest', TRUE)
            /\ UNCHANGED <<cursor, retry, waiting, blurred, busy>>
GotSend(a) ==
    /\ a.what = "send"
    /\ IF channel # a.place THEN Ignore(a)
       ELSE /\ shown' = shown \o Unseen(a)
            /\ RefreshMessages(asks \ {a}, latest, TRUE)
            /\ UNCHANGED <<latest, cursor, retry, waiting, blurred, busy>>

GotEvents(a) ==
    /\ a.what = "events"
    /\ IF ~a.fresh THEN Ignore(a)
       ELSE /\ shown' = IF a.after = 0 THEN Tagged(a) ELSE shown \o Unseen(a)
            /\ latest' = IF a.page = <<>> THEN a.after ELSE Last(a.page)
            /\ cursor' = a.next /\ retry' = {}
            /\ blurred' = (a.after # 0 /\ (blurred \/ shown = <<>>))
            /\ IF waiting THEN ReconcileEvents(asks \ {a}, latest', FALSE)
               ELSE asks' = asks \ {a} /\ UNCHANGED waiting
            /\ UNCHANGED busy

GotList(a) ==
    /\ a.what = "list"
    /\ IF ~a.fresh THEN Ignore(a)
       ELSE shown' = Tagged(a) /\ asks' = asks \ {a}
            /\ UNCHANGED <<latest, cursor, retry, waiting, blurred, busy>>

(* The finally of loadThreadMessages: what was asked for meanwhile.        *)
FollowUp(a, after) ==
    IF waiting /\ thread = a.place THEN LoadThreadMessages(asks \ {a}, thread, after, FALSE, FALSE)
    ELSE asks' = asks \ {a} /\ UNCHANGED waiting

(* A page after a cursor is added to what is shown, though that may have   *)
(* been cleared since.                                                     *)
GotThread(a) ==
    /\ a.what = "thread"
    /\ IF ~a.fresh THEN Ignore(a)
       ELSE IF thread # a.place THEN FollowUp(a, latest) /\ UNCHANGED <<shown, latest, cursor, retry, blurred, busy>>
       ELSE /\ shown' = IF a.after = 0 THEN Tagged(a) ELSE shown \o Unseen(a)
            /\ latest' = LastOf(a)
            /\ cursor' = a.next
            /\ blurred' = (a.after # 0 /\ (blurred \/ (shown = <<>> /\ a.page # <<>>)))
            /\ FollowUp(a, latest')
            /\ UNCHANGED <<retry, busy>>

GotReply(a) ==
    /\ a.what = "reply"
    /\ IF ~a.fresh \/ thread # a.place THEN Ignore(a)
       ELSE LoadThreadMessages(asks \ {a}, thread, latest, TRUE, waiting)
            /\ UNCHANGED <<shown, latest, cursor, retry, blurred, busy>>

GotPanel(a) ==
    /\ a.what = "panel"
    /\ IF ~a.fresh \/ thread # a.place THEN Ignore(a)
       ELSE shown' = Tagged(a) /\ busy' = FALSE /\ asks' = asks \ {a}
            /\ UNCHANGED <<latest, cursor, retry, waiting, blurred>>

GotOperation(a) ==
    /\ a.what \in {"enable", "disable"}
    /\ IF ~a.fresh \/ thread # a.place THEN Ignore(a)
       ELSE asks' = Ask(asks \ {a}, "panel", thread, 0, FALSE) /\ busy' = TRUE /\ UNCHANGED drawn

Receive(a) ==
    /\ a.served
    /\ \/ GotMessages(a) \/ GotRefresh(a) \/ GotSend(a) \/ GotEvents(a) \/ GotList(a)
       \/ GotThread(a) \/ GotReply(a) \/ GotPanel(a) \/ GotOperation(a)
    /\ UNCHANGED <<agentVars, server, section, channel, thread, clicks, lost>>

(* A request fails: before it reached the server, or its answer is lost; a *)
(* listing may also be denied, which clears the section.                   *)
FailEvents(a, denied) ==
    /\ a.what = "events" /\ a.fresh
    /\ retry' = {a.after}
    /\ shown' = IF denied THEN <<>> ELSE shown
    /\ latest' = IF denied THEN 0 ELSE latest
    /\ cursor' = IF denied THEN 0 ELSE cursor
    /\ IF waiting THEN ReconcileEvents(asks \ {a}, latest', FALSE)
       ELSE asks' = asks \ {a} /\ UNCHANGED waiting
    /\ UNCHANGED <<blurred, busy>>

FailThread(a) ==
    /\ a.what = "thread" /\ a.fresh
    /\ FollowUp(a, latest)
    /\ UNCHANGED <<shown, latest, cursor, retry, blurred, busy>>

FailOther(a, denied) ==
    LET operating == a.fresh /\ a.what \in {"panel", "enable", "disable"}
    IN  /\ ~(a.fresh /\ a.what \in {"events", "thread"})
        /\ busy' = (busy /\ ~operating)
        /\ shown' = IF a.fresh /\ (a.what = "panel" \/ (a.what = "list" /\ denied)) THEN <<>> ELSE shown
        /\ asks' = asks \ {a}
        /\ UNCHANGED <<latest, cursor, retry, waiting, blurred>>

Lose(a) ==
    /\ lost < MaxLost \/ (a.what = "enable" /\ ~a.served)
    /\ lost' = IF lost < MaxLost THEN lost + 1 ELSE lost
    /\ \E denied \in BOOLEAN : FailEvents(a, denied) \/ FailThread(a) \/ FailOther(a, denied)
    /\ UNCHANGED <<agentVars, server, section, channel, thread, clicks>>

---------------------------------------------------------------------------
(* What others do: people, the agent that answers, events that are bound.  *)
Others ==
    \/ section = "messages" /\ \E c \in Channels : SaySomething(c) /\ UNCHANGED agentVars
    \/ section = "events" /\ \E c \in Channels : \E e \in Bindable[c] : BindEvent(c, e) /\ UNCHANGED agentVars
    \/ section \in {"list", "thread", "panel"} /\ UNCHANGED server
       /\ \E t \in Threads : CreateThread(t, 1)
    \/ section = "thread" /\ UNCHANGED server /\ \E t \in Threads : AppendHumanMessage(t, TRUE)
    \/ section = "panel" /\ UNCHANGED server /\ \E i \in Subs : Disable(i)

ViewNext ==
    \/ Others /\ UNCHANGED <<section, channel, thread, drawn, busy, asks, clicks, lost>>
    \/ \E c \in Channels : Select(c)
    \/ \E t \in Threads : OpenThread(t)
    \/ Leave \/ RefreshChannels \/ More \/ Again \/ Send \/ Reply \/ Operate
    \/ PollForMessages \/ Notified
    \/ \E a \in asks : Serve(a) \/ Receive(a) \/ Lose(a)

(* The tab, the server that answers it and the agents.                     *)
ViewSpec ==
    AgentInit /\ ViewInit
    /\ [][ViewNext \/ (AgentNext /\ UNCHANGED viewVars)]_<<agentVars, viewVars>>

(* The timer polls every 15 seconds; the latest request is served, and     *)
(* every now and then it is answered before the next poll makes it stale.  *)
ViewFairness ==
    /\ WF_viewVars(PollForMessages)
    /\ WF_viewVars(\E a \in asks : a.fresh /\ Serve(a))
    /\ SF_viewVars(\E a \in asks : a.fresh /\ Receive(a))

---------------------------------------------------------------------------
(* Only items of the open channel or thread are drawn, none of them twice, *)
(* whichever answers come late; and the panel is never left busy without a *)
(* request that will end that.                                             *)
ShownBelongs ==
    /\ \A x \in ToSet(shown) : x[1] = Place
    /\ Cardinality(ToSet(shown)) = Len(shown)
    /\ busy => \E a \in Fresh(asks, {"panel", "enable", "disable"}) : a.place = thread

(* What the section should show.                                          *)
Written ==
    IF Place = None THEN {}
    ELSE CASE section = "messages" -> ListMessages(Place)
           [] section = "events" -> ListChannelEvents(Place)
           [] section = "list" -> ListThreads(Place)
           [] section = "thread" -> ListThreadMessages(Place)
           [] OTHER -> {}

(* Nothing at or before the cursor the tab polls from is missing: what it  *)
(* asks for next leaves nothing out.  Excepted are the cases the README    *)
(* describes: what was bound late, and a cursor that is blurred.           *)
NoGap ==
    section \in {"messages", "thread", "events"} /\ ~blurred =>
        \A n \in Written : n <= latest => <<Place, n>> \in ToSet(shown) \cup late

(* Whatever answers come late, out of order or never, what is drawn        *)
(* belongs to the open place and is whole up to the cursor.                *)
ShownIsWhole == ShownBelongs /\ NoGap

(* The tab catches up: again and again everything written at the open     *)
(* place is drawn, whatever requests fail or were dropped meanwhile        *)
(* ("Reconcile after initial connect and every automatic reconnect to      *)
(* recover gaps", ui/channels-ui.mjs:1639).                                *)
CaughtUp ==
    []<>(\/ blurred
         \/ \A n \in Written : <<Place, n>> \in ToSet(shown) \cup late)
=============================================================================
