------------------------------- MODULE RunPages -------------------------------
(***************************************************************************)
(* The pages of a browser that follow runs: the list of runs               *)
(* (ui/dashboard.mjs), the page of one run (ui/run.mjs) and the page of an *)
(* invocation (ui/invocation-ui.mjs), over the server's answers.           *)
(*                                                                         *)
(* A page asks, the server reads, and the answer arrives: three steps, so  *)
(* the answers of requests that are open together may arrive in any order. *)
(* An event of the stream may arrive at any time, or never: a page only    *)
(* takes it as a reason to ask.                                            *)
(*                                                                         *)
(* A run passes through the entries of History; a page shows an entry, and *)
(* a later entry is a newer state.  A selection is what the list shows:    *)
(* the workspace and the filters.                                          *)
(***************************************************************************)
EXTENDS Naturals, Sequences, FiniteSets, FiniteSetsExt

CONSTANTS
  MaxRun,        \* runs are 1..MaxRun, in the order of their creation
  Selections, RunSelection,
  History,       \* the statuses a run passes through
  PageLimit,     \* rows of an answer (100)
  Slots,         \* bound: requests of the list that are open together
  MaxChoices,    \* bound: changes of the selection
  MaxOpen        \* bound: requests of the invocation's page that are open together

Runs    == 1..MaxRun
Entries == 1..Len(History)
Over    == Len(History)
Nothing == 0

ASSUME PageConstants ==
  /\ MaxRun \in Nat \ {0} /\ PageLimit \in Nat \ {0} /\ MaxChoices \in Nat /\ MaxOpen \in Nat
  /\ History \in Seq({"pending", "running", "success", "failed", "cancelled"}) /\ Over > 0
  /\ RunSelection \in [Runs -> Selections]

Active(entry) == entry # Nothing /\ History[entry] \in {"pending", "running"}

VARIABLES
  at,          \* the entry each run has come to on the server
  \* the list
  selection, generation,
  shown,       \* the entry shown of each run, or Nothing
  hasMore, loadingMore,
  refreshing, refreshPending, searchInProgress,
  asks,        \* the open requests, by slot
  stray,       \* older runs of another selection were added to the list
  \* the page of run 1
  report,      \* the entry it shows
  fetch,       \* its request: "none", "sent", or "read"
  fetched,     \* the entry that was read
  fetchAgain,  \* refreshPending
  heard,       \* the entry the run had come to at the page's last event
  fetchFailed, \* the last request failed
  \* the page of an invocation whose variant is run 1
  open,        \* its open requests: whether it is the newest, the entry that was read
  viewed       \* the last entry it showed

listVars    == <<selection, generation, shown, hasMore, loadingMore, refreshing,
                 refreshPending, searchInProgress, asks, stray>>
runVars     == <<report, fetch, fetched, fetchAgain, heard, fetchFailed>>
invocationVars == <<open, viewed>>
pageVars    == <<at, listVars, runVars, invocationVars>>

NoRows == [r \in Runs |-> Nothing]
Free   == [kind |-> "none"]

PagesInit ==
  /\ at = [r \in Runs |-> Nothing]
  /\ selection \in Selections /\ generation = 0
  /\ shown = [r \in Runs |-> Nothing] /\ hasMore = FALSE /\ loadingMore = FALSE
  /\ refreshing = FALSE /\ refreshPending = FALSE /\ searchInProgress = FALSE
  /\ asks = [s \in Slots |-> Free] /\ stray = FALSE
  /\ report = Nothing /\ fetch = "none" /\ fetched = Nothing /\ fetchAgain = FALSE
  /\ heard = Nothing /\ fetchFailed = FALSE
  /\ open = {} /\ viewed = Nothing

\* A run is created after those before it, or comes to its next status.
Progress(r) ==
  /\ at[r] < Over
  /\ \A q \in Runs : q < r => at[q] # Nothing
  /\ at' = [at EXCEPT ![r] = @ + 1]
  /\ UNCHANGED <<listVars, runVars, invocationVars>>

-----------------------------------------------------------------------------
\* The list of runs.

Known == {r \in Runs : shown[r] # Nothing}

\* afterId of a refresh: just below the oldest run that is shown as active, else
\* the newest that is shown.
After(list) ==
  LET known  == {r \in Runs : list[r] # Nothing}
      active == {r \in known : Active(list[r])}
  IN IF active # {} THEN Min(active) - 1
     ELSE IF known = {} THEN 0 ELSE Max(known)

Refresh(kind, list, sel, gen) ==
  [kind |-> kind, gen |-> gen, sel |-> sel, after |-> After(list), before |-> MaxRun + 1,
   read |-> FALSE, rows |-> NoRows, more |-> FALSE]

\* listJobsForTeam: the newest rows of the selection between the two bounds;
\* one row more is asked for, to tell whether there are more.
Matching(sel, after, before) ==
  {r \in Runs : at[r] # Nothing /\ RunSelection[r] = sel /\ after < r /\ r < before}

Newest(rows) == {r \in rows : Cardinality({q \in rows : q > r}) < PageLimit}

ServerReads(s) ==
  /\ asks[s].kind # "none" /\ ~asks[s].read
  /\ LET rows == Matching(asks[s].sel, asks[s].after, asks[s].before) IN
     asks' = [asks EXCEPT
       ![s].read = TRUE,
       ![s].rows = [r \in Runs |-> IF r \in Newest(rows) THEN at[r] ELSE Nothing],
       ![s].more = Newest(rows) # rows]
  /\ UNCHANGED <<at, selection, generation, shown, hasMore, loadingMore, refreshing,
                 refreshPending, searchInProgress, stray, runVars, invocationVars>>

\* The minute's refresh: nothing during a search, later during a refresh.
TimerRefreshes(s) ==
  /\ ~searchInProgress
  /\ IF refreshing
       THEN refreshPending' = TRUE /\ UNCHANGED <<asks, refreshing>>
       ELSE /\ asks[s] = Free /\ refreshing' = TRUE
            /\ asks' = [asks EXCEPT ![s] = Refresh("plain", shown, selection, generation)]
            /\ UNCHANGED refreshPending
  /\ UNCHANGED <<at, selection, generation, shown, hasMore, loadingMore,
                 searchInProgress, stray, runVars, invocationVars>>

\* An event refreshes at once: the listener passes the event where refreshJobs
\* takes isSearch, so neither guard holds it back.
EventRefreshes(s) ==
  /\ asks[s] = Free
  /\ refreshing' = TRUE
  /\ asks' = [asks EXCEPT ![s] = Refresh("direct", shown, selection, generation)]
  /\ UNCHANGED <<at, selection, generation, shown, hasMore, loadingMore,
                 refreshPending, searchInProgress, stray, runVars, invocationVars>>

\* Another selection: the list is emptied and asked for.  A filter is a search;
\* another workspace ends a search that is under way.
Choose(s, sel, search) ==
  /\ asks[s] = Free /\ generation < MaxChoices /\ sel # selection
  /\ selection' = sel /\ generation' = generation + 1
  /\ shown' = [r \in Runs |-> Nothing] /\ hasMore' = FALSE /\ stray' = FALSE
  /\ searchInProgress' = search
  /\ refreshPending' = (search /\ refreshPending)
  /\ refreshing' = TRUE
  /\ asks' = [asks EXCEPT ![s] =
       Refresh(IF search THEN "search" ELSE "direct", shown', sel, generation')]
  /\ UNCHANGED <<at, loadingMore, runVars, invocationVars>>

Search(s, sel)          == Choose(s, sel, TRUE)
SwitchWorkspace(s, sel) == Choose(s, sel, FALSE)

\* The end of a refresh, answered or failed: a refresh that was asked for
\* meanwhile follows, unless a search is under way; the end of a search forgets it.
Finally(s, list) ==
  /\ refreshing' = (refreshPending /\ ~searchInProgress)
  /\ asks' = [asks EXCEPT ![s] = IF refreshing' THEN Refresh("plain", list, selection, generation)
                                                ELSE Free]
  /\ searchInProgress' = (searchInProgress /\ asks[s].kind # "search")
  /\ refreshPending' = (refreshPending /\ searchInProgress /\ asks[s].kind # "search")

\* The rows of an answer replace what is shown of their runs.
Merged(rows) == [r \in Runs |-> IF rows[r] # Nothing THEN rows[r] ELSE shown[r]]

\* Mutant: the answer is shown whatever the list was changed to meanwhile.
ShowsEveryAnswer(s) ==
  /\ asks[s].kind \in {"plain", "direct", "search"} /\ asks[s].read
  /\ shown' = Merged(asks[s].rows) /\ hasMore' = asks[s].more
  /\ Finally(s, shown')
  /\ UNCHANGED <<at, selection, generation, loadingMore, stray, runVars, invocationVars>>

RefreshAnswered(s) ==
  /\ asks[s].kind \in {"plain", "direct", "search"} /\ asks[s].read
  /\ IF asks[s].gen = generation
       THEN shown' = Merged(asks[s].rows) /\ hasMore' = asks[s].more
       ELSE UNCHANGED <<shown, hasMore>>
  /\ Finally(s, shown')
  /\ UNCHANGED <<at, selection, generation, loadingMore, stray, runVars, invocationVars>>

RefreshFails(s) ==
  /\ asks[s].kind \in {"plain", "direct", "search"}
  /\ Finally(s, shown)
  /\ UNCHANGED <<at, selection, generation, shown, hasMore, loadingMore, stray,
                 runVars, invocationVars>>

\* Older runs are asked for, below the oldest that is shown ...
LoadMore(s) ==
  /\ asks[s] = Free /\ ~loadingMore /\ hasMore /\ Known # {}
  /\ loadingMore' = TRUE
  /\ asks' = [asks EXCEPT ![s] =
       [Refresh("more", shown, selection, generation) EXCEPT
          !.after = 0, !.before = Min(Known)]]
  /\ UNCHANGED <<at, selection, generation, shown, hasMore, refreshing,
                 refreshPending, searchInProgress, stray, runVars, invocationVars>>

\* ... and shown, whatever the list was changed to meanwhile.
MoreAnswered(s) ==
  /\ asks[s].kind = "more" /\ asks[s].read
  /\ shown' = Merged(asks[s].rows) /\ hasMore' = asks[s].more
  /\ stray' = (stray \/ asks[s].gen # generation)
  /\ loadingMore' = FALSE /\ asks' = [asks EXCEPT ![s] = Free]
  /\ UNCHANGED <<at, selection, generation, refreshing, refreshPending,
                 searchInProgress, runVars, invocationVars>>

MoreFails(s) ==
  /\ asks[s].kind = "more"
  /\ loadingMore' = FALSE /\ asks' = [asks EXCEPT ![s] = Free]
  /\ UNCHANGED <<at, selection, generation, shown, hasMore, refreshing, refreshPending,
                 searchInProgress, stray, runVars, invocationVars>>

-----------------------------------------------------------------------------
\* The page of a run.

\* refreshRun: one request at a time; another is remembered.
\* Mutant: a refresh that is asked for during another is dropped.
DropsRefresh ==
  IF fetch = "none" THEN fetch' = "sent" /\ UNCHANGED fetchAgain
                    ELSE UNCHANGED <<fetch, fetchAgain>>

RefreshRun ==
  IF fetch = "none" THEN fetch' = "sent" /\ UNCHANGED fetchAgain
                    ELSE fetchAgain' = TRUE /\ UNCHANGED fetch

\* An event of the run.
PageHears ==
  /\ at[1] # Nothing /\ heard' = at[1] /\ RefreshRun
  /\ UNCHANGED <<at, listVars, report, fetched, fetchFailed, invocationVars>>

\* The page's first request, and its timer's while it shows an active run.
PageRefreshes ==
  /\ at[1] # Nothing /\ (report = Nothing \/ Active(report)) /\ RefreshRun
  /\ UNCHANGED <<at, listVars, report, fetched, heard, fetchFailed, invocationVars>>

FetchReads ==
  /\ fetch = "sent" /\ fetch' = "read" /\ fetched' = at[1]
  /\ UNCHANGED <<at, listVars, report, fetchAgain, heard, fetchFailed, invocationVars>>

\* The end of a request sends the one that was remembered.
FetchEnds ==
  /\ fetch' = IF fetchAgain THEN "sent" ELSE "none"
  /\ fetchAgain' = FALSE /\ fetched' = Nothing

\* The run is shown. (The request for its step attempts that follows is left out.)
FetchAnswered ==
  /\ fetch = "read"
  /\ report' = fetched /\ fetchFailed' = FALSE
  /\ FetchEnds
  /\ UNCHANGED <<at, listVars, heard, invocationVars>>

FetchFails ==
  /\ fetch # "none" /\ fetchFailed' = TRUE /\ FetchEnds
  /\ UNCHANGED <<at, listVars, report, heard, invocationVars>>

-----------------------------------------------------------------------------
\* The page of an invocation: every event, and each opening of the stream, asks
\* for the status of its run beside the requests that are open.

LoadRunStatus ==
  /\ at[1] # Nothing /\ Cardinality(open) < MaxOpen
  /\ open' = {[ask EXCEPT !.newest = FALSE] : ask \in open}
                \cup {[newest |-> TRUE, read |-> Nothing]}
  /\ UNCHANGED <<at, listVars, runVars, viewed>>

StatusRead(ask) ==
  /\ ask \in open /\ ask.read = Nothing
  /\ open' = (open \ {ask}) \cup {[ask EXCEPT !.read = at[1]]}
  /\ UNCHANGED <<at, listVars, runVars, viewed>>

\* Only the answer of the newest request is shown.
StatusAnswered(ask) ==
  /\ ask \in open /\ ask.read # Nothing /\ open' = open \ {ask}
  /\ viewed' = IF ask.newest THEN ask.read ELSE viewed
  /\ UNCHANGED <<at, listVars, runVars>>

\* A failure is shown instead of a status, until the next answer.
StatusFails(ask) ==
  /\ ask \in open /\ open' = open \ {ask}
  /\ UNCHANGED <<at, listVars, runVars, viewed>>

-----------------------------------------------------------------------------
ListStep ==
  \E s \in Slots :
    \/ ServerReads(s) \/ TimerRefreshes(s) \/ EventRefreshes(s)
    \/ \E sel \in Selections : Search(s, sel) \/ SwitchWorkspace(s, sel)
    \/ RefreshAnswered(s) \/ RefreshFails(s)
    \/ LoadMore(s) \/ MoreAnswered(s) \/ MoreFails(s)

RunStep ==
  \/ PageHears \/ PageRefreshes \/ FetchReads \/ FetchAnswered \/ FetchFails

InvocationStep ==
  \/ LoadRunStatus
  \/ \E ask \in open : StatusRead(ask) \/ StatusAnswered(ask) \/ StatusFails(ask)

PagesNext == (\E r \in Runs : Progress(r)) \/ ListStep \/ RunStep \/ InvocationStep
PagesSpec == PagesInit /\ [][PagesNext]_pageVars

-----------------------------------------------------------------------------
\* No page shows an answer that was overtaken by what it asked since: the list
\* shows runs of its selection only, save those that loadMore, which does not
\* look at the generation, added late; and the invocation's page never goes back
\* to an older state of its run (dashboard.mjs, refreshGeneration;
\* invocation-ui.mjs, requestVersion).
NoLateAnswer ==
  [][/\ ~stray' => \A r \in Runs : shown'[r] # Nothing => RunSelection[r] = selection'
     /\ viewed' >= viewed]_pageVars

\* Once its requests have ended, a run's page shows what the last event it heard
\* was about, or failed to: no event is lost to a request that was open when it
\* came (run.mjs, refreshPending).
EventsAreFetched == fetch = "none" => fetchFailed \/ report >= heard
=============================================================================
