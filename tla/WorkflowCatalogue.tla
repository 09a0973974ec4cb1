------------------------- MODULE WorkflowCatalogue -------------------------
(***************************************************************************)
(* The workflows of the workspaces (workflows.ts and the handlers of       *)
(* server.ts) and the scheduler that runs them by the clock                *)
(* (scheduler.ts).  A workflow has a key, which its requests and its jobs  *)
(* name, and a definition id, which its YAML names and its author may      *)
(* change; saving appends a revision, publishing activates the newest.     *)
(* Every statement and every transaction is a step; between two of them    *)
(* other requests, schedulers and processes run.  Reads whose result is    *)
(* only compared, and compared again by the statement that writes, are     *)
(* one step.                                                               *)
(*                                                                         *)
(* A trigger matches every minute.  What a scheduler's process leaves      *)
(* behind when it ends is what its statements wrote.                       *)
(***************************************************************************)
EXTENDS Naturals, FiniteSets

CONSTANTS Keys,        \* workflows.id
          Names,       \* definition ids; a key may be one as well
          Workspaces,
          Sources,     \* YAML sources of workflows
          IdOf,        \* the definition id of a source
          Variants,    \* the jobs a scheduled trigger of a source makes; 0: it has none
          Requests,    \* bound: requests that are served
          Ticks,       \* ticks of schedulers that may be under way at once
          ProcessOf,   \* the process of a tick
          MaxRevisions, MaxMinutes, \* bounds
          Held,        \* workflows that are published at the start: key -> source
          Null

Revisions == 1 .. MaxRevisions
Minutes == 1 .. MaxMinutes

ASSUME WorkflowCatalogueAssumption ==
    /\ MaxRevisions \in Nat \ {0} /\ MaxMinutes \in Nat \ {0}
    /\ IdOf \in [Sources -> Names] /\ Variants \in [Sources -> Nat]
    /\ DOMAIN Held \subseteq Keys /\ \A k \in DOMAIN Held : Held[k] \in Workspaces \X Sources
    /\ \A j, k \in DOMAIN Held : j # k /\ Held[j][1] = Held[k][1] => IdOf[Held[j][2]] # IdOf[Held[k][2]]
    /\ Null \notin Sources \cup Workspaces \cup Keys

VARIABLES
    owner,     \* team_id of a workflow; Null: there is no row
    draft,     \* source_yaml, and with it definition_id
    status,    \* "draft" or "published"
    on,        \* enabled
    active,    \* active_revision; 0 is null
    revisions, \* workflow_revisions: their sources
    claims,    \* scheduled_runs, each of one trigger: <<workflow_id, scheduled_for>>
    jobs,      \* jobs the scheduler made; copy numbers those of one claim and variant
    gone,      \* history: keys that were deleted
    task, key, text, seen, stage, by, \* a request: what it does and what it has read
    now,       \* the minute of the clock
    place, minute, todo, current, variant, \* a tick
    dealt     \* history: triggers that were dealt with: <<key, source, minute>>

rowVars == <<owner, draft, status, on, active, revisions>>
requestVars == <<task, key, text, seen, stage, by>>
tickVars == <<place, minute, todo, current, variant>>
catalogueVars == <<rowVars, claims, jobs, gone, requestVars, now, tickVars, dealt>>

Jobs == [into : Keys, team : Workspaces, revision : Revisions, key : Keys, source : Sources,
         name : Names, minute : Minutes, variant : Nat, copy : Nat]
Triggers == Keys \X Revisions \X Sources

RowTypes ==
    /\ owner \in [Keys -> Workspaces \cup {Null}]
    /\ draft \in [Keys -> Sources \cup {Null}]
    /\ status \in [Keys -> {"draft", "published"}]
    /\ on \in [Keys -> BOOLEAN]
    /\ active \in [Keys -> 0 .. MaxRevisions]
    /\ revisions \in [Keys -> [Revisions -> Sources \cup {Null}]]
    /\ gone \subseteq Keys

RequestTypes ==
    /\ task \in [Requests -> {"new", "save", "publish", "delete", "done"}]
    /\ key \in [Requests -> Keys \cup {Null}]
    /\ text \in [Requests -> Sources \cup {Null}]
    /\ seen \in [Requests -> 0 .. MaxRevisions]
    /\ stage \in [Requests -> 0 .. 3]
    /\ by \in [Requests -> Workspaces \cup {Null}]

TickTypes ==
    /\ now \in Minutes
    /\ claims \subseteq (Names \cup Keys) \X Minutes
    /\ jobs \subseteq Jobs
    /\ dealt \subseteq Keys \X Sources \X Minutes
    /\ place \in [Ticks -> {"idle", "reading", "looping", "queueing"}]
    /\ minute \in [Ticks -> Minutes]
    /\ todo \in [Ticks -> SUBSET Triggers]
    /\ current \in [Ticks -> Triggers \cup {Null}]
    /\ variant \in [Ticks -> Nat]

CatalogueTypeOK == RowTypes /\ RequestTypes /\ TickTypes

CatalogueInit ==
    LET held == DOMAIN Held
    IN  /\ owner = [k \in Keys |-> IF k \in held THEN Held[k][1] ELSE Null]
        /\ draft = [k \in Keys |-> IF k \in held THEN Held[k][2] ELSE Null]
        /\ status = [k \in Keys |-> IF k \in held THEN "published" ELSE "draft"]
        /\ on = [k \in Keys |-> TRUE]
        /\ active = [k \in Keys |-> IF k \in held THEN 1 ELSE 0]
        /\ revisions = [k \in Keys |-> [r \in Revisions |->
                            IF k \in held /\ r = 1 THEN Held[k][2] ELSE Null]]
        /\ claims = {} /\ jobs = {} /\ gone = {} /\ now = 1
        /\ task = [r \in Requests |-> "new"] /\ key = [r \in Requests |-> Null]
        /\ text = [r \in Requests |-> Null] /\ seen = [r \in Requests |-> 0]
        /\ stage = [r \in Requests |-> 0] /\ by = [r \in Requests |-> Null]
        /\ place = [t \in Ticks |-> "idle"] /\ minute = [t \in Ticks |-> 1]
        /\ todo = [t \in Ticks |-> {}] /\ current = [t \in Ticks |-> Null]
        /\ variant = [t \in Ticks |-> 0] /\ dealt = {}

---------------------------------------------------------------------------
(* What the tables say.                                                    *)

Stored(k) == {r \in Revisions : revisions[k][r] # Null}
Latest(k) == IF Stored(k) = {} THEN 0 ELSE CHOOSE r \in Stored(k) : \A q \in Stored(k) : q <= r

(* idx_workflows_team_definition_id, and the check that comes before it.   *)
Taken(k, ws, name) ==
    \E j \in Keys \ {k} : owner[j] = ws /\ IdOf[draft[j]] = name

(* published: every workflow that is active, with its revision.            *)
Published ==
    {<<k, active[k], revisions[k][active[k]]>> :
        k \in {k \in Keys : owner[k] # Null /\ status[k] = "published" /\ on[k] /\ active[k] \in Stored(k)}}

---------------------------------------------------------------------------
(* Requests.                                                               *)

Begin(r, what, k, ws, src) ==
    /\ task[r] = "new"
    /\ task' = [task EXCEPT ![r] = what]
    /\ key' = [key EXCEPT ![r] = k]
    /\ text' = [text EXCEPT ![r] = src]
    /\ by' = [by EXCEPT ![r] = ws]
    /\ stage' = [stage EXCEPT ![r] = 1]
    /\ UNCHANGED seen

Closes(r) ==
    /\ task' = [task EXCEPT ![r] = "done"]
    /\ key' = [key EXCEPT ![r] = Null]
    /\ text' = [text EXCEPT ![r] = Null]
    /\ seen' = [seen EXCEPT ![r] = 0]
    /\ stage' = [stage EXCEPT ![r] = 0]
    /\ by' = [by EXCEPT ![r] = Null]

GoesOn(r) == stage' = [stage EXCEPT ![r] = @ + 1] /\ UNCHANGED <<task, key, text, by>>
Doing(r, what, n) == task[r] = what /\ stage[r] = n

rest == <<claims, jobs, now, tickVars, dealt>>

(* saveDraftForTeam: the source is parsed; its key is free or one's own,   *)
(* and its definition id is nobody else's in the workspace.                *)
BeginSave(r, k, ws, src) ==
    /\ owner[k] \in {Null, ws} /\ ~Taken(k, ws, IdOf[src])
    /\ Begin(r, "save", k, ws, src)
    /\ UNCHANGED <<rowVars, gone, rest>>

ReadRevision(r) ==
    /\ Doing(r, "save", 1) /\ GoesOn(r)
    /\ seen' = [seen EXCEPT ![r] = Latest(key[r])]
    /\ UNCHANGED <<rowVars, gone, rest>>

(* The transaction, unless a uniqueness constraint refuses it; it changes  *)
(* nothing when the row has become another workspace's.                    *)
\* Mutant: a revision of that number is replaced.
SaveReplaces(r, enabled) ==
    LET k == key[r]
        next == seen[r] + 1
    IN  /\ Doing(r, "save", 2) /\ Closes(r) /\ next \in Revisions
        /\ IF Taken(k, by[r], IdOf[text[r]]) \/ owner[k] \notin {Null, by[r]}
           THEN UNCHANGED rowVars
           ELSE /\ owner' = [owner EXCEPT ![k] = by[r]]
                /\ draft' = [draft EXCEPT ![k] = text[r]]
                /\ status' = [status EXCEPT ![k] = "draft"]
                /\ on' = [on EXCEPT ![k] = enabled]
                /\ revisions' = [revisions EXCEPT ![k][next] = text[r]]
                /\ UNCHANGED active
        /\ UNCHANGED <<gone, rest>>
\* Mutant: the row is written first, in a transaction of its own.
SavesApart(r, enabled) ==
    LET k == key[r]
        next == seen[r] + 1
    IN  /\ Doing(r, "save", 2) /\ Closes(r) /\ next \in Revisions
        /\ IF Taken(k, by[r], IdOf[text[r]]) \/ owner[k] \notin {Null, by[r]}
           THEN UNCHANGED rowVars
           ELSE /\ owner' = [owner EXCEPT ![k] = by[r]]
                /\ draft' = [draft EXCEPT ![k] = text[r]]
                /\ status' = [status EXCEPT ![k] = "draft"]
                /\ on' = [on EXCEPT ![k] = enabled]
                /\ revisions' = IF next \in Stored(k) THEN revisions
                                ELSE [revisions EXCEPT ![k][next] = text[r]]
                /\ UNCHANGED active
        /\ UNCHANGED <<gone, rest>>
SaveDraft(r, enabled) ==
    LET k == key[r]
        next == seen[r] + 1
    IN  /\ Doing(r, "save", 2) /\ Closes(r) /\ next \in Revisions
        /\ IF Taken(k, by[r], IdOf[text[r]]) \/ next \in Stored(k) \/ owner[k] \notin {Null, by[r]}
           THEN UNCHANGED rowVars
           ELSE /\ owner' = [owner EXCEPT ![k] = by[r]]
                /\ draft' = [draft EXCEPT ![k] = text[r]]
                /\ status' = [status EXCEPT ![k] = "draft"]
                /\ on' = [on EXCEPT ![k] = enabled]
                /\ revisions' = [revisions EXCEPT ![k][next] = text[r]]
                /\ active' = IF owner[k] = Null THEN [active EXCEPT ![k] = 0] ELSE active
        /\ UNCHANGED <<gone, rest>>

(* publishForTeam: the row is read and its source validated, then the      *)
(* newest revision there is by then becomes active.                        *)
BeginPublish(r, k, ws) ==
    /\ owner[k] = ws /\ ~Taken(k, ws, IdOf[draft[k]])
    /\ Begin(r, "publish", k, ws, draft[k])
    /\ UNCHANGED <<rowVars, gone, rest>>

Publish(r) ==
    LET k == key[r]
    IN  /\ Doing(r, "publish", 1) /\ Closes(r)
        /\ IF owner[k] = by[r] /\ Stored(k) # {}
           THEN /\ status' = [status EXCEPT ![k] = "published"]
                /\ active' = [active EXCEPT ![k] = Latest(k)]
           ELSE UNCHANGED <<status, active>>
        /\ UNCHANGED <<owner, draft, on, revisions, gone, rest>>

SetEnabled(k, ws, enabled) ==
    /\ owner[k] = ws /\ on[k] # enabled
    /\ on' = [on EXCEPT ![k] = enabled]
    /\ UNCHANGED <<owner, draft, status, active, revisions, gone, requestVars, rest>>

(* transferDraftForTeam: one statement, which the uniqueness of definition *)
(* ids in the target may refuse.                                           *)
\* Mutant: a draft that has run may be moved.
TransferAnyDraft(k, ws, target) ==
    /\ owner[k] = ws /\ target # ws /\ status[k] = "draft"
    /\ ~Taken(k, target, IdOf[draft[k]])
    /\ owner' = [owner EXCEPT ![k] = target]
    /\ UNCHANGED <<draft, status, on, active, revisions, gone, requestVars, rest>>
Transfer(k, ws, target) ==
    /\ owner[k] = ws /\ target # ws /\ status[k] = "draft"
    /\ \A j \in jobs : j.into # k
    /\ \A c \in claims : c[1] # k
    /\ ~Taken(k, target, IdOf[draft[k]])
    /\ owner' = [owner EXCEPT ![k] = target]
    /\ UNCHANGED <<draft, status, on, active, revisions, gone, requestVars, rest>>

(* deleteForTeam: the claims of the key, its revisions, and its row.       *)
BeginDelete(r, k, ws) ==
    /\ owner[k] = ws
    /\ Begin(r, "delete", k, ws, Null)
    /\ UNCHANGED <<rowVars, gone, rest>>

DropClaims(r) ==
    /\ Doing(r, "delete", 1) /\ GoesOn(r) /\ UNCHANGED seen
    /\ claims' = {c \in claims : c[1] # key[r]}
    /\ gone' = gone \cup {key[r]}
    /\ UNCHANGED <<rowVars, jobs, now, tickVars, dealt>>

DropRevisions(r) ==
    /\ Doing(r, "delete", 2) /\ GoesOn(r) /\ UNCHANGED seen
    /\ revisions' = [revisions EXCEPT ![key[r]] = [q \in Revisions |-> Null]]
    /\ UNCHANGED <<owner, draft, status, on, active, gone, rest>>

DropRow(r) ==
    LET k == key[r]
    IN  /\ Doing(r, "delete", 3) /\ Closes(r)
        /\ IF owner[k] = by[r]
           THEN /\ owner' = [owner EXCEPT ![k] = Null]
                /\ draft' = [draft EXCEPT ![k] = Null]
                /\ status' = [status EXCEPT ![k] = "draft"]
                /\ on' = [on EXCEPT ![k] = TRUE]
                /\ active' = [active EXCEPT ![k] = 0]
           ELSE UNCHANGED <<owner, draft, status, on, active>>
        /\ UNCHANGED <<revisions, gone, rest>>

(* A statement is rejected, the source refused, or the process ends.       *)
Abandon(r) ==
    /\ task[r] \notin {"new", "done"} /\ Closes(r)
    /\ UNCHANGED <<rowVars, gone, rest>>

---------------------------------------------------------------------------
(* The scheduler.                                                          *)

Goes(t, where) == place' = [place EXCEPT ![t] = where]
requests == <<rowVars, gone, requestVars, now>>

(* A timer starts a tick every 15 seconds, whether or not the one before   *)
(* has ended.                                                              *)
Tick(t) ==
    /\ place[t] = "idle" /\ Goes(t, "reading")
    /\ minute' = [minute EXCEPT ![t] = now]
    /\ UNCHANGED <<requests, claims, jobs, todo, current, variant, dealt>>

ReadPublished(t) ==
    /\ place[t] = "reading" /\ Goes(t, "looping")
    /\ todo' = [todo EXCEPT ![t] = {p \in Published : Variants[p[3]] > 0}]
    /\ UNCHANGED <<requests, claims, jobs, minute, current, variant, dealt>>

TickEnds(t) ==
    /\ place[t] = "looping" /\ todo[t] = {} /\ Goes(t, "idle")
    /\ minute' = [minute EXCEPT ![t] = 1]
    /\ UNCHANGED <<requests, claims, jobs, todo, current, variant, dealt>>

(* claimScheduledRun, by the id that the definition names.                 *)
ClaimScheduledRun(t, p) ==
    LET claim == <<IdOf[p[3]], minute[t]>>
    IN  /\ place[t] = "looping" /\ p \in todo[t]
        /\ todo' = [todo EXCEPT ![t] = @ \ {p}]
        /\ IF claim \in claims THEN UNCHANGED <<claims, place, current, variant>>
           ELSE /\ claims' = claims \cup {claim} /\ Goes(t, "queueing")
                /\ current' = [current EXCEPT ![t] = p] /\ variant' = [variant EXCEPT ![t] = 1]
        /\ UNCHANGED <<requests, jobs, minute, dealt>>

(* Ticks that are cut short leave the rest of their triggers to the next;  *)
(* what they had claimed stays claimed.                                    *)
Cut(dead) ==
    /\ place' = [t \in Ticks |-> IF t \in dead THEN "idle" ELSE place[t]]
    /\ minute' = [t \in Ticks |-> IF t \in dead THEN 1 ELSE minute[t]]
    /\ todo' = [t \in Ticks |-> IF t \in dead THEN {} ELSE todo[t]]
    /\ current' = [t \in Ticks |-> IF t \in dead THEN Null ELSE current[t]]
    /\ variant' = [t \in Ticks |-> IF t \in dead THEN 0 ELSE variant[t]]

SameProcess(t) == {u \in Ticks : ProcessOf[u] = ProcessOf[t]}

Over(t, whole) ==
    dealt' = IF whole THEN dealt \cup {<<current[t][1], current[t][3], minute[t]>>} ELSE dealt

(* QueueManager.enqueue, with the definition's id for a key.  A rejection  *)
(* is not caught anywhere and ends the process.                            *)
Enqueue(t) ==
    LET p == current[t]
        k == IdOf[p[3]]
        same == {j \in jobs : j.name = k /\ j.minute = minute[t] /\ j.variant = variant[t]}
        last == variant[t] = Variants[p[3]]
    IN  /\ place[t] = "queueing"
        /\ IF k \in Keys /\ owner[k] # Null
           THEN /\ jobs' = jobs \cup {[into |-> k, team |-> owner[k], revision |-> p[2], key |-> p[1],
                                       source |-> p[3], name |-> k, minute |-> minute[t],
                                       variant |-> variant[t], copy |-> Cardinality(same)]}
                /\ IF last THEN Goes(t, "looping") ELSE UNCHANGED place
                /\ current' = IF last THEN [current EXCEPT ![t] = Null] ELSE current
                /\ variant' = [variant EXCEPT ![t] = IF last THEN 0 ELSE @ + 1]
                /\ Over(t, last) /\ UNCHANGED <<minute, todo>>
           ELSE Cut(SameProcess(t)) /\ Over(t, TRUE) /\ UNCHANGED jobs
        /\ UNCHANGED <<requests, claims>>

(* The process ends, by a statement that is rejected or from outside.      *)
SchedulerDies(t) ==
    /\ place[t] # "idle"
    /\ Cut(SameProcess(t))
    /\ UNCHANGED <<requests, claims, jobs, dealt>>

Clock ==
    /\ now < MaxMinutes /\ now' = now + 1
    /\ UNCHANGED <<rowVars, gone, requestVars, claims, jobs, tickVars, dealt>>

---------------------------------------------------------------------------
WorkflowRequest ==
    \E k \in Keys, ws \in Workspaces :
        \/ \E r \in Requests : \/ \E src \in Sources : BeginSave(r, k, ws, src)
                               \/ BeginPublish(r, k, ws) \/ BeginDelete(r, k, ws)
        \/ \E enabled \in BOOLEAN : SetEnabled(k, ws, enabled)
        \/ \E target \in Workspaces : Transfer(k, ws, target)

WorkflowStep ==
    \E r \in Requests :
        \/ ReadRevision(r) \/ Publish(r) \/ Abandon(r)
        \/ \E enabled \in BOOLEAN : SaveDraft(r, enabled)
        \/ DropClaims(r) \/ DropRevisions(r) \/ DropRow(r)

SchedulerStep ==
    \E t \in Ticks :
        \/ Tick(t) \/ ReadPublished(t) \/ TickEnds(t) \/ Enqueue(t) \/ SchedulerDies(t)
        \/ \E p \in todo[t] : ClaimScheduledRun(t, p)

CatalogueNext == WorkflowRequest \/ WorkflowStep \/ SchedulerStep \/ Clock
CatalogueSpec == CatalogueInit /\ [][CatalogueNext]_catalogueVars

---------------------------------------------------------------------------
(* However saves, publications and transfers interleave, no two workflows  *)
(* of a workspace have one definition id, and the source of a workflow,    *)
(* which is what its editor shows and its publication validates, is that   *)
(* of its newest revision, which is what publication activates             *)
(* (workflows.ts:683, 908).  Not so once a key was deleted: between the    *)
(* statements of a deletion saves can number their revisions backwards.    *)
CatalogueAgrees ==
    \A k \in Keys : owner[k] # Null =>
        /\ ~Taken(k, owner[k], IdOf[draft[k]])
        /\ k \notin gone => draft[k] = revisions[k][Latest(k)]

(* A job of a workflow that was never deleted finds under the revision it  *)
(* is pinned to what it was scheduled from, and belongs to the workspace   *)
(* of the workflow: neither a concurrent save nor a move changes that      *)
(* ("queued-job pins", v3-contracts.md:386; "Only an unexecuted draft can  *)
(* be moved between workspaces", server.ts:2003).                          *)
JobsStandByTheirWorkflow ==
    \A j \in jobs : j.into \notin gone =>
        /\ owner[j.into] = j.team
        /\ j.into = j.key => revisions[j.into][j.revision] = j.source

(* However many schedulers tick, overlap and restart, a definition id is   *)
(* run once a minute, each variant once.                                   *)
ScheduledOnce == \A j \in jobs : j.name \notin gone => j.copy = 0

(* However requests and schedulers overlap, a job is of the workspace and  *)
(* the revision it was made from, and no trigger makes it twice.           *)
JobsFollowWorkflows == JobsStandByTheirWorkflow /\ ScheduledOnce

(* A scheduled trigger that was dealt with has made the jobs of its        *)
(* workflow, unless that was deleted meanwhile ("`start-scheduler`         *)
(* dispatches published cron and solar triggers",                          *)
(* docs/explanation/architecture.md:30).                                   *)
TriggerReachesItsWorkflow ==
    \A x \in dealt : x[1] \notin gone => \A v \in 1 .. Variants[x[2]] :
        \E j \in jobs : j.into = x[1] /\ j.minute = x[3] /\ j.variant = v
=============================================================================
