----------------------------- MODULE Workspaces -----------------------------
(***************************************************************************)
(* One workspace from its creation to its deletion: its members and their  *)
(* permission overrides (principals.ts), its invitations (teams.ts), the   *)
(* check every request passes (authorization.ts, permissions.ts), the      *)
(* files of its runs (queue.ts, file-storage.ts) and the purge of it all.  *)
(*                                                                         *)
(* A request is a process: it stands between two statements, others run in *)
(* between, and it may be abandoned at any of them, because a statement or *)
(* the file storage rejects or because its process dies (Abandon).  Reads  *)
(* that only choose an answer, and rows nothing here reads (audit, logo,   *)
(* name), are left out.  Foreign keys are enforced, as the schema's        *)
(* REFERENCES clauses ask.                                                 *)
(*                                                                         *)
(* index.ts runs the server and the legacy workers in processes of their   *)
(* own, each with its own QueueManager.  Only legacy workers call          *)
(* saveStoredFiles and only the server calls deleteJobsForTeam, so the     *)
(* server never has an active write to wait for and a worker's             *)
(* purgingTeams is empty: the only fence between them is deleting_at.      *)
(***************************************************************************)
EXTENDS Naturals, FiniteSets

CONSTANTS Subjects,      \* human principals (oidc_users)
          OidcAdmins,    \* principals whose token carries the scope "admin"
          Requests,      \* requests and saves that may be under way at once
          Runs,          \* runs of the workspace's workflow
          OverrideSets,  \* the sparse overrides an administrator may send
          Workloads,     \* bound: kinds of requests that are begun together
          MaxRequests,   \* bound: requests begun
          None           \* no subject, run or file

Roles == {"viewer", "collaborator", "admin"}
Capabilities == {"workspace.view", "runs.dispatch", "runs.delete",
                 "workspace.delete", "members.manage"}
Overrides == Capabilities \X {"allow", "deny"}

ASSUME WorkspacesAssumption ==
    /\ Subjects # {} /\ OidcAdmins \subseteq Subjects
    /\ OverrideSets \subseteq SUBSET Overrides
    /\ MaxRequests \in Nat /\ Workloads # {}
    /\ None \notin Subjects \cup Runs
    /\ Requests \cap {"none", "open", "expired"} = {}

RoleCapabilities ==
    [viewer |-> {"workspace.view"},
     collaborator |-> {"workspace.view", "runs.dispatch"},
     admin |-> Capabilities]

(* The files of a run, and the cache of the workflow: a legacy worker keys  *)
(* it by the workflow, the runner API by the team and the workflow.         *)
Artifact(j) == <<"artifact", j>>
WorkflowCache == <<"cache", "workflow">>
TeamCache == <<"cache", "team">>
Files == {Artifact(j) : j \in Runs} \cup {WorkflowCache, TeamCache}

(* Where a request of a kind starts; those of members and runs start with   *)
(* the check of their caller's capability.                                  *)
FirstStep == [permit |-> "authorize", add |-> "authorize", remove |-> "authorize",
              invite |-> "authorize", inviteSubject |-> "authorize",
              delete |-> "authorize", deleteRun |-> "authorize",
              accept |-> "select", save |-> "owner"]

VARIABLES
    team,       \* the row of teams: "none", "live", "deleting" or "gone"
    role,       \* team_members: the role of a subject, or "none"
    overrides,  \* workspace_permission_overrides of a subject
    email,      \* team_invitations: the token sent to a subject's email, or its claim
    invited,    \* team_subject_invitations of a subject
    run,        \* the row of a run: "none", "present" or "gone"
    stored,     \* copies of a file in the external storage
    rows,       \* the files that have a row in stored_files
    pc, kind, caller, who, want, extra, file, left, seen, \* a request under way
    external,   \* configuration: whether an external file storage is used
    workload,   \* bound: the kinds of requests of this behaviour
    begun,      \* requests begun
    accepted,   \* history: how often a token was answered with "accepted"
    escaped     \* history: files a purge cannot see or count

tables == <<team, role, overrides, email, invited>>
storage == <<run, stored, rows, escaped>>
locals == <<kind, caller, who, want, extra, file, left, seen>>
vars == <<tables, storage, pc, locals, external, workload, begun, accepted>>

TypeOK ==
    /\ team \in {"none", "live", "deleting", "gone"}
    /\ role \in [Subjects -> Roles \cup {"none"}]
    /\ overrides \in [Subjects -> SUBSET Overrides]
    /\ email \in [Subjects -> {"none", "open", "expired"} \cup Requests]
    /\ invited \in [Subjects -> {"none", "open", "expired"}]
    /\ run \in [Runs -> {"none", "present", "gone"}]
    /\ external \in BOOLEAN /\ workload \in Workloads
    /\ stored \in [Files -> Nat]
    /\ rows \subseteq Files /\ escaped \subseteq Files
    /\ pc \in [Requests -> {"idle", "authorize", "read", "commit", "lookup",
                            "insert", "remove", "forget", "invite", "upsert",
                            "select", "claim", "tell", "mark", "list", "purge",
                            "find", "unstore", "erase", "owner",
                            "index", "put"}]
    /\ kind \in [Requests -> DOMAIN FirstStep \cup {"none"}]
    /\ caller \in [Requests -> Subjects \cup {None}]
    /\ who \in [Requests -> Subjects \cup {None}]
    /\ want \in [Requests -> Roles \cup {"none"}]
    /\ extra \in [Requests -> OverrideSets \cup {{}}]
    /\ file \in [Requests -> Files \cup {None}]
    /\ left \in [Requests -> SUBSET Runs]
    /\ seen \in [Requests -> BOOLEAN]
    /\ begun \in 0 .. MaxRequests
    /\ accepted \in [Subjects -> Nat]

Init ==
    /\ team = "none"
    /\ role = [s \in Subjects |-> "none"]
    /\ overrides = [s \in Subjects |-> {}]
    /\ email = [s \in Subjects |-> "none"]
    /\ invited = [s \in Subjects |-> "none"]
    /\ run = [j \in Runs |-> "none"]
    /\ stored = [f \in Files |-> 0]
    /\ rows = {} /\ escaped = {}
    /\ pc = [r \in Requests |-> "idle"]
    /\ kind = [r \in Requests |-> "none"]
    /\ caller = [r \in Requests |-> None]
    /\ who = [r \in Requests |-> None]
    /\ want = [r \in Requests |-> "none"]
    /\ extra = [r \in Requests |-> {}]
    /\ file = [r \in Requests |-> None]
    /\ left = [r \in Requests |-> {}]
    /\ seen = [r \in Requests |-> FALSE]
    /\ external \in BOOLEAN /\ workload \in Workloads
    /\ begun = 0
    /\ accepted = [s \in Subjects |-> 0]

---------------------------------------------------------------------------
(* Capabilities: a preset and its overrides, where deny wins.              *)

Effective(preset, changes) ==
    LET allowed == {c \in Capabilities : <<c, "allow">> \in changes}
        denied == {c \in Capabilities : <<c, "deny">> \in changes}
    IN (RoleCapabilities[preset] \cup allowed) \ denied

Holds(s, capability) ==
    /\ role[s] # "none"
    /\ capability \in Effective(role[s], overrides[s])

Exists == team \in {"live", "deleting"}
Admins == {s \in Subjects : role[s] = "admin"}

(* The condition of the statements that take an administrator's role away: *)
(* it counts the administrators when the statement runs.                   *)
MayLose(s) == role[s] # "admin" \/ Cardinality(Admins) > 1

---------------------------------------------------------------------------
(* The course of a request.                                                *)

At(r, place) == pc[r] = place

Goto(r, place) ==
    /\ pc' = [pc EXCEPT ![r] = place]
    /\ UNCHANGED locals

(* The request is answered: nothing of it is kept.                         *)
Done(r) ==
    /\ pc' = [pc EXCEPT ![r] = "idle"]
    /\ kind' = [kind EXCEPT ![r] = "none"]
    /\ caller' = [caller EXCEPT ![r] = None]
    /\ who' = [who EXCEPT ![r] = None]
    /\ want' = [want EXCEPT ![r] = "none"]
    /\ extra' = [extra EXCEPT ![r] = {}]
    /\ file' = [file EXCEPT ![r] = None]
    /\ left' = [left EXCEPT ![r] = {}]
    /\ seen' = [seen EXCEPT ![r] = FALSE]

Abandon(r) ==
    /\ ~At(r, "idle")
    /\ Done(r)
    /\ UNCHANGED <<tables, storage, begun, accepted>>

Begin(r, k, c, s, p, o, f) ==
    /\ At(r, "idle") /\ begun < MaxRequests /\ team # "none"
    /\ pc' = [pc EXCEPT ![r] = FirstStep[k]]
    /\ kind' = [kind EXCEPT ![r] = k]
    /\ caller' = [caller EXCEPT ![r] = c]
    /\ who' = [who EXCEPT ![r] = s]
    /\ want' = [want EXCEPT ![r] = p]
    /\ extra' = [extra EXCEPT ![r] = o]
    /\ file' = [file EXCEPT ![r] = f]
    /\ begun' = begun + 1
    /\ UNCHANGED <<tables, storage, left, seen, accepted>>

(* The requests there are, with the arguments each reads from its body.    *)
BeginAny(r) ==
    \E c \in Subjects :
        \/ /\ "permit" \in workload
           /\ \E s \in Subjects, p \in Roles, o \in OverrideSets :
                 Begin(r, "permit", c, s, p, o, None)
        \/ /\ "add" \in workload
           /\ \E s \in Subjects, p \in Roles : Begin(r, "add", c, s, p, {}, None)
        \/ \E k \in workload \cap {"remove", "invite", "inviteSubject"}, s \in Subjects :
              Begin(r, k, c, s, "none", {}, None)
        \/ \E k \in workload \cap {"delete", "accept"} : Begin(r, k, c, c, "none", {}, None)
        \/ /\ "deleteRun" \in workload
           /\ \E j \in Runs : Begin(r, "deleteRun", c, c, "none", {}, Artifact(j))
BeginSave(r) ==
    /\ "save" \in workload
    /\ \E f \in Files \ {TeamCache} : Begin(r, "save", None, None, "none", {}, f)

Needs == [permit |-> "members.manage", add |-> "members.manage",
          remove |-> "members.manage", invite |-> "members.manage",
          inviteSubject |-> "members.manage", delete |-> "workspace.delete",
          deleteRun |-> "runs.delete"]
NextStep == [permit |-> "read", add |-> "lookup", remove |-> "remove",
             invite |-> "invite", inviteSubject |-> "lookup", delete |-> "mark",
             deleteRun |-> "find"]

(* The capability is read once, before the body; what follows uses it.     *)
Authorize(r) ==
    /\ At(r, "authorize")
    /\ IF caller[r] \in OidcAdmins \/ Holds(caller[r], Needs[kind[r]])
       THEN Goto(r, NextStep[kind[r]])
       ELSE Done(r)
    /\ UNCHANGED <<tables, storage, begun, accepted>>

---------------------------------------------------------------------------
(* Members.                                                                *)

CreateTeam(s) ==
    /\ team = "none"
    /\ team' = "live"
    /\ role' = [role EXCEPT ![s] = "admin"]
    /\ UNCHANGED <<overrides, email, invited, storage, pc, locals, begun, accepted>>

ReadMember(r) ==
    /\ At(r, "read")
    /\ IF role[who[r]] = "none" THEN Done(r) ELSE Goto(r, "commit")
    /\ UNCHANGED <<tables, storage, begun, accepted>>

(* setMemberPermissions' transaction: the role, unless the last            *)
(* administrator would lose it, and the overrides, if the member has the   *)
(* role that was asked for.                                                *)
Permit(r) ==
    LET s == who[r]
        updates == role[s] # "none" /\ (want[r] = "admin" \/ MayLose(s))
        now == IF updates THEN want[r] ELSE role[s]
    IN  /\ At(r, "commit")
        /\ role' = [role EXCEPT ![s] = now]
        /\ overrides' = [overrides EXCEPT ![s] = IF now = want[r] THEN extra[r] ELSE @]
        /\ Done(r)
        /\ UNCHANGED <<team, email, invited, storage, begun, accepted>>

(* addMember and createSubjectInvitation look the member up first.         *)
Lookup(r) ==
    /\ At(r, "lookup")
    /\ IF role[who[r]] # "none" THEN Done(r)
       ELSE Goto(r, IF kind[r] = "add" THEN "insert" ELSE "upsert")
    /\ UNCHANGED <<tables, storage, begun, accepted>>

(* The INSERT throws on a membership that is there, or without its team.   *)
AddMember(r) ==
    /\ At(r, "insert") /\ Done(r)
    /\ role' = IF role[who[r]] = "none" /\ Exists
               THEN [role EXCEPT ![who[r]] = want[r]] ELSE role
    /\ UNCHANGED <<team, overrides, email, invited, storage, begun, accepted>>

\* Mutant: the count of administrators is left to the caller.
RemovesAnyAdmin(r) ==
    /\ At(r, "remove")
    /\ IF role[who[r]] # "none"
       THEN role' = [role EXCEPT ![who[r]] = "none"] /\ Goto(r, "forget")
       ELSE Done(r) /\ UNCHANGED role
    /\ UNCHANGED <<team, overrides, email, invited, storage, begun, accepted>>
RemoveMember(r) ==
    /\ At(r, "remove")
    /\ IF role[who[r]] # "none" /\ MayLose(who[r])
       THEN role' = [role EXCEPT ![who[r]] = "none"] /\ Goto(r, "forget")
       ELSE Done(r) /\ UNCHANGED role
    /\ UNCHANGED <<team, overrides, email, invited, storage, begun, accepted>>

(* The overrides go in a second statement.                                 *)
ForgetOverrides(r) ==
    /\ At(r, "forget") /\ Done(r)
    /\ overrides' = [overrides EXCEPT ![who[r]] = {}]
    /\ UNCHANGED <<team, role, email, invited, storage, begun, accepted>>

---------------------------------------------------------------------------
(* Invitations: one token per email, one row per subject.                  *)

CreateInvitation(r) ==
    /\ At(r, "invite") /\ Done(r)
    /\ email' = IF Exists /\ email[who[r]] = "none"
                THEN [email EXCEPT ![who[r]] = "open"] ELSE email
    /\ UNCHANGED <<team, role, overrides, invited, storage, begun, accepted>>

CreateSubjectInvitation(r) ==
    /\ At(r, "upsert") /\ Done(r)
    /\ invited' = IF Exists THEN [invited EXCEPT ![who[r]] = "open"] ELSE invited
    /\ UNCHANGED <<team, role, overrides, email, storage, begun, accepted>>

Expire ==
    /\ \E s \in Subjects :
          \/ email[s] = "open" /\ email' = [email EXCEPT ![s] = "expired"] /\ UNCHANGED invited
          \/ invited[s] = "open" /\ invited' = [invited EXCEPT ![s] = "expired"] /\ UNCHANGED email
    /\ UNCHANGED <<team, role, overrides, storage, pc, locals, begun, accepted>>

FindInvitation(r) ==
    /\ At(r, "select")
    /\ IF email[who[r]] = "open" THEN Goto(r, "claim") ELSE Done(r)
    /\ UNCHANGED <<tables, storage, begun, accepted>>

Joined(s) == [role EXCEPT ![s] = IF @ = "none" THEN "collaborator" ELSE @]

(* acceptInvitation's transaction: the claim is a mark of this request.    *)
\* Mutant: the claim does not ask that the invitation is still open.
ClaimsAgain(r) ==
    /\ At(r, "claim") /\ Goto(r, "tell")
    /\ email' = [email EXCEPT ![who[r]] = r]
    /\ role' = Joined(who[r])
    /\ UNCHANGED <<team, overrides, invited, storage, begun, accepted>>
ClaimInvitation(r) ==
    /\ At(r, "claim") /\ Goto(r, "tell")
    /\ IF email[who[r]] = "open"
       THEN /\ email' = [email EXCEPT ![who[r]] = r]
            /\ role' = Joined(who[r])
       ELSE UNCHANGED <<email, role>>
    /\ UNCHANGED <<team, overrides, invited, storage, begun, accepted>>

TellAccepted(r) ==
    /\ At(r, "tell") /\ Done(r)
    /\ accepted' = IF email[who[r]] = r
                   THEN [accepted EXCEPT ![who[r]] = @ + 1] ELSE accepted
    /\ UNCHANGED <<tables, storage, begun>>

(* acceptSubjectInvitations, when the subject signs in.                    *)
SignIn(s) ==
    /\ invited[s] # "none"
    /\ role' = IF invited[s] = "open" THEN Joined(s) ELSE role
    /\ invited' = [invited EXCEPT ![s] = "none"]
    /\ UNCHANGED <<team, overrides, email, storage, pc, locals, begun, accepted>>

---------------------------------------------------------------------------
(* Runs and their files.                                                   *)

Enqueue(j) ==
    /\ team = "live" /\ run[j] = "none" /\ "save" \in workload
    /\ run' = [run EXCEPT ![j] = "present"]
    /\ UNCHANGED <<tables, stored, rows, escaped, pc, locals, begun, accepted>>

(* A save that has passed its check and has not written yet.               *)
Writing(f) == {r \in Requests : file[r] = f /\ pc[r] \in {"index", "put"}}

(* saveStoredFiles of a legacy worker: the owner and deleting_at are read  *)
(* once; the write follows in a request, or a statement, of its own.       *)
\* Mutant: the owner is found whether or not its workspace is being deleted.
OwnerOfAnyTeam(r) ==
    /\ At(r, "owner")
    /\ IF Exists /\ \A j \in Runs : file[r] = Artifact(j) => run[j] = "present"
       THEN Goto(r, "index") ELSE Done(r)
    /\ UNCHANGED <<tables, storage, begun, accepted>>
FindOwner(r) ==
    /\ At(r, "owner")
    /\ IF team = "live" /\ \A j \in Runs : file[r] = Artifact(j) => run[j] = "present"
       THEN Goto(r, "index") ELSE Done(r)
    /\ UNCHANGED <<tables, storage, begun, accepted>>

(* Without an external storage the row is written.  Otherwise the file is  *)
(* looked up by its name, and created unless it was found.                 *)
SaveRow(r) ==
    /\ ~external /\ At(r, "index") /\ Done(r)
    /\ rows' = rows \cup {file[r]}
    /\ UNCHANGED <<tables, run, stored, escaped, begun, accepted>>

Index(r) ==
    /\ external /\ At(r, "index")
    /\ seen' = [seen EXCEPT ![r] = stored[file[r]] > 0]
    /\ pc' = [pc EXCEPT ![r] = "put"]
    /\ UNCHANGED <<tables, storage, kind, caller, who, want, extra, file, left, begun, accepted>>

(* A write to a file that was deleted after it was looked up fails; two    *)
(* saves that both looked in vain create the name twice.                   *)
Put(r) ==
    LET f == file[r]
        copies == IF seen[r] THEN stored[f] ELSE stored[f] + 1
    IN  /\ At(r, "put") /\ Done(r)
        /\ stored' = [stored EXCEPT ![f] = copies]
        /\ escaped' = IF copies > 1 THEN escaped \cup {f} ELSE escaped
        /\ UNCHANGED <<tables, run, rows, begun, accepted>>

(* A runner saves through the API: one statement per file, which checks    *)
(* the lease's run and its workspace.                                      *)
RunnerSave(j, f) ==
    /\ team = "live" /\ run[j] = "present" /\ f \in {Artifact(j), TeamCache}
    /\ rows' = rows \cup {f}
    /\ UNCHANGED <<tables, run, stored, escaped, pc, locals, begun, accepted>>

(* fileStorage.delete knows one identifier per name.                       *)
OneLess(f) == [stored EXCEPT ![f] = IF @ > 0 THEN @ - 1 ELSE 0]

FindRun(r) ==
    /\ At(r, "find")
    /\ IF \E j \in Runs : file[r] = Artifact(j) /\ run[j] = "present"
       THEN Goto(r, "unstore") ELSE Done(r)
    /\ UNCHANGED <<tables, storage, begun, accepted>>

Unstore(r) ==
    /\ At(r, "unstore") /\ Goto(r, "erase")
    /\ stored' = IF external THEN OneLess(file[r]) ELSE stored
    /\ UNCHANGED <<tables, run, rows, escaped, begun, accepted>>

(* Whatever is, or is about to be, stored under the name of a run that is  *)
(* erased has no row left that a later purge could find it by.             *)
EraseRun(r) ==
    LET f == file[r]
    IN  /\ At(r, "erase") /\ Done(r)
        /\ run' = [j \in Runs |-> IF f = Artifact(j) THEN "gone" ELSE run[j]]
        /\ rows' = rows \ {f}
        /\ escaped' = IF stored[f] > 0 \/ Writing(f) # {} THEN escaped \cup {f} ELSE escaped
        /\ UNCHANGED <<tables, stored, begun, accepted>>

---------------------------------------------------------------------------
(* The deletion of the workspace.                                          *)

MarkDeleting(r) ==
    /\ At(r, "mark")
    /\ IF Exists
       THEN /\ team' = "deleting"
            /\ escaped' = IF team = "live"
                          THEN escaped \cup {f \in Files : Writing(f) # {}} ELSE escaped
            /\ Goto(r, "list")
       ELSE UNCHANGED <<team, escaped>> /\ Done(r)
    /\ UNCHANGED <<role, overrides, email, invited, run, stored, rows, begun, accepted>>

ListRuns(r) ==
    /\ At(r, "list")
    /\ left' = [left EXCEPT ![r] = IF external THEN {j \in Runs : run[j] = "present"} ELSE {}]
    /\ pc' = [pc EXCEPT ![r] = "purge"]
    /\ UNCHANGED <<tables, storage, kind, caller, who, want, extra, file, seen, begun, accepted>>

(* The caches are asked for by the prefix "cache/<workflow>:/", which none *)
(* of their names, "cache/<workflow>:<key>/...", begins with.              *)
PurgeOne(r, j) ==
    /\ At(r, "purge") /\ j \in left[r]
    /\ left' = [left EXCEPT ![r] = @ \ {j}]
    /\ stored' = OneLess(Artifact(j))
    /\ UNCHANGED <<tables, run, rows, escaped, pc, kind, caller, who, want, extra, file, seen,
                   begun, accepted>>

(* deleteWorkspace: every row in one transaction, if the team is there.    *)
DropWorkspace(r) ==
    /\ At(r, "purge") /\ left[r] = {} /\ Done(r)
    /\ IF Exists
       THEN /\ team' = "gone"
            /\ role' = [s \in Subjects |-> "none"]
            /\ overrides' = [s \in Subjects |-> {}]
            /\ email' = [s \in Subjects |-> "none"]
            /\ invited' = [s \in Subjects |-> "none"]
            /\ rows' = rows \ ({Artifact(j) : j \in {i \in Runs : run[i] = "present"}}
                               \cup {WorkflowCache})
            /\ run' = [j \in Runs |-> IF run[j] = "present" THEN "gone" ELSE run[j]]
       ELSE UNCHANGED <<tables, rows, run>>
    /\ UNCHANGED <<stored, escaped, begun, accepted>>

---------------------------------------------------------------------------
MemberStep(r) == ReadMember(r) \/ Permit(r) \/ Lookup(r) \/ AddMember(r)
                 \/ RemoveMember(r) \/ ForgetOverrides(r)
InvitationStep(r) == CreateInvitation(r) \/ CreateSubjectInvitation(r)
                     \/ FindInvitation(r) \/ ClaimInvitation(r) \/ TellAccepted(r)
FileStep(r) == FindOwner(r) \/ SaveRow(r) \/ Index(r) \/ Put(r)
               \/ FindRun(r) \/ Unstore(r) \/ EraseRun(r)
DeletionStep(r) == MarkDeleting(r) \/ ListRuns(r) \/ DropWorkspace(r)
                   \/ \E j \in Runs : PurgeOne(r, j)

Step ==
    \/ \E r \in Requests :
          \/ BeginAny(r) \/ BeginSave(r) \/ Authorize(r) \/ Abandon(r)
          \/ MemberStep(r) \/ InvitationStep(r) \/ FileStep(r) \/ DeletionStep(r)
    \/ \E s \in Subjects : CreateTeam(s) \/ SignIn(s)
    \/ Expire
    \/ \E j \in Runs : Enqueue(j) \/ \E f \in Files : RunnerSave(j, f)

Next == Step /\ UNCHANGED <<external, workload>>

Spec == Init /\ [][Next]_vars

---------------------------------------------------------------------------
(* A workspace that is not deleted has an administrator, whatever          *)
(* administrators step down, are demoted or are removed at once            *)
(* (principals.ts:253-256, 329-332).                                       *)
AlwaysAnAdmin == Exists => Admins # {}

(* However many requests present one token, at most one is told that it    *)
(* was accepted (teams.ts:152-155, 181-188).                               *)
AcceptedOnce == \A s \in Subjects : accepted[s] <= 1

(* A workspace that is gone has left no member, override, invitation, run  *)
(* or row behind, and no file but caches, files whose save had passed its  *)
(* check when the workspace was marked, and files that were created twice  *)
(* or whose run was deleted first (teams.ts:245-300, queue.ts:1264-1280).  *)
GoneIsEmpty ==
    team = "gone" =>
        /\ \A s \in Subjects : /\ role[s] = "none" /\ overrides[s] = {}
                               /\ email[s] = "none" /\ invited[s] = "none"
        /\ \A j \in Runs : run[j] # "present"
        /\ \A f \in Files \ (escaped \cup {WorkflowCache, TeamCache}) :
              stored[f] = 0 /\ f \notin rows
=============================================================================
