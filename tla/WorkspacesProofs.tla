-------------------------- MODULE WorkspacesProofs --------------------------
(***************************************************************************)
(* Theorems of Workspaces, for any number of subjects, requests, runs and  *)
(* overrides: its type invariant, that a workspace keeps an administrator, *)
(* that a token is accepted once, and that a deleted workspace is empty.   *)
(***************************************************************************)
EXTENDS Workspaces, FiniteSetTheorems, TLAPS

USE DEF tables, storage, locals

Places == {"idle", "authorize", "read", "commit", "lookup", "insert", "remove", "forget", "invite",
           "upsert", "select", "claim", "tell", "mark", "list", "purge", "find", "unstore", "erase",
           "owner", "index", "put"}
OfSubject == {"read", "commit", "lookup", "insert", "remove", "forget", "invite", "upsert",
              "select", "claim", "tell"}
OfFile == {"find", "unstore", "erase", "owner", "index", "put"}
Checked == {"permit", "add", "remove", "invite", "inviteSubject", "delete", "deleteRun"}

\* A request has the arguments that its place reads.
Placed(r) ==
    /\ kind[r] \in Checked => who[r] \in Subjects /\ caller[r] \in Subjects
    /\ kind[r] \in {"permit", "add"} => want[r] \in Roles
    /\ kind[r] = "deleteRun" => file[r] \in Files
    /\ pc[r] = "authorize" => kind[r] \in Checked
    /\ pc[r] \in OfSubject => who[r] \in Subjects
    /\ pc[r] = "lookup" => kind[r] \in {"add", "inviteSubject"}
    /\ pc[r] \in {"read", "commit", "insert"} => want[r] \in Roles
    /\ pc[r] \in OfFile => file[r] \in Files
PlaceOK == \A r \in Requests : Placed(r)

TypeInv == TypeOK /\ PlaceOK

-----------------------------------------------------------------------------
(* Types.                                                                  *)

\* The initial states are well typed.
LEMMA InitTyped == Init => TypeInv
<1> SUFFICES ASSUME Init PROVE TypeInv
  OBVIOUS
<1>1. TypeOK
  BY WorkspacesAssumption DEF Init, TypeOK, Roles
<1>2. PlaceOK
  BY DEF Init, PlaceOK, Placed, Checked, OfSubject, OfFile
<1>3. QED
  BY <1>1, <1>2 DEF TypeInv

LocalsOK ==
    /\ pc \in [Requests -> Places]
    /\ kind \in [Requests -> DOMAIN FirstStep \cup {"none"}]
    /\ caller \in [Requests -> Subjects \cup {None}]
    /\ who \in [Requests -> Subjects \cup {None}]
    /\ want \in [Requests -> Roles \cup {"none"}]
    /\ extra \in [Requests -> OverrideSets \cup {{}}]
    /\ file \in [Requests -> Files \cup {None}]
    /\ left \in [Requests -> SUBSET Runs]
    /\ seen \in [Requests -> BOOLEAN]

TablesOK ==
    /\ team \in {"none", "live", "deleting", "gone"}
    /\ role \in [Subjects -> Roles \cup {"none"}]
    /\ overrides \in [Subjects -> SUBSET Overrides]
    /\ email \in [Subjects -> {"none", "open", "expired"} \cup Requests]
    /\ invited \in [Subjects -> {"none", "open", "expired"}]
    /\ accepted \in [Subjects -> Nat]

StorageOK ==
    /\ run \in [Runs -> {"none", "present", "gone"}]
    /\ stored \in [Files -> Nat]
    /\ rows \subseteq Files /\ escaped \subseteq Files

BoundsOK == external \in BOOLEAN /\ workload \in Workloads /\ begun \in 0 .. MaxRequests

\* The types by the part of the state that a step writes.
LEMMA TypeParts == TypeOK <=> LocalsOK /\ TablesOK /\ StorageOK /\ BoundsOK
BY DEF TypeOK, LocalsOK, TablesOK, StorageOK, BoundsOK, Places

\* An answered request has no arguments, and a place that asks for none.
LEMMA DoneTyped ==
  ASSUME LocalsOK, PlaceOK, NEW r \in Requests, Done(r)
  PROVE  LocalsOK' /\ PlaceOK'
<1>1. LocalsOK'
  BY DEF Done, LocalsOK, Places
<1>2. ASSUME NEW q \in Requests PROVE Placed(q)'
  <2>1. CASE q = r
    BY <2>1 DEF Done, LocalsOK, Placed, Checked, OfSubject, OfFile
  <2>2. CASE q # r
    BY <2>2 DEF Done, LocalsOK, PlaceOK, Placed
  <2>3. QED
    BY <2>1, <2>2
<1>3. QED
  BY <1>1, <1>2 DEF PlaceOK

\* What a place needs of the request that goes there.
Ready(r, place) ==
    /\ place = "authorize" => kind[r] \in Checked
    /\ place \in OfSubject => who[r] \in Subjects
    /\ place = "lookup" => kind[r] \in {"add", "inviteSubject"}
    /\ place \in {"read", "commit", "insert"} => want[r] \in Roles
    /\ place \in OfFile => file[r] \in Files

\* A request may go to a place whose arguments it has.
LEMMA GotoTyped ==
  ASSUME LocalsOK, PlaceOK, NEW r \in Requests, NEW place \in Places, Goto(r, place), Ready(r, place)
  PROVE  LocalsOK' /\ PlaceOK'
<1>1. LocalsOK'
  BY DEF Goto, LocalsOK
<1>2. ASSUME NEW q \in Requests PROVE Placed(q)'
  <2>1. CASE q = r
    BY <2>1 DEF Goto, LocalsOK, PlaceOK, Placed, Ready
  <2>2. CASE q # r
    BY <2>2 DEF Goto, LocalsOK, PlaceOK, Placed
  <2>3. QED
    BY <2>1, <2>2
<1>3. QED
  BY <1>1, <1>2 DEF PlaceOK

\* A request begins with the arguments of its kind.
LEMMA BeginOne ==
  ASSUME LocalsOK, PlaceOK, BoundsOK, NEW r \in Requests,
         NEW k \in DOMAIN FirstStep, NEW c \in Subjects \cup {None}, NEW s \in Subjects \cup {None},
         NEW p \in Roles \cup {"none"}, NEW o \in OverrideSets \cup {{}}, NEW f \in Files \cup {None},
         k \in Checked \cup {"accept"} => s \in Subjects /\ c \in Subjects,
         k \in {"permit", "add"} => p \in Roles,
         k \in {"deleteRun", "save"} => f \in Files,
         Begin(r, k, c, s, p, o, f)
  PROVE  LocalsOK' /\ PlaceOK' /\ begun' \in 0 .. MaxRequests
<1>1. LocalsOK'
  <2>1. FirstStep[k] \in Places
    BY DEF FirstStep, Places
  <2>2. QED
    BY <2>1 DEF Begin, LocalsOK
<1>2. ASSUME NEW q \in Requests PROVE Placed(q)'
  <2>1. CASE q = r
    BY <2>1 DEF Begin, LocalsOK, Placed, FirstStep, Checked, OfSubject, OfFile
  <2>2. CASE q # r
    BY <2>2 DEF Begin, LocalsOK, PlaceOK, Placed
  <2>3. QED
    BY <2>1, <2>2
<1>3. begun' \in 0 .. MaxRequests
  BY WorkspacesAssumption DEF Begin, BoundsOK
<1>4. QED
  BY <1>1, <1>2, <1>3 DEF PlaceOK

\* So the types are kept when any request begins.
LEMMA BeginTyped ==
  ASSUME LocalsOK, PlaceOK, BoundsOK, NEW r \in Requests, BeginAny(r) \/ BeginSave(r)
  PROVE  LocalsOK' /\ PlaceOK' /\ begun' \in 0 .. MaxRequests
<1> DEFINE Goal == LocalsOK' /\ PlaceOK' /\ begun' \in 0 .. MaxRequests
<1>1. CASE BeginSave(r)
  <2>1. PICK f \in Files : Begin(r, "save", None, None, "none", {}, f)
    BY <1>1 DEF BeginSave
  <2>2. QED
    BY <2>1, BeginOne DEF FirstStep, Checked
<1>2. ASSUME NEW c \in Subjects, NEW s \in Subjects, NEW p \in Roles, NEW o \in OverrideSets,
             Begin(r, "permit", c, s, p, o, None)
      PROVE  Goal
  BY <1>2, BeginOne DEF FirstStep, Checked
<1>3. ASSUME NEW c \in Subjects, NEW s \in Subjects, NEW p \in Roles, Begin(r, "add", c, s, p, {}, None)
      PROVE  Goal
  BY <1>3, BeginOne DEF FirstStep, Checked
<1>4. ASSUME NEW c \in Subjects, NEW k \in workload \cap {"remove", "invite", "inviteSubject"}, NEW s \in Subjects,
             Begin(r, k, c, s, "none", {}, None)
      PROVE  Goal
  BY <1>4, BeginOne DEF FirstStep, Checked
<1>5. ASSUME NEW c \in Subjects, NEW k \in workload \cap {"delete", "accept"}, Begin(r, k, c, c, "none", {}, None)
      PROVE  Goal
  BY <1>5, BeginOne DEF FirstStep, Checked
<1>6. ASSUME NEW c \in Subjects, NEW j \in Runs, Begin(r, "deleteRun", c, c, "none", {}, Artifact(j))
      PROVE  Goal
  <2>1. Artifact(j) \in Files
    BY DEF Files
  <2>2. QED
    BY <1>6, <2>1, BeginOne DEF FirstStep, Checked
<1> HIDE DEF Goal
<1>7. ASSUME BeginAny(r) PROVE Goal
  BY <1>2, <1>3, <1>4, <1>5, <1>6, <1>7 DEF BeginAny
<1>8. QED
  BY <1>1, <1>7 DEF Goal

\* The check of a capability sends a request to the first place of its kind.
LEMMA AuthorizeTyped ==
  ASSUME LocalsOK, PlaceOK, NEW r \in Requests, Authorize(r)
  PROVE  LocalsOK' /\ PlaceOK'
<1>1. CASE Done(r)
  BY <1>1, DoneTyped
<1>2. CASE Goto(r, NextStep[kind[r]])
  <2>1. kind[r] \in Checked
    BY DEF Authorize, At, PlaceOK, Placed
  <2>2. NextStep[kind[r]] \in Places /\ Ready(r, NextStep[kind[r]])
    BY <2>1 DEF PlaceOK, Placed, Ready, NextStep, Checked, Places, OfSubject, OfFile
  <2>3. QED
    BY <1>2, <2>2, GotoTyped
<1>3. QED
  BY <1>1, <1>2 DEF Authorize

\* The steps of members.
LEMMA MemberTyped ==
  ASSUME LocalsOK, PlaceOK, TablesOK, NEW r \in Requests, MemberStep(r)
  PROVE  LocalsOK' /\ PlaceOK' /\ TablesOK'
<1> USE DEF MemberStep, At, OfSubject, OfFile, Places
<1>1. LocalsOK' /\ PlaceOK'
  <2>1. CASE Done(r)
    BY <2>1, DoneTyped
  <2>2. ASSUME NEW place \in {"commit", "insert", "upsert", "forget"}, Goto(r, place), Ready(r, place)
        PROVE  LocalsOK' /\ PlaceOK'
    BY <2>2, GotoTyped
  <2>3. CASE ReadMember(r)
    BY <2>1, <2>2, <2>3 DEF ReadMember, PlaceOK, Placed, Ready
  <2>4. CASE Permit(r)
    BY <2>1, <2>4 DEF Permit
  <2>5. CASE Lookup(r)
    BY <2>1, <2>2, <2>5 DEF Lookup, PlaceOK, Placed, Ready
  <2>6. CASE AddMember(r)
    BY <2>1, <2>6 DEF AddMember
  <2>7. CASE RemoveMember(r)
    BY <2>1, <2>2, <2>7 DEF RemoveMember, PlaceOK, Placed, Ready
  <2>8. CASE ForgetOverrides(r)
    BY <2>1, <2>8 DEF ForgetOverrides
  <2>9. QED
    BY <2>3, <2>4, <2>5, <2>6, <2>7, <2>8
<1>2. TablesOK'
  <2> USE DEF TablesOK
  <2>1. CASE ReadMember(r) \/ Lookup(r) \/ ForgetOverrides(r) \/ RemoveMember(r)
    BY <2>1 DEF ReadMember, Lookup, ForgetOverrides, RemoveMember
  <2>2. CASE Permit(r)
    <3>1. extra[r] \subseteq Overrides /\ want[r] \in Roles
      BY <2>2, WorkspacesAssumption DEF Permit, LocalsOK, PlaceOK, Placed
    <3>2. QED
      BY <2>2, <3>1 DEF Permit
  <2>3. CASE AddMember(r)
    BY <2>3 DEF AddMember, PlaceOK, Placed
  <2>4. QED
    BY <2>1, <2>2, <2>3
<1>3. QED
  BY <1>1, <1>2

\* The steps of invitations.
LEMMA InvitationTyped ==
  ASSUME LocalsOK, PlaceOK, TablesOK, NEW r \in Requests, InvitationStep(r)
  PROVE  LocalsOK' /\ PlaceOK' /\ TablesOK'
<1> USE DEF InvitationStep, At, OfSubject, OfFile, Places
<1>1. LocalsOK' /\ PlaceOK'
  <2>1. CASE Done(r)
    BY <2>1, DoneTyped
  <2>2. ASSUME NEW place \in {"claim", "tell"}, Goto(r, place), Ready(r, place)
        PROVE  LocalsOK' /\ PlaceOK'
    BY <2>2, GotoTyped
  <2>3. CASE FindInvitation(r) \/ ClaimInvitation(r)
    BY <2>1, <2>2, <2>3 DEF FindInvitation, ClaimInvitation, PlaceOK, Placed, Ready
  <2>4. CASE CreateInvitation(r) \/ CreateSubjectInvitation(r) \/ TellAccepted(r)
    BY <2>1, <2>4 DEF CreateInvitation, CreateSubjectInvitation, TellAccepted
  <2>5. QED
    BY <2>3, <2>4
<1>2. TablesOK'
  BY DEF TablesOK, CreateInvitation, CreateSubjectInvitation, FindInvitation, ClaimInvitation,
         TellAccepted, Joined, Roles
<1>3. QED
  BY <1>1, <1>2

\* The steps of files.
LEMMA FileTyped ==
  ASSUME LocalsOK, PlaceOK, StorageOK, NEW r \in Requests, FileStep(r)
  PROVE  LocalsOK' /\ PlaceOK' /\ StorageOK'
<1> USE DEF FileStep, At, OfSubject, OfFile, Places
<1>0. file[r] \in Files
  BY DEF FindOwner, SaveRow, Index, Put, FindRun, Unstore, EraseRun, PlaceOK, Placed
<1>1. LocalsOK' /\ PlaceOK'
  <2>1. CASE Done(r)
    BY <2>1, DoneTyped
  <2>2. ASSUME NEW place \in {"index", "unstore", "erase"}, Goto(r, place)
        PROVE  LocalsOK' /\ PlaceOK'
    BY <1>0, <2>2, GotoTyped DEF Ready
  <2>3. CASE FindOwner(r) \/ FindRun(r) \/ Unstore(r)
    BY <2>1, <2>2, <2>3 DEF FindOwner, FindRun, Unstore
  <2>4. CASE SaveRow(r) \/ Put(r) \/ EraseRun(r)
    BY <2>1, <2>4 DEF SaveRow, Put, EraseRun
  <2>5. CASE Index(r)
    <3>1. LocalsOK'
      BY <2>5 DEF Index, LocalsOK
    <3>2. PlaceOK'
      BY <2>5, <1>0 DEF Index, LocalsOK, PlaceOK, Placed
    <3>3. QED
      BY <3>1, <3>2
  <2>6. QED
    BY <2>3, <2>4, <2>5
<1>2. StorageOK'
  <2>1. CASE FindOwner(r) \/ SaveRow(r) \/ Index(r) \/ FindRun(r)
    BY <1>0, <2>1 DEF StorageOK, FindOwner, SaveRow, Index, FindRun
  <2>2. CASE Put(r)
    BY <1>0, <2>2 DEF StorageOK, Put
  <2>3. CASE Unstore(r)
    BY <1>0, <2>3 DEF StorageOK, Unstore, OneLess
  <2>4. CASE EraseRun(r)
    BY <1>0, <2>4 DEF StorageOK, EraseRun
  <2>5. QED
    BY <2>1, <2>2, <2>3, <2>4
<1>3. QED
  BY <1>1, <1>2

\* The steps of the deletion of the workspace.
LEMMA DeletionTyped ==
  ASSUME TypeInv, NEW r \in Requests, DeletionStep(r)
  PROVE  LocalsOK' /\ PlaceOK' /\ TablesOK' /\ StorageOK'
<1> USE DEF DeletionStep, At, OfSubject, OfFile, Places
<1>0. LocalsOK /\ PlaceOK /\ TablesOK /\ StorageOK
  BY TypeParts DEF TypeInv
<1>1. CASE MarkDeleting(r)
  <2>1. CASE Done(r)
    BY <1>0, <1>1, <2>1, DoneTyped DEF MarkDeleting, TablesOK, StorageOK
  <2>2. CASE Goto(r, "list")
    <3>1. LocalsOK' /\ PlaceOK'
      BY <1>0, <2>2, GotoTyped DEF Ready
    <3>2. QED
      BY <1>0, <1>1, <3>1 DEF MarkDeleting, TablesOK, StorageOK
  <2>3. QED
    BY <1>1, <2>1, <2>2 DEF MarkDeleting
<1>2. CASE ListRuns(r)
  <2>1. LocalsOK'
    BY <1>0, <1>2 DEF ListRuns, LocalsOK
  <2>2. PlaceOK'
    BY <1>0, <1>2 DEF ListRuns, LocalsOK, PlaceOK, Placed
  <2>3. QED
    BY <1>0, <1>2, <2>1, <2>2 DEF ListRuns, TablesOK, StorageOK
<1>3. ASSUME NEW j \in Runs, PurgeOne(r, j) PROVE LocalsOK' /\ PlaceOK' /\ TablesOK' /\ StorageOK'
  <2>1. LocalsOK'
    BY <1>0, <1>3 DEF PurgeOne, LocalsOK
  <2>2. PlaceOK'
    BY <1>0, <1>3 DEF PurgeOne, PlaceOK, Placed
  <2>3. Artifact(j) \in Files
    BY DEF Files
  <2>4. QED
    BY <1>0, <1>3, <2>1, <2>2, <2>3 DEF PurgeOne, OneLess, TablesOK, StorageOK
<1>4. CASE DropWorkspace(r)
  <2>1. LocalsOK' /\ PlaceOK'
    BY <1>0, <1>4, DoneTyped DEF DropWorkspace
  <2>2. TablesOK' /\ StorageOK'
    BY <1>0, <1>4 DEF DropWorkspace, TablesOK, StorageOK
  <2>3. QED
    BY <2>1, <2>2
<1>5. QED
  BY <1>1, <1>2, <1>3, <1>4

\* What a step leaves alone keeps its types.
LEMMA FramesTyped ==
  /\ LocalsOK /\ PlaceOK /\ UNCHANGED <<pc, locals>> => LocalsOK' /\ PlaceOK'
  /\ TablesOK /\ UNCHANGED <<tables, accepted>> => TablesOK'
  /\ StorageOK /\ UNCHANGED storage => StorageOK'
<1>1. LocalsOK /\ PlaceOK /\ UNCHANGED <<pc, locals>> => LocalsOK' /\ PlaceOK'
  BY DEF LocalsOK, PlaceOK, Placed
<1>2. TablesOK /\ UNCHANGED <<tables, accepted>> => TablesOK'
  BY DEF TablesOK
<1>3. StorageOK /\ UNCHANGED storage => StorageOK'
  BY DEF StorageOK
<1>4. QED
  BY <1>1, <1>2, <1>3

\* Every step keeps the types.
LEMMA TypesKept == TypeInv /\ [Next]_vars => TypeInv'
<1> SUFFICES ASSUME TypeInv, [Next]_vars PROVE TypeInv'
  OBVIOUS
<1>0. LocalsOK /\ PlaceOK /\ TablesOK /\ StorageOK /\ BoundsOK
  BY TypeParts DEF TypeInv
<1> DEFINE Typed == LocalsOK' /\ PlaceOK' /\ TablesOK' /\ StorageOK' /\ begun' \in 0 .. MaxRequests
<1> USE DEF BoundsOK
<1>1. ASSUME NEW r \in Requests, BeginAny(r) \/ BeginSave(r) PROVE Typed
  <2>1. UNCHANGED <<tables, storage, accepted>>
    BY <1>1 DEF BeginAny, BeginSave, Begin
  <2>2. QED
    BY <1>0, <1>1, <2>1, BeginTyped DEF TablesOK, StorageOK
<1>2. ASSUME NEW r \in Requests, Authorize(r) \/ Abandon(r) PROVE Typed
  <2>1. UNCHANGED <<tables, storage, begun, accepted>>
    BY <1>2 DEF Authorize, Abandon
  <2>2. LocalsOK' /\ PlaceOK'
    BY <1>0, <1>2, AuthorizeTyped, DoneTyped DEF Abandon
  <2>3. QED
    BY <1>0, <2>1, <2>2 DEF TablesOK, StorageOK
<1>3. ASSUME NEW r \in Requests, MemberStep(r) PROVE Typed
  <2>1. UNCHANGED <<storage, begun>>
    BY <1>3 DEF MemberStep, ReadMember, Permit, Lookup, AddMember, RemoveMember, ForgetOverrides
  <2>2. QED
    BY <1>0, <1>3, <2>1, MemberTyped DEF StorageOK
<1>4. ASSUME NEW r \in Requests, InvitationStep(r) PROVE Typed
  <2>1. UNCHANGED <<storage, begun>>
    BY <1>4 DEF InvitationStep, CreateInvitation, CreateSubjectInvitation, FindInvitation, ClaimInvitation, TellAccepted
  <2>2. QED
    BY <1>0, <1>4, <2>1, InvitationTyped DEF StorageOK
<1>5. ASSUME NEW r \in Requests, FileStep(r) PROVE Typed
  <2>1. UNCHANGED <<tables, begun, accepted>>
    BY <1>5 DEF FileStep, FindOwner, SaveRow, Index, Put, FindRun, Unstore, EraseRun
  <2>2. QED
    BY <1>0, <1>5, <2>1, FileTyped DEF TablesOK
<1>6. ASSUME NEW r \in Requests, DeletionStep(r) PROVE Typed
  <2>1. UNCHANGED begun
    BY <1>6 DEF DeletionStep, MarkDeleting, ListRuns, PurgeOne, DropWorkspace
  <2>2. QED
    BY <1>0, <1>6, <2>1, DeletionTyped
<1>7. ASSUME NEW s \in Subjects, CreateTeam(s) \/ SignIn(s) PROVE Typed
  <2>1. TablesOK'
    BY <1>0, <1>7 DEF CreateTeam, SignIn, Joined, TablesOK, Roles
  <2>2. QED
    BY <1>0, <1>7, <2>1, FramesTyped DEF CreateTeam, SignIn
<1>8. ASSUME Expire PROVE Typed
  <2>1. TablesOK'
    BY <1>0, <1>8 DEF Expire, TablesOK
  <2>2. QED
    BY <1>0, <1>8, <2>1, FramesTyped DEF Expire
<1>9. ASSUME NEW j \in Runs, Enqueue(j) \/ \E f \in Files : RunnerSave(j, f) PROVE Typed
  <2>1. StorageOK'
    BY <1>0, <1>9 DEF Enqueue, RunnerSave, StorageOK
  <2>2. QED
    BY <1>0, <1>9, <2>1, FramesTyped DEF Enqueue, RunnerSave
<1>10. ASSUME UNCHANGED vars PROVE Typed
  BY <1>0, <1>10, FramesTyped DEF vars
<1> HIDE DEF Typed
<1>11. Typed
  BY <1>1, <1>2, <1>3, <1>4, <1>5, <1>6, <1>7, <1>8, <1>9, <1>10 DEF Next, Step
<1>12. BoundsOK'
  BY <1>0, <1>11 DEF Typed, Next, vars
<1>13. TypeOK'
  <2>1. TypeOK' <=> LocalsOK' /\ TablesOK' /\ StorageOK' /\ BoundsOK'
    BY TypeParts, PTL
  <2>2. QED
    BY <1>11, <1>12, <2>1 DEF Typed
<1>14. QED
  BY <1>11, <1>13 DEF Typed, TypeInv

-----------------------------------------------------------------------------
(* What the requests of a workspace that is gone leave behind, and the     *)
(* invariants the safety properties need.                                  *)

\* A workspace that is gone has no members, invitations or runs.
EmptyOK ==
    team = "gone" =>
        /\ \A s \in Subjects : /\ role[s] = "none" /\ overrides[s] = {}
                               /\ email[s] = "none" /\ invited[s] = "none"
        /\ \A j \in Runs : run[j] # "present"

\* A request that has claimed a token does not claim it again: the token is not
\* open, and the claim asks for an open one in the transaction that marks it.
ClaimOK ==
    \A s \in Subjects : email[s] \in Requests => ~(pc[email[s]] = "claim" /\ who[email[s]] = s)

\* A token that was answered with "accepted" bears the mark of a request that has
\* been answered, until the workspace is gone.
ToldOK ==
    \A s \in Subjects :
        \/ accepted[s] = 0
        \/ /\ accepted[s] = 1
           /\ \/ team = "gone"
              \/ email[s] \in Requests /\ ~(pc[email[s]] = "tell" /\ who[email[s]] = s)

\* A run's file is found by its run, or is not there, or has escaped.
Owned(f) == f \in escaped \/ (stored[f] = 0 /\ f \notin rows /\ Writing(f) = {})
FilesOK ==
    /\ \A j \in Runs : run[j] # "present" => Owned(Artifact(j))
    /\ \A f \in Files : stored[f] <= 1 \/ f \in escaped
    /\ ~external => (\A f \in Files : stored[f] = 0) /\ \A r \in Requests : pc[r] # "put"

\* Once the workspace is marked, only saves that had passed their check write; and a
\* purge has deleted the files of the runs it is done with.
PurgeOK ==
    /\ \A r \in Requests :
          /\ pc[r] \in {"list", "purge"} => team \in {"deleting", "gone"}
          /\ pc[r] \in {"index", "put"} /\ team # "live" => file[r] \in escaped
          /\ pc[r] = "purge" /\ external =>
                \A j \in Runs : run[j] = "present" /\ j \notin left[r] =>
                                    stored[Artifact(j)] = 0 \/ Artifact(j) \in escaped

WorkspaceInv == TypeInv /\ AlwaysAnAdmin /\ EmptyOK /\ ClaimOK /\ ToldOK /\ FilesOK /\ PurgeOK

\* What the steps of a request leave alone, by their kind.
LEMMA StepFrames ==
  ASSUME NEW r \in Requests
  PROVE  /\ BeginAny(r) \/ BeginSave(r) \/ Authorize(r) \/ Abandon(r)
              => UNCHANGED <<tables, storage, accepted>>
         /\ MemberStep(r) => UNCHANGED <<team, email, invited, storage, accepted>>
         /\ InvitationStep(r) => UNCHANGED <<team, overrides, storage>>
         /\ FileStep(r) => UNCHANGED <<tables, accepted>>
         /\ MarkDeleting(r) => UNCHANGED <<role, overrides, email, invited, run, stored, rows, accepted>>
         /\ ListRuns(r) => UNCHANGED <<tables, storage, accepted>>
         /\ \A j \in Runs : PurgeOne(r, j) => UNCHANGED <<tables, run, rows, escaped, accepted>>
         /\ DropWorkspace(r) => UNCHANGED <<stored, escaped, accepted>>
<1>1. BeginAny(r) \/ BeginSave(r) \/ Authorize(r) \/ Abandon(r) => UNCHANGED <<tables, storage, accepted>>
  BY DEF BeginAny, BeginSave, Begin, Authorize, Abandon
<1>2. MemberStep(r) => UNCHANGED <<team, email, invited, storage, accepted>>
  BY DEF MemberStep, ReadMember, Permit, Lookup, AddMember, RemoveMember, ForgetOverrides
<1>3. InvitationStep(r) => UNCHANGED <<team, overrides, storage>>
  BY DEF InvitationStep, CreateInvitation, CreateSubjectInvitation, FindInvitation, ClaimInvitation,
         TellAccepted
<1>4. FileStep(r) => UNCHANGED <<tables, accepted>>
  BY DEF FileStep, FindOwner, SaveRow, Index, Put, FindRun, Unstore, EraseRun
<1>5. QED
  BY <1>1, <1>2, <1>3, <1>4 DEF MarkDeleting, ListRuns, PurgeOne, DropWorkspace

\* How every request but the one that steps stands where it stood.
LEMMA OthersStay ==
  ASSUME LocalsOK, NEW r \in Requests, NEW q \in Requests \ {r},
         \/ BeginAny(r) \/ BeginSave(r) \/ Authorize(r) \/ Abandon(r)
         \/ MemberStep(r) \/ InvitationStep(r) \/ FileStep(r) \/ DeletionStep(r)
  PROVE  pc'[q] = pc[q] /\ who'[q] = who[q] /\ file'[q] = file[q] /\ left'[q] = left[q]
<1> USE DEF LocalsOK
<1>1. CASE Done(r)
  BY <1>1 DEF Done
<1>2. CASE \E place : Goto(r, place)
  BY <1>2 DEF Goto
<1>3. CASE BeginAny(r) \/ BeginSave(r)
  BY <1>3 DEF BeginAny, BeginSave, Begin
<1>4. CASE Authorize(r) \/ Abandon(r)
  BY <1>1, <1>2, <1>4 DEF Authorize, Abandon
<1>5. CASE MemberStep(r)
  BY <1>1, <1>2, <1>5 DEF MemberStep, ReadMember, Permit, Lookup, AddMember, RemoveMember, ForgetOverrides
<1>6. CASE InvitationStep(r)
  BY <1>1, <1>2, <1>6 DEF InvitationStep, CreateInvitation, CreateSubjectInvitation, FindInvitation,
                          ClaimInvitation, TellAccepted
<1>7. CASE FileStep(r)
  <2>1. CASE Index(r)
    BY <2>1 DEF Index
  <2>2. QED
    BY <1>1, <1>2, <1>7, <2>1 DEF FileStep, FindOwner, SaveRow, Put, FindRun, Unstore, EraseRun
<1>8. CASE DeletionStep(r)
  <2>1. CASE ListRuns(r) \/ \E j \in Runs : PurgeOne(r, j)
    BY <2>1 DEF ListRuns, PurgeOne
  <2>2. QED
    BY <1>1, <1>2, <1>8, <2>1 DEF DeletionStep, MarkDeleting, DropWorkspace
<1>9. QED
  BY <1>3, <1>4, <1>5, <1>6, <1>7, <1>8

-----------------------------------------------------------------------------
(* Administrators and members.                                             *)

\* Whoever may lose the role of an administrator is not the last one.
LEMMA AnotherAdmin ==
  ASSUME NEW s \in Subjects, MayLose(s), Admins # {}
  PROVE  \E t \in Admins : t # s
<1>1. CASE role[s] # "admin"
  BY <1>1 DEF Admins
<1>2. ASSUME Cardinality(Admins) > 1, Admins \subseteq {s} PROVE FALSE
  <2>1. Admins = {s}
    BY <1>2
  <2>2. Cardinality(Admins) = 1
    BY <2>1, FS_Singleton
  <2>3. QED
    BY <1>2, <2>2
<1>3. CASE Cardinality(Admins) > 1
  BY <1>2, <1>3
<1>4. QED
  BY <1>1, <1>3 DEF MayLose

\* A workspace keeps an administrator.
LEMMA AdminKept == WorkspaceInv /\ [Next]_vars => AlwaysAnAdmin'
<1> SUFFICES ASSUME WorkspaceInv, [Next]_vars, Exists' PROVE \E t \in Subjects : role'[t] = "admin"
  BY DEF AlwaysAnAdmin, Admins
<1>0. /\ LocalsOK /\ PlaceOK /\ TablesOK /\ role \in [Subjects -> Roles \cup {"none"}]
      /\ Exists => \E t \in Subjects : role[t] = "admin"
  BY TypeParts DEF WorkspaceInv, TypeInv, AlwaysAnAdmin, Admins, TablesOK
<1> DEFINE Goal == \E t \in Subjects : role'[t] = "admin"
<1>1. ASSUME UNCHANGED role, team' = team \/ (team # "none" /\ team # "gone") PROVE Goal
  BY <1>0, <1>1 DEF Exists, TablesOK
<1>2. ASSUME NEW r \in Requests, MemberStep(r) PROVE Goal
  <2>1. team' = team /\ Exists
    BY <1>2, StepFrames DEF Exists
  <2>2. PICK a \in Subjects : role[a] = "admin"
    BY <1>0, <2>1
  <2>3. CASE Permit(r) \/ RemoveMember(r)
    <3>1. who[r] \in Subjects /\ (Permit(r) => want[r] \in Roles)
      BY <1>0, <2>3 DEF Permit, RemoveMember, At, OfSubject, PlaceOK, Placed
    <3>2. CASE role'[who[r]] = "admin"
      BY <3>1, <3>2
    <3>3. CASE MayLose(who[r]) /\ \A t \in Subjects : t # who[r] => role'[t] = role[t]
      <4>1. \E t \in Admins : t # who[r]
        BY <2>2, <3>1, <3>3, AnotherAdmin DEF Admins
      <4>2. QED
        BY <3>3, <4>1 DEF Admins
    <3>4. CASE UNCHANGED role
      BY <2>2, <3>4
    <3>5. QED
      BY <1>0, <2>3, <3>1, <3>2, <3>3, <3>4 DEF Permit, RemoveMember, MayLose
  <2>4. CASE AddMember(r)
    BY <1>0, <2>2, <2>4 DEF AddMember
  <2>5. CASE ReadMember(r) \/ Lookup(r) \/ ForgetOverrides(r)
    BY <2>2, <2>5 DEF ReadMember, Lookup, ForgetOverrides
  <2>6. QED
    BY <1>2, <2>3, <2>4, <2>5 DEF MemberStep
<1>3. ASSUME NEW r \in Requests, InvitationStep(r) PROVE Goal
  <2>1. team' = team
    BY <1>3, StepFrames
  <2>2. \A t \in Subjects : role[t] = "admin" => role'[t] = "admin"
    BY <1>0, <1>3 DEF InvitationStep, CreateInvitation, CreateSubjectInvitation, FindInvitation,
                      ClaimInvitation, TellAccepted, Joined
  <2>3. QED
    BY <1>0, <2>1, <2>2 DEF Exists
<1>4. ASSUME NEW r \in Requests, DeletionStep(r) PROVE Goal
  <2>1. CASE MarkDeleting(r)
    BY <1>0, <2>1 DEF MarkDeleting, Exists
  <2>2. CASE DropWorkspace(r)
    BY <1>1, <2>2 DEF DropWorkspace, Exists
  <2>3. QED
    BY <1>0, <1>4, <2>1, <2>2, StepFrames DEF DeletionStep, Exists
<1>5. ASSUME NEW s \in Subjects, CreateTeam(s) \/ SignIn(s) PROVE Goal
  BY <1>0, <1>5 DEF CreateTeam, SignIn, Joined, Exists
<1>6. ASSUME NEW r \in Requests, BeginAny(r) \/ BeginSave(r) \/ Authorize(r) \/ Abandon(r) \/ FileStep(r)
      PROVE  Goal
  <2>1. UNCHANGED <<team, role>>
    BY <1>6, StepFrames
  <2>2. QED
    BY <1>1, <2>1
<1>7. ASSUME Expire \/ (\E j \in Runs : Enqueue(j) \/ \E f \in Files : RunnerSave(j, f)) \/ UNCHANGED vars
      PROVE  Goal
  <2>1. UNCHANGED <<team, role>>
    BY <1>7 DEF Expire, Enqueue, RunnerSave, vars
  <2>2. QED
    BY <1>1, <2>1
<1>8. QED
  BY <1>2, <1>3, <1>4, <1>5, <1>6, <1>7, Zenon DEF Next, Step

\* A workspace that is gone stays empty.
LEMMA EmptyKept == WorkspaceInv /\ [Next]_vars => EmptyOK'
<1> SUFFICES ASSUME WorkspaceInv, [Next]_vars, team' = "gone"
             PROVE  /\ \A s \in Subjects : /\ role'[s] = "none" /\ overrides'[s] = {}
                                           /\ email'[s] = "none" /\ invited'[s] = "none"
                    /\ \A j \in Runs : run'[j] # "present"
  BY DEF EmptyOK
<1>0. /\ LocalsOK /\ PlaceOK /\ TablesOK /\ StorageOK
      /\ team = "gone" => /\ \A s \in Subjects : /\ role[s] = "none" /\ overrides[s] = {}
                                                 /\ email[s] = "none" /\ invited[s] = "none"
                          /\ \A j \in Runs : run[j] # "present"
  BY TypeParts DEF WorkspaceInv, TypeInv, EmptyOK
<1> DEFINE Goal == /\ \A s \in Subjects : /\ role'[s] = "none" /\ overrides'[s] = {}
                                          /\ email'[s] = "none" /\ invited'[s] = "none"
                   /\ \A j \in Runs : run'[j] # "present"
<1>1. ASSUME UNCHANGED <<role, overrides, email, invited, run>>, team = "gone" PROVE Goal
  BY <1>0, <1>1
<1>2. ASSUME NEW r \in Requests, MemberStep(r) PROVE Goal
  <2>1. team = "gone" /\ UNCHANGED <<email, invited, run>>
    BY <1>2, StepFrames
  <2>2. \A s \in Subjects : role'[s] = "none" /\ overrides'[s] = {}
    <3>1. CASE ReadMember(r) \/ Lookup(r)
      BY <1>0, <2>1, <3>1 DEF ReadMember, Lookup
    <3>2. CASE Permit(r)
      <4>1. who[r] \in Subjects /\ want[r] \in Roles
        BY <1>0, <3>2 DEF Permit, At, OfSubject, PlaceOK, Placed
      <4>2. QED
        BY <1>0, <2>1, <3>2, <4>1 DEF Permit, TablesOK, Roles
    <3>3. CASE AddMember(r)
      BY <1>0, <2>1, <3>3 DEF AddMember, Exists
    <3>4. CASE RemoveMember(r) \/ ForgetOverrides(r)
      BY <1>0, <2>1, <3>4 DEF RemoveMember, ForgetOverrides, TablesOK
    <3>5. QED
      BY <1>2, <3>1, <3>2, <3>3, <3>4 DEF MemberStep
  <2>3. QED
    BY <1>0, <2>1, <2>2
<1>3. ASSUME NEW r \in Requests, InvitationStep(r) PROVE Goal
  <2>1. team = "gone" /\ UNCHANGED <<overrides, run>>
    BY <1>3, StepFrames
  <2>2. ClaimInvitation(r) => who[r] \in Subjects
    BY <1>0 DEF ClaimInvitation, At, OfSubject, PlaceOK, Placed
  <2>3. UNCHANGED <<role, email, invited>>
    BY <1>0, <1>3, <2>1, <2>2 DEF InvitationStep, CreateInvitation, CreateSubjectInvitation, FindInvitation,
                           ClaimInvitation, TellAccepted, Exists
  <2>4. QED
    BY <1>1, <2>1, <2>3
<1>4. ASSUME NEW r \in Requests, DeletionStep(r) PROVE Goal
  <2>1. CASE MarkDeleting(r)
    BY <1>0, <2>1 DEF MarkDeleting
  <2>2. CASE DropWorkspace(r)
    <3>1. CASE Exists
      BY <1>0, <2>2, <3>1 DEF DropWorkspace, StorageOK
    <3>2. CASE ~Exists
      BY <1>1, <2>2, <3>2 DEF DropWorkspace
    <3>3. QED
      BY <3>1, <3>2
  <2>3. CASE ListRuns(r) \/ \E j \in Runs : PurgeOne(r, j)
    <3>1. UNCHANGED <<team, role, overrides, email, invited, run>>
      BY <2>3, StepFrames
    <3>2. QED
      BY <1>1, <3>1
  <2>4. QED
    BY <1>4, <2>1, <2>2, <2>3 DEF DeletionStep
<1>5. ASSUME NEW s \in Subjects, CreateTeam(s) \/ SignIn(s) PROVE Goal
  BY <1>0, <1>5 DEF CreateTeam, SignIn
<1>6. ASSUME NEW r \in Requests, BeginAny(r) \/ BeginSave(r) \/ Authorize(r) \/ Abandon(r)
      PROVE  Goal
  <2>1. UNCHANGED <<team, role, overrides, email, invited, run>>
    BY <1>6, StepFrames
  <2>2. QED
    BY <1>1, <2>1
<1>7. ASSUME NEW r \in Requests, FileStep(r) PROVE Goal
  <2>1. UNCHANGED <<team, role, overrides, email, invited>>
    BY <1>7, StepFrames
  <2>2. \A j \in Runs : run'[j] = run[j] \/ run'[j] = "gone"
    BY <1>0, <1>7 DEF FileStep, FindOwner, SaveRow, Index, Put, FindRun, Unstore, EraseRun, StorageOK
  <2>3. QED
    BY <1>0, <2>1, <2>2
<1>8. ASSUME Expire \/ (\E j \in Runs : Enqueue(j) \/ \E f \in Files : RunnerSave(j, f)) \/ UNCHANGED vars
      PROVE  Goal
  <2>1. CASE Expire
    BY <1>0, <2>1 DEF Expire
  <2>2. CASE \E j \in Runs : Enqueue(j) \/ \E f \in Files : RunnerSave(j, f)
    BY <1>0, <2>2 DEF Enqueue, RunnerSave
  <2>3. CASE UNCHANGED vars
    BY <1>1, <2>3 DEF vars
  <2>4. QED
    BY <1>8, <2>1, <2>2, <2>3
<1>9. QED
  BY <1>2, <1>3, <1>4, <1>5, <1>6, <1>7, <1>8, Zenon DEF Next, Step

-----------------------------------------------------------------------------
(* Tokens.                                                                 *)

\* The steps of a request, and those of the rest.
RequestStep(r) ==
    \/ BeginAny(r) \/ BeginSave(r) \/ Authorize(r) \/ Abandon(r)
    \/ MemberStep(r) \/ InvitationStep(r) \/ FileStep(r) \/ DeletionStep(r)
OtherStep ==
    \/ \E s \in Subjects : CreateTeam(s) \/ SignIn(s)
    \/ Expire
    \/ \E j \in Runs : Enqueue(j) \/ \E f \in Files : RunnerSave(j, f)

\* Only a request that finds an open token goes to its claim, and only from the
\* claim does one go on to tell.
LEMMA WaysToClaim ==
  ASSUME LocalsOK, PlaceOK, NEW r \in Requests, RequestStep(r)
  PROVE  /\ pc'[r] = "claim" => email[who[r]] = "open" /\ who' = who
         /\ pc'[r] = "tell" => ClaimInvitation(r) /\ who' = who
<1> USE DEF LocalsOK, At
<1> DEFINE Way == /\ pc'[r] = "claim" => email[who[r]] = "open" /\ who' = who
                  /\ pc'[r] = "tell" => ClaimInvitation(r) /\ who' = who
<1>1. ASSUME Done(r) PROVE Way
  BY <1>1 DEF Done
<1>2. ASSUME NEW place \in Places \ {"claim", "tell"}, Goto(r, place) PROVE Way
  BY <1>2 DEF Goto
<1>3. ASSUME BeginAny(r) \/ BeginSave(r) PROVE Way
  <2>1. pc'[r] \in {FirstStep[k] : k \in DOMAIN FirstStep}
    BY <1>3 DEF BeginAny, BeginSave, Begin, FirstStep
  <2>2. QED
    BY <2>1 DEF FirstStep
<1>4. ASSUME Authorize(r) \/ Abandon(r) PROVE Way
  <2>1. Authorize(r) => NextStep[kind[r]] \in Places \ {"claim", "tell"}
    BY DEF Authorize, PlaceOK, Placed, Checked, NextStep, Places
  <2>2. QED
    BY <1>1, <1>2, <1>4, <2>1 DEF Authorize, Abandon
<1>5. ASSUME MemberStep(r) PROVE Way
  <2>1. CASE \/ Done(r)
             \/ \E place \in Places \ {"claim", "tell"} : Goto(r, place)
    BY <1>1, <1>2, <2>1
  <2>2. QED
    BY <1>5, <2>1 DEF MemberStep, ReadMember, Permit, Lookup, AddMember, RemoveMember, ForgetOverrides, Places
<1>6. ASSUME InvitationStep(r) PROVE Way
  <2>1. CASE FindInvitation(r) \/ ClaimInvitation(r)
    BY <1>1, <2>1 DEF FindInvitation, ClaimInvitation, Goto
  <2>2. QED
    BY <1>1, <1>6, <2>1 DEF InvitationStep, CreateInvitation, CreateSubjectInvitation, TellAccepted
<1>7. ASSUME FileStep(r) PROVE Way
  <2>1. CASE \/ Done(r)
             \/ \E place \in Places \ {"claim", "tell"} : Goto(r, place)
    BY <1>1, <1>2, <2>1
  <2>2. CASE Index(r)
    BY <2>2 DEF Index
  <2>3. QED
    BY <1>7, <2>1, <2>2 DEF FileStep, FindOwner, SaveRow, Put, FindRun, Unstore, EraseRun, Places
<1>8. ASSUME DeletionStep(r) PROVE Way
  <2>1. CASE \/ Done(r)
             \/ \E place \in Places \ {"claim", "tell"} : Goto(r, place)
    BY <1>1, <1>2, <2>1
  <2>2. CASE ListRuns(r) \/ \E j \in Runs : PurgeOne(r, j)
    BY <2>2 DEF ListRuns, PurgeOne
  <2>3. QED
    BY <1>8, <2>1, <2>2 DEF DeletionStep, MarkDeleting, DropWorkspace, Places
<1> HIDE DEF Way
<1>9. Way
  BY <1>3, <1>4, <1>5, <1>6, <1>7, <1>8 DEF RequestStep
<1>10. QED
  BY <1>9 DEF Way

\* How a token may change: it is created where there is none, claimed when it is
\* open, and none is left when the workspace goes.
LEMMA WaysOfTokens ==
  ASSUME LocalsOK, TablesOK, NEW r \in Requests, RequestStep(r), NEW s \in Subjects, email'[s] # email[s]
  PROVE  \/ CreateInvitation(r) /\ email[s] = "none" /\ email'[s] = "open" /\ Exists
         \/ ClaimInvitation(r) /\ email[s] = "open" /\ email'[s] = r /\ who[r] = s
         \/ DropWorkspace(r) /\ team' = "gone" /\ email'[s] = "none"
<1>1. InvitationStep(r) \/ DropWorkspace(r)
  BY StepFrames DEF RequestStep, DeletionStep
<1>2. QED
  BY <1>1 DEF InvitationStep, CreateInvitation, CreateSubjectInvitation, FindInvitation, ClaimInvitation,
              TellAccepted, DropWorkspace, TablesOK

\* No request is about to claim a token that bears its mark.
LEMMA ClaimKept == WorkspaceInv /\ [Next]_vars => ClaimOK'
<1> SUFFICES ASSUME WorkspaceInv, [Next]_vars, NEW s \in Subjects, email'[s] \in Requests,
                    pc'[email'[s]] = "claim", who'[email'[s]] = s
             PROVE  FALSE
  BY DEF ClaimOK
<1>0. LocalsOK /\ PlaceOK /\ TablesOK /\ ClaimOK
  BY TypeParts DEF WorkspaceInv, TypeInv
<1>1. ASSUME NEW r \in Requests, RequestStep(r) PROVE FALSE
  <2>1. CASE email'[s] = email[s] /\ email[s] = r
    <3>1. email[s] = "open"
      BY <1>0, <1>1, <2>1, WaysToClaim
    <3>2. QED
      BY <2>1, <3>1, WorkspacesAssumption
  <2>2. CASE email'[s] = email[s] /\ email[s] # r
    BY <1>0, <1>1, <2>2, OthersStay DEF ClaimOK, RequestStep
  <2>3. CASE email'[s] # email[s]
    <3>1. ClaimInvitation(r) /\ email'[s] = r
      BY <1>0, <1>1, <2>3, WaysOfTokens, WorkspacesAssumption
    <3>2. QED
      BY <1>0, <3>1 DEF ClaimInvitation, Goto, LocalsOK
  <2>4. QED
    BY <2>1, <2>2, <2>3
<1>2. ASSUME OtherStep \/ UNCHANGED vars PROVE FALSE
  <2>1. UNCHANGED <<pc, who>> /\ email'[s] = email[s]
    BY <1>0, <1>2, WorkspacesAssumption DEF OtherStep, CreateTeam, SignIn, Expire, Enqueue, RunnerSave, vars, TablesOK
  <2>2. QED
    BY <1>0, <2>1 DEF ClaimOK
<1>3. QED
  BY <1>1, <1>2 DEF Next, Step, RequestStep, OtherStep

\* A token is answered with "accepted" to one request.
LEMMA ToldKept == WorkspaceInv /\ [Next]_vars => ToldOK'
<1> DEFINE Told(s) == \/ accepted[s] = 0
                      \/ /\ accepted[s] = 1
                         /\ \/ team = "gone"
                            \/ email[s] \in Requests /\ ~(pc[email[s]] = "tell" /\ who[email[s]] = s)
<1> SUFFICES ASSUME WorkspaceInv, [Next]_vars, NEW s \in Subjects PROVE Told(s)'
  BY DEF ToldOK
<1>0. /\ LocalsOK /\ PlaceOK /\ TablesOK /\ ClaimOK /\ Told(s)
      /\ team = "gone" => email[s] = "none"
  BY TypeParts DEF WorkspaceInv, TypeInv, ToldOK, EmptyOK
<1>1. ASSUME NEW r \in Requests, RequestStep(r) PROVE Told(s)'
  <2>1. ASSUME accepted'[s] # accepted[s] PROVE Told(s)'
    <3>1. TellAccepted(r) /\ who[r] = s /\ email[s] = r /\ accepted'[s] = accepted[s] + 1
      <4>1. InvitationStep(r)
        BY <1>1, <2>1, StepFrames DEF RequestStep, DeletionStep
      <4>2. QED
        BY <1>0, <2>1, <4>1 DEF InvitationStep, CreateInvitation, CreateSubjectInvitation, FindInvitation,
                                 ClaimInvitation, TellAccepted, TablesOK
    <3>2. accepted[s] = 0
      BY <1>0, <3>1, WorkspacesAssumption DEF TellAccepted, At
    <3>3. email'[s] = r /\ pc'[r] = "idle"
      BY <1>0, <3>1 DEF TellAccepted, Done, LocalsOK
    <3>4. QED
      BY <3>1, <3>2, <3>3
  <2>2. ASSUME accepted'[s] = accepted[s], accepted[s] # 0, email'[s] # email[s] PROVE Told(s)'
    BY <1>0, <1>1, <2>2, WaysOfTokens, WorkspacesAssumption DEF Exists
  <2>3. ASSUME accepted'[s] = accepted[s], accepted[s] # 0, email'[s] = email[s] PROVE Told(s)'
    <3>1. CASE team = "gone"
      <4>1. team' = "gone"
        BY <1>1, <3>1, StepFrames DEF RequestStep, DeletionStep, MarkDeleting, DropWorkspace, Exists
      <4>2. QED
        BY <1>0, <2>3, <4>1
    <3>2. CASE email[s] = r /\ pc'[r] = "tell" /\ who'[r] = s
      <4>1. pc[r] = "claim" /\ who[r] = s
        BY <1>0, <1>1, <3>2, WaysToClaim DEF ClaimInvitation, At
      <4>2. QED
        BY <1>0, <3>2, <4>1 DEF ClaimOK
    <3>3. CASE email[s] = r /\ ~(pc'[r] = "tell" /\ who'[r] = s)
      BY <1>0, <2>3, <3>3
    <3>4. CASE email[s] # r
      BY <1>0, <1>1, <2>3, <3>1, <3>4, OthersStay DEF RequestStep
    <3>5. QED
      BY <3>2, <3>3, <3>4
  <2>4. QED
    BY <2>1, <2>2, <2>3
<1>2. ASSUME OtherStep \/ UNCHANGED vars PROVE Told(s)'
  <2>1. /\ UNCHANGED <<pc, who, accepted>> /\ (team' = team \/ team # "gone")
        /\ email'[s] = email[s] \/ email[s] = "open"
    BY <1>0, <1>2 DEF OtherStep, CreateTeam, SignIn, Expire, Enqueue, RunnerSave, vars, TablesOK
  <2>2. QED
    BY <1>0, <2>1, WorkspacesAssumption
<1>3. QED
  BY <1>1, <1>2 DEF Next, Step, RequestStep, OtherStep

-----------------------------------------------------------------------------
(* Files.                                                                  *)

\* The files of two runs are two files.
LEMMA FilesDiffer ==
  /\ \A i, j \in Runs : Artifact(i) = Artifact(j) => i = j
  /\ \A j \in Runs : Artifact(j) \in Files /\ Artifact(j) # TeamCache /\ Artifact(j) # WorkflowCache
  /\ Files \ {WorkflowCache, TeamCache} \subseteq {Artifact(j) : j \in Runs}
BY DEF Artifact, Files, TeamCache, WorkflowCache

\* Where a request is about to write, list or purge.
LEMMA WaysToWrite ==
  ASSUME LocalsOK, PlaceOK, NEW r \in Requests, RequestStep(r)
  PROVE  /\ pc'[r] \in {"index", "put"} => file' = file /\ (FindOwner(r) \/ pc[r] = "index")
         /\ pc'[r] = "put" => external
         /\ pc'[r] \in {"list", "purge"} => \/ MarkDeleting(r) /\ pc'[r] = "list"
                                            \/ ListRuns(r)
                                            \/ \E j \in Runs : PurgeOne(r, j)
<1> USE DEF LocalsOK, At
<1> DEFINE Writes == {"index", "put", "list", "purge"}
           Way == /\ pc'[r] \in {"index", "put"} => file' = file /\ (FindOwner(r) \/ pc[r] = "index")
                  /\ pc'[r] = "put" => external
                  /\ pc'[r] \in {"list", "purge"} => \/ MarkDeleting(r) /\ pc'[r] = "list"
                                                     \/ ListRuns(r)
                                                     \/ \E j \in Runs : PurgeOne(r, j)
<1>1. ASSUME Done(r) PROVE Way
  BY <1>1 DEF Done
<1>2. ASSUME NEW place \in Places \ Writes, Goto(r, place) PROVE Way
  BY <1>2 DEF Goto
<1>3. ASSUME BeginAny(r) \/ BeginSave(r) PROVE Way
  <2>1. pc'[r] \in {FirstStep[k] : k \in DOMAIN FirstStep}
    BY <1>3 DEF BeginAny, BeginSave, Begin, FirstStep
  <2>2. QED
    BY <2>1 DEF FirstStep
<1>4. ASSUME Authorize(r) \/ Abandon(r) PROVE Way
  <2>1. Authorize(r) => NextStep[kind[r]] \in Places \ Writes
    BY DEF Authorize, PlaceOK, Placed, Checked, NextStep, Places
  <2>2. QED
    BY <1>1, <1>2, <1>4, <2>1 DEF Authorize, Abandon
<1>5. ASSUME MemberStep(r) \/ InvitationStep(r) PROVE Way
  <2>1. CASE \/ Done(r)
             \/ \E place \in Places \ Writes : Goto(r, place)
    BY <1>1, <1>2, <2>1
  <2>2. CASE MemberStep(r)
    BY <2>1, <2>2 DEF MemberStep, ReadMember, Permit, Lookup, AddMember, RemoveMember, ForgetOverrides, Places
  <2>3. CASE InvitationStep(r)
    BY <2>1, <2>3 DEF InvitationStep, CreateInvitation, CreateSubjectInvitation, FindInvitation,
                      ClaimInvitation, TellAccepted, Places
  <2>4. QED
    BY <1>5, <2>2, <2>3
<1>6. ASSUME FileStep(r) PROVE Way
  <2>1. CASE FindOwner(r)
    BY <1>1, <2>1 DEF FindOwner, Goto
  <2>2. CASE Index(r)
    BY <2>2 DEF Index
  <2>3. CASE FindRun(r) \/ Unstore(r)
    BY <1>1, <1>2, <2>3 DEF FindRun, Unstore, Places
  <2>4. CASE SaveRow(r) \/ Put(r) \/ EraseRun(r)
    BY <1>1, <2>4 DEF SaveRow, Put, EraseRun
  <2>5. QED
    BY <1>6, <2>1, <2>2, <2>3, <2>4 DEF FileStep
<1>7. ASSUME DeletionStep(r) PROVE Way
  <2>1. CASE MarkDeleting(r)
    BY <1>1, <2>1 DEF MarkDeleting, Goto
  <2>2. CASE DropWorkspace(r)
    BY <1>1, <2>2 DEF DropWorkspace
  <2>3. CASE ListRuns(r) \/ \E j \in Runs : PurgeOne(r, j)
    BY <2>3 DEF ListRuns, PurgeOne
  <2>4. QED
    BY <1>7, <2>1, <2>2, <2>3 DEF DeletionStep
<1> HIDE DEF Way
<1>8. Way
  BY <1>3, <1>4, <1>5, <1>6, <1>7 DEF RequestStep
<1>9. QED
  BY <1>8 DEF Way

\* How a step of a request changes what is stored.
LEMMA WaysOfFiles ==
  ASSUME LocalsOK, PlaceOK, StorageOK, NEW r \in Requests, RequestStep(r), NEW f \in Files
  PROVE  /\ escaped \subseteq escaped'
         /\ stored'[f] <= stored[f] \/ (Put(r) /\ file[r] = f)
         /\ f \in rows' => f \in rows \/ (SaveRow(r) /\ file[r] = f)
         /\ Writing(f)' # {} => Writing(f) # {} \/ (FindOwner(r) /\ file[r] = f)
<1>0. stored[f] \in Nat
  BY DEF StorageOK
<1>1. /\ escaped \subseteq escaped'
      /\ stored'[f] <= stored[f] \/ (Put(r) /\ file[r] = f)
      /\ f \in rows' => f \in rows \/ (SaveRow(r) /\ file[r] = f)
  <2>1. CASE FileStep(r)
    <3>1. CASE FindOwner(r) \/ SaveRow(r) \/ Index(r) \/ FindRun(r)
      BY <1>0, <3>1 DEF FindOwner, SaveRow, Index, FindRun, Done
    <3>2. CASE Put(r)
      BY <1>0, <3>2 DEF Put, Done, StorageOK
    <3>3. CASE Unstore(r) \/ EraseRun(r)
      BY <1>0, <3>3 DEF Unstore, EraseRun, OneLess, StorageOK
    <3>4. QED
      BY <2>1, <3>1, <3>2, <3>3 DEF FileStep
  <2>2. CASE DeletionStep(r)
    BY <1>0, <2>2 DEF DeletionStep, MarkDeleting, ListRuns, PurgeOne, DropWorkspace, OneLess, StorageOK
  <2>3. QED
    BY <1>0, <2>1, <2>2, StepFrames DEF RequestStep
<1>2. ASSUME Writing(f)' # {}, Writing(f) = {} PROVE FindOwner(r) /\ file[r] = f
  <2>1. PICK q \in Requests : file'[q] = f /\ pc'[q] \in {"index", "put"}
    BY <1>2 DEF Writing
  <2>2. q = r
    BY <1>2, <2>1, OthersStay DEF Writing, RequestStep
  <2>3. QED
    BY <1>2, <2>1, <2>2, WaysToWrite DEF Writing
<1>3. QED
  BY <1>1, <1>2

\* Every run's file is found by its run, is not there, or has escaped.
LEMMA FilesKept == WorkspaceInv /\ [Next]_vars => FilesOK'
<1> SUFFICES ASSUME WorkspaceInv, [Next]_vars PROVE FilesOK'
  OBVIOUS
<1>0. /\ LocalsOK /\ PlaceOK /\ TablesOK /\ StorageOK /\ FilesOK /\ PurgeOK
      /\ external' = external
  BY TypeParts DEF WorkspaceInv, TypeInv, Next, vars
<1>a. StorageOK'
  <2>1. TypeInv'
    BY TypesKept DEF WorkspaceInv
  <2>2. TypeOK' <=> LocalsOK' /\ TablesOK' /\ StorageOK' /\ BoundsOK'
    BY TypeParts, PTL
  <2>3. QED
    BY <2>1, <2>2 DEF TypeInv
<1>1. ASSUME NEW r \in Requests, RequestStep(r) PROVE FilesOK'
  <2>1. ASSUME NEW j \in Runs, run'[j] # "present" PROVE Owned(Artifact(j))'
    <3> DEFINE f == Artifact(j)
    <3>0. f \in Files /\ escaped \subseteq escaped' /\ stored[f] \in Nat /\ stored'[f] \in Nat
      <4>1. f \in Files
        BY FilesDiffer
      <4> HIDE DEF f
      <4>2. escaped \subseteq escaped'
        BY <1>0, <1>1, <4>1, WaysOfFiles
      <4>3. stored[f] \in Nat /\ stored'[f] \in Nat
        BY <1>0, <1>a, <4>1 DEF StorageOK
      <4>4. QED
        BY <4>1, <4>2, <4>3
    <3>1. CASE run[j] # "present"
      <4>1. CASE f \in escaped
        BY <3>0, <4>1 DEF Owned
      <4>2. CASE stored[f] = 0 /\ f \notin rows /\ Writing(f) = {}
        <5>1. ~(Put(r) /\ file[r] = f) /\ ~(SaveRow(r) /\ file[r] = f)
          BY <4>2 DEF Put, SaveRow, At, Writing
        <5>2. FindOwner(r) /\ file[r] = f => pc'[r] = "idle"
          BY <1>0, <3>1 DEF FindOwner, Goto, Done, LocalsOK
        <5>3. stored'[f] = 0 /\ f \notin rows'
          BY <1>0, <1>1, <3>0, <4>2, <5>1, WaysOfFiles
        <5>4. Writing(f)' = {}
          <6>1. ASSUME NEW q \in Writing(f)' PROVE q = r
            BY <1>0, <1>1, <4>2, OthersStay DEF Writing, RequestStep
          <6>2. r \notin Writing(f)' \/ ~(FindOwner(r) /\ file[r] = f)
            BY <5>2 DEF Writing
          <6> HIDE DEF f
          <6>3. QED
            BY <1>0, <1>1, <3>0, <4>2, <6>1, <6>2, WaysOfFiles
        <5>5. QED
          BY <5>3, <5>4 DEF Owned
      <4>3. QED
        BY <1>0, <3>1, <4>1, <4>2 DEF FilesOK, Owned
    <3>2. CASE run[j] = "present" /\ f \notin escaped'
      <4>1. EraseRun(r) \/ DropWorkspace(r)
        <5>1. CASE FileStep(r)
          BY <2>1, <3>2, <5>1 DEF FileStep, FindOwner, SaveRow, Index, Put, FindRun, Unstore
        <5>2. CASE DeletionStep(r)
          BY <2>1, <3>2, <5>2, StepFrames DEF DeletionStep
        <5>3. QED
          BY <1>1, <2>1, <3>2, <5>1, <5>2, StepFrames DEF RequestStep
      <4>2. CASE EraseRun(r)
        <5>1. file[r] = f /\ stored'[f] = stored[f] /\ f \notin rows'
          BY <1>0, <2>1, <3>2, <4>2 DEF EraseRun, StorageOK
        <5>2. stored[f] = 0 /\ Writing(f) = {}
          BY <1>0, <3>0, <3>2, <4>2, <5>1 DEF EraseRun
        <5>3. Writing(f)' = {}
          BY <1>0, <1>1, <3>0, <4>2, <5>2, WaysOfFiles DEF EraseRun, FindOwner, At
        <5>4. QED
          BY <5>1, <5>2, <5>3 DEF Owned
      <4>3. CASE DropWorkspace(r)
        <5>1. Exists /\ team = "deleting"
          BY <1>0, <2>1, <3>2, <4>3 DEF DropWorkspace, PurgeOK, At, Exists
        <5>2. stored'[f] = stored[f] /\ f \notin rows' /\ f \notin escaped
          BY <3>2, <4>3, <5>1 DEF DropWorkspace
        <5>3. stored[f] = 0
          BY <1>0, <3>0, <3>2, <4>3, <5>2 DEF DropWorkspace, At, PurgeOK, FilesOK
        <5>4. Writing(f) = {}
          BY <1>0, <5>1, <5>2 DEF PurgeOK, Writing
        <5>5. Writing(f)' = {}
          BY <1>0, <1>1, <3>0, <4>3, <5>4, WaysOfFiles DEF DropWorkspace, FindOwner, At
        <5>6. QED
          BY <5>2, <5>3, <5>5 DEF Owned
      <4>4. QED
        BY <4>1, <4>2, <4>3
    <3>3. QED
      BY <3>1, <3>2 DEF Owned
  <2>2. ASSUME NEW f \in Files PROVE stored'[f] <= 1 \/ f \in escaped'
    <3>1. stored[f] \in Nat /\ (stored[f] <= 1 \/ f \in escaped) /\ escaped \subseteq escaped'
      BY <1>0, <1>1, WaysOfFiles DEF StorageOK, FilesOK
    <3>2. CASE stored'[f] <= stored[f]
      <4>1. stored'[f] \in Nat
        BY <1>a DEF StorageOK
      <4>2. QED
        BY <3>1, <3>2, <4>1
    <3>3. CASE Put(r) /\ file[r] = f
      BY <1>0, <3>1, <3>3 DEF Put, StorageOK
    <3>4. QED
      BY <1>0, <1>1, <3>2, <3>3, WaysOfFiles
  <2>3. ASSUME ~external' PROVE (\A f \in Files : stored'[f] = 0) /\ \A q \in Requests : pc'[q] # "put"
    <3>1. \A q \in Requests : pc'[q] # "put"
      BY <1>0, <1>1, <2>3, WaysToWrite, OthersStay DEF FilesOK, RequestStep
    <3>2. ASSUME NEW f \in Files PROVE stored'[f] = 0
      <4>1. stored[f] = 0 /\ stored'[f] \in Nat
        BY <1>0, <1>a, <2>3 DEF StorageOK, FilesOK
      <4>2. ~Put(r)
        BY <1>0, <2>3 DEF FilesOK, Put, At
      <4>3. QED
        BY <1>0, <1>1, <4>1, <4>2, WaysOfFiles
    <3>3. QED
      BY <3>1, <3>2
  <2>4. QED
    BY <2>1, <2>2, <2>3 DEF FilesOK
<1>2. ASSUME NEW j \in Runs, Enqueue(j) PROVE FilesOK'
  BY <1>0, <1>2 DEF Enqueue, FilesOK, Owned, Writing, StorageOK
<1>3. ASSUME NEW j \in Runs, NEW f \in Files, RunnerSave(j, f) PROVE FilesOK'
  <2>1. \A i \in Runs : run[i] # "present" => Artifact(i) # f
    BY <1>3, FilesDiffer DEF RunnerSave
  <2>2. QED
    BY <1>0, <1>3, <2>1 DEF RunnerSave, FilesOK, Owned, Writing
<1>4. ASSUME Expire \/ (\E s \in Subjects : CreateTeam(s) \/ SignIn(s)) \/ UNCHANGED vars PROVE FilesOK'
  <2>1. UNCHANGED <<storage, pc, file>>
    BY <1>4 DEF Expire, CreateTeam, SignIn, vars
  <2>2. QED
    BY <1>0, <2>1 DEF FilesOK, Owned, Writing
<1>5. QED
  BY <1>1, <1>2, <1>3, <1>4, Zenon DEF Next, Step, RequestStep

\* A purge deletes the files of the runs it has listed, and nothing is added to them.
LEMMA PurgeKept == WorkspaceInv /\ [Next]_vars => PurgeOK'
<1> SUFFICES ASSUME WorkspaceInv, [Next]_vars PROVE PurgeOK'
  OBVIOUS
<1> DEFINE Listed(q) == pc[q] \in {"list", "purge"} => team \in {"deleting", "gone"}
           Writes(q) == pc[q] \in {"index", "put"} /\ team # "live" => file[q] \in escaped
           Purged(q) == pc[q] = "purge" /\ external =>
                           \A j \in Runs : run[j] = "present" /\ j \notin left[q] =>
                                               stored[Artifact(j)] = 0 \/ Artifact(j) \in escaped
           Kept == \A q \in Requests : Listed(q)' /\ Writes(q)' /\ Purged(q)'
<1>0. /\ LocalsOK /\ PlaceOK /\ TablesOK /\ StorageOK /\ FilesOK
      /\ external' = external
      /\ \A q \in Requests : Listed(q) /\ Writes(q) /\ Purged(q)
  BY TypeParts DEF WorkspaceInv, TypeInv, Next, vars, PurgeOK
<1>a. StorageOK'
  <2>1. TypeInv'
    BY TypesKept DEF WorkspaceInv
  <2>2. TypeOK' <=> LocalsOK' /\ TablesOK' /\ StorageOK' /\ BoundsOK'
    BY TypeParts, PTL
  <2>3. QED
    BY <2>1, <2>2 DEF TypeInv
<1>1. ASSUME NEW r \in Requests, RequestStep(r), NEW q \in Requests PROVE Listed(q)' /\ Writes(q)' /\ Purged(q)'
  <2>1. team' # team => \/ MarkDeleting(r) /\ team' = "deleting" /\ pc'[r] = "list"
                        \/ DropWorkspace(r) /\ team' = "gone"
    BY <1>0, <1>1, StepFrames DEF RequestStep, DeletionStep, MarkDeleting, DropWorkspace, Goto, LocalsOK
  <2>2. \A j \in Runs : run'[j] = "present" => run[j] = "present"
    <3>1. CASE FileStep(r)
      BY <1>0, <3>1 DEF FileStep, FindOwner, SaveRow, Index, Put, FindRun, Unstore, EraseRun, StorageOK
    <3>2. CASE DeletionStep(r)
      BY <1>0, <3>2 DEF DeletionStep, MarkDeleting, ListRuns, PurgeOne, DropWorkspace, StorageOK
    <3>3. QED
      BY <1>1, <3>1, <3>2, StepFrames DEF RequestStep
  <2>3. q # r => pc'[q] = pc[q] /\ file'[q] = file[q] /\ left'[q] = left[q]
    BY <1>0, <1>1, OthersStay DEF RequestStep
  <2>4. Listed(q)'
    <3>1. CASE q # r
      BY <1>0, <2>1, <2>3, <3>1
    <3>2. ASSUME q = r, pc'[q] \in {"list", "purge"} PROVE team' \in {"deleting", "gone"}
      <4>1. CASE MarkDeleting(r)
        BY <1>0, <3>2, <4>1 DEF MarkDeleting, Done, LocalsOK
      <4>2. CASE ListRuns(r) \/ \E j \in Runs : PurgeOne(r, j)
        BY <1>0, <4>2 DEF ListRuns, PurgeOne, At
      <4>3. QED
        BY <1>0, <1>1, <3>2, <4>1, <4>2, WaysToWrite
    <3>3. QED
      BY <3>1, <3>2
  <2>5. Writes(q)'
    <3> SUFFICES ASSUME pc'[q] \in {"index", "put"}, team' # "live" PROVE file'[q] \in escaped'
      OBVIOUS
    <3>1. escaped \subseteq escaped'
      <4>1. WorkflowCache \in Files
        BY DEF Files
      <4>2. QED
        BY <1>0, <1>1, <4>1, WaysOfFiles
    <3>2. CASE team = "live"
      <4>1. MarkDeleting(r) /\ q # r
        <5>1. ~DropWorkspace(r)
          BY <1>0, <3>2 DEF DropWorkspace, At
        <5>2. QED
          BY <2>1, <3>2, <5>1
      <4>2. file[q] \in Files /\ q \in Writing(file[q])
        BY <1>0, <2>3, <4>1 DEF Writing, PlaceOK, Placed, OfFile
      <4>3. QED
        BY <1>0, <2>3, <3>2, <4>1, <4>2 DEF MarkDeleting, Exists
    <3>3. CASE team # "live" /\ q # r
      BY <1>0, <2>3, <3>1, <3>3
    <3>4. CASE team # "live" /\ q = r
      <4>1. ~(FindOwner(r) /\ pc'[r] \in {"index", "put"})
        BY <1>0, <3>4 DEF FindOwner, Done, LocalsOK
      <4>2. pc[r] = "index" /\ file'[r] = file[r]
        BY <1>0, <1>1, <3>4, <4>1, WaysToWrite
      <4>3. QED
        BY <1>0, <3>1, <3>4, <4>2
    <3>5. QED
      BY <3>2, <3>3, <3>4
  <2>6. Purged(q)'
    <3> SUFFICES ASSUME pc'[q] = "purge", external, NEW j \in Runs, run'[j] = "present", j \notin left'[q]
                 PROVE  stored'[Artifact(j)] = 0 \/ Artifact(j) \in escaped'
      BY <1>0
    <3> DEFINE f == Artifact(j)
    <3>0. f \in Files /\ run[j] = "present"
      BY <2>2, FilesDiffer
    <3>1. CASE q # r
      <4>1. stored[f] = 0 \/ f \in escaped
        BY <1>0, <2>3, <3>0, <3>1
      <4>2. Put(r) /\ file[r] = f => f \in escaped
        BY <1>0, <2>3, <3>1 DEF Put, At
      <4> HIDE DEF f
      <4>3. escaped \subseteq escaped' /\ (stored'[f] <= stored[f] \/ f \in escaped)
        BY <1>0, <1>1, <3>0, <4>2, WaysOfFiles
      <4>4. stored'[f] = 0 \/ f \in escaped'
        BY <1>a, <3>0, <4>1, <4>3 DEF StorageOK
      <4>5. QED
        BY <4>4 DEF f
    <3>2. CASE q = r
      <4>1. CASE ListRuns(r)
        BY <1>0, <3>0, <3>2, <4>1 DEF ListRuns, LocalsOK
      <4>2. ASSUME NEW i \in Runs, PurgeOne(r, i) PROVE stored'[f] = 0 \/ f \in escaped'
        <5>1. CASE i = j
          BY <1>0, <3>0, <4>2, <5>1 DEF PurgeOne, OneLess, FilesOK, StorageOK
        <5>2. CASE i # j
          <6>1. j \notin left[r] /\ pc[r] = "purge"
            BY <1>0, <3>2, <4>2, <5>2 DEF PurgeOne, At, LocalsOK
          <6>2. stored'[f] = stored[f] /\ escaped' = escaped
            BY <1>0, <3>0, <4>2, <5>2, FilesDiffer DEF PurgeOne, OneLess, StorageOK
          <6>3. QED
            BY <1>0, <3>0, <6>1, <6>2
        <5>3. QED
          BY <5>1, <5>2
      <4>3. QED
        BY <1>0, <1>1, <3>2, <4>1, <4>2, WaysToWrite
    <3>3. QED
      BY <3>1, <3>2
  <2>7. QED
    BY <2>4, <2>5, <2>6
<1>2. ASSUME NEW j \in Runs, Enqueue(j) PROVE Kept
  BY <1>0, <1>2 DEF Enqueue
<1>3. ASSUME OtherStep \/ UNCHANGED vars, \A j \in Runs : ~Enqueue(j) PROVE Kept
  <2>1. UNCHANGED <<run, stored, escaped, pc, file, left>> /\ (team' = team \/ (team = "none" /\ team' = "live"))
    BY <1>3 DEF OtherStep, CreateTeam, SignIn, Expire, RunnerSave, vars
  <2>2. QED
    BY <1>0, <2>1
<1>4. Kept
  BY <1>1, <1>2, <1>3 DEF Next, Step, RequestStep, OtherStep
<1>5. QED
  BY <1>4 DEF PurgeOK

-----------------------------------------------------------------------------
(* Theorems.                                                               *)

\* The invariant holds of the initial states.
LEMMA WorkspaceInvInit == Init => WorkspaceInv
<1> SUFFICES ASSUME Init PROVE WorkspaceInv
  OBVIOUS
<1>1. AlwaysAnAdmin /\ EmptyOK
  BY DEF Init, AlwaysAnAdmin, EmptyOK, Exists
<1>2. ClaimOK /\ ToldOK
  BY WorkspacesAssumption DEF Init, ClaimOK, ToldOK
<1>3. FilesOK /\ PurgeOK
  BY FilesDiffer DEF Init, FilesOK, PurgeOK, Owned, Writing
<1>4. QED
  BY <1>1, <1>2, <1>3, InitTyped DEF WorkspaceInv

\* So it always holds.
THEOREM WorkspaceInvariance == Spec => []WorkspaceInv
<1>1. WorkspaceInv /\ [Next]_vars => WorkspaceInv'
  BY TypesKept, AdminKept, EmptyKept, ClaimKept, ToldKept, FilesKept, PurgeKept DEF WorkspaceInv
<1>2. QED
  BY <1>1, WorkspaceInvInit, PTL DEF Spec

\* Every variable has its type, and a request the arguments that its place reads, in
\* every reachable state (the tables of teams.ts and principals.ts).
THEOREM WorkspaceTypesCorrect == Spec => []TypeOK
<1>1. WorkspaceInv => TypeOK
  BY DEF WorkspaceInv, TypeInv
<1>2. QED
  BY <1>1, WorkspaceInvariance, PTL

\* A workspace that is not deleted has an administrator, however many administrators
\* step down, are demoted or are removed at once: whoever loses the role, another has
\* it when the statement counts them (principals.ts:253-256, 329-332).
THEOREM AdministratorsRemain == Spec => []AlwaysAnAdmin
<1>1. WorkspaceInv => AlwaysAnAdmin
  BY DEF WorkspaceInv
<1>2. QED
  BY <1>1, WorkspaceInvariance, PTL

\* At most one of the requests that present a token is told that it was accepted: the
\* mark of the claim is a token's own until the workspace is gone (teams.ts:152-188).
THEOREM TokensAreAcceptedOnce == Spec => []AcceptedOnce
<1>1. WorkspaceInv => AcceptedOnce
  BY DEF WorkspaceInv, ToldOK, AcceptedOnce
<1>2. QED
  BY <1>1, WorkspaceInvariance, PTL

\* A workspace that is gone has left nothing behind but caches and what had escaped
\* the purge: a save past its check, a file that was stored twice, a file whose run
\* was deleted while it was written (teams.ts:245-300, queue.ts:1264-1280).
THEOREM GoneWorkspacesAreEmpty == Spec => []GoneIsEmpty
<1>1. WorkspaceInv => GoneIsEmpty
  <2> SUFFICES ASSUME WorkspaceInv, team = "gone", NEW f \in Files \ (escaped \cup {WorkflowCache, TeamCache})
               PROVE  stored[f] = 0 /\ f \notin rows
    BY DEF WorkspaceInv, EmptyOK, GoneIsEmpty
  <2>1. PICK j \in Runs : f = Artifact(j)
    BY FilesDiffer
  <2>2. run[j] # "present"
    BY DEF WorkspaceInv, EmptyOK
  <2>3. QED
    BY <2>1, <2>2 DEF WorkspaceInv, FilesOK, Owned
<1>2. QED
  BY <1>1, WorkspaceInvariance, PTL
=============================================================================
