---------------------------- MODULE RunAdmission ----------------------------
(***************************************************************************)
(* Admission of requested workflow runs: how a durable request event is    *)
(* expanded into one job per matrix variant                                *)
(* (src/src/workflow-run-admission-repository.ts, the admission part of    *)
(* server.ts, and enqueueDispatch of queue.ts).                            *)
(*                                                                         *)
(* Two kinds of workers share the admission rows: the recovery poller,     *)
(* which runs every second, and the handlers of dispatch requests a runner *)
(* may repeat.  Each SQL statement is a step; everything a worker read     *)
(* earlier it keeps in its own state.  Requests are numbered by the        *)
(* sequence of their events.  The lease of a claim and the retry delay of  *)
(* a row are abstracted to whether they have elapsed.  A claim's random token is the *)
(* worker that made it: a worker has one claim at a time and never uses an *)
(* earlier one.                                                            *)
(***************************************************************************)
EXTENDS Integers, FiniteSets, Sequences

CONSTANTS
    MaxRequests,   \* requests that may be published (bound)
    MaxVariants,   \* variants of the largest plan
    PlanSize,      \* PlanSize[r]: variants of r's matrix, for plannable requests
    Invalid,       \* requests whose inputs or matrix cannot be planned
    Dispatched,    \* requests published by a dispatch step; the others by the API
    Removable,     \* requests whose workflow may be deleted or become ineligible
    Poller,        \* the recovery poller of the control plane
    Handlers,      \* handlers of dispatch requests
    Nobody,        \* lease_token IS NULL
    MaxFaults      \* database errors, stalls and crashes (bound)

Requests == 1..MaxRequests
Variants == 0..(MaxVariants - 1)
REJECTED == -1  \* variant_index of the row of a request that cannot be planned
EMPTY == -2     \* variant_index of the row of a request without variants
Slots == Variants \cup {REJECTED, EMPTY}
Workers == Handlers \cup {Poller}
Rows == Requests \X Slots
Runs == Requests \X Variants  \* the rows that stand for a run
NoRun == <<0, 0>>

ASSUME AdmissionAssumption ==
    /\ MaxRequests \in Nat /\ MaxVariants \in Nat \ {0} /\ MaxFaults \in Nat
    /\ PlanSize \in [Requests -> 0..MaxVariants]
    /\ Invalid \subseteq Requests /\ Dispatched \subseteq Requests /\ Removable \subseteq Requests
    /\ Poller \notin Handlers /\ Nobody \notin Handlers \cup {Poller}

Plan(r) == 0..(PlanSize[r] - 1)

VARIABLES
    published,  \* workflow.run.requested events
    revision,   \* the pinned workflow revision exists
    eligible,   \* workflow present, workspace not deleting, recipe not revoked
    marker,     \* workflow_run_admission_plans
    status,     \* of each row of workflow_run_admissions; "none" before its INSERT
    token,      \* lease_token
    lapsed,     \* lease_until has passed
    due,        \* retry_after has passed, or is not set
    jobId,      \* job_id; 0 for NULL
    jobs,       \* the dispatch_key of each job, by id: the row it was started for
    pc,         \* what each worker is about to do
    at,         \* the row a worker works on
    found,      \* the job enqueueDispatch returned to it
    todo,       \* the rest of the poller's page of requests
    ids,        \* the jobs a handler has collected
    answers,    \* what the requests of each dispatch step were answered (history)
    faults      \* database errors, stalls and crashes so far

envVars == <<published, revision, eligible>>
rowVars == <<marker, status, token, lapsed, due, jobId>>
workVars == <<pc, at, found, todo, ids>>
vars == <<envVars, rowVars, jobs, workVars, answers, faults>>

Status == {"none", "pending", "claimed", "admitted", "failed"}
Planning == {"lookup", "reject", "empty", "plan", "revision"}
Admitting == {"insert", "select", "finish", "retry"}
Pc == {"idle", "consider", "claim", "variants"} \cup Planning \cup Admitting
Replies == [kind : {"admitted", "failed", "rejected", "unavailable", "pending"}, ids : Seq(Nat)]

\* Every table and every worker has its type.
TypeOK ==
    /\ published \subseteq Requests
    /\ revision \in [Requests -> BOOLEAN] /\ eligible \in [Requests -> BOOLEAN]
    /\ marker \in [Requests -> BOOLEAN]
    /\ status \in [Rows -> Status] /\ token \in [Rows -> Workers \cup {Nobody}]
    /\ lapsed \in [Rows -> BOOLEAN] /\ due \in [Rows -> BOOLEAN] /\ jobId \in [Rows -> Nat]
    /\ jobs \in Seq(Runs)
    /\ pc \in [Workers -> Pc] /\ at \in [Workers -> Runs \cup {NoRun}] /\ found \in [Workers -> Nat]
    /\ todo \subseteq Requests /\ ids \in [Handlers -> Seq(Nat)]
    /\ answers \in [Requests -> SUBSET Replies]
    /\ faults \in 0..MaxFaults

Init ==
    /\ published = {}
    /\ revision = [r \in Requests |-> TRUE] /\ eligible = [r \in Requests |-> TRUE]
    /\ marker = [r \in Requests |-> FALSE]
    /\ status = [i \in Rows |-> "none"] /\ token = [i \in Rows |-> Nobody]
    /\ lapsed = [i \in Rows |-> FALSE] /\ due = [i \in Rows |-> TRUE] /\ jobId = [i \in Rows |-> 0]
    /\ jobs = <<>>
    /\ pc = [w \in Workers |-> "idle"] /\ at = [w \in Workers |-> NoRun] /\ found = [w \in Workers |-> 0]
    /\ todo = {} /\ ids = [h \in Handlers |-> <<>>]
    /\ answers = [r \in Requests |-> {}]
    /\ faults = 0

-----------------------------------------------------------------------------
(* Statements of the repository.                                           *)

Goto(w, next) == pc' = [pc EXCEPT ![w] = next]
Rejected(r) == <<r, REJECTED>>
Empty(r) == <<r, EMPTY>>
Final(i) == status[i] \in {"admitted", "failed"}
\* The request is stored with no other rows than these.
OnlyRows(r, S) == \A s \in Slots : status[<<r, s>>] # "none" => s \in S

\* persistTerminal: INSERT OR IGNORE of a row that is final from the start.
PersistTerminal(i, final) ==
    /\ status' = [status EXCEPT ![i] = IF @ = "none" THEN final ELSE @]
    /\ UNCHANGED <<marker, token, lapsed, due, jobId>>

\* persistPlan: in one transaction, a pending row for each variant that has
\* none, and the marker if those are all the rows of the request.
PersistPlan(r) ==
    /\ status' = [i \in Rows |-> IF i[1] = r /\ i[2] \in Plan(r) /\ status[i] = "none" THEN "pending" ELSE status[i]]
    /\ marker' = [marker EXCEPT ![r] = @ \/ OnlyRows(r, Plan(r))]
    /\ UNCHANGED <<token, lapsed, due, jobId>>

\* isPlanTerminal: of a rejected request, and of a plan of this many variants.
RejectedTerminal(r) == status[Rejected(r)] = "failed" /\ OnlyRows(r, {REJECTED})
PlanTerminal(r) ==
    IF PlanSize[r] = 0
    THEN status[Empty(r)] = "admitted" /\ OnlyRows(r, {EMPTY})
    ELSE marker[r] /\ OnlyRows(r, Plan(r)) /\ \A v \in Plan(r) : Final(<<r, v>>)

\* Mutant of Claimable: a lapsed claim is not taken over.
ClaimablePending(i) == marker[i[1]] /\ status[i] = "pending" /\ due[i]

\* claim: the row must be of a complete plan, and pending and due or claimed and lapsed.
Claimable(i) ==
    /\ marker[i[1]]
    /\ \/ status[i] = "pending" /\ due[i]
       \/ status[i] = "claimed" /\ lapsed[i]
Claim(w, i) ==
    /\ Claimable(i)
    /\ status' = [status EXCEPT ![i] = "claimed"]
    /\ token' = [token EXCEPT ![i] = w]
    /\ lapsed' = [lapsed EXCEPT ![i] = FALSE]
    /\ Goto(w, "insert") /\ at' = [at EXCEPT ![w] = i]
    /\ UNCHANGED <<marker, due, jobId, found, todo, ids>>

\* The columns finish writes.
WriteRow(i, final, job) ==
    /\ status' = [status EXCEPT ![i] = final]
    /\ token' = [token EXCEPT ![i] = Nobody]
    /\ lapsed' = [lapsed EXCEPT ![i] = FALSE]
    /\ due' = [due EXCEPT ![i] = final # "pending"]
    /\ jobId' = [jobId EXCEPT ![i] = IF job = 0 THEN @ ELSE job]
    /\ UNCHANGED marker

\* Mutants of FinishRow: any claim will do; or the row need not be claimed at all.
FinishAnyClaim(w, i, final, job) ==
    IF status[i] = "claimed" THEN WriteRow(i, final, job) ELSE UNCHANGED rowVars
FinishAnyRow(w, i, final, job) == WriteRow(i, final, job)

\* finish: has no effect once the row is no longer claimed with this token.
Holds(w, i) == status[i] = "claimed" /\ token[i] = w
FinishRow(w, i, final, job) == IF Holds(w, i) THEN WriteRow(i, final, job) ELSE UNCHANGED rowVars

\* dispatch_key is unique and names the request and the variant.
JobOf(i) == {j \in DOMAIN jobs : jobs[j] = i}

-----------------------------------------------------------------------------
(* processWorkflowRunAdmission: what a worker does with its claim.         *)

\* Where a worker goes on after a variant: the loop of its caller.
Caller(w) == IF w = Poller THEN "claim" ELSE "variants"

\* enqueueDispatch inserts the job if the run is eligible and the claim still
\* holds, unless the dispatch key is taken ...
Fenced(w, i) == Holds(w, i) /\ ~lapsed[i]
Insert(w) ==
    /\ pc[w] = "insert"
    /\ jobs' = IF eligible[at[w][1]] /\ Fenced(w, at[w]) /\ JobOf(at[w]) = {} THEN Append(jobs, at[w]) ELSE jobs
    /\ Goto(w, "select")
    /\ UNCHANGED <<envVars, rowVars, at, found, todo, ids, answers, faults>>

\* ... and reads the job of the key, whoever inserted it; 0 if there is none.
Select(w) ==
    /\ pc[w] = "select"
    /\ found' = [found EXCEPT ![w] = IF JobOf(at[w]) = {} THEN 0 ELSE CHOOSE j \in JobOf(at[w]) : TRUE]
    /\ Goto(w, "finish")
    /\ UNCHANGED <<envVars, rowVars, jobs, at, todo, ids, answers, faults>>

\* Mutant of Finish: a refused insertion counts as admitted.
FinishAdmitted(w) ==
    /\ pc[w] = "finish"
    /\ FinishRow(w, at[w], "admitted", found[w])
    /\ found' = [found EXCEPT ![w] = 0]
    /\ Goto(w, Caller(w))
    /\ UNCHANGED <<envVars, jobs, at, todo, ids, answers, faults>>

\* Admitted with the job, or failed as dispatch_ineligible.
Finish(w) ==
    /\ pc[w] = "finish"
    /\ FinishRow(w, at[w], IF found[w] = 0 THEN "failed" ELSE "admitted", found[w])
    /\ found' = [found EXCEPT ![w] = 0]
    /\ Goto(w, Caller(w))
    /\ UNCHANGED <<envVars, jobs, at, todo, ids, answers, faults>>

\* The catch block: back to pending, to be retried after a delay.
Retry(w) ==
    /\ pc[w] = "retry"
    /\ FinishRow(w, at[w], "pending", 0)
    /\ found' = [found EXCEPT ![w] = 0]
    /\ Goto(w, Caller(w))
    /\ UNCHANGED <<envVars, jobs, at, todo, ids, answers, faults>>

Process(w) == Insert(w) \/ Select(w) \/ Finish(w) \/ Retry(w)

-----------------------------------------------------------------------------
(* recoverWorkflowRunRequests: the poller plans each request that is not   *)
(* settled, in the order of their events, then claims until nothing is due.*)

PollStart ==
    /\ pc[Poller] = "idle" /\ published # {}
    /\ Goto(Poller, "consider") /\ todo' = published
    /\ UNCHANGED <<envVars, rowVars, jobs, at, found, ids, answers, faults>>

\* The plan's size is only known while the pinned revision exists.
PollConsider(r) ==
    /\ pc[Poller] = "consider" /\ r \in todo /\ \A q \in todo : r <= q
    /\ Goto(Poller, IF RejectedTerminal(r) \/ (revision[r] /\ r \notin Invalid /\ PlanTerminal(r))
                    THEN "consider" ELSE "revision")
    /\ at' = [at EXCEPT ![Poller] = <<r, 0>>]
    /\ todo' = todo \ {r}
    /\ UNCHANGED <<envVars, rowVars, jobs, found, ids, answers, faults>>

\* What is to be persisted once getRevision and planWorkflowInvocation are done.
PlanningOutcome(r) == CASE r \in Invalid -> "reject"
                        [] r \notin Invalid /\ PlanSize[r] = 0 -> "empty"
                        [] OTHER -> "plan"
PollRevision ==
    /\ pc[Poller] = "revision"
    /\ Goto(Poller, IF revision[at[Poller][1]] THEN PlanningOutcome(at[Poller][1]) ELSE "reject")
    /\ UNCHANGED <<envVars, rowVars, jobs, at, found, todo, ids, answers, faults>>

PollPersist ==
    /\ \/ pc[Poller] = "reject" /\ PersistTerminal(Rejected(at[Poller][1]), "failed")
       \/ pc[Poller] = "empty" /\ PersistTerminal(Empty(at[Poller][1]), "admitted")
       \/ pc[Poller] = "plan" /\ PersistPlan(at[Poller][1])
    /\ Goto(Poller, "consider")
    /\ UNCHANGED <<envVars, jobs, at, found, todo, ids, answers, faults>>

PollClaims ==
    /\ pc[Poller] = "consider" /\ todo = {}
    /\ Goto(Poller, "claim")
    /\ UNCHANGED <<envVars, rowVars, jobs, at, found, todo, ids, answers, faults>>

\* claimNext prefers a lapsed claim to a pending row.
PollClaim(i) ==
    /\ pc[Poller] = "claim"
    /\ Claim(Poller, i)
    /\ status[i] = "claimed" \/ \A k \in Runs : Claimable(k) => status[k] # "claimed"
    /\ UNCHANGED <<envVars, jobs, answers, faults>>

PollDone ==
    /\ pc[Poller] = "claim" /\ \A i \in Runs : ~Claimable(i)
    /\ Goto(Poller, "idle") /\ at' = [at EXCEPT ![Poller] = NoRun]
    /\ UNCHANGED <<envVars, rowVars, jobs, found, todo, ids, answers, faults>>

Poll ==
    \/ PollStart \/ PollRevision \/ PollPersist \/ PollClaims \/ PollDone
    \/ \E r \in Requests : PollConsider(r)
    \/ \E i \in Runs : PollClaim(i)

-----------------------------------------------------------------------------
(* dispatchFromLease: the handler of a dispatch step, which the runner may *)
(* repeat, also while an earlier request of the same step is in flight.    *)

Record(r, kind, jobIds) == answers' = [answers EXCEPT ![r] = @ \cup {[kind |-> kind, ids |-> jobIds]}]
\* The handler answers and ends.
Answer(h, kind, jobIds) ==
    /\ Record(at[h][1], kind, jobIds)
    /\ Goto(h, "idle")
    /\ at' = [at EXCEPT ![h] = NoRun] /\ ids' = [ids EXCEPT ![h] = <<>>]
Proceed(h, next) == Goto(h, next) /\ UNCHANGED <<at, ids, answers>>

DispatchPublish(h, r) ==
    /\ pc[h] = "idle" /\ r \in Dispatched \ published /\ revision[r]
    /\ published' = published \cup {r}
    /\ Goto(h, "lookup") /\ at' = [at EXCEPT ![h] = <<r, 0>>]
    /\ UNCHANGED <<revision, eligible, rowVars, jobs, found, todo, ids, answers, faults>>

\* The step's event exists: go on with its pinned revision, or answer 409.
DispatchRepeat(h, r) ==
    /\ pc[h] = "idle" /\ r \in Dispatched \cap published
    /\ IF revision[r]
       THEN Goto(h, "lookup") /\ at' = [at EXCEPT ![h] = <<r, 0>>] /\ UNCHANGED answers
       ELSE Record(r, "unavailable", <<>>) /\ UNCHANGED <<pc, at>>
    /\ UNCHANGED <<envVars, rowVars, jobs, found, todo, ids, faults>>

\* The reads of rows -1 and -2 and of the stored plan; else the plan is made.
\* (Rows are never removed, so the three reads may be taken together.)
DispatchLookup(h) ==
    /\ pc[h] = "lookup"
    /\ IF status[Rejected(at[h][1])] = "failed" THEN Answer(h, "rejected", <<>>)
       ELSE IF status[Empty(at[h][1])] = "admitted" THEN Answer(h, "admitted", <<>>)
       ELSE Proceed(h, IF marker[at[h][1]] THEN "variants" ELSE PlanningOutcome(at[h][1]))
    /\ UNCHANGED <<envVars, rowVars, jobs, found, todo, faults>>

\* persistTerminal or persistPlan; a plan that conflicts with stored rows throws.
DispatchPersist(h) ==
    /\ \/ pc[h] = "reject" /\ PersistTerminal(Rejected(at[h][1]), "failed") /\ Answer(h, "rejected", <<>>)
       \/ pc[h] = "empty" /\ PersistTerminal(Empty(at[h][1]), "admitted") /\ Answer(h, "admitted", <<>>)
       \/ /\ pc[h] = "plan" /\ PersistPlan(at[h][1])
          /\ IF OnlyRows(at[h][1], Plan(at[h][1]))
             THEN Proceed(h, "variants")
             ELSE Goto(h, "idle") /\ at' = [at EXCEPT ![h] = NoRun] /\ UNCHANGED <<ids, answers>>
    /\ UNCHANGED <<envVars, jobs, found, todo, faults>>

\* admitDispatchVariant: one round of its loop; the variant is admitted,
DispatchAdmitted(h) ==
    /\ pc[h] = "variants" /\ status[at[h]] = "admitted" /\ jobId[at[h]] # 0
    /\ IF at[h][2] + 1 = PlanSize[at[h][1]]
       THEN Answer(h, "admitted", Append(ids[h], jobId[at[h]]))
       ELSE /\ at' = [at EXCEPT ![h] = <<@[1], @[2] + 1>>]
            /\ ids' = [ids EXCEPT ![h] = Append(@, jobId[at[h]])]
            /\ UNCHANGED <<pc, answers>>
    /\ UNCHANGED <<envVars, rowVars, jobs, found, todo, faults>>

\* or failed: 409,
DispatchFailed(h) ==
    /\ pc[h] = "variants" /\ status[at[h]] = "failed"
    /\ Answer(h, "failed", <<>>)
    /\ UNCHANGED <<envVars, rowVars, jobs, found, todo, faults>>

\* or the handler claims it,
DispatchClaim(h) ==
    /\ pc[h] = "variants"
    /\ Claim(h, at[h])
    /\ UNCHANGED <<envVars, jobs, answers, faults>>

\* or the deadline of 30 s passes: 503, retry the same step.
DispatchTimeout(h) ==
    /\ pc[h] = "variants" /\ ~Final(at[h])
    /\ Answer(h, "pending", <<>>)
    /\ UNCHANGED <<envVars, rowVars, jobs, found, todo, faults>>

Dispatch(h) ==
    \/ DispatchLookup(h) \/ DispatchPersist(h) \/ DispatchAdmitted(h)
    \/ DispatchFailed(h) \/ DispatchClaim(h) \/ DispatchTimeout(h)

-----------------------------------------------------------------------------
(* Requests of the API, and what goes wrong.                               *)

\* handleWorkflowRun publishes the event and leaves its admission to the poller,
ApiPublish(r) ==
    /\ r \notin Dispatched \cup published /\ revision[r]
    /\ published' = published \cup {r}
    /\ UNCHANGED <<revision, eligible, rowVars, jobs, workVars, answers, faults>>

\* except that it rejects a request whose inputs cannot be planned itself.
ApiReject(r) ==
    /\ r \in (published \cap Invalid) \ Dispatched /\ status[Rejected(r)] = "none"
    /\ PersistTerminal(Rejected(r), "failed")
    /\ UNCHANGED <<envVars, jobs, workVars, answers, faults>>

\* deleteForTeam deletes the revisions, and then the workflow; the workspace may
\* also be marked deleting, or the recipe revoked, on their own.
DeleteRevision(r) ==
    /\ r \in Removable \cap published /\ revision[r]
    /\ revision' = [revision EXCEPT ![r] = FALSE]
    /\ UNCHANGED <<published, eligible, rowVars, jobs, workVars, answers, faults>>
LoseEligibility(r) ==
    /\ r \in Removable \cap published /\ eligible[r]
    /\ eligible' = [eligible EXCEPT ![r] = FALSE]
    /\ UNCHANGED <<published, revision, rowVars, jobs, workVars, answers, faults>>

AtWork(w, i) == pc[w] \in Admitting /\ at[w] = i

\* Time: the lease of a claim lapses once its worker is gone, or stalls for 30 s.
Lapse(i) ==
    /\ status[i] = "claimed" /\ ~lapsed[i]
    /\ lapsed' = [lapsed EXCEPT ![i] = TRUE]
    /\ UNCHANGED <<envVars, marker, status, token, due, jobId, jobs, workVars, answers>>
LeaseLapses(i) == Lapse(i) /\ ~AtWork(token[i], i) /\ UNCHANGED faults
Stall(i) == Lapse(i) /\ AtWork(token[i], i) /\ faults < MaxFaults /\ faults' = faults + 1
RetryDue(i) ==
    /\ status[i] = "pending" /\ ~due[i]
    /\ due' = [due EXCEPT ![i] = TRUE]
    /\ UNCHANGED <<envVars, marker, status, token, lapsed, jobId, jobs, workVars, answers, faults>>

\* A statement of enqueueDispatch or finish fails: the catch block.
AdmissionError(w) ==
    /\ faults < MaxFaults /\ faults' = faults + 1
    /\ pc[w] \in {"insert", "select", "finish"}
    /\ Goto(w, "retry")
    /\ UNCHANGED <<envVars, rowVars, jobs, at, found, todo, ids, answers>>
\* A statement that plans a request fails: the poller goes on with the next.
PlanningError ==
    /\ faults < MaxFaults /\ faults' = faults + 1
    /\ pc[Poller] \in Planning
    /\ Goto(Poller, "consider")
    /\ UNCHANGED <<envVars, rowVars, jobs, at, found, todo, ids, answers>>
\* Any other failure ends the poller's pass, or the request with status 500.
PassError ==
    /\ faults < MaxFaults /\ faults' = faults + 1
    /\ pc[Poller] \in {"claim", "retry"}
    /\ Goto(Poller, "idle")
    /\ at' = [at EXCEPT ![Poller] = NoRun] /\ found' = [found EXCEPT ![Poller] = 0] /\ todo' = {}
    /\ UNCHANGED <<envVars, rowVars, jobs, ids, answers>>
RequestError(h) ==
    /\ faults < MaxFaults /\ faults' = faults + 1
    /\ pc[h] \in Planning \cup {"variants", "retry"}
    /\ Goto(h, "idle")
    /\ at' = [at EXCEPT ![h] = NoRun] /\ found' = [found EXCEPT ![h] = 0] /\ ids' = [ids EXCEPT ![h] = <<>>]
    /\ UNCHANGED <<envVars, rowVars, jobs, todo, answers>>

Crash ==
    /\ faults < MaxFaults /\ faults' = faults + 1
    /\ pc' = [w \in Workers |-> "idle"] /\ at' = [w \in Workers |-> NoRun] /\ found' = [w \in Workers |-> 0]
    /\ todo' = {} /\ ids' = [h \in Handlers |-> <<>>]
    /\ UNCHANGED <<envVars, rowVars, jobs, answers>>

Next ==
    \/ Poll
    \/ \E w \in Workers : Process(w) \/ AdmissionError(w)
    \/ \E h \in Handlers : Dispatch(h) \/ RequestError(h)
    \/ \E h \in Handlers, r \in Requests : DispatchPublish(h, r) \/ DispatchRepeat(h, r)
    \/ \E r \in Requests : ApiPublish(r) \/ ApiReject(r) \/ DeleteRevision(r) \/ LoseEligibility(r)
    \/ \E i \in Runs : LeaseLapses(i) \/ Stall(i) \/ RetryDue(i)
    \/ PlanningError \/ PassError \/ Crash

Spec == Init /\ [][Next]_vars

\* The poller runs every second, a request once begun is carried on, time passes.
Fairness ==
    /\ WF_vars(Poll) /\ \A w \in Workers : WF_vars(Process(w))
    /\ \A h \in Handlers : WF_vars(Dispatch(h))
    /\ WF_vars(\E i \in Runs : LeaseLapses(i) \/ RetryDue(i))
FairSpec == Spec /\ Fairness

-----------------------------------------------------------------------------
(* Properties.                                                             *)

\* What admission promises of each variant: it is started at most once, and its
\* verdict is given once, stands, and tells whether a job was started.
Verdicts == [i \in Runs |-> IF Final(i) THEN status[i] ELSE "open"]
Promise == INSTANCE RunPromise WITH started <- jobs, verdict <- Verdicts
KeepsPromise == Promise!Spec

\* An admitted variant's row names the job that was started for it.
AdmittedNamesItsJob == \A i \in Runs : status[i] = "admitted" => jobId[i] \in JobOf(i)

\* A runner that repeats a dispatch step is told of the same child jobs each time,
\* and once it was told of them no repetition is told that the dispatch failed, as
\* long as the workflow is there.
StepHasOneResult ==
    \A r \in Dispatched :
        revision[r] /\ eligible[r] => Cardinality({a \in answers[r] : a.kind \in {"admitted", "failed", "rejected"}}) <= 1

\* All published requests are settled in the end, in spite of errors, stalls and
\* crashes: each is rejected, or empty, or every variant of its plan has its verdict.
Settled(r) == status[Rejected(r)] = "failed" \/ PlanTerminal(r)
EveryRequestSettles == published # {} ~> \A r \in published : Settled(r)

=============================================================================
