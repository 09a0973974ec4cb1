---------------------------- MODULE JobExecution ----------------------------
(***************************************************************************)
(* One job as an API runner executes it: executeLease (src/src/api-worker  *)
(* .ts) and processJob (src/src/worker.ts), over the lease-authenticated   *)
(* requests of server.ts and the statements of queue.ts that answer them.  *)
(* JobQueue lets a runner send any of these requests in any order; here    *)
(* the order is the executor's, and the rows are those its requests write: *)
(* the job, its report, the starts and the completions of step attempts.   *)
(*                                                                         *)
(* An execution stands for one lease of the job.  An earlier execution may *)
(* still run when a later one begins, because its lease lapsed.  A request *)
(* is one step: the statement, and what the executor does with the answer. *)
(* It may be lost, or its answer may be; fetch does not retry.             *)
(***************************************************************************)
EXTENDS Naturals, FiniteSets

CONSTANTS
    Main,       \* the number of steps
    Post,       \* the number of post steps
    Inner,      \* the number of steps of the function a call step calls
    Retries,    \* retries of the workflow
    Workflows,  \* the workflows to execute: functions from steps to kinds
    MaxExecs,   \* leases that may be granted (bound)
    MaxFaults,  \* requests lost, leases lapsed and executors dead, of a workflow (bound)
    Process     \* Process[e]: the runner process execution e runs in

Steps == 1..(Main + Post)
Kinds == {"run", "eval", "dispatch", "call"}
Execs == 1..MaxExecs
None == 0
\* A key of the two attempt tables.  <<i, a, 0>> is attempt a of step i; <<i, a, n>>
\* with n > 0 is attempt 1 of the step "i#attempt-a/n", a step of a called function.
Keys == Steps \X (1..(Retries + 1)) \X (0..Inner)

ASSUME ExecutionAssumption ==
    /\ Main \in Nat \ {0} /\ Post \in Nat /\ Inner \in Nat \ {0} /\ Retries \in Nat
    /\ MaxExecs \in Nat
    /\ Workflows \subseteq [Steps -> Kinds] /\ MaxFaults \in [Workflows -> Nat]

VARIABLES
    kind,       \* the workflow's revision, which a job pins
    \* the jobs row and the attempt tables
    state,      \* status
    owner,      \* the execution lease_id names
    lapsed,     \* lease_expires_at has passed
    acked,      \* lease_completed
    report,     \* the steps of the stored report
    starts,     \* step_execution_attempt_starts: whose attempt_id is stored
    done,       \* step_execution_attempts: the stored status
    \* an execution
    pc,         \* where it is
    at,         \* the step it is at, i + 1 of processSteps
    try,        \* attempt
    inner,      \* the step of the called function, or 0
    result,     \* ExecOutput of the attempt
    verdict,    \* failed and cancelled of the main steps, then finalStatus
    failed,     \* failed, while a called function's steps are processed
    view,       \* executionReport.steps
    seen,       \* createLeaseQueue's cancelled
    aborted,    \* executeRunStep's cancelled
    \* history
    ran,        \* ran[k]: the executions that invoked the step under key k
    execs, faults

jobVars == <<state, owner, lapsed, acked>>
rowVars == <<jobVars, report, starts, done>>
loopVars == <<at, try, inner, result, verdict, failed, view>>
execVars == <<pc, loopVars, seen, aborted>>
vars == <<kind, rowVars, execVars, ran, execs, faults>>

Results == {"success", "failed", "cancelled", "skipped"}
StepStatus == Results \cup {"pending", "running"}
Idle == {"idle", "gone"}
Pc == Idle \cup {"secrets", "open", "setup", "broken", "begin", "start", "invoke", "running",
                 "save", "report", "fill", "ended", "store", "complete"}

TypeOK ==
    /\ kind \in Workflows
    /\ state \in {"pending", "running", "success", "failed", "cancelled"}
    /\ owner \in Execs \cup {None} /\ lapsed \in BOOLEAN /\ acked \in BOOLEAN
    /\ report \in [Steps -> StepStatus]
    /\ starts \in [Keys -> Execs \cup {None}]
    /\ done \in [Keys -> Results \cup {"none"}]
    /\ pc \in [Execs -> Pc]
    /\ at \in [Execs -> Steps]
    /\ try \in [Execs -> 1..(Retries + 1)]
    /\ inner \in [Execs -> 0..Inner]
    /\ result \in [Execs -> Results]
    /\ verdict \in [Execs -> {"success", "failed", "cancelled"}]
    /\ failed \in [Execs -> BOOLEAN]
    /\ view \in [Execs -> [Steps -> StepStatus]]
    /\ seen \in [Execs -> BOOLEAN] /\ aborted \in [Execs -> BOOLEAN]
    /\ ran \in [Keys -> SUBSET Execs]
    /\ execs \in 0..MaxExecs /\ faults \in 0..MaxFaults[kind]

Pending == [i \in Steps |-> "pending"]

Init ==
    /\ kind \in Workflows
    /\ state = "pending" /\ owner = None /\ lapsed = FALSE /\ acked = FALSE
    /\ report = Pending
    /\ starts = [k \in Keys |-> None]
    /\ done = [k \in Keys |-> "none"]
    /\ pc = [e \in Execs |-> "idle"]
    /\ at = [e \in Execs |-> 1] /\ try = [e \in Execs |-> 1] /\ inner = [e \in Execs |-> 0]
    /\ result = [e \in Execs |-> "failed"]
    /\ verdict = [e \in Execs |-> "success"]
    /\ failed = [e \in Execs |-> FALSE]
    /\ view = [e \in Execs |-> Pending]
    /\ seen = [e \in Execs |-> FALSE] /\ aborted = [e \in Execs |-> FALSE]
    /\ ran = [k \in Keys |-> {}]
    /\ execs = 0 /\ faults = 0

-----------------------------------------------------------------------------
(* The requests. *)

Key(e) == <<at[e], try[e], inner[e]>>
Alive(e) == pc[e] \notin Idle

\* The WHERE clauses of reports, logs and completions ...
HoldsLease(e) == owner = e /\ ~lapsed /\ ~acked /\ state \in {"running", "cancelled"}
\* ... and of attempts, files and secrets, which need a running job.
LeaseIsCurrent(e) == HoldsLease(e) /\ state = "running"

\* One request: its statement takes effect or is refused, and the executor learns
\* which; or the request or its answer is lost, and the executor sees an error.
Request(allowed, Effect, Nothing, Answered, Fails) ==
    \/ allowed /\ Effect /\ Answered /\ UNCHANGED faults
    \/ ~allowed /\ Nothing /\ Fails /\ UNCHANGED faults
    \/ /\ faults < MaxFaults[kind] /\ faults' = faults + 1 /\ Fails
       /\ Nothing \/ (allowed /\ Effect)

SaveReport(e, steps, Answered, Fails) ==
    Request(HoldsLease(e), report' = steps, UNCHANGED report, Answered, Fails)

\* Mutants: a stored start is taken over by the next execution; a start is answered
\* by its key alone, whoever stored it.
StartTaken(e, Answered, Fails) ==
    Request(LeaseIsCurrent(e), starts' = [starts EXCEPT ![Key(e)] = e], UNCHANGED starts, Answered, Fails)
StartAnsweredByKey(e, Answered, Fails) ==
    Request(LeaseIsCurrent(e),
            starts' = [starts EXCEPT ![Key(e)] = IF @ = None THEN e ELSE @], UNCHANGED starts, Answered, Fails)

\* INSERT ... ON CONFLICT DO NOTHING.  The second query, which accepts a repeated
\* request with the same attempt id, finds nothing: every request draws a new id.
SaveStepAttemptStart(e, Answered, Fails) ==
    Request(LeaseIsCurrent(e) /\ starts[Key(e)] = None,
            starts' = [starts EXCEPT ![Key(e)] = e], UNCHANGED starts, Answered, Fails)

SaveStepAttempt(e, Answered, Fails) ==
    Request(LeaseIsCurrent(e) /\ starts[Key(e)] = e /\ done[Key(e)] = "none",
            done' = [done EXCEPT ![Key(e)] = result[e]], UNCHANGED done, Answered, Fails)

-----------------------------------------------------------------------------
(* processSteps, the control its requests share.                           *)

IsPost(e) == at[e] > Main
\* The post steps are not fatal; the steps of a function always are.
NonFatal(e) == IsPost(e) /\ inner[e] = 0
End(e) == IF IsPost(e) THEN Main + Post ELSE Main
IsLast(e) == IF inner[e] > 0 THEN inner[e] = Inner ELSE at[e] = End(e)
StepKind(e) == IF inner[e] > 0 THEN "run" ELSE kind[at[e]]
Go(e, p) == pc' = [pc EXCEPT ![e] = p]

\* The task of an execution is over, and what it held in memory is gone.
Ends(e) ==
    /\ Go(e, "gone")
    /\ at' = [at EXCEPT ![e] = 1] /\ try' = [try EXCEPT ![e] = 1] /\ inner' = [inner EXCEPT ![e] = 0]
    /\ result' = [result EXCEPT ![e] = "failed"] /\ verdict' = [verdict EXCEPT ![e] = "success"]
    /\ failed' = [failed EXCEPT ![e] = FALSE] /\ view' = [view EXCEPT ![e] = Pending]
    /\ seen' = [seen EXCEPT ![e] = FALSE] /\ aborted' = [aborted EXCEPT ![e] = FALSE]
Continues(e, p) == Go(e, p) /\ UNCHANGED <<loopVars, seen, aborted>>

\* fillSkippedSteps.  The reports of a function's steps are left out of view.
Filled(e, from) ==
    [i \in Steps |-> IF inner[e] = 0 /\ i \in from..End(e) THEN "skipped" ELSE view[e][i]]

\* The loop stops with outcome v; the steps from the given one on were not processed.
Stops(e, v, from, remain) ==
    /\ verdict' = [verdict EXCEPT ![e] = IF inner[e] > 0 \/ IsPost(e) THEN @ ELSE v]
    /\ failed' = [failed EXCEPT ![e] = inner[e] > 0 /\ v # "success"]
    /\ view' = [view EXCEPT ![e] = Filled(e, from)]
    /\ Go(e, IF remain THEN "fill" ELSE "ended")
    /\ result' = [result EXCEPT ![e] = "failed"]
    /\ UNCHANGED <<at, try, inner>>

\* Mutant: the error is logged, and that is all.
ThrowsIgnored(e) == Stops(e, "success", at[e], TRUE)

\* catch: an error fails the steps, unless they are post steps.
Throws(e) == Stops(e, "failed", at[e], TRUE)

\* The job's completion begins, or its post steps do.
Finishes(e) ==
    IF Post = 0
    THEN Go(e, "complete") /\ UNCHANGED <<at, try>>
    ELSE /\ Go(e, "begin")
         /\ at' = [at EXCEPT ![e] = Main + 1] /\ try' = [try EXCEPT ![e] = 1]

-----------------------------------------------------------------------------
(* The executor.                                                           *)

\* api.claim and executeLease's first request, of the secrets.
Claim(e) ==
    /\ e = execs + 1 /\ e \in Execs
    /\ state = "pending"
    /\ state' = "running" /\ owner' = e /\ lapsed' = FALSE /\ acked' = FALSE
    /\ execs' = e /\ Go(e, "secrets")
    /\ UNCHANGED <<kind, report, starts, done, loopVars, seen, aborted, ran, faults>>

FetchSecrets(e) ==
    /\ pc[e] = "secrets"
    /\ Request(LeaseIsCurrent(e), TRUE, TRUE, Continues(e, "open"), Ends(e))
    /\ UNCHANGED <<kind, rowVars, ran, execs>>

\* processJob makes the trace available; an error leaves the lease to expire.
OpenReport(e) ==
    /\ pc[e] = "open"
    /\ SaveReport(e, view[e], Continues(e, "setup"), Ends(e))
    /\ UNCHANGED <<kind, jobVars, starts, done, ran, execs>>

\* The environment, inputs, secret files and cache may fail, and so may the report.
SetUp(e) ==
    /\ pc[e] = "setup"
    /\ \/ SaveReport(e, view[e], Go(e, "begin"), Go(e, "broken"))
       \/ Go(e, "broken") /\ UNCHANGED <<report, faults>>
    /\ UNCHANGED <<kind, jobVars, starts, done, loopVars, seen, aborted, ran, execs>>

BeginStep(e) ==
    LET now == [view[e] EXCEPT ![at[e]] = "running"]
    IN  /\ pc[e] = "begin"
        /\ SaveReport(e, now,
               /\ Go(e, "start") /\ view' = [view EXCEPT ![e] = now]
               /\ try' = [try EXCEPT ![e] = IF inner[e] > 0 THEN @ ELSE 1]
               /\ UNCHANGED <<at, inner, result, verdict, failed>>,
               Throws(e))
        /\ UNCHANGED <<kind, jobVars, starts, done, seen, aborted, ran, execs>>

StartAttempt(e) ==
    /\ pc[e] = "start"
    /\ SaveStepAttemptStart(e, Go(e, "invoke") /\ UNCHANGED loopVars, Throws(e))
    /\ UNCHANGED <<kind, jobVars, report, done, seen, aborted, ran, execs>>

\* executeSingleStep: `if` is false.
SkipStep(e) ==
    /\ pc[e] = "invoke"
    /\ result' = [result EXCEPT ![e] = "skipped"] /\ Go(e, "save")
    /\ UNCHANGED <<kind, rowVars, at, try, inner, verdict, failed, view, seen, aborted, ran, execs, faults>>

\* ... or it, or the recipe's environment, cannot be evaluated.
ConditionThrows(e) ==
    /\ pc[e] = "invoke" /\ Throws(e)
    /\ UNCHANGED <<kind, rowVars, seen, aborted, ran, execs, faults>>

\* executeSingleStep: the step is invoked.
InvokeStep(e) ==
    /\ pc[e] = "invoke" /\ StepKind(e) # "call"
    /\ ran' = [ran EXCEPT ![Key(e)] = @ \cup {e}]
    /\ Continues(e, "running")
    /\ UNCHANGED <<kind, rowVars, execs, faults>>

\* A call step: it fails when its target is revoked, not pinned, or given bad
\* inputs; else the steps of the function are processed, without retries.
CallFunction(e) ==
    /\ pc[e] = "invoke" /\ StepKind(e) = "call"
    /\ ran' = [ran EXCEPT ![Key(e)] = @ \cup {e}]
    /\ \/ result' = [result EXCEPT ![e] = "failed"] /\ Go(e, "save") /\ UNCHANGED inner
       \/ LeaseIsCurrent(e) /\ inner' = [inner EXCEPT ![e] = 1] /\ Go(e, "begin") /\ UNCHANGED result
    /\ UNCHANGED <<kind, rowVars, at, try, verdict, failed, view, seen, aborted, execs, faults>>

Returns(e, r) ==
    /\ result' = [result EXCEPT ![e] = r] /\ Go(e, "save")
    /\ UNCHANGED <<at, try, inner, verdict, failed, view>>

\* executeRunStep, the process has ended; a failure to save the log is ignored.
RunStepEnds(e) ==
    /\ pc[e] = "running" /\ StepKind(e) = "run"
    /\ \E r \in IF aborted[e] THEN {"cancelled"} ELSE {"success", "failed"} : Returns(e, r)
    /\ aborted' = [aborted EXCEPT ![e] = FALSE]
    /\ UNCHANGED <<kind, rowVars, seen, ran, execs, faults>>

\* executeEvalStep: a log that cannot be saved fails the step, and if that cannot
\* be logged either, the steps.
EvalStepEnds(e) ==
    /\ pc[e] = "running" /\ StepKind(e) = "eval"
    /\ Request(HoldsLease(e), TRUE, TRUE,
               \E r \in {"success", "failed"} : Returns(e, r),
               Throws(e) \/ (HoldsLease(e) /\ Returns(e, "failed")))
    /\ UNCHANGED <<kind, rowVars, seen, aborted, ran, execs>>

\* A dispatch step; what the request admits is RunAdmission's.
DispatchEnds(e) ==
    /\ pc[e] = "running" /\ StepKind(e) = "dispatch"
    /\ Request(LeaseIsCurrent(e), TRUE, TRUE,
               \E r \in {"success", "failed"} : Returns(e, r), Returns(e, "failed"))
    /\ UNCHANGED <<kind, rowVars, seen, aborted, ran, execs>>

\* A failed attempt that was not cancelled, while attempts are left.
Retried(e) == result[e] = "failed" /\ inner[e] = 0 /\ try[e] <= Retries

AttemptSaved(e) ==
    IF Retried(e)
    THEN /\ try' = [try EXCEPT ![e] = @ + 1] /\ Go(e, "start")
         /\ UNCHANGED <<at, inner, result, verdict, failed, view>>
    ELSE /\ view' = [view EXCEPT ![e] = IF inner[e] > 0 THEN @ ELSE [@ EXCEPT ![at[e]] = result[e]]]
         /\ Go(e, "report") /\ UNCHANGED <<at, try, inner, result, verdict, failed>>

CompleteAttempt(e) ==
    /\ pc[e] = "save"
    /\ SaveStepAttempt(e, AttemptSaved(e), Throws(e))
    /\ UNCHANGED <<kind, jobVars, report, starts, seen, aborted, ran, execs>>

\* The step is processed: a skipped step ends the loop, and so does one that failed
\* or was cancelled, unless it is a post step.
Advances(e) ==
    IF result[e] = "skipped" THEN Stops(e, "success", at[e] + 1, ~IsLast(e))
    ELSE IF result[e] # "success" /\ ~NonFatal(e) THEN Stops(e, result[e], at[e] + 1, ~IsLast(e))
    ELSE IF IsLast(e) THEN Stops(e, "success", End(e) + 1, FALSE)
    ELSE /\ Go(e, "begin")
         /\ IF inner[e] > 0 THEN inner' = [inner EXCEPT ![e] = @ + 1] /\ UNCHANGED <<at, try>>
            ELSE at' = [at EXCEPT ![e] = @ + 1] /\ try' = [try EXCEPT ![e] = 1] /\ UNCHANGED inner
         /\ result' = [result EXCEPT ![e] = "failed"]
         /\ UNCHANGED <<verdict, failed, view>>

ReportStep(e) ==
    /\ pc[e] = "report"
    /\ SaveReport(e, view[e], Advances(e), Stops(e, "failed", at[e] + 1, ~IsLast(e)))
    /\ UNCHANGED <<kind, jobVars, starts, done, seen, aborted, ran, execs>>

\* The report of the steps marked as skipped.  Its error leaves processJob, unless it
\* is that of post steps, or of a function, which it fails.
FillSkipped(e) ==
    /\ pc[e] = "fill"
    /\ SaveReport(e, view[e],
           Continues(e, "ended"),
           IF inner[e] = 0 /\ ~IsPost(e) THEN Ends(e)
           ELSE /\ Go(e, "ended")
                /\ failed' = [failed EXCEPT ![e] = inner[e] > 0]
                /\ UNCHANGED <<at, try, inner, result, verdict, view, seen, aborted>>)
    /\ UNCHANGED <<kind, jobVars, starts, done, ran, execs>>

\* A function returns to its call step, which fails with it or on its outputs.
FunctionReturns(e) ==
    /\ pc[e] = "ended" /\ inner[e] > 0
    /\ inner' = [inner EXCEPT ![e] = 0] /\ failed' = [failed EXCEPT ![e] = FALSE]
    /\ \E r \in IF failed[e] THEN {"failed"} ELSE {"success", "failed"} : result' = [result EXCEPT ![e] = r]
    /\ Go(e, "save")
    /\ UNCHANGED <<kind, rowVars, at, try, verdict, view, seen, aborted, ran, execs, faults>>

StepsEnd(e) ==
    /\ pc[e] = "ended" /\ inner[e] = 0
    /\ IF IsPost(e) THEN Go(e, "complete") /\ UNCHANGED <<at, try>>
       ELSE IF verdict[e] = "success" THEN Go(e, "store") /\ UNCHANGED <<at, try>>
       ELSE Finishes(e)
    /\ UNCHANGED <<kind, rowVars, inner, result, verdict, failed, view, seen, aborted, ran, execs, faults>>

\* Artifacts and cache of a successful run; a failure to store them fails it.
StoreFiles(e) ==
    /\ pc[e] = "store"
    /\ \/ LeaseIsCurrent(e) /\ UNCHANGED verdict
       \/ verdict' = [verdict EXCEPT ![e] = "failed"]
    /\ Finishes(e)
    /\ UNCHANGED <<kind, rowVars, inner, result, failed, view, seen, aborted, ran, execs, faults>>

\* completeJob: a user's cancellation stands, and the answer is then an error if the
\* executor says otherwise; its task is over in any case.
CompleteWith(e, s, steps) ==
    Request(HoldsLease(e),
            /\ state' = IF state = "cancelled" THEN "cancelled" ELSE s
            /\ report' = steps /\ acked' = TRUE,
            UNCHANGED <<state, report, acked>>, Ends(e), Ends(e))

CompleteJob(e) ==
    /\ pc[e] = "complete" /\ CompleteWith(e, verdict[e], view[e])
    /\ UNCHANGED <<kind, owner, lapsed, starts, done, ran, execs>>

SetUpFailed(e) ==
    /\ pc[e] = "broken" /\ CompleteWith(e, "failed", [i \in Steps |-> "skipped"])
    /\ UNCHANGED <<kind, owner, lapsed, starts, done, ran, execs>>

-----------------------------------------------------------------------------
(* Cancellation, and the environment.                                      *)

\* isCancelled, asked every three seconds while a run step's process lives; an error
\* is an answer too, and the answer is remembered.
PollCancelled(e) ==
    /\ pc[e] = "running" /\ StepKind(e) = "run" /\ ~aborted[e]
    /\ \/ (seen[e] \/ ~LeaseIsCurrent(e)) /\ UNCHANGED faults
       \/ faults < MaxFaults[kind] /\ faults' = faults + 1
    /\ seen' = [seen EXCEPT ![e] = TRUE] /\ aborted' = [aborted EXCEPT ![e] = TRUE]
    /\ UNCHANGED <<kind, rowVars, pc, loopVars, ran, execs>>

\* A renewal fails, or the stream tells of the cancellation: abortActiveJob stops the
\* run steps of every execution of the job in that process.
AbortActiveJob(e) ==
    /\ Alive(e)
    /\ \/ ~LeaseIsCurrent(e) /\ UNCHANGED faults
       \/ faults < MaxFaults[kind] /\ faults' = faults + 1
    /\ aborted' = [f \in Execs |->
                     aborted[f] \/ (Process[f] = Process[e] /\ pc[f] = "running" /\ StepKind(f) = "run")]
    /\ aborted' # aborted
    /\ UNCHANGED <<kind, rowVars, pc, loopVars, seen, ran, execs>>

\* The runner's process ends.
ExecutorDies(e) ==
    /\ Alive(e) /\ Ends(e)
    /\ faults < MaxFaults[kind] /\ faults' = faults + 1
    /\ UNCHANGED <<kind, rowVars, ran, execs>>

UserCancels ==
    /\ state \in {"pending", "running"} /\ state' = "cancelled"
    /\ UNCHANGED <<kind, owner, lapsed, acked, report, starts, done, execVars, ran, execs, faults>>

\* The lease is not renewed in time: the runner is dead, or cut off.
LeaseLapses ==
    /\ owner # None /\ ~lapsed /\ ~acked /\ lapsed' = TRUE
    /\ faults < MaxFaults[kind] /\ faults' = faults + 1
    /\ UNCHANGED <<kind, state, owner, acked, report, starts, done, execVars, ran, execs>>

\* clearStaleJobs.
ClearStale ==
    /\ lapsed /\ ~acked
    /\ \/ /\ state = "running"
          /\ state' = "pending" /\ owner' = None /\ lapsed' = FALSE /\ UNCHANGED acked
       \/ /\ state = "cancelled" /\ acked' = TRUE /\ UNCHANGED <<state, owner, lapsed>>
    /\ UNCHANGED <<kind, report, starts, done, execVars, ran, execs, faults>>

Over == state \in {"success", "failed", "cancelled"} /\ \A e \in Execs : ~Alive(e)
Finished == (Over \/ execs = MaxExecs) /\ (\A e \in Execs : ~Alive(e)) /\ UNCHANGED vars

Execute(e) ==
    \/ FetchSecrets(e) \/ OpenReport(e) \/ SetUp(e) \/ BeginStep(e) \/ StartAttempt(e)
    \/ SkipStep(e) \/ ConditionThrows(e) \/ InvokeStep(e) \/ CallFunction(e)
    \/ RunStepEnds(e) \/ EvalStepEnds(e) \/ DispatchEnds(e) \/ CompleteAttempt(e)
    \/ ReportStep(e) \/ FillSkipped(e) \/ FunctionReturns(e) \/ StepsEnd(e) \/ StoreFiles(e)
    \/ CompleteJob(e) \/ SetUpFailed(e)

Next ==
    \/ \E e \in Execs :
        \/ Claim(e) \/ Execute(e) \/ PollCancelled(e) \/ AbortActiveJob(e) \/ ExecutorDies(e)
    \/ UserCancels \/ LeaseLapses \/ ClearStale
    \/ Finished

Spec == Init /\ [][Next]_vars

-----------------------------------------------------------------------------
(* Properties. *)

\* A step is invoked at most once under one attempt number, and only once its start
\* is stored for that execution, although a requeued job numbers its attempts from
\* one again and the earlier execution may still be running (saveStepAttemptStart:
\* "refusing to execute step").
InvokedOnce == \A k \in Keys : \A e \in ran[k] : starts[k] = e

\* What the history says of an attempt is what happened: a success was invoked, a
\* skipped step was not.
AttemptsAreTrue ==
    \A k \in Keys :
        /\ done[k] # "none" => starts[k] # None
        /\ done[k] \in {"success", "cancelled"} => ran[k] # {}
        /\ done[k] = "skipped" => ran[k] = {}

\* Attempts are made in order: a retry only after the stored failure of the attempt
\* before it, and a main step only after the stored success of the one before it,
\* all by one execution.
HistoryInOrder ==
    \A i \in Steps, a \in 1..(Retries + 1) :
        starts[<<i, a, 0>>] # None =>
            /\ a > 1 => /\ done[<<i, a - 1, 0>>] = "failed"
                        /\ starts[<<i, a - 1, 0>>] = starts[<<i, a, 0>>]
            /\ i \in 2..Main => \E b \in 1..(Retries + 1) :
                        /\ done[<<i - 1, b, 0>>] = "success"
                        /\ starts[<<i - 1, b, 0>>] = starts[<<i, a, 0>>]

\* Whatever requests and answers are lost, the stored attempts tell what was run, and
\* in the order in which it was run (step_attempts, queue.ts:704 and 733).
HistoryIsTrue == AttemptsAreTrue /\ HistoryInOrder

\* A job that is stored as a success earned it: every step succeeded in the end, or
\* comes after one whose condition was false.
SuccessIsEarned ==
    state = "success" =>
        \A i \in 1..Main :
            \/ report[i] = "success" /\ \E a \in 1..(Retries + 1) : done[<<i, a, 0>>] = "success"
            \/ report[i] = "skipped" /\ \E j \in 1..i, a \in 1..(Retries + 1) : done[<<j, a, 0>>] = "skipped"

=============================================================================
