------------------------- MODULE JobExecutionProofs -------------------------
(***************************************************************************)
(* Theorems of JobExecution, for any number of steps, retries, leases and  *)
(* faults and any set of workflows: its type invariant, that a step is     *)
(* invoked once under an attempt number, that the stored attempts tell     *)
(* what was run and in which order, and that a stored success was earned.  *)
(***************************************************************************)
EXTENDS JobExecution, TLAPS

USE DEF jobVars, rowVars, loopVars, execVars

\* The attempt an execution is at.
Outer(e) == <<at[e], try[e], 0>>

\* An execution has stored its start before it invokes a step, and has not
\* completed it before it saves what it returned; a call step waits, invoked and not
\* completed, for the steps of its function.
AttemptOK(e) ==
    LET k == Key(e)
    IN  /\ pc[e] \in {"invoke", "running", "save"} => starts[k] = e /\ done[k] = "none"
        /\ pc[e] = "invoke" => ran[k] = {}
        /\ pc[e] = "running" => e \in ran[k]
        /\ pc[e] = "save" => /\ result[e] \in {"success", "cancelled"} => e \in ran[k]
                             /\ result[e] = "skipped" => ran[k] = {}
        /\ pc[e] = "report" => starts[k] = e /\ done[k] = result[e]
        /\ inner[e] > 0 => /\ starts[Outer(e)] = e /\ done[Outer(e)] = "none"
                           /\ e \in ran[Outer(e)]
        /\ pc[e] = "store" => inner[e] = 0

\* It is where the attempts before it have brought it.
OrderOK(e) ==
    /\ try[e] > 1 => /\ starts[<<at[e], try[e] - 1, 0>>] = e
                     /\ done[<<at[e], try[e] - 1, 0>>] = "failed"
    /\ at[e] \in 2..Main => \E b \in 1..(Retries + 1) :
                                /\ starts[<<at[e] - 1, b, 0>>] = e
                                /\ done[<<at[e] - 1, b, 0>>] = "success"

\* What SuccessIsEarned asks of a report.
Succeeded(i) == \E a \in 1..(Retries + 1) : done[<<i, a, 0>>] = "success"
Skipped(i) == \E a \in 1..(Retries + 1) : done[<<i, a, 0>>] = "skipped"
Earned(steps) ==
    \A i \in 1..Main :
        \/ steps[i] = "success" /\ Succeeded(i)
        \/ steps[i] = "skipped" /\ \E j \in 1..i : Skipped(j)

MainIsOver(e) ==
    (pc[e] \in {"fill", "ended"} /\ inner[e] = 0) \/ pc[e] \in {"store", "complete"} \/ at[e] > Main

\* Its view tells of the steps before it; and if the main steps are over and did not
\* fail, its view has earned it.
ViewOK(e) ==
    /\ at[e] <= Main => \A i \in 1..(at[e] - 1) : view[e][i] = "success" /\ Succeeded(i)
    /\ pc[e] = "report" /\ inner[e] = 0 => view[e][at[e]] = result[e]
    /\ verdict[e] = "success" /\ MainIsOver(e) => Earned(view[e])

ExecutionInv ==
    /\ TypeOK
    /\ \A e \in Execs : AttemptOK(e) /\ OrderOK(e) /\ ViewOK(e)
    /\ InvokedOnce /\ HistoryIsTrue /\ SuccessIsEarned

-----------------------------------------------------------------------------
(* The rows and the executions.                                            *)

RowsOK ==
    /\ kind \in Workflows
    /\ state \in {"pending", "running", "success", "failed", "cancelled"}
    /\ owner \in Execs \cup {None} /\ lapsed \in BOOLEAN /\ acked \in BOOLEAN
    /\ report \in [Steps -> StepStatus]
    /\ starts \in [Keys -> Execs \cup {None}]
    /\ done \in [Keys -> Results \cup {"none"}]
    /\ ran \in [Keys -> SUBSET Execs]
    /\ execs \in 0..MaxExecs /\ faults \in 0..MaxFaults[kind]

LoopsOK ==
    /\ pc \in [Execs -> Pc]
    /\ at \in [Execs -> Steps]
    /\ try \in [Execs -> 1..(Retries + 1)]
    /\ inner \in [Execs -> 0..Inner]
    /\ result \in [Execs -> Results]
    /\ verdict \in [Execs -> {"success", "failed", "cancelled"}]
    /\ failed \in [Execs -> BOOLEAN]
    /\ view \in [Execs -> [Steps -> StepStatus]]

FlagsOK == seen \in [Execs -> BOOLEAN] /\ aborted \in [Execs -> BOOLEAN]

\* The types by the part of the state that a step writes.
LEMMA TypeParts == TypeOK <=> RowsOK /\ LoopsOK /\ FlagsOK
BY DEF TypeOK, RowsOK, LoopsOK, FlagsOK

\* An execution's attempt has a key, and another key while a function is called.
LEMMA KeyFacts ==
  ASSUME LoopsOK, NEW e \in Execs
  PROVE  /\ Key(e) \in Keys /\ Outer(e) \in Keys
         /\ inner[e] = 0 => Key(e) = Outer(e)
         /\ inner[e] > 0 => Key(e) # Outer(e)
         /\ e # None
BY ExecutionAssumption DEF LoopsOK, Key, Outer, Keys, Execs, None

\* The loop of another execution is not moved ...
LoopsStay(e) ==
    \A f \in Execs \ {e} :
        /\ pc'[f] = pc[f] /\ at'[f] = at[f] /\ try'[f] = try[f] /\ inner'[f] = inner[f]
        /\ result'[f] = result[f] /\ verdict'[f] = verdict[f] /\ failed'[f] = failed[f] /\ view'[f] = view[f]

\* ... and the attempt tables only grow, by what the execution's own request writes
\* and by what it invokes.
TablesGrow(e) ==
    /\ \A k \in Keys : starts'[k] = starts[k] \/ (starts[k] = None /\ starts'[k] = e /\ k = Key(e) /\ pc[e] = "start")
    /\ \A k \in Keys : \/ done'[k] = done[k]
                       \/ /\ done[k] = "none" /\ starts[k] = e /\ k = Key(e) /\ pc[e] = "save"
                          /\ done'[k] = result[e]
    /\ \A k \in Keys : ran'[k] = ran[k] \/ (ran'[k] = ran[k] \cup {e} /\ k = Key(e) /\ pc[e] = "invoke")

\* A report that is stored as a success is that of an execution whose verdict it is.
ReportStays(e) ==
    state' = "success" =>
        \/ state = "success" /\ report' = report
        \/ pc[e] = "complete" /\ verdict[e] = "success" /\ report' = view[e]

\* A step of an execution, seen from the rows and the other executions.
Moves(e) == LoopsStay(e) /\ TablesGrow(e) /\ ReportStays(e)

\* The execution's own part of the invariant.
Stands(e) == AttemptOK(e) /\ OrderOK(e) /\ ViewOK(e)

-----------------------------------------------------------------------------
(* What a step of one execution does to the invariant of all.              *)

\* What is stored stays stored, so that what was earned stays earned.
LEMMA StoredStays ==
  ASSUME RowsOK, NEW e \in Execs, TablesGrow(e), result[e] # "none"
  PROVE  /\ \A k \in Keys : starts[k] # None => starts'[k] = starts[k]
         /\ \A k \in Keys : done[k] # "none" => done'[k] = done[k]
         /\ \A i \in Steps : (Succeeded(i) => Succeeded(i)') /\ (Skipped(i) => Skipped(i)')
<1>1. /\ \A k \in Keys : starts[k] # None => starts'[k] = starts[k]
      /\ \A k \in Keys : done[k] # "none" => done'[k] = done[k]
  BY DEF TablesGrow
<1>2. \A i \in Steps, a \in 1..(Retries + 1) : <<i, a, 0>> \in Keys
  BY ExecutionAssumption DEF Keys
<1>3. QED
  BY <1>1, <1>2 DEF Succeeded, Skipped

\* What an execution's view has earned stays earned.
LEMMA EarnedStays ==
  ASSUME RowsOK, NEW e \in Execs, TablesGrow(e), result[e] # "none", NEW steps, NEW now, Earned(steps),
         \A i \in 1..Main : now[i] = steps[i]
  PROVE  \A i \in 1..Main : \/ now[i] = "success" /\ Succeeded(i)'
                            \/ now[i] = "skipped" /\ \E j \in 1..i : Skipped(j)'
<1>1. \A i \in 1..Main : i \in Steps /\ \A j \in 1..i : j \in Steps
  BY ExecutionAssumption DEF Steps
<1>2. QED
  BY <1>1, StoredStays DEF Earned

\* Another execution stands as it stood.
LEMMA OthersStand ==
  ASSUME RowsOK, LoopsOK, NEW e \in Execs, AttemptOK(e), Moves(e), NEW f \in Execs \ {e}, Stands(f)
  PROVE  Stands(f)'
<1>0. /\ pc'[f] = pc[f] /\ at'[f] = at[f] /\ try'[f] = try[f] /\ inner'[f] = inner[f]
      /\ result'[f] = result[f] /\ verdict'[f] = verdict[f] /\ view'[f] = view[f]
      /\ Key(f)' = Key(f) /\ Outer(f)' = Outer(f) /\ f # None /\ result[e] # "none"
      /\ Key(f) \in Keys /\ Outer(f) \in Keys
  BY KeyFacts DEF Moves, LoopsStay, Key, Outer, LoopsOK, Results
<1>1. \A k \in Keys : starts[k] = f => starts'[k] = f /\ done'[k] = done[k] /\ ran'[k] = ran[k]
  BY <1>0 DEF Moves, TablesGrow, AttemptOK
<1>2. AttemptOK(f)'
  BY <1>0, <1>1 DEF Stands, AttemptOK
<1>3. OrderOK(f)'
  <2>1. try[f] > 1 => <<at[f], try[f] - 1, 0>> \in Keys
    BY ExecutionAssumption DEF LoopsOK, Keys
  <2>2. at[f] \in 2..Main => \A b \in 1..(Retries + 1) : <<at[f] - 1, b, 0>> \in Keys
    BY ExecutionAssumption DEF Keys, Steps
  <2>3. QED
    BY <1>0, <1>1, <2>1, <2>2 DEF Stands, OrderOK
<1>4. ViewOK(f)'
  <2>1. MainIsOver(f)' <=> MainIsOver(f)
    BY <1>0 DEF MainIsOver
  <2>2. Earned(view[f]) => Earned(view[f])'
    <3>1. Earned(view[f]) => \A i \in 1..Main : \/ view[f][i] = "success" /\ Succeeded(i)'
                                                \/ view[f][i] = "skipped" /\ \E j \in 1..i : Skipped(j)'
      BY <1>0, EarnedStays DEF Moves
    <3>2. QED
      BY <1>0, <3>1 DEF Earned, Succeeded, Skipped
  <2>3. at[f] <= Main => \A i \in 1..(at[f] - 1) : i \in Steps
    BY ExecutionAssumption DEF LoopsOK, Steps
  <2>4. at'[f] <= Main => \A i \in 1..(at'[f] - 1) : view'[f][i] = "success" /\ Succeeded(i)'
    BY <1>0, <2>3, StoredStays DEF Stands, ViewOK, Moves
  <2>5. QED
    BY <1>0, <2>1, <2>2, <2>4 DEF Stands, ViewOK
<1>5. QED
  BY <1>2, <1>3, <1>4 DEF Stands

\* The history stays true, and a stored success earned.
LEMMA HistoryStays ==
  ASSUME RowsOK, LoopsOK, InvokedOnce, HistoryIsTrue, SuccessIsEarned,
         NEW e \in Execs, Stands(e), Moves(e)
  PROVE  InvokedOnce' /\ HistoryIsTrue' /\ SuccessIsEarned'
<1>0. e # None /\ Key(e) \in Keys /\ result[e] # "none"
  BY KeyFacts DEF LoopsOK, Results
<1>1. InvokedOnce'
  <2> SUFFICES ASSUME NEW k \in Keys, NEW x \in ran'[k] PROVE starts'[k] = x
    BY DEF InvokedOnce
  <2>1. \A f \in Execs : f # None
    BY KeyFacts
  <2>2. starts[k] # None => starts'[k] = starts[k]
    BY <1>0, StoredStays DEF Moves
  <2>3. CASE x \in ran[k]
    BY <2>1, <2>2, <2>3 DEF InvokedOnce, RowsOK
  <2>4. CASE x \notin ran[k]
    BY <1>0, <2>2, <2>4 DEF Moves, TablesGrow, Stands, AttemptOK
  <2>5. QED
    BY <2>3, <2>4
<1>2. AttemptsAreTrue'
  <2> SUFFICES ASSUME NEW k \in Keys
               PROVE  /\ done'[k] # "none" => starts'[k] # None
                      /\ done'[k] \in {"success", "cancelled"} => ran'[k] # {}
                      /\ done'[k] = "skipped" => ran'[k] = {}
    BY DEF AttemptsAreTrue
  <2>1. CASE done'[k] = done[k]
    BY <1>0, <2>1 DEF HistoryIsTrue, AttemptsAreTrue, Moves, TablesGrow, Stands, AttemptOK
  <2>2. CASE done'[k] # done[k]
    <3>1. starts[k] = e /\ k = Key(e) /\ pc[e] = "save" /\ done'[k] = result[e]
      BY <2>2 DEF Moves, TablesGrow
    <3>2. ran'[k] = ran[k] /\ starts'[k] = e
      BY <1>0, <3>1 DEF Moves, TablesGrow
    <3>3. QED
      BY <1>0, <3>1, <3>2 DEF Stands, AttemptOK
  <2>3. QED
    BY <2>1, <2>2
<1>3. HistoryInOrder'
  <2> SUFFICES ASSUME NEW i \in Steps, NEW a \in 1..(Retries + 1), starts'[<<i, a, 0>>] # None
               PROVE  /\ a > 1 => /\ done'[<<i, a - 1, 0>>] = "failed"
                                  /\ starts'[<<i, a - 1, 0>>] = starts'[<<i, a, 0>>]
                      /\ i \in 2..Main => \E b \in 1..(Retries + 1) :
                                  /\ done'[<<i - 1, b, 0>>] = "success"
                                  /\ starts'[<<i - 1, b, 0>>] = starts'[<<i, a, 0>>]
    BY DEF HistoryInOrder
  <2>1. /\ <<i, a, 0>> \in Keys
        /\ a > 1 => <<i, a - 1, 0>> \in Keys
        /\ i \in 2..Main => \A b \in 1..(Retries + 1) : <<i - 1, b, 0>> \in Keys
    BY ExecutionAssumption DEF Keys, Steps
  <2>2. /\ \A k \in Keys : starts[k] # None => starts'[k] = starts[k]
        /\ \A k \in Keys : done[k] # "none" => done'[k] = done[k]
    BY <1>0, StoredStays DEF Moves
  <2>3. CASE starts[<<i, a, 0>>] # None
    <3>1. /\ a > 1 => /\ done[<<i, a - 1, 0>>] = "failed"
                      /\ starts[<<i, a - 1, 0>>] = starts[<<i, a, 0>>]
          /\ i \in 2..Main => \E b \in 1..(Retries + 1) :
                      /\ done[<<i - 1, b, 0>>] = "success"
                      /\ starts[<<i - 1, b, 0>>] = starts[<<i, a, 0>>]
      BY <2>3 DEF HistoryIsTrue, HistoryInOrder
    <3>2. QED
      BY <2>1, <2>2, <2>3, <3>1
  <2>4. CASE starts[<<i, a, 0>>] = None
    <3>1. starts'[<<i, a, 0>>] = e /\ <<i, a, 0>> = Key(e)
      BY <2>1, <2>4 DEF Moves, TablesGrow
    <3>2. i = at[e] /\ a = try[e]
      BY <3>1 DEF Key
    <3>3. QED
      BY <1>0, <2>1, <2>2, <3>1, <3>2 DEF Stands, OrderOK
  <2>5. QED
    BY <2>3, <2>4
<1>4. SuccessIsEarned'
  <2> SUFFICES ASSUME state' = "success"
               PROVE  \A i \in 1..Main : \/ report'[i] = "success" /\ Succeeded(i)'
                                         \/ report'[i] = "skipped" /\ \E j \in 1..i : Skipped(j)'
    BY DEF SuccessIsEarned, Succeeded, Skipped
  <2>1. PICK steps : Earned(steps) /\ report' = steps
    <3>1. CASE state = "success" /\ report' = report
      BY <3>1 DEF SuccessIsEarned, Earned, Succeeded, Skipped
    <3>2. CASE pc[e] = "complete" /\ verdict[e] = "success" /\ report' = view[e]
      BY <3>2 DEF Stands, ViewOK, MainIsOver
    <3>3. QED
      BY <3>1, <3>2 DEF Moves, ReportStays
  <2>2. QED
    BY <1>0, <2>1, EarnedStays DEF Moves
<1>5. QED
  BY <1>1, <1>2, <1>3, <1>4 DEF HistoryIsTrue

-----------------------------------------------------------------------------
(* The rows.                                                               *)

\* A step that leaves the attempt tables alone lets them grow by nothing.
LEMMA NothingGrows ==
  ASSUME NEW e, UNCHANGED <<starts, done, ran>>
  PROVE  TablesGrow(e)
BY DEF TablesGrow

\* A report is only stored while the job is not over.
LEMMA ReportsOfSteps ==
  ASSUME RowsOK, LoopsOK, NEW e \in Execs,
         OpenReport(e) \/ SetUp(e) \/ BeginStep(e) \/ ReportStep(e) \/ FillSkipped(e)
  PROVE  RowsOK' /\ TablesGrow(e) /\ ReportStays(e)
<1>0. /\ UNCHANGED <<kind, state, owner, lapsed, acked, starts, done, ran, execs>>
      /\ report' = report \/ (HoldsLease(e) /\ report' \in [Steps -> StepStatus])
      /\ faults' = faults \/ (faults < MaxFaults[kind] /\ faults' = faults + 1)
  <2>1. view[e] \in [Steps -> StepStatus] /\ [view[e] EXCEPT ![at[e]] = "running"] \in [Steps -> StepStatus]
    BY DEF LoopsOK, StepStatus
  <2>2. CASE OpenReport(e)
    BY <2>1, <2>2 DEF OpenReport, SaveReport, Request
  <2>3. CASE SetUp(e)
    BY <2>1, <2>3 DEF SetUp, SaveReport, Request
  <2>4. CASE BeginStep(e)
    BY <2>1, <2>4 DEF BeginStep, SaveReport, Request
  <2>5. CASE ReportStep(e)
    BY <2>1, <2>5 DEF ReportStep, SaveReport, Request
  <2>6. CASE FillSkipped(e)
    BY <2>1, <2>6 DEF FillSkipped, SaveReport, Request
  <2>7. QED
    BY <2>2, <2>3, <2>4, <2>5, <2>6
<1>1. faults' \in 0..MaxFaults[kind]
  BY <1>0, ExecutionAssumption DEF RowsOK
<1>2. RowsOK'
  BY <1>0, <1>1 DEF RowsOK
<1>3. QED
  BY <1>0, <1>2, NothingGrows DEF ReportStays, HoldsLease

\* The requests that write no row, and what an execution does by itself.
LEMMA QuietSteps ==
  ASSUME RowsOK, LoopsOK, NEW e \in Execs,
         \/ FetchSecrets(e) \/ SkipStep(e) \/ ConditionThrows(e) \/ RunStepEnds(e) \/ EvalStepEnds(e)
         \/ DispatchEnds(e) \/ FunctionReturns(e) \/ StepsEnd(e) \/ StoreFiles(e) \/ ExecutorDies(e)
  PROVE  RowsOK' /\ TablesGrow(e) /\ ReportStays(e)
<1>0. /\ UNCHANGED <<kind, state, owner, lapsed, acked, report, starts, done, ran, execs>>
      /\ faults' = faults \/ (faults < MaxFaults[kind] /\ faults' = faults + 1)
  <2>1. CASE FetchSecrets(e)
    BY <2>1 DEF FetchSecrets, Request
  <2>2. CASE EvalStepEnds(e)
    BY <2>2 DEF EvalStepEnds, Request
  <2>3. CASE DispatchEnds(e)
    BY <2>3 DEF DispatchEnds, Request
  <2>4. CASE SkipStep(e) \/ ConditionThrows(e) \/ RunStepEnds(e)
    BY <2>4 DEF SkipStep, ConditionThrows, RunStepEnds
  <2>5. CASE FunctionReturns(e) \/ StepsEnd(e) \/ StoreFiles(e) \/ ExecutorDies(e)
    BY <2>5 DEF FunctionReturns, StepsEnd, StoreFiles, ExecutorDies
  <2>6. QED
    BY <2>1, <2>2, <2>3, <2>4, <2>5
<1>1. faults' \in 0..MaxFaults[kind]
  BY <1>0, ExecutionAssumption DEF RowsOK
<1>2. RowsOK'
  BY <1>0, <1>1 DEF RowsOK
<1>3. QED
  BY <1>0, <1>2, NothingGrows DEF ReportStays

\* The steps that write the attempt tables, invoke a step, or begin and end a job.
LEMMA WritingSteps ==
  ASSUME RowsOK, LoopsOK, NEW e \in Execs,
         \/ Claim(e) \/ StartAttempt(e) \/ InvokeStep(e) \/ CallFunction(e) \/ CompleteAttempt(e)
         \/ CompleteJob(e) \/ SetUpFailed(e)
  PROVE  RowsOK' /\ TablesGrow(e) /\ ReportStays(e)
<1>0. Key(e) \in Keys
  BY KeyFacts
<1> DEFINE Counted == faults' = faults \/ (faults < MaxFaults[kind] /\ faults' = faults + 1)
<1>a. Counted /\ kind' = kind => faults' \in 0..MaxFaults[kind']
  BY ExecutionAssumption DEF RowsOK
<1>1. CASE Claim(e)
  <2>1. /\ UNCHANGED <<kind, report, starts, done, ran, faults>>
        /\ state' = "running" /\ owner' = e /\ lapsed' = FALSE /\ acked' = FALSE /\ execs' = e
    BY <1>1 DEF Claim
  <2>a. e \in 0..MaxExecs
    BY ExecutionAssumption DEF Execs
  <2>2. RowsOK'
    BY <2>1, <2>a DEF RowsOK
  <2>3. QED
    BY <2>1, <2>2, NothingGrows DEF ReportStays
<1>2. CASE StartAttempt(e)
  <2>1. /\ UNCHANGED <<kind, state, owner, lapsed, acked, report, done, ran, execs>> /\ Counted
        /\ starts' = starts \/ (starts[Key(e)] = None /\ starts' = [starts EXCEPT ![Key(e)] = e])
        /\ pc[e] = "start"
    BY <1>2 DEF StartAttempt, SaveStepAttemptStart, Request
  <2>2. RowsOK'
    BY <1>0, <1>a, <2>1 DEF RowsOK
  <2>3. QED
    BY <1>0, <2>1, <2>2 DEF RowsOK, TablesGrow, ReportStays
<1>3. CASE InvokeStep(e) \/ CallFunction(e)
  <2>1. /\ UNCHANGED <<kind, state, owner, lapsed, acked, report, starts, done, execs, faults>>
        /\ ran' = [ran EXCEPT ![Key(e)] = @ \cup {e}] /\ pc[e] = "invoke"
    BY <1>3 DEF InvokeStep, CallFunction
  <2>2. QED
    BY <1>0, <2>1 DEF RowsOK, TablesGrow, ReportStays
<1>4. CASE CompleteAttempt(e)
  <2>1. /\ UNCHANGED <<kind, state, owner, lapsed, acked, report, starts, ran, execs>> /\ Counted
        /\ \/ done' = done
           \/ /\ starts[Key(e)] = e /\ done[Key(e)] = "none"
              /\ done' = [done EXCEPT ![Key(e)] = result[e]]
        /\ pc[e] = "save"
    BY <1>4 DEF CompleteAttempt, SaveStepAttempt, Request
  <2>2. result[e] \in Results
    BY DEF LoopsOK
  <2>3. RowsOK'
    BY <1>0, <1>a, <2>1, <2>2 DEF RowsOK
  <2>4. QED
    BY <1>0, <2>1, <2>3 DEF RowsOK, TablesGrow, ReportStays
<1>5. ASSUME NEW s, NEW steps, s \in {"success", "failed", "cancelled"}, steps \in [Steps -> StepStatus],
             UNCHANGED <<kind, owner, lapsed, starts, done, ran, execs>>, CompleteWith(e, s, steps)
      PROVE  /\ RowsOK' /\ TablesGrow(e)
             /\ state' = "success" => (state = "success" /\ report' = report) \/ (s = "success" /\ report' = steps)
  <2>1. /\ Counted
        /\ \/ UNCHANGED <<state, report, acked>>
           \/ /\ HoldsLease(e) /\ report' = steps /\ acked' = TRUE
              /\ state' = IF state = "cancelled" THEN "cancelled" ELSE s
    BY <1>5 DEF CompleteWith, Request
  <2>2. RowsOK'
    BY <1>a, <1>5, <2>1 DEF RowsOK
  <2>3. QED
    BY <1>5, <2>1, <2>2, NothingGrows DEF HoldsLease
<1>6. CASE CompleteJob(e)
  <2>1. verdict[e] \in {"success", "failed", "cancelled"} /\ view[e] \in [Steps -> StepStatus] /\ pc[e] = "complete"
    BY <1>6 DEF LoopsOK, CompleteJob
  <2>2. QED
    BY <1>5, <1>6, <2>1 DEF CompleteJob, ReportStays
<1>7. CASE SetUpFailed(e)
  <2>1. [i \in Steps |-> "skipped"] \in [Steps -> StepStatus]
    BY DEF StepStatus, Results
  <2>2. QED
    BY <1>5, <1>7, <2>1 DEF SetUpFailed, ReportStays
<1>8. QED
  BY <1>1, <1>2, <1>3, <1>4, <1>6, <1>7

-----------------------------------------------------------------------------
(* The loop of an execution.                                               *)

\* What an execution relies on while its own request writes.
LEMMA OwnFacts ==
  ASSUME RowsOK, LoopsOK, NEW e \in Execs, Stands(e), TablesGrow(e)
  PROVE  /\ at'[e] = at[e] /\ try'[e] \in {1, try[e]} => OrderOK(e)'
         /\ inner[e] > 0 /\ at'[e] = at[e] /\ try'[e] = try[e] =>
               starts'[Outer(e)] = e /\ done'[Outer(e)] = "none" /\ e \in ran'[Outer(e)] /\ Outer(e)' = Outer(e)
         /\ at[e] <= Main => \A i \in 1..(at[e] - 1) : view[e][i] = "success" /\ Succeeded(i)'
         /\ Earned(view[e]) /\ (\A i \in 1..Main : view'[e][i] = view[e][i]) => Earned(view[e])'
<1>0. /\ Key(e) \in Keys /\ Outer(e) \in Keys /\ (inner[e] > 0 => Key(e) # Outer(e)) /\ e # None
      /\ result[e] # "none"
  BY KeyFacts DEF LoopsOK, Results
<1>1. ASSUME at'[e] = at[e], try'[e] \in {1, try[e]} PROVE OrderOK(e)'
  <2>1. try[e] > 1 => <<at[e], try[e] - 1, 0>> \in Keys
    BY ExecutionAssumption DEF LoopsOK, Keys
  <2>2. at[e] \in 2..Main => \A b \in 1..(Retries + 1) : <<at[e] - 1, b, 0>> \in Keys
    BY ExecutionAssumption DEF Keys, Steps
  <2>3. try'[e] > 1 => /\ starts'[<<at'[e], try'[e] - 1, 0>>] = e
                       /\ done'[<<at'[e], try'[e] - 1, 0>>] = "failed"
    BY <1>0, <1>1, <2>1, StoredStays DEF Stands, OrderOK
  <2>4. at[e] \in 2..Main => \E b \in 1..(Retries + 1) :
                                  /\ starts'[<<at[e] - 1, b, 0>>] = e
                                  /\ done'[<<at[e] - 1, b, 0>>] = "success"
    BY <1>0, <2>2, StoredStays DEF Stands, OrderOK
  <2>5. QED
    BY <1>1, <2>3, <2>4 DEF OrderOK
<1>2. inner[e] > 0 => starts'[Outer(e)] = e /\ done'[Outer(e)] = "none" /\ e \in ran'[Outer(e)]
  BY <1>0 DEF TablesGrow, Stands, AttemptOK
<1>3. at[e] <= Main => \A i \in 1..(at[e] - 1) : view[e][i] = "success" /\ Succeeded(i)'
  <2>1. at[e] <= Main => \A i \in 1..(at[e] - 1) : i \in Steps
    BY ExecutionAssumption DEF LoopsOK, Steps
  <2>2. QED
    BY <1>0, <2>1, StoredStays DEF Stands, ViewOK
<1>4. ASSUME Earned(view[e]), \A i \in 1..Main : view'[e][i] = view[e][i] PROVE Earned(view[e])'
  <2>1. \A i \in 1..Main : \/ view'[e][i] = "success" /\ Succeeded(i)'
                           \/ view'[e][i] = "skipped" /\ \E j \in 1..i : Skipped(j)'
    BY <1>0, <1>4, EarnedStays
  <2>2. QED
    BY <2>1 DEF Earned, Succeeded, Skipped
<1>5. QED
  BY <1>1, <1>2, <1>3, <1>4 DEF Outer

\* A task that ends leaves nothing behind.
LEMMA EndsStands ==
  ASSUME LoopsOK, FlagsOK, NEW e \in Execs, Ends(e)
  PROVE  LoopsOK' /\ FlagsOK' /\ LoopsStay(e) /\ Stands(e)'
<1>1. LoopsOK' /\ FlagsOK' /\ LoopsStay(e)
  BY ExecutionAssumption DEF Ends, Go, LoopsOK, FlagsOK, LoopsStay, Pc, Idle, Steps, Results, Pending, StepStatus
<1>2. pc'[e] = "gone" /\ at'[e] = 1 /\ try'[e] = 1 /\ inner'[e] = 0
  BY DEF Ends, Go, LoopsOK
<1>3. QED
  BY <1>1, <1>2, ExecutionAssumption DEF Stands, AttemptOK, OrderOK, ViewOK, MainIsOver

\* A request whose answer lets the execution go on at another place.
LEMMA GoesOn ==
  ASSUME RowsOK, LoopsOK, NEW e \in Execs, Stands(e), TablesGrow(e),
         NEW p \in Pc \ {"invoke", "running", "save", "report", "fill", "ended", "store", "complete"},
         Go(e, p), UNCHANGED loopVars
  PROVE  LoopsOK' /\ LoopsStay(e) /\ Stands(e)'
<1>1. LoopsOK' /\ LoopsStay(e) /\ pc'[e] = p
  BY DEF Go, LoopsOK, LoopsStay
<1>2. AttemptOK(e)' /\ OrderOK(e)'
  BY <1>1, OwnFacts DEF AttemptOK
<1>3. ViewOK(e)'
  BY <1>1, OwnFacts DEF ViewOK, MainIsOver, Stands
<1>4. QED
  BY <1>1, <1>2, <1>3 DEF Stands

\* A loop that stops: the main steps succeed only when a step was skipped, or the
\* last one succeeded, and the steps behind it are marked as skipped.
LEMMA StopsStands ==
  ASSUME RowsOK, LoopsOK, NEW e \in Execs, Stands(e), TablesGrow(e),
         NEW v \in {"success", "failed", "cancelled"}, NEW from \in Nat, from >= at[e], NEW remain,
         inner[e] = 0 /\ at[e] <= Main /\ v = "success" =>
             /\ pc[e] = "report" /\ result[e] \in {"success", "skipped"} /\ from = at[e] + 1
             /\ result[e] = "success" => at[e] = Main,
         Stops(e, v, from, remain)
  PROVE  LoopsOK' /\ LoopsStay(e) /\ Stands(e)'
<1>0. /\ pc'[e] \in {"fill", "ended"} /\ UNCHANGED <<at, try, inner>>
      /\ verdict'[e] = (IF inner[e] > 0 \/ IsPost(e) THEN verdict[e] ELSE v)
      /\ view'[e] = Filled(e, from)
  BY DEF Stops, Go, LoopsOK
<1>1. LoopsOK' /\ LoopsStay(e)
  <2>1. Filled(e, from) \in [Steps -> StepStatus]
    BY DEF Filled, LoopsOK, StepStatus, Results
  <2>2. LoopsOK'
    BY <2>1 DEF Stops, Go, LoopsOK, Pc, Idle, Results
  <2>3. QED
    BY <2>2 DEF Stops, Go, LoopsOK, LoopsStay
<1>2. AttemptOK(e)' /\ OrderOK(e)'
  BY <1>0, OwnFacts DEF AttemptOK
<1>3. /\ at[e] \in Steps /\ Main \in Nat /\ 1..Main \subseteq Steps
      /\ \A i \in Steps : view'[e][i] = IF inner[e] = 0 /\ i \in from..End(e) THEN "skipped" ELSE view[e][i]
  BY <1>0, ExecutionAssumption DEF Filled, LoopsOK, Steps
<1>4. ViewOK(e)'
  <2>1. at'[e] <= Main => \A i \in 1..(at'[e] - 1) : view'[e][i] = "success" /\ Succeeded(i)'
    BY <1>0, <1>3, OwnFacts DEF Steps
  <2>2. ASSUME verdict'[e] = "success", MainIsOver(e)' PROVE Earned(view[e])'
    <3>1. CASE inner[e] > 0 \/ IsPost(e)
      <4>1. at[e] > Main /\ verdict[e] = "success"
        BY <1>0, <2>2, <3>1 DEF MainIsOver, IsPost
      <4>2. Earned(view[e])
        BY <4>1 DEF Stands, ViewOK, MainIsOver
      <4>3. \A i \in 1..Main : view'[e][i] = view[e][i]
        BY <1>3, <4>1 DEF Steps
      <4>4. QED
        BY <4>2, <4>3, OwnFacts
    <3>2. CASE inner[e] = 0 /\ ~IsPost(e)
      <4>1. /\ pc[e] = "report" /\ result[e] \in {"success", "skipped"} /\ from = at[e] + 1 /\ at[e] <= Main
            /\ result[e] = "success" => at[e] = Main
            /\ End(e) = Main
        <5>1. at[e] <= Main /\ End(e) = Main
          BY <1>3, <3>2 DEF IsPost, End, Steps
        <5>2. v = "success"
          BY <1>0, <2>2, <3>2
        <5>3. QED
          BY <3>2, <5>1, <5>2
      <4>2. /\ view'[e][at[e]] = result[e] /\ done[Key(e)] = result[e] /\ Key(e) \in Keys
            /\ Key(e) = <<at[e], try[e], 0>> /\ try[e] \in 1..(Retries + 1)
        <5>1. Key(e) = <<at[e], try[e], 0>> /\ Key(e) \in Keys /\ try[e] \in 1..(Retries + 1)
          BY <3>2, KeyFacts DEF Key, LoopsOK
        <5>2. done[Key(e)] = result[e] /\ view[e][at[e]] = result[e]
          BY <3>2, <4>1 DEF Stands, AttemptOK, ViewOK
        <5>3. at[e] \notin from..End(e)
          BY <1>3, <4>1 DEF Steps
        <5>4. QED
          BY <1>3, <5>1, <5>2, <5>3
      <4>3. done'[<<at[e], try[e], 0>>] = result[e]
        BY <4>1, <4>2, StoredStays
      <4>4. ASSUME NEW i \in 1..Main
            PROVE  \/ view'[e][i] = "success" /\ Succeeded(i)'
                   \/ view'[e][i] = "skipped" /\ \E j \in 1..i : Skipped(j)'
        <5>1. CASE i < at[e]
          <6>1. at'[e] <= Main /\ i \in 1..(at'[e] - 1)
            BY <1>0, <1>3, <4>1, <5>1 DEF Steps
          <6>2. QED
            BY <2>1, <6>1
        <5>2. CASE i = at[e]
          <6>1. (result[e] = "success" => Succeeded(i)') /\ (result[e] = "skipped" => Skipped(i)')
            BY <4>2, <4>3, <5>2 DEF Succeeded, Skipped
          <6>2. QED
            BY <4>1, <4>2, <5>2, <6>1
        <5>3. CASE i > at[e]
          <6>1. result[e] = "skipped" /\ i \in from..End(e) /\ i \in Steps /\ at[e] \in 1..i
            BY <1>3, <4>1, <5>3 DEF Steps
          <6>2. view'[e][i] = "skipped"
            BY <1>3, <3>2, <6>1
          <6>3. \E j \in 1..i : Skipped(j)'
            BY <4>2, <4>3, <6>1 DEF Skipped
          <6>4. QED
            BY <6>2, <6>3
        <5>4. QED
          BY <1>3, <5>1, <5>2, <5>3 DEF Steps
      <4>5. QED
        BY <4>4 DEF Earned, Succeeded, Skipped
    <3>3. QED
      BY <1>3, <3>1, <3>2 DEF LoopsOK
  <2>3. QED
    BY <1>0, <2>1, <2>2 DEF ViewOK
<1>5. QED
  BY <1>1, <1>2, <1>4 DEF Stands

\* An error fails the main steps.
LEMMA ThrowsStands ==
  ASSUME RowsOK, LoopsOK, NEW e \in Execs, Stands(e), TablesGrow(e), Throws(e)
  PROVE  LoopsOK' /\ LoopsStay(e) /\ Stands(e)'
<1>1. at[e] \in Nat /\ at[e] >= at[e]
  BY ExecutionAssumption DEF LoopsOK, Steps
<1>2. Stops(e, "failed", at[e], TRUE)
  BY DEF Throws
<1>3. QED
  BY <1>1, <1>2, StopsStands

-----------------------------------------------------------------------------
(* The steps of an execution.                                              *)

\* The requests before the first step, and those that end the job.
LEMMA FirstAndLastStand ==
  ASSUME RowsOK, LoopsOK, FlagsOK, NEW e \in Execs, Stands(e), TablesGrow(e),
         \/ Claim(e) \/ FetchSecrets(e) \/ OpenReport(e) \/ SetUp(e)
         \/ CompleteJob(e) \/ SetUpFailed(e) \/ ExecutorDies(e)
  PROVE  LoopsOK' /\ FlagsOK' /\ LoopsStay(e) /\ Stands(e)'
<1>1. CASE Ends(e)
  BY <1>1, EndsStands
<1>2. ASSUME NEW p \in {"secrets", "open", "setup", "begin", "broken"}, Go(e, p), UNCHANGED <<loopVars, seen, aborted>>
      PROVE  LoopsOK' /\ FlagsOK' /\ LoopsStay(e) /\ Stands(e)'
  <2>1. LoopsOK' /\ LoopsStay(e) /\ Stands(e)'
    BY <1>2, GoesOn DEF Pc
  <2>2. FlagsOK'
    BY <1>2 DEF FlagsOK
  <2>3. QED
    BY <2>1, <2>2
<1>3. CASE Claim(e)
  BY <1>2, <1>3 DEF Claim
<1>4. CASE FetchSecrets(e)
  <2>1. Ends(e) \/ Continues(e, "open")
    BY <1>4 DEF FetchSecrets, Request
  <2>2. QED
    BY <1>1, <1>2, <2>1 DEF Continues
<1>5. CASE OpenReport(e)
  <2>1. Ends(e) \/ Continues(e, "setup")
    BY <1>5 DEF OpenReport, SaveReport, Request
  <2>2. QED
    BY <1>1, <1>2, <2>1 DEF Continues
<1>6. CASE SetUp(e)
  <2>1. (Go(e, "begin") \/ Go(e, "broken")) /\ UNCHANGED <<loopVars, seen, aborted>>
    BY <1>6 DEF SetUp, SaveReport, Request
  <2>2. QED
    BY <1>2, <2>1
<1>7. CASE CompleteJob(e) \/ SetUpFailed(e) \/ ExecutorDies(e)
  <2>1. Ends(e)
    BY <1>7 DEF CompleteJob, SetUpFailed, ExecutorDies, CompleteWith, Request
  <2>2. QED
    BY <1>1, <2>1
<1>8. QED
  BY <1>3, <1>4, <1>5, <1>6, <1>7

\* A step begins: it is reported as running, and its attempts are counted from one.
LEMMA BeginStands ==
  ASSUME RowsOK, LoopsOK, NEW e \in Execs, Stands(e), TablesGrow(e), BeginStep(e)
  PROVE  LoopsOK' /\ LoopsStay(e) /\ Stands(e)'
<1> DEFINE now == [view[e] EXCEPT ![at[e]] = "running"]
<1>1. CASE Throws(e)
  BY <1>1, ThrowsStands
<1>2. CASE /\ Go(e, "start") /\ view' = [view EXCEPT ![e] = now]
           /\ try' = [try EXCEPT ![e] = IF inner[e] > 0 THEN @ ELSE 1]
           /\ UNCHANGED <<at, inner, result, verdict, failed>>
  <2>1. now \in [Steps -> StepStatus] /\ at[e] \in Steps /\ try[e] \in 1..(Retries + 1) /\ 1 \in 1..(Retries + 1)
    BY ExecutionAssumption DEF LoopsOK, StepStatus
  <2>2. LoopsOK' /\ LoopsStay(e)
    BY <1>2, <2>1 DEF Go, LoopsOK, LoopsStay, Pc
  <2>3. /\ pc'[e] = "start" /\ try'[e] = (IF inner[e] > 0 THEN try[e] ELSE 1) /\ view'[e] = now
        /\ UNCHANGED <<at, inner, result, verdict>>
    BY <1>2 DEF Go, LoopsOK
  <2>4. AttemptOK(e)' /\ OrderOK(e)'
    BY <2>3, OwnFacts DEF AttemptOK
  <2>5. \A i \in Steps : i # at[e] => now[i] = view[e][i]
    BY <2>1 DEF LoopsOK
  <2>6. at[e] \in Nat /\ Main \in Nat /\ 1..Main \subseteq Steps
    BY <2>1, ExecutionAssumption DEF Steps
  <2> HIDE DEF now
  <2>7. at'[e] <= Main => \A i \in 1..(at'[e] - 1) : view'[e][i] = "success" /\ Succeeded(i)'
    <3>1. at[e] <= Main => \A i \in 1..(at[e] - 1) : i \in Steps /\ i # at[e]
      BY <2>6
    <3>2. QED
      BY <2>3, <2>5, <3>1, OwnFacts
  <2>8. verdict'[e] = "success" /\ MainIsOver(e)' => Earned(view[e])'
    <3>1. ASSUME verdict'[e] = "success", MainIsOver(e)' PROVE Earned(view[e])'
      <4>1. at[e] > Main /\ Earned(view[e])
        BY <2>3, <3>1 DEF MainIsOver, Stands, ViewOK
      <4>2. \A i \in 1..Main : view'[e][i] = view[e][i]
        BY <2>3, <2>5, <2>6, <4>1
      <4>3. QED
        BY <4>1, <4>2, OwnFacts
    <3>2. QED
      BY <3>1
  <2>9. QED
    BY <2>2, <2>3, <2>4, <2>7, <2>8 DEF Stands, ViewOK
<1>3. QED
  BY <1>1, <1>2 DEF BeginStep, SaveReport, Request

\* What an execution's place asks of its view is kept by a step that leaves its view
\* and its step alone, and does not end the main steps.
LEMMA ViewStands ==
  ASSUME RowsOK, LoopsOK, NEW e \in Execs, Stands(e), TablesGrow(e),
         at'[e] = at[e], verdict'[e] = verdict[e], view'[e] = view[e],
         pc'[e] # "report", MainIsOver(e)' => MainIsOver(e)
  PROVE  ViewOK(e)'
BY OwnFacts DEF ViewOK, Stands

\* A start is stored before the step is invoked, for an attempt that nothing was
\* stored for.
LEMMA StartStands ==
  ASSUME RowsOK, LoopsOK, InvokedOnce, HistoryIsTrue, NEW e \in Execs, Stands(e), TablesGrow(e), StartAttempt(e)
  PROVE  LoopsOK' /\ LoopsStay(e) /\ Stands(e)'
<1>1. CASE Throws(e)
  BY <1>1, ThrowsStands
<1>2. CASE /\ starts[Key(e)] = None /\ starts' = [starts EXCEPT ![Key(e)] = e]
           /\ Go(e, "invoke") /\ UNCHANGED <<loopVars, done, ran>>
  <2>1. LoopsOK' /\ LoopsStay(e) /\ pc'[e] = "invoke"
    BY <1>2 DEF Go, LoopsOK, LoopsStay, Pc
  <2>2. done[Key(e)] = "none" /\ ran[Key(e)] = {} /\ Key(e) \in Keys /\ Key(e)' = Key(e)
    BY <1>2, KeyFacts DEF HistoryIsTrue, AttemptsAreTrue, InvokedOnce, RowsOK, Key
  <2>3. starts'[Key(e)] = e
    BY <1>2, <2>2 DEF RowsOK
  <2>4. AttemptOK(e)'
    BY <1>2, <2>1, <2>2, <2>3, OwnFacts DEF AttemptOK
  <2>5. OrderOK(e)' /\ ViewOK(e)'
    BY <1>2, <2>1, OwnFacts, ViewStands DEF MainIsOver
  <2>6. QED
    BY <2>1, <2>4, <2>5 DEF Stands
<1>3. QED
  BY <1>1, <1>2 DEF StartAttempt, SaveStepAttemptStart, Request

\* A step is skipped, invoked, or throws; a call step's function begins.
LEMMA InvokeStands ==
  ASSUME RowsOK, LoopsOK, NEW e \in Execs, Stands(e), TablesGrow(e),
         SkipStep(e) \/ ConditionThrows(e) \/ InvokeStep(e) \/ CallFunction(e)
  PROVE  LoopsOK' /\ LoopsStay(e) /\ Stands(e)'
<1>0. /\ Key(e) \in Keys /\ (inner[e] = 0 => Key(e) = Outer(e)) /\ inner[e] \in 0..Inner
      /\ UNCHANGED <<at, try>> => OrderOK(e)'
  BY KeyFacts, OwnFacts DEF LoopsOK
<1>1. CASE ConditionThrows(e)
  BY <1>1, ThrowsStands DEF ConditionThrows
<1>2. CASE SkipStep(e)
  <2>1. /\ LoopsOK' /\ LoopsStay(e)
        /\ pc'[e] = "save" /\ result'[e] = "skipped" /\ Key(e)' = Key(e) /\ Outer(e)' = Outer(e)
        /\ UNCHANGED <<starts, done, ran, at, try, inner, verdict, view>>
    BY <1>2 DEF SkipStep, Go, LoopsOK, LoopsStay, Pc, Results, Key, Outer
  <2>2. AttemptOK(e)'
    BY <1>2, <2>1 DEF SkipStep, Stands, AttemptOK
  <2>3. ViewOK(e)'
    BY <2>1, ViewStands DEF MainIsOver
  <2>4. QED
    BY <1>0, <2>1, <2>2, <2>3 DEF Stands
<1>3. CASE InvokeStep(e)
  <2>1. /\ LoopsOK' /\ LoopsStay(e)
        /\ pc'[e] = "running" /\ Key(e)' = Key(e) /\ ran'[Key(e)] = ran[Key(e)] \cup {e}
        /\ UNCHANGED <<starts, done, at, try, inner, verdict, view>>
    BY <1>0, <1>3 DEF InvokeStep, Continues, Go, LoopsOK, LoopsStay, Pc, Key, RowsOK
  <2>2. AttemptOK(e)'
    BY <1>3, <2>1, OwnFacts DEF InvokeStep, Stands, AttemptOK
  <2>3. ViewOK(e)'
    BY <2>1, ViewStands DEF MainIsOver
  <2>4. QED
    BY <1>0, <2>1, <2>2, <2>3 DEF Stands
<1>4. CASE CallFunction(e)
  <2>1. inner[e] = 0 /\ Key(e) = Outer(e) /\ pc[e] = "invoke"
    BY <1>0, <1>4 DEF CallFunction, StepKind
  <2>2. /\ ran'[Key(e)] = ran[Key(e)] \cup {e}
        /\ UNCHANGED <<starts, done, at, try, verdict, failed, view>>
    BY <1>0, <1>4 DEF CallFunction, RowsOK
  <2>3. starts[Key(e)] = e /\ done[Key(e)] = "none"
    BY <2>1 DEF Stands, AttemptOK
  <2>4. CASE result' = [result EXCEPT ![e] = "failed"] /\ Go(e, "save") /\ UNCHANGED inner
    <3>1. /\ LoopsOK' /\ LoopsStay(e)
          /\ pc'[e] = "save" /\ result'[e] = "failed" /\ inner'[e] = 0 /\ Key(e)' = Key(e)
      BY <2>1, <2>2, <2>4 DEF Go, LoopsOK, LoopsStay, Pc, Results, Key
    <3>2. AttemptOK(e)'
      BY <2>2, <2>3, <3>1 DEF AttemptOK
    <3>3. ViewOK(e)'
      BY <2>2, <3>1, ViewStands DEF MainIsOver
    <3>4. QED
      BY <1>0, <2>2, <3>1, <3>2, <3>3 DEF Stands
  <2>5. CASE inner' = [inner EXCEPT ![e] = 1] /\ Go(e, "begin") /\ UNCHANGED result
    <3>1. /\ LoopsOK' /\ LoopsStay(e)
          /\ pc'[e] = "begin" /\ inner'[e] = 1 /\ Outer(e)' = Key(e)
      BY <2>1, <2>2, <2>5, ExecutionAssumption DEF Go, LoopsOK, LoopsStay, Pc, Outer
    <3>2. AttemptOK(e)'
      BY <2>2, <2>3, <3>1 DEF AttemptOK
    <3>3. ViewOK(e)'
      BY <2>2, <3>1, ViewStands DEF MainIsOver
    <3>4. QED
      BY <1>0, <2>2, <3>1, <3>2, <3>3 DEF Stands
  <2>6. QED
    BY <1>4, <2>4, <2>5 DEF CallFunction
<1>5. QED
  BY <1>1, <1>2, <1>3, <1>4

\* A step that was invoked returns, or its log cannot be saved.
LEMMA ReturnStands ==
  ASSUME RowsOK, LoopsOK, NEW e \in Execs, Stands(e), TablesGrow(e),
         RunStepEnds(e) \/ EvalStepEnds(e) \/ DispatchEnds(e)
  PROVE  LoopsOK' /\ LoopsStay(e) /\ Stands(e)'
<1>0. /\ Key(e) \in Keys /\ UNCHANGED <<starts, done, ran>> /\ pc[e] = "running"
      /\ UNCHANGED <<at, try>> => OrderOK(e)'
  BY KeyFacts, OwnFacts DEF LoopsOK, RunStepEnds, EvalStepEnds, DispatchEnds
<1>1. CASE Throws(e)
  BY <1>1, ThrowsStands
<1>2. ASSUME NEW r \in {"success", "failed", "cancelled"}, Returns(e, r)
      PROVE  LoopsOK' /\ LoopsStay(e) /\ Stands(e)'
  <2>1. /\ LoopsOK' /\ LoopsStay(e)
        /\ pc'[e] = "save" /\ result'[e] = r /\ Key(e)' = Key(e) /\ Outer(e)' = Outer(e)
        /\ UNCHANGED <<at, try, inner, verdict, view>>
    BY <1>2 DEF Returns, Go, LoopsOK, LoopsStay, Pc, Results, Key, Outer
  <2>2. AttemptOK(e)'
    BY <1>0, <2>1 DEF Stands, AttemptOK
  <2>3. ViewOK(e)'
    BY <2>1, ViewStands DEF MainIsOver
  <2>4. QED
    BY <1>0, <2>1, <2>2, <2>3 DEF Stands
<1>3. CASE RunStepEnds(e)
  BY <1>2, <1>3 DEF RunStepEnds
<1>4. CASE EvalStepEnds(e)
  BY <1>1, <1>2, <1>4 DEF EvalStepEnds, Request
<1>5. CASE DispatchEnds(e)
  BY <1>2, <1>5 DEF DispatchEnds, Request
<1>6. QED
  BY <1>3, <1>4, <1>5

\* The completion of an attempt is stored before it is retried or reported.
LEMMA CompleteStands ==
  ASSUME RowsOK, LoopsOK, NEW e \in Execs, Stands(e), TablesGrow(e), CompleteAttempt(e)
  PROVE  LoopsOK' /\ LoopsStay(e) /\ Stands(e)'
<1>0. /\ Key(e) \in Keys /\ (inner[e] = 0 => Key(e) = Outer(e)) /\ pc[e] = "save"
      /\ starts[Key(e)] = e /\ UNCHANGED <<starts, ran>> /\ result[e] \in Results
      /\ at[e] \in Steps /\ try[e] \in 1..(Retries + 1) /\ inner[e] \in 0..Inner
  BY KeyFacts DEF LoopsOK, CompleteAttempt, Stands, AttemptOK
<1>1. CASE Throws(e)
  BY <1>1, ThrowsStands
<1>2. CASE AttemptSaved(e) /\ done' = [done EXCEPT ![Key(e)] = result[e]]
  <2>0. done'[Key(e)] = result[e]
    BY <1>0, <1>2 DEF RowsOK
  <2>1. CASE Retried(e)
    <3>1. try[e] + 1 \in 1..(Retries + 1) /\ result[e] = "failed" /\ inner[e] = 0
      BY <1>0, <2>1, ExecutionAssumption DEF Retried
    <3>2. /\ LoopsOK' /\ LoopsStay(e)
          /\ pc'[e] = "start" /\ try'[e] = try[e] + 1
          /\ UNCHANGED <<at, inner, result, verdict, failed, view>>
      <4>1. /\ try' = [try EXCEPT ![e] = try[e] + 1] /\ Go(e, "start")
            /\ UNCHANGED <<at, inner, result, verdict, failed, view>>
        BY <1>2, <2>1 DEF AttemptSaved
      <4>2. QED
        BY <3>1, <4>1 DEF Go, LoopsOK, LoopsStay, Pc
    <3>3. AttemptOK(e)'
      BY <3>1, <3>2 DEF AttemptOK
    <3>4. OrderOK(e)'
      <4>1. <<at[e], try[e], 0>> = Key(e) /\ try'[e] - 1 = try[e]
        BY <1>0, <3>1, <3>2 DEF Key
      <4>2. starts'[<<at'[e], try'[e] - 1, 0>>] = e /\ done'[<<at'[e], try'[e] - 1, 0>>] = "failed"
        BY <1>0, <2>0, <3>1, <3>2, <4>1
      <4>3. \A b \in 1..(Retries + 1) : at[e] \in 2..Main => <<at[e] - 1, b, 0>> \in Keys
        BY ExecutionAssumption DEF Keys, Steps
      <4>4. at[e] \in 2..Main => \E b \in 1..(Retries + 1) :
                                      /\ starts'[<<at[e] - 1, b, 0>>] = e
                                      /\ done'[<<at[e] - 1, b, 0>>] = "success"
        BY <1>0, <4>3, StoredStays DEF Stands, OrderOK, Results
      <4>5. QED
        BY <3>2, <4>2, <4>4 DEF OrderOK
    <3>5. ViewOK(e)'
      BY <1>0, <3>2, ViewStands DEF MainIsOver
    <3>6. QED
      BY <3>2, <3>3, <3>4, <3>5 DEF Stands
  <2>2. CASE ~Retried(e)
    <3> DEFINE now == [view[e] EXCEPT ![at[e]] = result[e]]
    <3>1. /\ now \in [Steps -> StepStatus] /\ now[at[e]] = result[e]
          /\ \A i \in Steps : i # at[e] => now[i] = view[e][i]
      BY <1>0 DEF LoopsOK, StepStatus
    <3>2. view' = [view EXCEPT ![e] = IF inner[e] > 0 THEN @ ELSE now]
      BY <1>2, <2>2 DEF AttemptSaved
    <3> HIDE DEF now
    <3>3. /\ LoopsOK' /\ LoopsStay(e)
          /\ pc'[e] = "report" /\ view'[e] = (IF inner[e] > 0 THEN view[e] ELSE now)
          /\ UNCHANGED <<at, try, inner, result, verdict, failed>>
      BY <1>2, <2>2, <3>1, <3>2 DEF AttemptSaved, Go, LoopsOK, LoopsStay, Pc
    <3>4. Key(e)' = Key(e)
      BY <3>3 DEF Key
    <3>5. AttemptOK(e)' /\ OrderOK(e)'
      BY <1>0, <2>0, <3>3, <3>4, OwnFacts DEF AttemptOK
    <3>6. at[e] \in Nat /\ Main \in Nat /\ 1..Main \subseteq Steps
      BY <1>0, ExecutionAssumption DEF Steps
    <3>7. ViewOK(e)'
      <4>1. at'[e] <= Main => \A i \in 1..(at'[e] - 1) : view'[e][i] = "success" /\ Succeeded(i)'
        <5>1. at[e] <= Main => \A i \in 1..(at[e] - 1) : i \in Steps /\ i # at[e]
          BY <3>6
        <5>2. QED
          BY <3>1, <3>3, <5>1, OwnFacts
      <4>2. ASSUME verdict'[e] = "success", MainIsOver(e)' PROVE Earned(view[e])'
        <5>1. at[e] > Main /\ Earned(view[e])
          BY <3>3, <4>2 DEF MainIsOver, Stands, ViewOK
        <5>2. \A i \in 1..Main : view'[e][i] = view[e][i]
          BY <3>1, <3>3, <3>6, <5>1
        <5>3. QED
          BY <5>1, <5>2, OwnFacts
      <4>3. pc'[e] = "report" /\ inner'[e] = 0 => view'[e][at'[e]] = result'[e]
        BY <3>1, <3>3
      <4>4. QED
        BY <4>1, <4>2, <4>3 DEF ViewOK
    <3>8. QED
      BY <3>3, <3>5, <3>7 DEF Stands
  <2>3. QED
    BY <2>1, <2>2
<1>3. QED
  BY <1>1, <1>2 DEF CompleteAttempt, SaveStepAttempt, Request

\* A processed step: the loop stops, or goes on to the next one.
LEMMA ReportStands ==
  ASSUME RowsOK, LoopsOK, NEW e \in Execs, Stands(e), TablesGrow(e), ReportStep(e)
  PROVE  LoopsOK' /\ LoopsStay(e) /\ Stands(e)'
<1>0. /\ at[e] \in Steps /\ at[e] \in Nat /\ at[e] + 1 \in Nat /\ at[e] + 1 >= at[e]
      /\ inner[e] \in 0..Inner /\ try[e] \in 1..(Retries + 1) /\ result[e] \in Results
      /\ Main \in Nat \ {0} /\ Post \in Nat /\ pc[e] = "report"
      /\ UNCHANGED <<starts, done, ran>>
  BY ExecutionAssumption DEF LoopsOK, Steps, ReportStep
<1>1. CASE Stops(e, "failed", at[e] + 1, ~IsLast(e))
  BY <1>0, <1>1, StopsStands
<1>2. CASE result[e] = "skipped" /\ Stops(e, "success", at[e] + 1, ~IsLast(e))
  BY <1>0, <1>2, StopsStands
<1>3. CASE result[e] \notin {"skipped", "success"} /\ Stops(e, result[e], at[e] + 1, ~IsLast(e))
  BY <1>0, <1>3, StopsStands DEF Results
<1>4. CASE result[e] # "skipped" /\ (result[e] = "success" \/ NonFatal(e)) /\ IsLast(e) /\ Stops(e, "success", End(e) + 1, FALSE)
  <2>1. inner[e] = 0 => at[e] = End(e)
    BY <1>0, <1>4 DEF IsLast
  <2>2. End(e) + 1 \in Nat /\ End(e) + 1 >= at[e]
    BY <1>0 DEF End, IsPost, Steps
  <2>3. inner[e] = 0 /\ at[e] <= Main => result[e] = "success" /\ at[e] = Main /\ End(e) = Main
    BY <1>0, <1>4, <2>1 DEF NonFatal, IsPost, End
  <2>4. QED
    BY <1>0, <1>4, <2>2, <2>3, StopsStands
<1>5. CASE /\ ~IsLast(e) /\ (result[e] = "success" \/ NonFatal(e)) /\ Go(e, "begin")
           /\ IF inner[e] > 0 THEN inner' = [inner EXCEPT ![e] = @ + 1] /\ UNCHANGED <<at, try>>
              ELSE at' = [at EXCEPT ![e] = @ + 1] /\ try' = [try EXCEPT ![e] = 1] /\ UNCHANGED inner
           /\ result' = [result EXCEPT ![e] = "failed"]
           /\ UNCHANGED <<verdict, failed, view>>
  <2>1. CASE inner[e] > 0
    <3>1. inner[e] + 1 \in 0..Inner /\ inner[e] + 1 > 0
      BY <1>0, <1>5, <2>1, ExecutionAssumption DEF IsLast
    <3>2. /\ LoopsOK' /\ LoopsStay(e)
          /\ pc'[e] = "begin" /\ inner'[e] = inner[e] + 1
          /\ UNCHANGED <<at, try, verdict, view>>
      BY <1>5, <2>1, <3>1 DEF Go, LoopsOK, LoopsStay, Pc, Results
    <3>3. AttemptOK(e)' /\ OrderOK(e)'
      BY <2>1, <3>1, <3>2, OwnFacts DEF AttemptOK
    <3>4. ViewOK(e)'
      BY <3>2, ViewStands DEF MainIsOver
    <3>5. QED
      BY <3>2, <3>3, <3>4 DEF Stands
  <2>2. CASE inner[e] = 0
    <3>1. at[e] + 1 \in Steps /\ (at[e] <= Main => at[e] + 1 <= Main)
      BY <1>0, <1>5, <2>2 DEF IsLast, End, IsPost, Steps
    <3>2. /\ LoopsOK' /\ LoopsStay(e)
          /\ pc'[e] = "begin" /\ at'[e] = at[e] + 1 /\ try'[e] = 1
          /\ UNCHANGED <<inner, verdict, view>>
      <4>1. /\ at' = [at EXCEPT ![e] = at[e] + 1] /\ try' = [try EXCEPT ![e] = 1] /\ Go(e, "begin")
            /\ result' = [result EXCEPT ![e] = "failed"] /\ UNCHANGED <<inner, verdict, failed, view>>
        BY <1>5, <2>2
      <4>2. 1 \in 1..(Retries + 1)
        BY ExecutionAssumption
      <4>3. QED
        BY <3>1, <4>1, <4>2 DEF Go, LoopsOK, LoopsStay, Pc, Results
    <3>3. AttemptOK(e)'
      BY <2>2, <3>2 DEF AttemptOK
    <3>a. at[e] <= Main => /\ starts[<<at[e], try[e], 0>>] = e
                           /\ done[<<at[e], try[e], 0>>] = "success"
                           /\ view[e][at[e]] = "success"
      BY <1>0, <1>5, <2>2 DEF NonFatal, IsPost, Stands, AttemptOK, ViewOK, Key
    <3>4. OrderOK(e)'
      BY <1>0, <3>2, <3>a DEF OrderOK
    <3>5. ViewOK(e)'
      <4>1. ASSUME at'[e] <= Main, NEW i \in 1..(at'[e] - 1) PROVE view'[e][i] = "success" /\ Succeeded(i)'
        <5>1. at[e] <= Main
          BY <1>0, <3>2, <4>1
        <5>2. CASE i = at[e]
          BY <1>0, <3>2, <3>a, <5>1, <5>2 DEF Succeeded
        <5>3. CASE i # at[e]
          <6>1. i \in 1..(at[e] - 1)
            BY <1>0, <3>2, <5>3
          <6>2. QED
            BY <3>2, <5>1, <6>1, OwnFacts
        <5>4. QED
          BY <5>2, <5>3
      <4>2. ASSUME verdict'[e] = "success", MainIsOver(e)' PROVE Earned(view[e])'
        <5>1. at[e] > Main /\ Earned(view[e])
          BY <1>0, <3>1, <3>2, <4>2 DEF MainIsOver, Stands, ViewOK
        <5>2. QED
          BY <3>2, <5>1, OwnFacts
      <4>3. QED
        BY <3>2, <4>1, <4>2 DEF ViewOK
    <3>6. QED
      BY <3>2, <3>3, <3>4, <3>5 DEF Stands
  <2>3. QED
    BY <1>0, <2>1, <2>2
<1>6. Advances(e) \/ Stops(e, "failed", at[e] + 1, ~IsLast(e))
  BY DEF ReportStep, SaveReport, Request
<1>7. QED
  BY <1>1, <1>2, <1>3, <1>4, <1>5, <1>6 DEF Advances

\* The steps that were not processed are reported as skipped.
LEMMA FillStands ==
  ASSUME RowsOK, LoopsOK, FlagsOK, NEW e \in Execs, Stands(e), TablesGrow(e), FillSkipped(e)
  PROVE  LoopsOK' /\ FlagsOK' /\ LoopsStay(e) /\ Stands(e)'
<1>1. CASE Ends(e)
  BY <1>1, EndsStands
<1>2. CASE Go(e, "ended") /\ UNCHANGED <<at, try, inner, result, verdict, view, seen, aborted>>
           /\ (failed' = failed \/ failed' = [failed EXCEPT ![e] = inner[e] > 0])
  <2>1. LoopsOK' /\ FlagsOK' /\ LoopsStay(e) /\ pc'[e] = "ended"
    <3>1. failed' \in [Execs -> BOOLEAN] /\ \A f \in Execs \ {e} : failed'[f] = failed[f]
      <4> DEFINE called == inner[e] > 0
      <4>1. failed' = failed \/ failed' = [failed EXCEPT ![e] = called]
        BY <1>2
      <4>2. called \in BOOLEAN
        OBVIOUS
      <4> HIDE DEF called
      <4>3. QED
        BY <4>1, <4>2 DEF LoopsOK
    <3>2. pc' \in [Execs -> Pc] /\ pc'[e] = "ended" /\ \A f \in Execs \ {e} : pc'[f] = pc[f]
      BY <1>2 DEF Go, LoopsOK, Pc
    <3>3. UNCHANGED <<at, try, inner, result, verdict, view, seen, aborted>>
      BY <1>2
    <3>4. QED
      BY <3>1, <3>2, <3>3 DEF LoopsOK, FlagsOK, LoopsStay
  <2>2. AttemptOK(e)' /\ OrderOK(e)'
    BY <1>2, <2>1, OwnFacts DEF AttemptOK
  <2>3. ViewOK(e)'
    BY <1>2, <2>1, ViewStands DEF FillSkipped, MainIsOver
  <2>4. QED
    BY <2>1, <2>2, <2>3 DEF Stands
<1>3. QED
  BY <1>1, <1>2 DEF FillSkipped, SaveReport, Request, Continues

\* A function returns to the attempt that called it.
LEMMA FunctionStands ==
  ASSUME RowsOK, LoopsOK, NEW e \in Execs, Stands(e), TablesGrow(e), FunctionReturns(e)
  PROVE  LoopsOK' /\ LoopsStay(e) /\ Stands(e)'
<1>1. /\ LoopsOK' /\ LoopsStay(e)
      /\ pc'[e] = "save" /\ inner'[e] = 0 /\ result'[e] \in {"failed", "success"}
      /\ UNCHANGED <<starts, done, ran, at, try, verdict, view>> /\ pc[e] = "ended" /\ inner[e] > 0
  <2>1. PICK r \in {"failed", "success"} : result' = [result EXCEPT ![e] = r]
    BY DEF FunctionReturns
  <2>2. QED
    BY <2>1, ExecutionAssumption DEF FunctionReturns, Go, LoopsOK, LoopsStay, Pc, Results
<1>2. Key(e)' = Outer(e)
  BY <1>1 DEF Key, Outer
<1>3. AttemptOK(e)' /\ OrderOK(e)'
  BY <1>1, <1>2, OwnFacts DEF AttemptOK, Stands
<1>4. ViewOK(e)'
  BY <1>1, ViewStands DEF MainIsOver
<1>5. QED
  BY <1>1, <1>3, <1>4 DEF Stands

\* The steps end, the files are stored; then come the post steps, or the completion.
LEMMA EndStands ==
  ASSUME RowsOK, LoopsOK, NEW e \in Execs, Stands(e), TablesGrow(e), StepsEnd(e) \/ StoreFiles(e)
  PROVE  LoopsOK' /\ LoopsStay(e) /\ Stands(e)'
<1>1. /\ UNCHANGED <<starts, done, ran, inner, result, failed, view>> /\ MainIsOver(e)
      /\ Go(e, "store") \/ Go(e, "complete") \/ Go(e, "begin")
      /\ \/ UNCHANGED <<at, try>>
         \/ /\ Post > 0 /\ at' = [at EXCEPT ![e] = Main + 1] /\ try' = [try EXCEPT ![e] = 1]
      /\ verdict' = verdict \/ verdict' = [verdict EXCEPT ![e] = "failed"]
  <2>1. CASE StepsEnd(e)
    BY <2>1, ExecutionAssumption DEF StepsEnd, Finishes, MainIsOver
  <2>2. CASE StoreFiles(e)
    BY <2>2, ExecutionAssumption DEF StoreFiles, Finishes, MainIsOver
  <2>3. QED
    BY <2>1, <2>2
<1>2. Main + 1 > Main /\ Main + 1 \notin 2..Main /\ (Post > 0 => Main + 1 \in Steps) /\ 1 \in 1..(Retries + 1)
  BY ExecutionAssumption DEF Steps
<1>3. LoopsOK' /\ LoopsStay(e)
  <2>1. pc' \in [Execs -> Pc] /\ \A f \in Execs \ {e} : pc'[f] = pc[f]
    BY <1>1 DEF Go, LoopsOK, Pc
  <2>2. /\ at' \in [Execs -> Steps] /\ try' \in [Execs -> 1..(Retries + 1)]
        /\ \A f \in Execs \ {e} : at'[f] = at[f] /\ try'[f] = try[f]
    <3>1. CASE UNCHANGED <<at, try>>
      BY <3>1 DEF LoopsOK
    <3>2. CASE Post > 0 /\ at' = [at EXCEPT ![e] = Main + 1] /\ try' = [try EXCEPT ![e] = 1]
      BY <1>2, <3>2 DEF LoopsOK
    <3>3. QED
      BY <1>1, <3>1, <3>2
  <2>3. /\ verdict' \in [Execs -> {"success", "failed", "cancelled"}]
        /\ \A f \in Execs \ {e} : verdict'[f] = verdict[f]
    BY <1>1 DEF LoopsOK
  <2>4. QED
    BY <1>1, <2>1, <2>2, <2>3 DEF LoopsOK, LoopsStay
<1>4. /\ pc'[e] \in {"store", "complete", "begin"} /\ inner'[e] = inner[e] /\ view'[e] = view[e]
      /\ (at'[e] = at[e] /\ try'[e] = try[e]) \/ (at'[e] = Main + 1 /\ try'[e] = 1)
      /\ verdict'[e] = "success" => verdict[e] = "success"
  BY <1>1 DEF Go, LoopsOK
<1>a. AttemptOK(e)'
  <2>1. pc[e] \in {"ended", "store"} /\ inner[e] = 0
    BY DEF StepsEnd, StoreFiles, Stands, AttemptOK
  <2>2. QED
    BY <1>4, <2>1 DEF AttemptOK
<1>5. OrderOK(e)'
  <2>1. CASE at'[e] = at[e] /\ try'[e] = try[e]
    BY <2>1, OwnFacts
  <2>2. CASE at'[e] = Main + 1 /\ try'[e] = 1
    BY <1>2, <2>2 DEF OrderOK
  <2>3. QED
    BY <1>4, <2>1, <2>2
<1>6. ViewOK(e)'
  <2>1. at'[e] <= Main => \A i \in 1..(at'[e] - 1) : view'[e][i] = "success" /\ Succeeded(i)'
    <3>1. Main \in Nat /\ (at'[e] <= Main => at'[e] = at[e])
      BY <1>4, ExecutionAssumption
    <3>2. QED
      BY <1>4, <3>1, OwnFacts
  <2>2. verdict'[e] = "success" => Earned(view[e])'
    BY <1>1, <1>4, OwnFacts DEF Stands, ViewOK
  <2>3. QED
    BY <1>4, <2>1, <2>2 DEF ViewOK
<1>7. QED
  BY <1>3, <1>a, <1>5, <1>6 DEF Stands

-----------------------------------------------------------------------------
(* The theorems.                                                           *)

\* The flags of the cancellation are set and cleared.
LEMMA FlagsStay ==
  ASSUME FlagsOK, NEW e \in Execs,
         \/ BeginStep(e) \/ StartAttempt(e) \/ SkipStep(e) \/ ConditionThrows(e) \/ InvokeStep(e) \/ CallFunction(e)
         \/ RunStepEnds(e) \/ EvalStepEnds(e) \/ DispatchEnds(e) \/ CompleteAttempt(e) \/ ReportStep(e)
         \/ FunctionReturns(e) \/ StepsEnd(e) \/ StoreFiles(e)
  PROVE  FlagsOK'
<1>1. seen' = seen /\ (aborted' = aborted \/ aborted' = [aborted EXCEPT ![e] = FALSE])
  <2>1. CASE BeginStep(e) \/ StartAttempt(e) \/ SkipStep(e) \/ ConditionThrows(e) \/ CallFunction(e)
    BY <2>1 DEF BeginStep, StartAttempt, SkipStep, ConditionThrows, CallFunction
  <2>2. CASE InvokeStep(e) \/ RunStepEnds(e) \/ EvalStepEnds(e) \/ DispatchEnds(e) \/ CompleteAttempt(e)
    BY <2>2 DEF InvokeStep, Continues, RunStepEnds, EvalStepEnds, DispatchEnds, CompleteAttempt
  <2>3. CASE ReportStep(e) \/ FunctionReturns(e) \/ StepsEnd(e) \/ StoreFiles(e)
    BY <2>3 DEF ReportStep, FunctionReturns, StepsEnd, StoreFiles
  <2>4. QED
    BY <2>1, <2>2, <2>3
<1>2. QED
  BY <1>1 DEF FlagsOK

\* A step of one execution keeps the rows, and its own part of the invariant.
LEMMA ExecutionSteps ==
  ASSUME RowsOK, LoopsOK, FlagsOK, InvokedOnce, HistoryIsTrue, NEW e \in Execs, Stands(e),
         Claim(e) \/ Execute(e) \/ ExecutorDies(e)
  PROVE  RowsOK' /\ LoopsOK' /\ FlagsOK' /\ Moves(e) /\ Stands(e)'
<1>1. RowsOK' /\ TablesGrow(e) /\ ReportStays(e)
  <2>1. CASE OpenReport(e) \/ SetUp(e) \/ BeginStep(e) \/ ReportStep(e) \/ FillSkipped(e)
    BY <2>1, ReportsOfSteps
  <2>2. CASE \/ FetchSecrets(e) \/ SkipStep(e) \/ ConditionThrows(e) \/ RunStepEnds(e) \/ EvalStepEnds(e)
             \/ DispatchEnds(e) \/ FunctionReturns(e) \/ StepsEnd(e) \/ StoreFiles(e) \/ ExecutorDies(e)
    BY <2>2, QuietSteps
  <2>3. CASE \/ Claim(e) \/ StartAttempt(e) \/ InvokeStep(e) \/ CallFunction(e) \/ CompleteAttempt(e)
             \/ CompleteJob(e) \/ SetUpFailed(e)
    BY <2>3, WritingSteps
  <2>4. QED
    BY <2>1, <2>2, <2>3 DEF Execute
<1>2. LoopsOK' /\ FlagsOK' /\ LoopsStay(e) /\ Stands(e)'
  <2>1. CASE \/ Claim(e) \/ FetchSecrets(e) \/ OpenReport(e) \/ SetUp(e)
             \/ CompleteJob(e) \/ SetUpFailed(e) \/ ExecutorDies(e)
    BY <1>1, <2>1, FirstAndLastStand
  <2>2. CASE BeginStep(e)
    BY <1>1, <2>2, BeginStands, FlagsStay
  <2>3. CASE StartAttempt(e)
    BY <1>1, <2>3, StartStands, FlagsStay
  <2>4. CASE SkipStep(e) \/ ConditionThrows(e) \/ InvokeStep(e) \/ CallFunction(e)
    BY <1>1, <2>4, InvokeStands, FlagsStay
  <2>5. CASE RunStepEnds(e) \/ EvalStepEnds(e) \/ DispatchEnds(e)
    BY <1>1, <2>5, ReturnStands, FlagsStay
  <2>6. CASE CompleteAttempt(e)
    BY <1>1, <2>6, CompleteStands, FlagsStay
  <2>7. CASE ReportStep(e)
    BY <1>1, <2>7, ReportStands, FlagsStay
  <2>8. CASE FillSkipped(e)
    BY <1>1, <2>8, FillStands
  <2>9. CASE FunctionReturns(e)
    BY <1>1, <2>9, FunctionStands, FlagsStay
  <2>10. CASE StepsEnd(e) \/ StoreFiles(e)
    BY <1>1, <2>10, EndStands, FlagsStay
  <2>11. QED
    BY <2>1, <2>2, <2>3, <2>4, <2>5, <2>6, <2>7, <2>8, <2>9, <2>10 DEF Execute
<1>3. QED
  BY <1>1, <1>2 DEF Moves

\* Cancellation, the clock and the other services touch neither the attempt tables nor
\* what an execution stands on, and make no success.
LEMMA EnvironmentSteps ==
  ASSUME RowsOK, LoopsOK, FlagsOK,
         \/ \E e \in Execs : PollCancelled(e) \/ AbortActiveJob(e)
         \/ UserCancels \/ LeaseLapses \/ ClearStale \/ UNCHANGED vars
  PROVE  /\ RowsOK' /\ LoopsOK' /\ FlagsOK'
         /\ UNCHANGED <<report, starts, done, ran, pc, at, try, inner, result, verdict, failed, view>>
         /\ state' = "success" => state = "success"
<1> USE DEF vars
<1>1. /\ UNCHANGED <<kind, report, starts, done, ran, execs>>
      /\ UNCHANGED <<pc, at, try, inner, result, verdict, failed, view>>
      /\ state' \in {state, "cancelled", "pending"}
      /\ owner' \in {owner, None} /\ lapsed' \in {lapsed, TRUE, FALSE} /\ acked' \in {acked, TRUE}
      /\ faults' = faults \/ (faults < MaxFaults[kind] /\ faults' = faults + 1)
  <2>1. CASE \E e \in Execs : PollCancelled(e) \/ AbortActiveJob(e)
    BY <2>1 DEF PollCancelled, AbortActiveJob
  <2>2. CASE UserCancels \/ LeaseLapses
    BY <2>2 DEF UserCancels, LeaseLapses
  <2>3. CASE ClearStale
    BY <2>3 DEF ClearStale
  <2>4. CASE UNCHANGED vars
    BY <2>4
  <2>5. QED
    BY <2>1, <2>2, <2>3, <2>4
<1>2. RowsOK'
  <2>1. faults' \in 0..MaxFaults[kind]
    BY <1>1, ExecutionAssumption DEF RowsOK
  <2>2. QED
    BY <1>1, <2>1 DEF RowsOK
<1>3. LoopsOK'
  BY <1>1 DEF LoopsOK
<1>4. FlagsOK'
  <2>1. CASE \E e \in Execs : PollCancelled(e)
    BY <2>1 DEF PollCancelled, FlagsOK
  <2>2. CASE \E e \in Execs : AbortActiveJob(e)
    BY <2>2 DEF AbortActiveJob, FlagsOK
  <2>3. CASE UserCancels \/ LeaseLapses \/ ClearStale \/ UNCHANGED vars
    BY <2>3 DEF UserCancels, LeaseLapses, ClearStale, FlagsOK
  <2>4. QED
    BY <2>1, <2>2, <2>3
<1>5. QED
  BY <1>1, <1>2, <1>3, <1>4

\* The invariant holds at first ...
LEMMA ExecutionInit == Init => ExecutionInv
<1> SUFFICES ASSUME Init PROVE ExecutionInv
  OBVIOUS
<1>1. RowsOK
  <2>1. 0 \in 0..MaxExecs /\ 0 \in 0..MaxFaults[kind]
    BY ExecutionAssumption DEF Init
  <2>2. QED
    BY <2>1 DEF Init, RowsOK, Pending, StepStatus, Results, None
<1>2. LoopsOK /\ FlagsOK
  <2>1. 1 \in Steps /\ 1 \in 1..(Retries + 1) /\ 0 \in 0..Inner
    BY ExecutionAssumption DEF Steps
  <2>2. QED
    BY <2>1 DEF Init, LoopsOK, FlagsOK, Pc, Idle, Pending, StepStatus, Results
<1>3. ASSUME NEW e \in Execs PROVE AttemptOK(e) /\ OrderOK(e) /\ ViewOK(e)
  <2>1. pc[e] = "idle" /\ at[e] = 1 /\ try[e] = 1 /\ inner[e] = 0
    BY DEF Init
  <2>2. AttemptOK(e) /\ OrderOK(e)
    BY <2>1 DEF AttemptOK, OrderOK
  <2>3. ViewOK(e)
    BY <2>1, ExecutionAssumption DEF ViewOK, MainIsOver
  <2>4. QED
    BY <2>2, <2>3
<1>4. InvokedOnce /\ AttemptsAreTrue
  BY DEF Init, InvokedOnce, AttemptsAreTrue
<1>5. HistoryInOrder
  <2>1. \A i \in Steps, a \in 1..(Retries + 1) : <<i, a, 0>> \in Keys
    BY ExecutionAssumption DEF Keys
  <2>2. QED
    BY <2>1 DEF Init, HistoryInOrder
<1>6. SuccessIsEarned
  BY DEF Init, SuccessIsEarned
<1>7. QED
  BY <1>1, <1>2, <1>3, <1>4, <1>5, <1>6, TypeParts DEF ExecutionInv, HistoryIsTrue

\* ... and every step keeps it.
LEMMA ExecutionNext == ExecutionInv /\ [Next]_vars => ExecutionInv'
<1> SUFFICES ASSUME ExecutionInv, [Next]_vars PROVE ExecutionInv'
  OBVIOUS
<1>1. /\ RowsOK /\ LoopsOK /\ FlagsOK /\ InvokedOnce /\ HistoryIsTrue /\ SuccessIsEarned
      /\ \A f \in Execs : Stands(f)
  BY TypeParts DEF ExecutionInv, Stands
<1>2. (RowsOK /\ LoopsOK /\ FlagsOK)' => TypeOK'
  BY TypeParts, PTL
<1>3. ASSUME NEW e \in Execs, Claim(e) \/ Execute(e) \/ ExecutorDies(e) PROVE ExecutionInv'
  <2>1. RowsOK' /\ LoopsOK' /\ FlagsOK' /\ Moves(e) /\ Stands(e)'
    BY <1>1, <1>3, ExecutionSteps
  <2>2. \A f \in Execs : Stands(f)'
    <3>1. ASSUME NEW f \in Execs \ {e} PROVE Stands(f)'
      <4>1. AttemptOK(e) /\ Stands(f)
        BY <1>1 DEF Stands
      <4>2. QED
        BY <1>1, <2>1, <4>1, OthersStand
    <3>2. QED
      BY <2>1, <3>1
  <2>3. InvokedOnce' /\ HistoryIsTrue' /\ SuccessIsEarned'
    BY <1>1, <2>1, HistoryStays
  <2>4. QED
    BY <1>2, <2>1, <2>2, <2>3 DEF ExecutionInv, Stands
<1>4. ASSUME \/ \E e \in Execs : PollCancelled(e) \/ AbortActiveJob(e)
             \/ UserCancels \/ LeaseLapses \/ ClearStale \/ UNCHANGED vars
      PROVE  ExecutionInv'
  <2>1. /\ RowsOK' /\ LoopsOK' /\ FlagsOK'
        /\ UNCHANGED <<report, starts, done, ran, pc, at, try, inner, result, verdict, failed, view>>
        /\ state' = "success" => state = "success"
    BY <1>1, <1>4, EnvironmentSteps
  <2>2. \A f \in Execs : AttemptOK(f)' /\ OrderOK(f)'
    BY <1>1, <2>1 DEF Stands, AttemptOK, OrderOK, Key, Outer
  <2>3. \A f \in Execs : ViewOK(f)'
    BY <1>1, <2>1 DEF Stands, ViewOK, MainIsOver, Earned, Succeeded, Skipped
  <2>4. InvokedOnce' /\ HistoryIsTrue'
    BY <1>1, <2>1 DEF InvokedOnce, HistoryIsTrue, AttemptsAreTrue, HistoryInOrder
  <2>5. SuccessIsEarned'
    BY <1>1, <2>1 DEF SuccessIsEarned
  <2>6. QED
    BY <1>2, <2>1, <2>2, <2>3, <2>4, <2>5 DEF ExecutionInv
<1>5. QED
  BY <1>3, <1>4 DEF Next, Finished

\* The invariant holds in every state of every execution of any job.
THEOREM ExecutionInvariance == Spec => []ExecutionInv
BY ExecutionInit, ExecutionNext, PTL DEF Spec

\* The rows, the loops and the reports have their types.
THEOREM ExecutionTypesCorrect == Spec => []TypeOK
<1>1. ExecutionInv => TypeOK
  BY DEF ExecutionInv
<1>2. QED
  BY <1>1, ExecutionInvariance, PTL

\* However many leases are granted and lapse, requests lost and runners killed, a step
\* is invoked under an attempt number by the one execution whose start is stored
\* (saveStepAttemptStart: "refusing to execute step").
THEOREM StepsAreInvokedOnce == Spec => []InvokedOnce
<1>1. ExecutionInv => InvokedOnce
  BY DEF ExecutionInv
<1>2. QED
  BY <1>1, ExecutionInvariance, PTL

\* The stored attempts tell what was invoked, and were made in order, by one execution
\* from one step to the next (saveStepAttempt, processSteps).
THEOREM HistoryTellsTheTruth == Spec => []HistoryIsTrue
<1>1. ExecutionInv => HistoryIsTrue
  BY DEF ExecutionInv
<1>2. QED
  BY <1>1, ExecutionInvariance, PTL

\* A job is stored as a success only with stored attempts that earned it, whatever the
\* executors lost on the way (processJob, completeJob).
THEOREM SuccessesAreEarned == Spec => []SuccessIsEarned
<1>1. ExecutionInv => SuccessIsEarned
  BY DEF ExecutionInv
<1>2. QED
  BY <1>1, ExecutionInvariance, PTL

=============================================================================
