------------------------- MODULE RunAdmissionProofs -------------------------
(***************************************************************************)
(* Theorems of RunAdmission, for any number of requests, variants,         *)
(* handlers and faults: its type invariant, that an admitted row names its *)
(* job, that a step of a runner has one result, and that it implements     *)
(* RunPromise.                                                             *)
(***************************************************************************)
EXTENDS RunAdmission, FiniteSetTheorems, TLAPS

USE DEF envVars, rowVars, workVars

\* What a worker knows of the row it works on.
PcInv(w) ==
    /\ pc[w] \notin {"idle", "consider", "claim"} => at[w] \in Runs
    /\ pc[w] = "plan" => PlanSize[at[w][1]] # 0
    /\ w \in Handlers /\ pc[w] \in Planning => at[w][2] = 0
    /\ w \in Handlers /\ pc[w] \in {"variants"} \cup Admitting => at[w][2] < PlanSize[at[w][1]]

\* Only a plan with variants gets a marker.
PlannedOK == \A r \in Requests : marker[r] => PlanSize[r] # 0

TypeInv == TypeOK /\ PlannedOK /\ \A w \in Workers : PcInv(w)

-----------------------------------------------------------------------------
(* Facts about rows and columns.                                           *)

\* Every run is a row of its request.
LEMMA RunFacts ==
  /\ Runs \subseteq Rows
  /\ \A i \in Runs : i[1] \in Requests /\ i[2] \in Variants /\ i = <<i[1], i[2]>>
  /\ \A r \in Requests, v \in Variants : <<r, v>> \in Runs
BY DEF Runs, Rows, Slots

\* The first variant of a request is a run.
LEMMA FirstRun == \A r \in Requests : <<r, 0>> \in Runs
BY AdmissionAssumption DEF Runs, Variants

\* The rows of rejected and of empty requests are rows, but no runs.
LEMMA TerminalRows == \A r \in Requests : Rejected(r) \in Rows \ Runs /\ Empty(r) \in Rows \ Runs
BY AdmissionAssumption DEF Rejected, Empty, Rows, Runs, Slots, Variants, REJECTED, EMPTY

\* Job ids are naturals, and positions of the jobs table.
LEMMA JobIds == TypeOK => \A i : JobOf(i) \subseteq Nat /\ 0 \notin JobOf(i)
BY DEF TypeOK, JobOf

\* Inserting a job keeps the jobs of every other run, and adds one to its own.
LEMMA Inserted ==
  ASSUME TypeOK, NEW i \in Runs, jobs' = Append(jobs, i)
  PROVE  /\ jobs' \in Seq(Runs)
         /\ \A k : k # i => JobOf(k)' = JobOf(k)
         /\ \A k : JobOf(k) \subseteq JobOf(k)'
<1>1. jobs \in Seq(Runs)
  BY DEF TypeOK
<1>2. /\ jobs' \in Seq(Runs)
      /\ Len(jobs') = Len(jobs) + 1
      /\ jobs'[Len(jobs) + 1] = i
      /\ \A j \in 1..Len(jobs) : jobs'[j] = jobs[j]
  BY <1>1
<1>3. DOMAIN jobs = 1..Len(jobs) /\ DOMAIN jobs' = 1..(Len(jobs) + 1) /\ Len(jobs) \in Nat
  BY <1>1, <1>2
<1>4. QED
  BY <1>2, <1>3 DEF JobOf

\* An answer may name no jobs.
LEMMA NoIds == <<>> \in Seq(Nat)
OBVIOUS

\* An answer is well typed.
LEMMA RecordTyped ==
  ASSUME TypeOK, NEW r \in Requests, NEW s \in Seq(Nat),
         NEW kind \in {"admitted", "failed", "rejected", "unavailable", "pending"}, Record(r, kind, s)
  PROVE  answers' \in [Requests -> SUBSET Replies]
<1>1. [kind |-> kind, ids |-> s] \in Replies
  BY DEF Replies
<1>2. QED
  BY <1>1 DEF TypeOK, Record

\* So is a handler that has answered.
LEMMA AnswerTyped ==
  ASSUME TypeOK, NEW h \in Handlers, at[h] \in Runs, NEW s \in Seq(Nat),
         NEW kind \in {"admitted", "failed", "rejected", "unavailable", "pending"}, Answer(h, kind, s)
  PROVE  /\ answers' \in [Requests -> SUBSET Replies]
         /\ pc' \in [Workers -> Pc] /\ at' \in [Workers -> Runs \cup {NoRun}] /\ ids' \in [Handlers -> Seq(Nat)]
<1>1. answers' \in [Requests -> SUBSET Replies]
  BY RecordTyped, RunFacts DEF Answer
<1>2. QED
  BY <1>1 DEF Answer, Goto, TypeOK, Pc, Workers

\* finish keeps the types of the columns it writes.
LEMMA FinishTyped ==
  ASSUME TypeOK, NEW w, NEW i \in Rows, NEW final \in Status, NEW job \in Nat, FinishRow(w, i, final, job)
  PROVE  /\ status' \in [Rows -> Status] /\ token' \in [Rows -> Workers \cup {Nobody}]
         /\ lapsed' \in [Rows -> BOOLEAN] /\ due' \in [Rows -> BOOLEAN] /\ jobId' \in [Rows -> Nat]
         /\ marker' = marker
<1>1. CASE Holds(w, i)
  <2>1. WriteRow(i, final, job)
    BY <1>1 DEF FinishRow
  <2>2. QED
    BY <2>1 DEF WriteRow, TypeOK
<1>2. CASE ~Holds(w, i)
  BY <1>2 DEF FinishRow, TypeOK
<1>3. QED
  BY <1>1, <1>2

\* persistTerminal and persistPlan keep the types of theirs.
LEMMA PersistTyped ==
  ASSUME TypeOK, NEW i \in Rows, NEW final \in Status, NEW r \in Requests,
         PersistTerminal(i, final) \/ PersistPlan(r)
  PROVE  /\ status' \in [Rows -> Status] /\ marker' \in [Requests -> BOOLEAN]
         /\ UNCHANGED <<token, lapsed, due, jobId>>
<1>1. CASE PersistTerminal(i, final)
  BY <1>1 DEF PersistTerminal, TypeOK
<1>2. CASE PersistPlan(r)
  BY <1>2 DEF PersistPlan, TypeOK, Status
<1>3. QED
  BY <1>1, <1>2

-----------------------------------------------------------------------------
(* Types.                                                                  *)

\* Every step keeps the types, given what the workers know of their rows.
LEMMA TypesKept == TypeOK /\ (\A w \in Workers : PcInv(w)) /\ [Next]_vars => TypeOK'
<1> SUFFICES ASSUME TypeOK, \A w \in Workers : PcInv(w), [Next]_vars PROVE TypeOK'
  OBVIOUS
<1> USE AdmissionAssumption DEF Workers
<1>1. ASSUME PollStart
      PROVE  TypeOK'
  BY <1>1, RunFacts DEF PollStart, Goto, TypeOK, PcInv, Status, Pc, Planning, Admitting
<1>2. ASSUME NEW r \in Requests, PollConsider(r)
      PROVE  TypeOK'
  <2>1. <<r, 0>> \in Runs
    BY FirstRun
  <2>2. QED
    BY <1>2, <2>1 DEF PollConsider, Goto, TypeOK, Pc, Planning
<1>3. ASSUME PollRevision
      PROVE  TypeOK'
  BY <1>3, RunFacts DEF PollRevision, Goto, PlanningOutcome, TypeOK, PcInv, Status, Pc, Planning, Admitting
<1>4. ASSUME PollPersist
      PROVE  TypeOK'
  <2>1. at[Poller] \in Runs
    BY <1>4 DEF PollPersist, PcInv
  <2>2. at[Poller][1] \in Requests
    BY <2>1, RunFacts
  <2>3. /\ status' \in [Rows -> Status] /\ marker' \in [Requests -> BOOLEAN]
        /\ UNCHANGED <<token, lapsed, due, jobId>>
    <3>1. CASE PersistTerminal(Rejected(at[Poller][1]), "failed")
      BY <3>1, <2>2, TerminalRows, PersistTyped DEF Status
    <3>2. CASE PersistTerminal(Empty(at[Poller][1]), "admitted")
      BY <3>2, <2>2, TerminalRows, PersistTyped DEF Status
    <3>3. CASE PersistPlan(at[Poller][1])
      BY <3>3, <2>1, <2>2, RunFacts, PersistTyped DEF Status
    <3>4. QED
      BY <1>4, <3>1, <3>2, <3>3 DEF PollPersist
  <2>4. QED
    BY <1>4, <2>3 DEF PollPersist, Goto, TypeOK, Pc
<1>5. ASSUME PollClaims
      PROVE  TypeOK'
  BY <1>5, RunFacts DEF PollClaims, Goto, TypeOK, PcInv, Status, Pc, Planning, Admitting
<1>6. ASSUME PollDone
      PROVE  TypeOK'
  BY <1>6, RunFacts DEF PollDone, Goto, TypeOK, PcInv, Status, Pc, Planning, Admitting
<1>7. ASSUME NEW i \in Runs, PollClaim(i)
      PROVE  TypeOK'
  BY <1>7, RunFacts DEF PollClaim, Goto, Claim, Claimable, TypeOK, PcInv, Status, Pc, Planning, Admitting
<1>8. ASSUME NEW w \in Workers, Insert(w)
      PROVE  TypeOK'
  <2>1. at[w] \in Runs
    BY <1>8 DEF Insert, PcInv
  <2>2. jobs' \in Seq(Runs)
    BY <1>8, <2>1, Inserted DEF Insert, TypeOK
  <2>3. QED
    BY <1>8, <2>2 DEF Insert, Goto, TypeOK, Pc, Admitting
<1>9. ASSUME NEW w \in Workers, Select(w)
      PROVE  TypeOK'
  <2>1. (IF JobOf(at[w]) = {} THEN 0 ELSE CHOOSE j \in JobOf(at[w]) : TRUE) \in Nat
    BY JobIds
  <2>2. QED
    BY <1>9, <2>1 DEF Select, Goto, TypeOK, Pc, Admitting
<1>10. ASSUME NEW w \in Workers, Finish(w)
      PROVE  TypeOK'
  <2>1. at[w] \in Rows
    BY <1>10, RunFacts DEF Finish, PcInv
  <2>2. (IF found[w] = 0 THEN "failed" ELSE "admitted") \in Status /\ found[w] \in Nat
    BY DEF Status, TypeOK
  <2>3. /\ status' \in [Rows -> Status] /\ token' \in [Rows -> Workers \cup {Nobody}]
        /\ lapsed' \in [Rows -> BOOLEAN] /\ due' \in [Rows -> BOOLEAN] /\ jobId' \in [Rows -> Nat]
        /\ marker' = marker
    BY <1>10, <2>1, <2>2, FinishTyped DEF Finish
  <2>4. QED
    BY <1>10, <2>3 DEF Finish, Caller, Goto, TypeOK, Pc
<1>11. ASSUME NEW w \in Workers, Retry(w)
      PROVE  TypeOK'
  <2>1. at[w] \in Rows
    BY <1>11, RunFacts DEF Retry, PcInv, Admitting
  <2>2. /\ status' \in [Rows -> Status] /\ token' \in [Rows -> Workers \cup {Nobody}]
        /\ lapsed' \in [Rows -> BOOLEAN] /\ due' \in [Rows -> BOOLEAN] /\ jobId' \in [Rows -> Nat]
        /\ marker' = marker
    BY <1>11, <2>1, FinishTyped DEF Retry, Status
  <2>3. QED
    BY <1>11, <2>2 DEF Retry, Caller, Goto, TypeOK, Pc
<1>12. ASSUME NEW w \in Workers, AdmissionError(w)
      PROVE  TypeOK'
  <2>1. faults' \in 0..MaxFaults
    BY <1>12 DEF AdmissionError, TypeOK
  <2>2. pc' \in [Workers -> Pc]
    BY <1>12 DEF AdmissionError, Goto, TypeOK, Pc, Admitting
  <2>3. QED
    BY <1>12, <2>1, <2>2 DEF AdmissionError, TypeOK
<1>13. ASSUME NEW h \in Handlers, DispatchLookup(h)
      PROVE  TypeOK'
  <2>1. at[h] \in Runs
    BY <1>13 DEF DispatchLookup, PcInv
  <2>2. \/ Answer(h, "rejected", <<>>) \/ Answer(h, "admitted", <<>>)
        \/ Proceed(h, IF marker[at[h][1]] THEN "variants" ELSE PlanningOutcome(at[h][1]))
    BY <1>13 DEF DispatchLookup
  <2>3. /\ answers' \in [Requests -> SUBSET Replies]
        /\ pc' \in [Workers -> Pc] /\ at' \in [Workers -> Runs \cup {NoRun}] /\ ids' \in [Handlers -> Seq(Nat)]
    <3>1. CASE Answer(h, "rejected", <<>>) \/ Answer(h, "admitted", <<>>)
      BY <3>1, <2>1, AnswerTyped, NoIds
    <3>2. CASE Proceed(h, IF marker[at[h][1]] THEN "variants" ELSE PlanningOutcome(at[h][1]))
      BY <3>2 DEF Proceed, PlanningOutcome, Goto, TypeOK, Pc, Planning
    <3>3. QED
      BY <2>2, <3>1, <3>2
  <2>4. QED
    BY <1>13, <2>3 DEF DispatchLookup, TypeOK
<1>14. ASSUME NEW h \in Handlers, DispatchPersist(h)
      PROVE  TypeOK'
  <2>1. at[h] \in Runs /\ at[h][1] \in Requests
    BY <1>14, RunFacts DEF DispatchPersist, PcInv
  <2>2. /\ status' \in [Rows -> Status] /\ marker' \in [Requests -> BOOLEAN]
        /\ UNCHANGED <<token, lapsed, due, jobId>>
    <3>1. CASE PersistTerminal(Rejected(at[h][1]), "failed")
      BY <3>1, <2>1, TerminalRows, PersistTyped DEF Status
    <3>2. CASE PersistTerminal(Empty(at[h][1]), "admitted")
      BY <3>2, <2>1, TerminalRows, PersistTyped DEF Status
    <3>3. CASE PersistPlan(at[h][1])
      BY <3>3, <2>1, RunFacts, PersistTyped DEF Status
    <3>4. QED
      BY <1>14, <3>1, <3>2, <3>3 DEF DispatchPersist
  <2>3. /\ answers' \in [Requests -> SUBSET Replies]
        /\ pc' \in [Workers -> Pc] /\ at' \in [Workers -> Runs \cup {NoRun}] /\ ids' \in [Handlers -> Seq(Nat)]
    <3>1. CASE Answer(h, "rejected", <<>>) \/ Answer(h, "admitted", <<>>)
      BY <3>1, <2>1, AnswerTyped, NoIds
    <3>2. CASE \/ Proceed(h, "variants")
               \/ Goto(h, "idle") /\ at' = [at EXCEPT ![h] = NoRun] /\ UNCHANGED <<ids, answers>>
      BY <3>2 DEF Proceed, Goto, TypeOK, Pc
    <3>3. QED
      BY <1>14, <3>1, <3>2 DEF DispatchPersist
  <2>4. QED
    BY <1>14, <2>2, <2>3 DEF DispatchPersist, TypeOK
<1>15. ASSUME NEW h \in Handlers, DispatchAdmitted(h)
      PROVE  TypeOK'
  <2>1. /\ at[h] \in Runs /\ at[h][1] \in Requests /\ at[h][2] \in Variants
        /\ at[h][2] < PlanSize[at[h][1]]
    BY <1>15, RunFacts DEF DispatchAdmitted, PcInv
  <2>2. Append(ids[h], jobId[at[h]]) \in Seq(Nat)
    BY <2>1, RunFacts DEF TypeOK
  <2>3. /\ answers' \in [Requests -> SUBSET Replies]
        /\ pc' \in [Workers -> Pc] /\ at' \in [Workers -> Runs \cup {NoRun}] /\ ids' \in [Handlers -> Seq(Nat)]
    <3>1. CASE at[h][2] + 1 = PlanSize[at[h][1]]
      BY <1>15, <3>1, <2>1, <2>2, AnswerTyped DEF DispatchAdmitted
    <3>2. CASE at[h][2] + 1 # PlanSize[at[h][1]]
      <4>1. at[h][2] + 1 \in Variants
        BY <3>2, <2>1 DEF Variants
      <4>2. <<at[h][1], at[h][2] + 1>> \in Runs
        BY <4>1, <2>1, RunFacts
      <4>3. QED
        <5>1. /\ pc' = pc /\ answers' = answers
              /\ at' = [at EXCEPT ![h] = <<@[1], @[2] + 1>>]
              /\ ids' = [ids EXCEPT ![h] = Append(@, jobId[at[h]])]
          BY <1>15, <3>2 DEF DispatchAdmitted
        <5>2. QED
          BY <5>1, <2>2, <4>2 DEF TypeOK
    <3>3. QED
      BY <3>1, <3>2
  <2>4. QED
    BY <1>15, <2>3 DEF DispatchAdmitted, TypeOK
<1>16. ASSUME NEW h \in Handlers, DispatchFailed(h)
      PROVE  TypeOK'
  <2>1. at[h] \in Runs
    BY <1>16 DEF DispatchFailed, PcInv
  <2>2. QED
    BY <1>16, <2>1, AnswerTyped, NoIds DEF DispatchFailed, TypeOK
<1>17. ASSUME NEW h \in Handlers, DispatchClaim(h)
      PROVE  TypeOK'
  BY <1>17, RunFacts DEF DispatchClaim, Goto, Claim, Claimable, TypeOK, PcInv, Status, Pc, Planning, Admitting
<1>18. ASSUME NEW h \in Handlers, DispatchTimeout(h)
      PROVE  TypeOK'
  <2>1. at[h] \in Runs
    BY <1>18 DEF DispatchTimeout, PcInv
  <2>2. QED
    BY <1>18, <2>1, AnswerTyped, NoIds DEF DispatchTimeout, TypeOK
<1>19. ASSUME NEW h \in Handlers, RequestError(h)
      PROVE  TypeOK'
  <2>1. faults' \in 0..MaxFaults
    BY <1>19 DEF RequestError, TypeOK
  <2>2. /\ pc' \in [Workers -> Pc] /\ at' \in [Workers -> Runs \cup {NoRun}] /\ found' \in [Workers -> Nat]
        /\ ids' \in [Handlers -> Seq(Nat)]
    BY <1>19, NoIds DEF RequestError, Goto, TypeOK, Pc
  <2>3. QED
    BY <1>19, <2>1, <2>2 DEF RequestError, TypeOK
<1>20. ASSUME NEW h \in Handlers, NEW r \in Requests, DispatchPublish(h, r)
      PROVE  TypeOK'
  <2>1. <<r, 0>> \in Runs
    BY FirstRun
  <2>2. QED
    BY <1>20, <2>1 DEF DispatchPublish, Goto, TypeOK, Pc, Planning
<1>21. ASSUME NEW h \in Handlers, NEW r \in Requests, DispatchRepeat(h, r)
      PROVE  TypeOK'
  <2>1. <<r, 0>> \in Runs
    BY FirstRun
  <2>2. CASE revision[r]
    <3>1. pc' \in [Workers -> Pc]
      <4>1. pc' = [pc EXCEPT ![h] = "lookup"]
        BY <1>21, <2>2 DEF DispatchRepeat, Goto
      <4>2. QED
        BY <4>1 DEF TypeOK, Pc, Planning
    <3>2. at' \in [Workers -> Runs \cup {NoRun}]
      BY <1>21, <2>1, <2>2 DEF DispatchRepeat, TypeOK
    <3>3. QED
      BY <1>21, <2>2, <3>1, <3>2 DEF DispatchRepeat, TypeOK
  <2>3. CASE ~revision[r]
    BY <1>21, <2>3, RecordTyped, NoIds DEF DispatchRepeat, TypeOK
  <2>4. QED
    BY <2>2, <2>3
<1>22. ASSUME NEW r \in Requests, ApiPublish(r)
      PROVE  TypeOK'
  BY <1>22, RunFacts DEF ApiPublish, TypeOK, PcInv, Status, Pc, Planning, Admitting
<1>23. ASSUME NEW r \in Requests, ApiReject(r)
      PROVE  TypeOK'
  BY <1>23, RunFacts DEF ApiReject, PersistTerminal, TypeOK, PcInv, Status, Pc, Planning, Admitting
<1>24. ASSUME NEW r \in Requests, DeleteRevision(r)
      PROVE  TypeOK'
  BY <1>24, RunFacts DEF DeleteRevision, TypeOK, PcInv, Status, Pc, Planning, Admitting
<1>25. ASSUME NEW r \in Requests, LoseEligibility(r)
      PROVE  TypeOK'
  BY <1>25, RunFacts DEF LoseEligibility, TypeOK, PcInv, Status, Pc, Planning, Admitting
<1>26. ASSUME NEW i \in Runs, LeaseLapses(i)
      PROVE  TypeOK'
  BY <1>26, RunFacts DEF LeaseLapses, Lapse, TypeOK, PcInv, Status, Pc, Planning, Admitting
<1>27. ASSUME NEW i \in Runs, Stall(i)
      PROVE  TypeOK'
  BY <1>27, RunFacts DEF Stall, Lapse, TypeOK, PcInv, Status, Pc, Planning, Admitting
<1>28. ASSUME NEW i \in Runs, RetryDue(i)
      PROVE  TypeOK'
  BY <1>28, RunFacts DEF RetryDue, TypeOK, PcInv, Status, Pc, Planning, Admitting
<1>29. ASSUME PlanningError
      PROVE  TypeOK'
  BY <1>29, RunFacts DEF PlanningError, Goto, TypeOK, PcInv, Status, Pc, Planning, Admitting
<1>30. ASSUME PassError
      PROVE  TypeOK'
  BY <1>30, RunFacts DEF PassError, Goto, TypeOK, PcInv, Status, Pc, Planning, Admitting
<1>31. ASSUME Crash
      PROVE  TypeOK'
  BY <1>31, RunFacts DEF Crash, TypeOK, PcInv, Status, Pc, Planning, Admitting
<1>32. CASE UNCHANGED vars
  BY <1>32 DEF vars, TypeOK
<1>33. QED
  BY <1>1, <1>2, <1>3, <1>4, <1>5, <1>6, <1>7, <1>8, <1>9, <1>10, <1>11, <1>12, <1>13, <1>14, <1>15, <1>16,
     <1>17, <1>18, <1>19, <1>20, <1>21, <1>22, <1>23, <1>24, <1>25, <1>26, <1>27, <1>28, <1>29, <1>30,
     <1>31, <1>32
     DEF Next, Poll, Process, Dispatch

-----------------------------------------------------------------------------
(* What the workers know.                                                  *)

\* Plans have a size; those with a marker, or about to get one, are not empty.
LEMMA Sizes == \A r \in Requests : PlanSize[r] \in Nat
BY AdmissionAssumption

\* Every step keeps what each worker knows of its row.
LEMMA PcKept == TypeInv /\ [Next]_vars => \A x \in Workers : PcInv(x)'
<1> SUFFICES ASSUME TypeInv, [Next]_vars, NEW x \in Workers PROVE PcInv(x)'
  OBVIOUS
<1> USE AdmissionAssumption DEF Workers
<1>know. /\ PcInv(x) /\ pc[x] \in Pc /\ pc \in [Workers -> Pc] /\ at \in [Workers -> Runs \cup {NoRun}]
         /\ PlannedOK
  BY DEF TypeInv, TypeOK
<1>1. ASSUME PollStart
      PROVE  PcInv(x)'
  BY <1>1, <1>know, RunFacts, FirstRun, Sizes DEF PollStart, Goto, PcInv, PlannedOK, Planning, Admitting
<1>2. ASSUME NEW r \in Requests, PollConsider(r)
      PROVE  PcInv(x)'
  BY <1>2, <1>know, RunFacts, FirstRun, Sizes DEF PollConsider, Goto, PcInv, PlannedOK, Planning, Admitting
<1>3. ASSUME PollRevision
      PROVE  PcInv(x)'
  BY <1>3, <1>know, RunFacts, FirstRun, Sizes
     DEF PollRevision, Goto, PlanningOutcome, PcInv, PlannedOK, Planning, Admitting
<1>4. ASSUME PollPersist
      PROVE  PcInv(x)'
  BY <1>4, <1>know, RunFacts, FirstRun, Sizes DEF PollPersist, Goto, PcInv, PlannedOK, Planning, Admitting
<1>5. ASSUME PollClaims
      PROVE  PcInv(x)'
  BY <1>5, <1>know, RunFacts, FirstRun, Sizes DEF PollClaims, Goto, PcInv, PlannedOK, Planning, Admitting
<1>6. ASSUME PollDone
      PROVE  PcInv(x)'
  BY <1>6, <1>know, RunFacts, FirstRun, Sizes DEF PollDone, Goto, PcInv, PlannedOK, Planning, Admitting
<1>7. ASSUME NEW i \in Runs, PollClaim(i)
      PROVE  PcInv(x)'
  BY <1>7, <1>know, RunFacts, FirstRun, Sizes DEF PollClaim, Goto, Claim, PcInv, PlannedOK, Planning, Admitting
<1>8. ASSUME NEW w \in Workers, Insert(w)
      PROVE  PcInv(x)'
  BY <1>8, <1>know, RunFacts, FirstRun, Sizes DEF Insert, Goto, PcInv, PlannedOK, Planning, Admitting
<1>9. ASSUME NEW w \in Workers, Select(w)
      PROVE  PcInv(x)'
  BY <1>9, <1>know, RunFacts, FirstRun, Sizes DEF Select, Goto, PcInv, PlannedOK, Planning, Admitting
<1>10. ASSUME NEW w \in Workers, Finish(w)
      PROVE  PcInv(x)'
  BY <1>10, <1>know, RunFacts, FirstRun, Sizes DEF Finish, Goto, Caller, PcInv, PlannedOK, Planning, Admitting
<1>11. ASSUME NEW w \in Workers, Retry(w)
      PROVE  PcInv(x)'
  BY <1>11, <1>know, RunFacts, FirstRun, Sizes DEF Retry, Goto, Caller, PcInv, PlannedOK, Planning, Admitting
<1>12. ASSUME NEW w \in Workers, AdmissionError(w)
      PROVE  PcInv(x)'
  BY <1>12, <1>know, RunFacts, FirstRun, Sizes DEF AdmissionError, Goto, PcInv, PlannedOK, Planning, Admitting
<1>13. ASSUME NEW h \in Handlers, DispatchLookup(h)
      PROVE  PcInv(x)'
  BY <1>13, <1>know, RunFacts, FirstRun, Sizes
     DEF DispatchLookup, Goto, Answer, Proceed, PlanningOutcome, PcInv, PlannedOK, Planning, Admitting
<1>14. ASSUME NEW h \in Handlers, DispatchPersist(h)
      PROVE  PcInv(x)'
  BY <1>14, <1>know, RunFacts, FirstRun, Sizes
     DEF DispatchPersist, Goto, Answer, Proceed, PcInv, PlannedOK, Planning, Admitting
<1>15. ASSUME NEW h \in Handlers, DispatchAdmitted(h)
      PROVE  PcInv(x)'
  <2>1. /\ at[h] \in Runs /\ at[h][1] \in Requests /\ at[h][2] \in Variants
        /\ at[h][2] < PlanSize[at[h][1]]
    BY <1>15, RunFacts DEF DispatchAdmitted, TypeInv, PcInv
  <2>2. CASE at[h][2] + 1 = PlanSize[at[h][1]]
    BY <1>15, <1>know, <2>2 DEF DispatchAdmitted, Goto, Answer, PcInv, Planning, Admitting
  <2>3. CASE at[h][2] + 1 # PlanSize[at[h][1]]
    <3>1. at[h][2] + 1 \in Variants /\ at[h][2] + 1 < PlanSize[at[h][1]]
      BY <2>1, <2>3, Sizes DEF Variants
    <3>2. <<at[h][1], at[h][2] + 1>> \in Runs
      BY <2>1, <3>1, RunFacts
    <3>3. pc' = pc /\ at' = [at EXCEPT ![h] = <<at[h][1], at[h][2] + 1>>]
      BY <1>15, <2>3 DEF DispatchAdmitted
    <3>4. CASE x = h
      BY <1>15, <1>know, <3>1, <3>2, <3>3, <3>4 DEF DispatchAdmitted, PcInv, Planning
    <3>5. CASE x # h
      BY <1>know, <3>3, <3>5 DEF PcInv
    <3>6. QED
      BY <3>4, <3>5
  <2>4. QED
    BY <2>2, <2>3
<1>16. ASSUME NEW h \in Handlers, DispatchFailed(h)
      PROVE  PcInv(x)'
  BY <1>16, <1>know, RunFacts, FirstRun, Sizes
     DEF DispatchFailed, Goto, Answer, PcInv, PlannedOK, Planning, Admitting
<1>17. ASSUME NEW h \in Handlers, DispatchClaim(h)
      PROVE  PcInv(x)'
  BY <1>17, <1>know, RunFacts, FirstRun, Sizes
     DEF DispatchClaim, Goto, Claim, PcInv, PlannedOK, Planning, Admitting
<1>18. ASSUME NEW h \in Handlers, DispatchTimeout(h)
      PROVE  PcInv(x)'
  BY <1>18, <1>know, RunFacts, FirstRun, Sizes
     DEF DispatchTimeout, Goto, Answer, PcInv, PlannedOK, Planning, Admitting
<1>19. ASSUME NEW h \in Handlers, RequestError(h)
      PROVE  PcInv(x)'
  BY <1>19, <1>know, RunFacts, FirstRun, Sizes DEF RequestError, Goto, PcInv, PlannedOK, Planning, Admitting
<1>20. ASSUME NEW h \in Handlers, NEW r \in Requests, DispatchPublish(h, r)
      PROVE  PcInv(x)'
  BY <1>20, <1>know, RunFacts, FirstRun, Sizes DEF DispatchPublish, Goto, PcInv, PlannedOK, Planning, Admitting
<1>21. ASSUME NEW h \in Handlers, NEW r \in Requests, DispatchRepeat(h, r)
      PROVE  PcInv(x)'
  BY <1>21, <1>know, RunFacts, FirstRun, Sizes DEF DispatchRepeat, Goto, PcInv, PlannedOK, Planning, Admitting
<1>22. ASSUME NEW r \in Requests, ApiPublish(r)
      PROVE  PcInv(x)'
  BY <1>22, <1>know DEF ApiPublish, PcInv
<1>23. ASSUME NEW r \in Requests, ApiReject(r)
      PROVE  PcInv(x)'
  BY <1>23, <1>know DEF ApiReject, PcInv
<1>24. ASSUME NEW r \in Requests, DeleteRevision(r)
      PROVE  PcInv(x)'
  BY <1>24, <1>know DEF DeleteRevision, PcInv
<1>25. ASSUME NEW r \in Requests, LoseEligibility(r)
      PROVE  PcInv(x)'
  BY <1>25, <1>know DEF LoseEligibility, PcInv
<1>26. ASSUME NEW i \in Runs, LeaseLapses(i)
      PROVE  PcInv(x)'
  BY <1>26, <1>know DEF LeaseLapses, Lapse, PcInv
<1>27. ASSUME NEW i \in Runs, Stall(i)
      PROVE  PcInv(x)'
  BY <1>27, <1>know DEF Stall, Lapse, PcInv
<1>28. ASSUME NEW i \in Runs, RetryDue(i)
      PROVE  PcInv(x)'
  BY <1>28, <1>know DEF RetryDue, PcInv
<1>29. ASSUME PlanningError
      PROVE  PcInv(x)'
  BY <1>29, <1>know, RunFacts, FirstRun, Sizes DEF PlanningError, Goto, PcInv, PlannedOK, Planning, Admitting
<1>30. ASSUME PassError
      PROVE  PcInv(x)'
  BY <1>30, <1>know, RunFacts, FirstRun, Sizes DEF PassError, Goto, PcInv, PlannedOK, Planning, Admitting
<1>31. ASSUME Crash
      PROVE  PcInv(x)'
  BY <1>31, <1>know, RunFacts, FirstRun, Sizes DEF Crash, PcInv, PlannedOK, Planning, Admitting
<1>32. CASE UNCHANGED vars
  BY <1>32, <1>know DEF vars, PcInv
<1>33. QED
  BY <1>1, <1>2, <1>3, <1>4, <1>5, <1>6, <1>7, <1>8, <1>9, <1>10, <1>11, <1>12, <1>13, <1>14, <1>15, <1>16,
     <1>17, <1>18, <1>19, <1>20, <1>21, <1>22, <1>23, <1>24, <1>25, <1>26, <1>27, <1>28, <1>29, <1>30,
     <1>31, <1>32
     DEF Next, Poll, Process, Dispatch

\* Every step keeps the markers of empty plans unset.
LEMMA PlannedKept == TypeInv /\ [Next]_vars => PlannedOK'
<1> SUFFICES ASSUME TypeInv, [Next]_vars PROVE PlannedOK'
  OBVIOUS
<1>1. ASSUME NEW w \in Workers, pc[w] = "plan", PersistPlan(at[w][1])
      PROVE  PlannedOK'
  <2>1. PlanSize[at[w][1]] # 0
    BY <1>1 DEF TypeInv, PcInv
  <2>2. QED
    BY <1>1, <2>1 DEF PersistPlan, PlannedOK, TypeInv, TypeOK
<1>2. CASE marker' = marker
  BY <1>2 DEF PlannedOK, TypeInv
<1>3. \/ marker' = marker
      \/ \E w \in Workers : pc[w] = "plan" /\ PersistPlan(at[w][1])
  BY DEF Next, vars, Poll, Process, Dispatch, PollStart, PollConsider, PollRevision, PollPersist, PollClaims,
         PollDone, PollClaim, Claim, Insert, Select, Finish, Retry, FinishRow, WriteRow, AdmissionError,
         DispatchLookup, DispatchPersist, DispatchAdmitted, DispatchFailed, DispatchClaim, DispatchTimeout,
         RequestError, DispatchPublish, DispatchRepeat, ApiPublish, ApiReject, PersistTerminal, DeleteRevision,
         LoseEligibility, LeaseLapses, Stall, Lapse, RetryDue, PlanningError, PassError, Crash, Workers
<1>4. QED
  BY <1>1, <1>2, <1>3

\* Initially everything is well typed and no worker has begun.
LEMMA InitTyped == Init => TypeInv
BY AdmissionAssumption, NoIds
   DEF Init, TypeInv, TypeOK, PlannedOK, PcInv, Status, Pc, Planning, Admitting, Workers

\* Every step keeps the types and what the workers know.
LEMMA StepTyped == TypeInv /\ [Next]_vars => TypeInv'
BY TypesKept, PcKept, PlannedKept DEF TypeInv

\* Every variable keeps its type (the tables and the workers of admission).
THEOREM TypeCorrect == Spec => []TypeOK
<1>1. TypeInv => TypeOK
  BY DEF TypeInv
<1>2. QED
  BY InitTyped, StepTyped, <1>1, PTL DEF Spec

-----------------------------------------------------------------------------
(* Verdicts and jobs.                                                      *)

\* The verdict of a row agrees with the jobs table.
RowInv(i) ==
    /\ status[i] = "admitted" => jobId[i] \in JobOf(i)
    /\ status[i] = "failed" => JobOf(i) = {}

\* A worker about to finish knows the job of its run, or that there is none as
\* long as its claim holds: only the holder of a claim can insert the job.
FinishInv(w) ==
    pc[w] = "finish" => /\ found[w] # 0 => found[w] \in JobOf(at[w])
                        /\ found[w] = 0 /\ Holds(w, at[w]) => JobOf(at[w]) = {}

Inv == TypeInv /\ (\A i \in Runs : RowInv(i)) /\ \A w \in Workers : FinishInv(w)

\* What a step may do to the verdicts and the jobs table: leave both alone,
\* start the job of a run, or give a run its verdict.
NoVerdict == jobs' = jobs /\ \A i \in Runs :
    /\ status'[i] = status[i] \/ (~Final(i) /\ ~Final(i)')
    /\ Final(i) => jobId'[i] = jobId[i]
Started(w) == pc[w] = "insert" /\ Holds(w, at[w]) /\ JobOf(at[w]) = {} /\ jobs' = Append(jobs, at[w])
              /\ UNCHANGED <<status, jobId>>
Given(w, verdict) ==
    /\ pc[w] = "finish" /\ Holds(w, at[w])
    /\ verdict = IF found[w] = 0 THEN "failed" ELSE "admitted"
    /\ WriteRow(at[w], verdict, found[w])
    /\ jobs' = jobs

\* Every step leaves verdicts and jobs alone, starts a job, or gives a verdict.
LEMMA StepCases ==
  TypeInv /\ [Next]_vars =>
    NoVerdict \/ \E w \in Workers : Started(w) \/ Given(w, "admitted") \/ Given(w, "failed")
<1> SUFFICES ASSUME TypeInv, [Next]_vars
             PROVE  NoVerdict \/ \E w \in Workers : Started(w) \/ Given(w, "admitted") \/ Given(w, "failed")
  OBVIOUS
<1> USE AdmissionAssumption DEF Workers
<1>type. status \in [Rows -> Status] /\ jobId \in [Rows -> Nat] /\ Runs \subseteq Rows
  BY RunFacts DEF TypeInv, TypeOK
<1>1. ASSUME PollStart
      PROVE  NoVerdict \/ \E x \in Workers : Started(x) \/ Given(x, "admitted") \/ Given(x, "failed")
  BY <1>1 DEF PollStart, NoVerdict
<1>2. ASSUME NEW r \in Requests, PollConsider(r)
      PROVE  NoVerdict \/ \E x \in Workers : Started(x) \/ Given(x, "admitted") \/ Given(x, "failed")
  BY <1>2 DEF PollConsider, NoVerdict
<1>3. ASSUME PollRevision
      PROVE  NoVerdict \/ \E x \in Workers : Started(x) \/ Given(x, "admitted") \/ Given(x, "failed")
  BY <1>3 DEF PollRevision, NoVerdict
<1>4. ASSUME PollPersist
      PROVE  NoVerdict \/ \E x \in Workers : Started(x) \/ Given(x, "admitted") \/ Given(x, "failed")
  <2>1. at[Poller][1] \in Requests
    BY <1>4, RunFacts DEF PollPersist, TypeInv, PcInv
  <2>2. QED
    BY <1>4, <1>type, <2>1, TerminalRows DEF PollPersist, PersistTerminal, PersistPlan, NoVerdict, Final
<1>5. ASSUME PollClaims
      PROVE  NoVerdict \/ \E x \in Workers : Started(x) \/ Given(x, "admitted") \/ Given(x, "failed")
  BY <1>5 DEF PollClaims, NoVerdict
<1>6. ASSUME PollDone
      PROVE  NoVerdict \/ \E x \in Workers : Started(x) \/ Given(x, "admitted") \/ Given(x, "failed")
  BY <1>6 DEF PollDone, NoVerdict
<1>7. ASSUME NEW i \in Runs, PollClaim(i)
      PROVE  NoVerdict \/ \E x \in Workers : Started(x) \/ Given(x, "admitted") \/ Given(x, "failed")
  BY <1>7, <1>type DEF PollClaim, Claim, Claimable, NoVerdict, Final
<1>8. ASSUME NEW w \in Workers, Insert(w)
      PROVE  NoVerdict \/ \E x \in Workers : Started(x) \/ Given(x, "admitted") \/ Given(x, "failed")
  <2>1. CASE jobs' = jobs
    BY <1>8, <2>1 DEF Insert, NoVerdict
  <2>2. CASE jobs' # jobs
    BY <1>8, <2>2 DEF Insert, Fenced, Started
  <2>3. QED
    BY <2>1, <2>2
<1>9. ASSUME NEW w \in Workers, Select(w)
      PROVE  NoVerdict \/ \E x \in Workers : Started(x) \/ Given(x, "admitted") \/ Given(x, "failed")
  BY <1>9 DEF Select, NoVerdict
<1>10. ASSUME NEW w \in Workers, Finish(w)
      PROVE  NoVerdict \/ \E x \in Workers : Started(x) \/ Given(x, "admitted") \/ Given(x, "failed")
  <2>1. CASE Holds(w, at[w])
    BY <1>10, <2>1 DEF Finish, FinishRow, Given
  <2>2. CASE ~Holds(w, at[w])
    BY <1>10, <2>2 DEF Finish, FinishRow, NoVerdict
  <2>3. QED
    BY <2>1, <2>2
<1>11. ASSUME NEW w \in Workers, Retry(w)
      PROVE  NoVerdict \/ \E x \in Workers : Started(x) \/ Given(x, "admitted") \/ Given(x, "failed")
  <2>1. CASE Holds(w, at[w])
    BY <1>11, <1>type, <2>1 DEF Retry, FinishRow, WriteRow, Holds, NoVerdict, Final
  <2>2. CASE ~Holds(w, at[w])
    BY <1>11, <2>2 DEF Retry, FinishRow, NoVerdict
  <2>3. QED
    BY <2>1, <2>2
<1>12. ASSUME NEW w \in Workers, AdmissionError(w)
      PROVE  NoVerdict \/ \E x \in Workers : Started(x) \/ Given(x, "admitted") \/ Given(x, "failed")
  BY <1>12 DEF AdmissionError, NoVerdict
<1>13. ASSUME NEW h \in Handlers, DispatchLookup(h)
      PROVE  NoVerdict \/ \E x \in Workers : Started(x) \/ Given(x, "admitted") \/ Given(x, "failed")
  BY <1>13 DEF DispatchLookup, NoVerdict
<1>14. ASSUME NEW h \in Handlers, DispatchPersist(h)
      PROVE  NoVerdict \/ \E x \in Workers : Started(x) \/ Given(x, "admitted") \/ Given(x, "failed")
  <2>1. at[h][1] \in Requests
    BY <1>14, RunFacts DEF DispatchPersist, TypeInv, PcInv
  <2>2. QED
    BY <1>14, <1>type, <2>1, TerminalRows DEF DispatchPersist, PersistTerminal, PersistPlan, NoVerdict, Final
<1>15. ASSUME NEW h \in Handlers, DispatchAdmitted(h)
      PROVE  NoVerdict \/ \E x \in Workers : Started(x) \/ Given(x, "admitted") \/ Given(x, "failed")
  BY <1>15 DEF DispatchAdmitted, NoVerdict
<1>16. ASSUME NEW h \in Handlers, DispatchFailed(h)
      PROVE  NoVerdict \/ \E x \in Workers : Started(x) \/ Given(x, "admitted") \/ Given(x, "failed")
  BY <1>16 DEF DispatchFailed, NoVerdict
<1>17. ASSUME NEW h \in Handlers, DispatchClaim(h)
      PROVE  NoVerdict \/ \E x \in Workers : Started(x) \/ Given(x, "admitted") \/ Given(x, "failed")
  BY <1>17, <1>type DEF DispatchClaim, Claim, Claimable, NoVerdict, Final
<1>18. ASSUME NEW h \in Handlers, DispatchTimeout(h)
      PROVE  NoVerdict \/ \E x \in Workers : Started(x) \/ Given(x, "admitted") \/ Given(x, "failed")
  BY <1>18 DEF DispatchTimeout, NoVerdict
<1>19. ASSUME NEW h \in Handlers, RequestError(h)
      PROVE  NoVerdict \/ \E x \in Workers : Started(x) \/ Given(x, "admitted") \/ Given(x, "failed")
  BY <1>19 DEF RequestError, NoVerdict
<1>20. ASSUME NEW h \in Handlers, NEW r \in Requests, DispatchPublish(h, r)
      PROVE  NoVerdict \/ \E x \in Workers : Started(x) \/ Given(x, "admitted") \/ Given(x, "failed")
  BY <1>20 DEF DispatchPublish, NoVerdict
<1>21. ASSUME NEW h \in Handlers, NEW r \in Requests, DispatchRepeat(h, r)
      PROVE  NoVerdict \/ \E x \in Workers : Started(x) \/ Given(x, "admitted") \/ Given(x, "failed")
  BY <1>21 DEF DispatchRepeat, NoVerdict
<1>22. ASSUME NEW r \in Requests, ApiPublish(r)
      PROVE  NoVerdict \/ \E x \in Workers : Started(x) \/ Given(x, "admitted") \/ Given(x, "failed")
  BY <1>22 DEF ApiPublish, NoVerdict
<1>23. ASSUME NEW r \in Requests, ApiReject(r)
      PROVE  NoVerdict \/ \E x \in Workers : Started(x) \/ Given(x, "admitted") \/ Given(x, "failed")
  BY <1>23, <1>type, TerminalRows DEF ApiReject, PersistTerminal, NoVerdict, Final
<1>24. ASSUME NEW r \in Requests, DeleteRevision(r)
      PROVE  NoVerdict \/ \E x \in Workers : Started(x) \/ Given(x, "admitted") \/ Given(x, "failed")
  BY <1>24 DEF DeleteRevision, NoVerdict
<1>25. ASSUME NEW r \in Requests, LoseEligibility(r)
      PROVE  NoVerdict \/ \E x \in Workers : Started(x) \/ Given(x, "admitted") \/ Given(x, "failed")
  BY <1>25 DEF LoseEligibility, NoVerdict
<1>26. ASSUME NEW i \in Runs, LeaseLapses(i)
      PROVE  NoVerdict \/ \E x \in Workers : Started(x) \/ Given(x, "admitted") \/ Given(x, "failed")
  BY <1>26 DEF LeaseLapses, Lapse, NoVerdict
<1>27. ASSUME NEW i \in Runs, Stall(i)
      PROVE  NoVerdict \/ \E x \in Workers : Started(x) \/ Given(x, "admitted") \/ Given(x, "failed")
  BY <1>27 DEF Stall, Lapse, NoVerdict
<1>28. ASSUME NEW i \in Runs, RetryDue(i)
      PROVE  NoVerdict \/ \E x \in Workers : Started(x) \/ Given(x, "admitted") \/ Given(x, "failed")
  BY <1>28 DEF RetryDue, NoVerdict
<1>29. ASSUME PlanningError
      PROVE  NoVerdict \/ \E x \in Workers : Started(x) \/ Given(x, "admitted") \/ Given(x, "failed")
  BY <1>29 DEF PlanningError, NoVerdict
<1>30. ASSUME PassError
      PROVE  NoVerdict \/ \E x \in Workers : Started(x) \/ Given(x, "admitted") \/ Given(x, "failed")
  BY <1>30 DEF PassError, NoVerdict
<1>31. ASSUME Crash
      PROVE  NoVerdict \/ \E x \in Workers : Started(x) \/ Given(x, "admitted") \/ Given(x, "failed")
  BY <1>31 DEF Crash, NoVerdict
<1>32. CASE UNCHANGED vars
  BY <1>32 DEF vars, NoVerdict
<1>33. QED
  BY <1>1, <1>2, <1>3, <1>4, <1>5, <1>6, <1>7, <1>8, <1>9, <1>10, <1>11, <1>12, <1>13, <1>14, <1>15, <1>16,
     <1>17, <1>18, <1>19, <1>20, <1>21, <1>22, <1>23, <1>24, <1>25, <1>26, <1>27, <1>28, <1>29, <1>30,
     <1>31, <1>32
     DEF Next, Poll, Process, Dispatch

\* A worker that is about to finish has just read the jobs table, or has kept
\* what it read, and has not got a claim it did not hold.
LEMMA FinishStep ==
  ASSUME TypeInv, [Next]_vars, NEW x \in Workers, pc'[x] = "finish"
  PROVE  \/ Select(x)
         \/ /\ pc[x] = "finish" /\ at'[x] = at[x] /\ found'[x] = found[x]
            /\ Holds(x, at[x])' => Holds(x, at[x])
<1> DEFINE Kept == /\ pc[x] = "finish" /\ at'[x] = at[x] /\ found'[x] = found[x]
                   /\ Holds(x, at[x])' => Holds(x, at[x])
<1> SUFFICES Select(x) \/ Kept
  OBVIOUS
<1> USE AdmissionAssumption DEF Workers
<1>type. /\ status \in [Rows -> Status] /\ token \in [Rows -> Workers \cup {Nobody}] /\ Runs \subseteq Rows
         /\ pc \in [Workers -> Pc] /\ found \in [Workers -> Nat] /\ at \in [Workers -> Runs \cup {NoRun}]
         /\ pc[x] = "finish" => at[x] \in Runs
  BY RunFacts DEF TypeInv, TypeOK, PcInv
<1>goto. \A w \in Workers : \A next : Goto(w, next) /\ next # "finish" => w # x /\ pc[x] = "finish"
  BY <1>type DEF Goto
<1>1. ASSUME PollStart
      PROVE  Select(x) \/ Kept
  BY <1>1, <1>type DEF PollStart, Goto, Holds
<1>2. ASSUME NEW r \in Requests, PollConsider(r)
      PROVE  Select(x) \/ Kept
  BY <1>2, <1>type DEF PollConsider, Goto, Holds
<1>3. ASSUME PollRevision
      PROVE  Select(x) \/ Kept
  BY <1>3, <1>type DEF PollRevision, PlanningOutcome, Goto, Holds
<1>4. ASSUME PollPersist
      PROVE  Select(x) \/ Kept
  <2>1. at[Poller][1] \in Requests
    BY <1>4, RunFacts DEF PollPersist, TypeInv, PcInv
  <2>2. QED
    BY <1>4, <1>type, <2>1, TerminalRows DEF PollPersist, PersistTerminal, PersistPlan, Goto, Holds
<1>5. ASSUME PollClaims
      PROVE  Select(x) \/ Kept
  BY <1>5, <1>type DEF PollClaims, Goto, Holds
<1>6. ASSUME PollDone
      PROVE  Select(x) \/ Kept
  BY <1>6, <1>type DEF PollDone, Goto, Holds
<1>7. ASSUME NEW i \in Runs, PollClaim(i)
      PROVE  Select(x) \/ Kept
  BY <1>7, <1>type DEF PollClaim, Goto, Claim, Claimable, Holds
<1>8. ASSUME NEW w \in Workers, Insert(w)
      PROVE  Select(x) \/ Kept
  BY <1>8, <1>type DEF Insert, Goto, Holds
<1>9. ASSUME NEW w \in Workers, Select(w)
      PROVE  Select(x) \/ Kept
  <2>1. CASE w = x
    BY <1>9, <2>1
  <2>2. CASE w # x
    BY <1>9, <1>type, <2>2 DEF Select, Goto, Holds
  <2>3. QED
    BY <2>1, <2>2
<1>10. ASSUME NEW w \in Workers, Finish(w)
      PROVE  Select(x) \/ Kept
  BY <1>10, <1>type DEF Finish, Goto, Caller, FinishRow, WriteRow, Holds
<1>11. ASSUME NEW w \in Workers, Retry(w)
      PROVE  Select(x) \/ Kept
  BY <1>11, <1>type DEF Retry, Goto, Caller, FinishRow, WriteRow, Holds
<1>12. ASSUME NEW w \in Workers, AdmissionError(w)
      PROVE  Select(x) \/ Kept
  BY <1>12, <1>type DEF AdmissionError, Goto, Holds
<1>13. ASSUME NEW h \in Handlers, DispatchLookup(h)
      PROVE  Select(x) \/ Kept
  BY <1>13, <1>type DEF DispatchLookup, Goto, Answer, Proceed, PlanningOutcome, Holds
<1>14. ASSUME NEW h \in Handlers, DispatchPersist(h)
      PROVE  Select(x) \/ Kept
  <2>1. at[h][1] \in Requests
    BY <1>14, RunFacts DEF DispatchPersist, TypeInv, PcInv
  <2>2. QED
    BY <1>14, <1>type, <2>1, TerminalRows
       DEF DispatchPersist, PersistTerminal, PersistPlan, Answer, Proceed, Goto, Holds
<1>15. ASSUME NEW h \in Handlers, DispatchAdmitted(h)
      PROVE  Select(x) \/ Kept
  BY <1>15, <1>type DEF DispatchAdmitted, Goto, Answer, Holds
<1>16. ASSUME NEW h \in Handlers, DispatchFailed(h)
      PROVE  Select(x) \/ Kept
  BY <1>16, <1>type DEF DispatchFailed, Goto, Answer, Holds
<1>17. ASSUME NEW h \in Handlers, DispatchClaim(h)
      PROVE  Select(x) \/ Kept
  BY <1>17, <1>type DEF DispatchClaim, Goto, Claim, Claimable, Holds
<1>18. ASSUME NEW h \in Handlers, DispatchTimeout(h)
      PROVE  Select(x) \/ Kept
  BY <1>18, <1>type DEF DispatchTimeout, Goto, Answer, Holds
<1>19. ASSUME NEW h \in Handlers, RequestError(h)
      PROVE  Select(x) \/ Kept
  BY <1>19, <1>type DEF RequestError, Goto, Holds
<1>20. ASSUME NEW h \in Handlers, NEW r \in Requests, DispatchPublish(h, r)
      PROVE  Select(x) \/ Kept
  BY <1>20, <1>type DEF DispatchPublish, Goto, Holds
<1>21. ASSUME NEW h \in Handlers, NEW r \in Requests, DispatchRepeat(h, r)
      PROVE  Select(x) \/ Kept
  BY <1>21, <1>type DEF DispatchRepeat, Goto, Holds
<1>22. ASSUME NEW r \in Requests, ApiPublish(r)
      PROVE  Select(x) \/ Kept
  BY <1>22, <1>type DEF ApiPublish, Holds
<1>23. ASSUME NEW r \in Requests, ApiReject(r)
      PROVE  Select(x) \/ Kept
  BY <1>23, <1>type, TerminalRows DEF ApiReject, PersistTerminal, Holds
<1>24. ASSUME NEW r \in Requests, DeleteRevision(r)
      PROVE  Select(x) \/ Kept
  BY <1>24, <1>type DEF DeleteRevision, Holds
<1>25. ASSUME NEW r \in Requests, LoseEligibility(r)
      PROVE  Select(x) \/ Kept
  BY <1>25, <1>type DEF LoseEligibility, Holds
<1>26. ASSUME NEW i \in Runs, LeaseLapses(i)
      PROVE  Select(x) \/ Kept
  BY <1>26, <1>type DEF LeaseLapses, Lapse, Holds
<1>27. ASSUME NEW i \in Runs, Stall(i)
      PROVE  Select(x) \/ Kept
  BY <1>27, <1>type DEF Stall, Lapse, Holds
<1>28. ASSUME NEW i \in Runs, RetryDue(i)
      PROVE  Select(x) \/ Kept
  BY <1>28, <1>type DEF RetryDue, Holds
<1>29. ASSUME PlanningError
      PROVE  Select(x) \/ Kept
  BY <1>29, <1>type DEF PlanningError, Goto, Holds
<1>30. ASSUME PassError
      PROVE  Select(x) \/ Kept
  BY <1>30, <1>type DEF PassError, Goto, Holds
<1>31. ASSUME Crash
      PROVE  Select(x) \/ Kept
  BY <1>31, <1>type DEF Crash, Holds
<1>32. CASE UNCHANGED vars
  BY <1>32, <1>type DEF vars, Holds
<1>33. QED
  BY <1>1, <1>2, <1>3, <1>4, <1>5, <1>6, <1>7, <1>8, <1>9, <1>10, <1>11, <1>12, <1>13, <1>14, <1>15, <1>16,
     <1>17, <1>18, <1>19, <1>20, <1>21, <1>22, <1>23, <1>24, <1>25, <1>26, <1>27, <1>28, <1>29, <1>30,
     <1>31, <1>32
     DEF Next, Poll, Process, Dispatch

\* A job that is started is the first of its run, and of a run nobody else finishes.
LEMMA FinishKept == Inv /\ [Next]_vars => \A x \in Workers : FinishInv(x)'
<1> SUFFICES ASSUME Inv, [Next]_vars, NEW x \in Workers, pc'[x] = "finish"
             PROVE  /\ found'[x] # 0 => found'[x] \in JobOf(at[x])'
                    /\ found'[x] = 0 /\ Holds(x, at[x])' => JobOf(at[x])' = {}
  BY DEF FinishInv
<1>type. TypeInv /\ TypeOK
  BY DEF Inv, TypeInv
<1>1. CASE Select(x)
  <2>1. found'[x] = (IF JobOf(at[x]) = {} THEN 0 ELSE CHOOSE j \in JobOf(at[x]) : TRUE)
    BY <1>1, <1>type DEF Select, TypeOK
  <2>2. at'[x] = at[x] /\ jobs' = jobs
    BY <1>1 DEF Select
  <2>3. QED
    BY <2>1, <2>2, <1>type, JobIds DEF JobOf
<1>2. CASE /\ pc[x] = "finish" /\ at'[x] = at[x] /\ found'[x] = found[x]
           /\ Holds(x, at[x])' => Holds(x, at[x])
  <2>1. /\ found[x] # 0 => found[x] \in JobOf(at[x])
        /\ found[x] = 0 /\ Holds(x, at[x]) => JobOf(at[x]) = {}
    BY <1>2 DEF Inv, FinishInv
  <2>2. CASE jobs' = jobs
    BY <1>2, <2>1, <2>2 DEF JobOf, Holds
  <2>3. ASSUME NEW w \in Workers, Started(w)
        PROVE  /\ found'[x] # 0 => found'[x] \in JobOf(at[x])'
               /\ found'[x] = 0 /\ Holds(x, at[x])' => JobOf(at[x])' = {}
    <3>1. at[w] \in Runs /\ w # x
      BY <2>3, <1>2, <1>type DEF Started, TypeInv, PcInv, Admitting
    <3>2. /\ \A i : i # at[w] => JobOf(i)' = JobOf(i)
          /\ \A i : JobOf(i) \subseteq JobOf(i)'
      BY <2>3, <3>1, <1>type, Inserted DEF Started
    <3>3. Holds(x, at[x]) => at[x] # at[w]
      BY <2>3, <3>1 DEF Started, Holds
    <3>4. /\ found[x] # 0 => found[x] \in {j \in DOMAIN jobs' : jobs'[j] = at[x]}
          /\ found[x] = 0 /\ Holds(x, at[x]) => {j \in DOMAIN jobs' : jobs'[j] = at[x]} = {}
      BY <2>1, <3>2, <3>3 DEF JobOf
    <3>5. QED
      BY <1>2, <3>4 DEF JobOf
  <2>4. QED
    BY <1>type, <2>2, <2>3, StepCases DEF NoVerdict, Given
<1>3. QED
  BY <1>1, <1>2, <1>type, FinishStep

\* A step keeps the agreement of verdicts and jobs.
LEMMA RowsKept == Inv /\ [Next]_vars => \A i \in Runs : RowInv(i)'
<1> SUFFICES ASSUME Inv, [Next]_vars, NEW i \in Runs PROVE RowInv(i)'
  OBVIOUS
<1>type. TypeInv /\ TypeOK /\ RowInv(i) /\ i \in Rows
  BY RunFacts DEF Inv, TypeInv
<1>1. CASE NoVerdict
  BY <1>1, <1>type DEF NoVerdict, RowInv, Final, JobOf
<1>2. ASSUME NEW w \in Workers, Started(w)
      PROVE  RowInv(i)'
  <2>1. at[w] \in Runs
    BY <1>2, <1>type DEF Started, TypeInv, PcInv
  <2>2. i # at[w] => JobOf(i)' = JobOf(i)
    BY <1>2, <1>type, <2>1, Inserted DEF Started
  <2>3. QED
    BY <1>2, <1>type, <2>2 DEF Started, Holds, RowInv
<1>3. ASSUME NEW w \in Workers, NEW verdict, Given(w, verdict)
      PROVE  RowInv(i)'
  <2>1. CASE i = at[w]
    <3>1. status'[i] = verdict /\ (found[w] # 0 => jobId'[i] = found[w]) /\ jobs' = jobs
      BY <1>3, <1>type, <2>1 DEF Given, WriteRow, TypeOK
    <3>2. /\ found[w] # 0 => found[w] \in JobOf(i)
          /\ found[w] = 0 => JobOf(i) = {}
      BY <1>3, <2>1 DEF Given, Inv, FinishInv
    <3>3. QED
      BY <1>3, <3>1, <3>2 DEF Given, RowInv, JobOf
  <2>2. CASE i # at[w]
    BY <1>3, <1>type, <2>2 DEF Given, WriteRow, TypeOK, RowInv, JobOf
  <2>3. QED
    BY <2>1, <2>2
<1>4. QED
  BY <1>1, <1>2, <1>3, <1>type, StepCases

\* Initially there are neither verdicts nor jobs.
LEMMA InitInv == Init => Inv
BY InitTyped, RunFacts DEF Init, Inv, RowInv, FinishInv

\* Inv is inductive.
LEMMA StepInv == Inv /\ [Next]_vars => Inv'
BY StepTyped, RowsKept, FinishKept DEF Inv

\* An admitted variant names the job that was started for it (finish writes the
\* id enqueueDispatch returned, in whatever order claims are taken over).
THEOREM AdmittedNamesItsJobAlways == Spec => []AdmittedNamesItsJob
<1>1. Inv => AdmittedNamesItsJob
  BY DEF Inv, RowInv, AdmittedNamesItsJob
<1>2. QED
  BY InitInv, StepInv, <1>1, PTL DEF Spec

-----------------------------------------------------------------------------
(* What the requests of a dispatch step are answered.                      *)

\* What planning knows: a request that cannot be planned gets no plan, one without
\* variants no other row; and as long as its pinned revision is there, only a request
\* that cannot be planned is rejected.
PlanOK(r) ==
    /\ marker[r] => r \notin Invalid
    /\ status[Empty(r)] # "none" => PlanSize[r] = 0 /\ r \notin Invalid
    /\ status[Rejected(r)] # "none" /\ revision[r] => r \in Invalid
PlanningOK(w) ==
    LET r == at[w][1]
    IN  /\ pc[w] = "reject" /\ revision[r] => r \in Invalid
        /\ pc[w] = "empty" => PlanSize[r] = 0 /\ r \notin Invalid
        /\ pc[w] = "plan" => r \notin Invalid
        /\ w \in Handlers /\ pc[w] \in {"variants"} \cup Admitting => r \notin Invalid

\* The ids of the first n variants, which are admitted.
Names(s, r, n) ==
    /\ Len(s) = n
    /\ \A v \in Variants : v < n => status[<<r, v>>] = "admitted" /\ s[v + 1] = jobId[<<r, v>>]

\* A handler has collected the jobs of the variants before the one it is at.
IdsOK(h) == IF pc[h] \in {"variants"} \cup Admitting THEN Names(ids[h], at[h][1], at[h][2])
            ELSE ids[h] = <<>>

\* What the handlers of a dispatch step have answered.
AnswerOK(r, a) ==
    /\ a.kind = "admitted" => r \notin Invalid /\ Names(a.ids, r, PlanSize[r])
    /\ a.kind = "failed" => /\ r \notin Invalid /\ a.ids = <<>>
                            /\ \E v \in Variants : v < PlanSize[r] /\ status[<<r, v>>] = "failed"
    /\ a.kind = "rejected" => a.ids = <<>> /\ (revision[r] => r \in Invalid)

AnswerInv ==
    /\ \A r \in Requests : PlanOK(r) /\ \A a \in answers[r] : AnswerOK(r, a)
    /\ \A w \in Workers : PlanningOK(w)
    /\ \A h \in Handlers : IdsOK(h)

\* A revision that is gone stays gone, and a verdict stands with the job it names.
RowsStand ==
    /\ \A r \in Requests : revision'[r] => revision[r]
    /\ \A i \in Runs : Final(i) => status'[i] = status[i] /\ jobId'[i] = jobId[i]

\* Every step leaves them so.
LEMMA RowsStandKept == TypeInv /\ [Next]_vars => RowsStand
<1> SUFFICES ASSUME TypeInv, [Next]_vars PROVE RowsStand
  OBVIOUS
<1>1. \A r \in Requests : revision'[r] => revision[r]
  <2>1. revision' = revision \/ \E r \in Requests : DeleteRevision(r)
    BY DEF Next, vars, Poll, Process, Dispatch, PollStart, PollConsider, PollRevision, PollPersist, PollClaims,
           PollDone, PollClaim, Insert, Select, Finish, Retry, AdmissionError,
           DispatchLookup, DispatchPersist, DispatchAdmitted, DispatchFailed, DispatchClaim, DispatchTimeout,
           RequestError, DispatchPublish, DispatchRepeat, ApiPublish, ApiReject,
           LoseEligibility, LeaseLapses, Stall, Lapse, RetryDue, PlanningError, PassError, Crash
  <2>2. QED
    BY <2>1 DEF DeleteRevision, TypeInv, TypeOK
<1>2. ASSUME NEW i \in Runs, Final(i) PROVE status'[i] = status[i] /\ jobId'[i] = jobId[i]
  <2>1. status \in [Rows -> Status] /\ jobId \in [Rows -> Nat] /\ i \in Rows
    BY RunFacts DEF TypeInv, TypeOK
  <2>2. ASSUME NEW w \in Workers, NEW verdict, Given(w, verdict)
        PROVE  status'[i] = status[i] /\ jobId'[i] = jobId[i]
    <3>1. i # at[w]
      BY <1>2, <2>2 DEF Given, Holds, Final
    <3>2. QED
      BY <2>1, <2>2, <3>1 DEF Given, WriteRow
  <2>3. QED
    BY <1>2, <2>2, StepCases DEF NoVerdict, Started, Final
<1>3. QED
  BY <1>1, <1>2 DEF RowsStand

\* What is named stays named, and what was answered stays right.
LEMMA NamesStand ==
  ASSUME RowsStand, NEW q \in Requests, NEW s, NEW n, Names(s, q, n)
  PROVE  /\ Len(s) = n
         /\ \A v \in Variants : v < n => status'[<<q, v>>] = "admitted" /\ s[v + 1] = jobId'[<<q, v>>]
BY RunFacts DEF RowsStand, Names, Final

LEMMA AnswersStand ==
  ASSUME RowsStand, NEW q \in Requests, NEW a, AnswerOK(q, a)
  PROVE  AnswerOK(q, a)'
<1>1. ASSUME a.kind = "admitted" PROVE Names(a.ids, q, PlanSize[q])'
  <2>1. Names(a.ids, q, PlanSize[q])
    BY <1>1 DEF AnswerOK
  <2>2. /\ Len(a.ids) = PlanSize[q]
        /\ \A v \in Variants : v < PlanSize[q] =>
               status'[<<q, v>>] = "admitted" /\ a.ids[v + 1] = jobId'[<<q, v>>]
    BY <2>1, NamesStand
  <2>3. QED
    BY <2>2 DEF Names
<1>2. a.kind = "failed" => \E v \in Variants : v < PlanSize[q] /\ status'[<<q, v>>] = "failed"
  BY RunFacts DEF AnswerOK, RowsStand, Final
<1>3. QED
  BY <1>1, <1>2 DEF AnswerOK, RowsStand

\* Every step keeps what a worker knows of the plan it makes.
LEMMA PlanningKept ==
  ASSUME TypeInv, AnswerInv, [Next]_vars, NEW x \in Workers
  PROVE  PlanningOK(x)'
<1> USE AdmissionAssumption DEF Workers
<1>know. /\ PlanningOK(x) /\ PcInv(x) /\ pc[x] \in Pc
         /\ pc \in [Workers -> Pc] /\ at \in [Workers -> Runs \cup {NoRun}]
         /\ \A r \in Requests : PlanOK(r)
         /\ \A r \in Requests : revision'[r] => revision[r]
  BY RowsStandKept DEF TypeInv, TypeOK, AnswerInv, RowsStand
<1>at. at[x] \in Runs => at[x][1] \in Requests
  BY RunFacts
<1>1. ASSUME PollStart
      PROVE  PlanningOK(x)'
  BY <1>1, <1>know, <1>at, RunFacts, FirstRun DEF PollStart, Goto, PlanningOK, PlanOK, PcInv, Planning, Admitting
<1>2. ASSUME NEW r \in Requests, PollConsider(r)
      PROVE  PlanningOK(x)'
  BY <1>2, <1>know, <1>at, RunFacts, FirstRun DEF PollConsider, Goto, PlanningOK, PlanOK, PcInv, Planning, Admitting
<1>3. ASSUME PollRevision
      PROVE  PlanningOK(x)'
  BY <1>3, <1>know, <1>at, RunFacts, FirstRun DEF PollRevision, PlanningOutcome, Goto, PlanningOK, PlanOK, PcInv, Planning, Admitting
<1>4. ASSUME PollPersist
      PROVE  PlanningOK(x)'
  BY <1>4, <1>know, <1>at, RunFacts, FirstRun DEF PollPersist, PersistTerminal, PersistPlan, Goto, PlanningOK, PlanOK, PcInv, Planning, Admitting
<1>5. ASSUME PollClaims
      PROVE  PlanningOK(x)'
  BY <1>5, <1>know, <1>at, RunFacts, FirstRun DEF PollClaims, Goto, PlanningOK, PlanOK, PcInv, Planning, Admitting
<1>6. ASSUME PollDone
      PROVE  PlanningOK(x)'
  BY <1>6, <1>know, <1>at, RunFacts, FirstRun DEF PollDone, Goto, PlanningOK, PlanOK, PcInv, Planning, Admitting
<1>7. ASSUME NEW i \in Runs, PollClaim(i)
      PROVE  PlanningOK(x)'
  BY <1>7, <1>know, <1>at, RunFacts, FirstRun DEF PollClaim, Claim, Goto, PlanningOK, PlanOK, PcInv, Planning, Admitting
<1>8. ASSUME NEW w \in Workers, Insert(w)
      PROVE  PlanningOK(x)'
  BY <1>8, <1>know, <1>at, RunFacts, FirstRun DEF Insert, Goto, PlanningOK, PlanOK, PcInv, Planning, Admitting
<1>9. ASSUME NEW w \in Workers, Select(w)
      PROVE  PlanningOK(x)'
  BY <1>9, <1>know, <1>at, RunFacts, FirstRun DEF Select, Goto, PlanningOK, PlanOK, PcInv, Planning, Admitting
<1>10. ASSUME NEW w \in Workers, Finish(w)
      PROVE  PlanningOK(x)'
  BY <1>10, <1>know, <1>at, RunFacts, FirstRun DEF Finish, FinishRow, WriteRow, Caller, Goto, PlanningOK, PlanOK, PcInv, Planning, Admitting
<1>11. ASSUME NEW w \in Workers, Retry(w)
      PROVE  PlanningOK(x)'
  BY <1>11, <1>know, <1>at, RunFacts, FirstRun DEF Retry, FinishRow, WriteRow, Caller, Goto, PlanningOK, PlanOK, PcInv, Planning, Admitting
<1>12. ASSUME NEW w \in Workers, AdmissionError(w)
      PROVE  PlanningOK(x)'
  BY <1>12, <1>know, <1>at, RunFacts, FirstRun DEF AdmissionError, Goto, PlanningOK, PlanOK, PcInv, Planning, Admitting
<1>13. ASSUME NEW h \in Handlers, DispatchLookup(h)
      PROVE  PlanningOK(x)'
  BY <1>13, <1>know, <1>at, RunFacts, FirstRun DEF DispatchLookup, Answer, Proceed, PlanningOutcome, Goto, PlanningOK, PlanOK, PcInv, Planning, Admitting
<1>14. ASSUME NEW h \in Handlers, DispatchPersist(h)
      PROVE  PlanningOK(x)'
  BY <1>14, <1>know, <1>at, RunFacts, FirstRun DEF DispatchPersist, PersistTerminal, PersistPlan, Answer, Proceed, Goto, PlanningOK, PlanOK, PcInv, Planning, Admitting
<1>15. ASSUME NEW h \in Handlers, DispatchAdmitted(h)
      PROVE  PlanningOK(x)'
  BY <1>15, <1>know, <1>at, RunFacts, FirstRun DEF DispatchAdmitted, Answer, Goto, PlanningOK, PlanOK, PcInv, Planning, Admitting
<1>16. ASSUME NEW h \in Handlers, DispatchFailed(h)
      PROVE  PlanningOK(x)'
  BY <1>16, <1>know, <1>at, RunFacts, FirstRun DEF DispatchFailed, Answer, Goto, PlanningOK, PlanOK, PcInv, Planning, Admitting
<1>17. ASSUME NEW h \in Handlers, DispatchClaim(h)
      PROVE  PlanningOK(x)'
  BY <1>17, <1>know, <1>at, RunFacts, FirstRun DEF DispatchClaim, Claim, Goto, PlanningOK, PlanOK, PcInv, Planning, Admitting
<1>18. ASSUME NEW h \in Handlers, DispatchTimeout(h)
      PROVE  PlanningOK(x)'
  BY <1>18, <1>know, <1>at, RunFacts, FirstRun DEF DispatchTimeout, Answer, Goto, PlanningOK, PlanOK, PcInv, Planning, Admitting
<1>19. ASSUME NEW h \in Handlers, RequestError(h)
      PROVE  PlanningOK(x)'
  BY <1>19, <1>know, <1>at, RunFacts, FirstRun DEF RequestError, Goto, PlanningOK, PlanOK, PcInv, Planning, Admitting
<1>20. ASSUME NEW h \in Handlers, NEW r \in Requests, DispatchPublish(h, r)
      PROVE  PlanningOK(x)'
  BY <1>20, <1>know, <1>at, RunFacts, FirstRun DEF DispatchPublish, Goto, PlanningOK, PlanOK, PcInv, Planning, Admitting
<1>21. ASSUME NEW h \in Handlers, NEW r \in Requests, DispatchRepeat(h, r)
      PROVE  PlanningOK(x)'
  BY <1>21, <1>know, <1>at, RunFacts, FirstRun DEF DispatchRepeat, Goto, PlanningOK, PlanOK, PcInv, Planning, Admitting
<1>22. ASSUME NEW r \in Requests, ApiPublish(r)
      PROVE  PlanningOK(x)'
  BY <1>22, <1>know, <1>at, RunFacts, FirstRun DEF ApiPublish, PlanningOK, PlanOK, PcInv, Planning, Admitting
<1>23. ASSUME NEW r \in Requests, ApiReject(r)
      PROVE  PlanningOK(x)'
  BY <1>23, <1>know, <1>at, RunFacts, FirstRun DEF ApiReject, PersistTerminal, PlanningOK, PlanOK, PcInv, Planning, Admitting
<1>24. ASSUME NEW r \in Requests, DeleteRevision(r)
      PROVE  PlanningOK(x)'
  BY <1>24, <1>know, <1>at, RunFacts, FirstRun DEF DeleteRevision, PlanningOK, PlanOK, PcInv, Planning, Admitting
<1>25. ASSUME NEW r \in Requests, LoseEligibility(r)
      PROVE  PlanningOK(x)'
  BY <1>25, <1>know, <1>at, RunFacts, FirstRun DEF LoseEligibility, PlanningOK, PlanOK, PcInv, Planning, Admitting
<1>26. ASSUME NEW i \in Runs, LeaseLapses(i)
      PROVE  PlanningOK(x)'
  BY <1>26, <1>know, <1>at, RunFacts, FirstRun DEF LeaseLapses, Lapse, PlanningOK, PlanOK, PcInv, Planning, Admitting
<1>27. ASSUME NEW i \in Runs, Stall(i)
      PROVE  PlanningOK(x)'
  BY <1>27, <1>know, <1>at, RunFacts, FirstRun DEF Stall, Lapse, PlanningOK, PlanOK, PcInv, Planning, Admitting
<1>28. ASSUME NEW i \in Runs, RetryDue(i)
      PROVE  PlanningOK(x)'
  BY <1>28, <1>know, <1>at, RunFacts, FirstRun DEF RetryDue, PlanningOK, PlanOK, PcInv, Planning, Admitting
<1>29. ASSUME PlanningError
      PROVE  PlanningOK(x)'
  BY <1>29, <1>know, <1>at, RunFacts, FirstRun DEF PlanningError, Goto, PlanningOK, PlanOK, PcInv, Planning, Admitting
<1>30. ASSUME PassError
      PROVE  PlanningOK(x)'
  BY <1>30, <1>know, <1>at, RunFacts, FirstRun DEF PassError, Goto, PlanningOK, PlanOK, PcInv, Planning, Admitting
<1>31. ASSUME Crash
      PROVE  PlanningOK(x)'
  BY <1>31, <1>know, <1>at, RunFacts, FirstRun DEF Crash, PlanningOK, PlanOK, PcInv, Planning, Admitting
<1>32. CASE UNCHANGED vars
  BY <1>32, <1>know, <1>at, RunFacts, FirstRun DEF vars, PlanningOK, PlanOK, PcInv, Planning, Admitting
<1>33. QED
  BY <1>1, <1>2, <1>3, <1>4, <1>5, <1>6, <1>7, <1>8, <1>9, <1>10, <1>11, <1>12, <1>13, <1>14, <1>15, <1>16,
     <1>17, <1>18, <1>19, <1>20, <1>21, <1>22, <1>23, <1>24, <1>25, <1>26, <1>27, <1>28, <1>29, <1>30,
     <1>31, <1>32
     DEF Next, Poll, Process, Dispatch

\* The rows of rejected and empty requests, and the markers, are only written for them.
LEMMA PlansKept ==
  ASSUME TypeInv, AnswerInv, [Next]_vars, NEW q \in Requests
  PROVE  PlanOK(q)'
<1> USE AdmissionAssumption DEF Workers
<1>know. /\ PlanOK(q) /\ \A w \in Workers : PlanningOK(w) /\ PcInv(w)
         /\ status \in [Rows -> Status] /\ marker \in [Requests -> BOOLEAN]
         /\ Rejected(q) \in Rows \ Runs /\ Empty(q) \in Rows \ Runs /\ Runs \subseteq Rows
         /\ revision'[q] => revision[q]
  BY RowsStandKept, TerminalRows, RunFacts DEF TypeInv, TypeOK, AnswerInv, RowsStand
<1>slots. /\ Rejected(q)[1] = q /\ Rejected(q)[2] \notin Variants /\ Empty(q)[1] = q /\ Empty(q)[2] \notin Variants
          /\ \A r \in Requests : /\ Rejected(r) # Empty(q) /\ Empty(r) # Rejected(q)
                                 /\ (Rejected(r) = Rejected(q) => r = q) /\ (Empty(r) = Empty(q) => r = q)
                                 /\ Plan(r) \subseteq Variants
  BY DEF Rejected, Empty, REJECTED, EMPTY, Variants, Plan
<1>same. ASSUME marker' = marker, status'[Empty(q)] = status[Empty(q)], status'[Rejected(q)] = status[Rejected(q)]
         PROVE  PlanOK(q)'
  BY <1>same, <1>know DEF PlanOK, Empty, Rejected
<1>work. \A w \in Workers : pc[w] \in {"reject", "empty", "plan", "variants"} \cup Admitting =>
             at[w] \in Runs /\ at[w][1] \in Requests
  BY <1>know, RunFacts DEF PcInv, Admitting
<1>1. ASSUME PollStart
      PROVE  PlanOK(q)'
  BY <1>1, <1>same, <1>know, <1>work DEF PollStart, Goto, Admitting
<1>2. ASSUME NEW r \in Requests, PollConsider(r)
      PROVE  PlanOK(q)'
  BY <1>2, <1>same, <1>know, <1>work DEF PollConsider, Goto, Admitting
<1>3. ASSUME PollRevision
      PROVE  PlanOK(q)'
  BY <1>3, <1>same, <1>know, <1>work DEF PollRevision, PlanningOutcome, Goto, Admitting
<1>4. ASSUME PollPersist
      PROVE  PlanOK(q)'
  <2>1. PICK w \in Workers :
           \/ pc[w] = "reject" /\ PersistTerminal(Rejected(at[w][1]), "failed")
           \/ pc[w] = "empty" /\ PersistTerminal(Empty(at[w][1]), "admitted")
           \/ pc[w] = "plan" /\ PersistPlan(at[w][1])
    BY <1>4 DEF PollPersist
  <2>2. at[w][1] \in Requests /\ PlanningOK(w)
    BY <1>know, <1>work, <2>1
  <2>3. CASE pc[w] = "reject" /\ PersistTerminal(Rejected(at[w][1]), "failed")
    BY <1>know, <1>slots, <2>2, <2>3 DEF PersistTerminal, PlanningOK, PlanOK, Rejected, Empty
  <2>4. CASE pc[w] = "empty" /\ PersistTerminal(Empty(at[w][1]), "admitted")
    BY <1>know, <1>slots, <2>2, <2>4 DEF PersistTerminal, PlanningOK, PlanOK, Rejected, Empty
  <2>5. CASE pc[w] = "plan" /\ PersistPlan(at[w][1])
    BY <1>know, <1>slots, <2>2, <2>5 DEF PersistPlan, PlanningOK, PlanOK, Rejected, Empty
  <2>6. QED
    BY <2>1, <2>3, <2>4, <2>5
<1>5. ASSUME PollClaims
      PROVE  PlanOK(q)'
  BY <1>5, <1>same, <1>know, <1>work DEF PollClaims, Goto, Admitting
<1>6. ASSUME PollDone
      PROVE  PlanOK(q)'
  BY <1>6, <1>same, <1>know, <1>work DEF PollDone, Goto, Admitting
<1>7. ASSUME NEW i \in Runs, PollClaim(i)
      PROVE  PlanOK(q)'
  BY <1>7, <1>same, <1>know, <1>work DEF PollClaim, Claim, Goto, Admitting
<1>8. ASSUME NEW w \in Workers, Insert(w)
      PROVE  PlanOK(q)'
  BY <1>8, <1>same, <1>know, <1>work DEF Insert, Goto, Admitting
<1>9. ASSUME NEW w \in Workers, Select(w)
      PROVE  PlanOK(q)'
  BY <1>9, <1>same, <1>know, <1>work DEF Select, Goto, Admitting
<1>10. ASSUME NEW w \in Workers, Finish(w)
      PROVE  PlanOK(q)'
  BY <1>10, <1>same, <1>know, <1>work DEF Finish, FinishRow, WriteRow, Caller, Goto, Admitting
<1>11. ASSUME NEW w \in Workers, Retry(w)
      PROVE  PlanOK(q)'
  BY <1>11, <1>same, <1>know, <1>work DEF Retry, FinishRow, WriteRow, Caller, Goto, Admitting
<1>12. ASSUME NEW w \in Workers, AdmissionError(w)
      PROVE  PlanOK(q)'
  BY <1>12, <1>same, <1>know, <1>work DEF AdmissionError, Goto, Admitting
<1>13. ASSUME NEW h \in Handlers, DispatchLookup(h)
      PROVE  PlanOK(q)'
  BY <1>13, <1>same, <1>know, <1>work DEF DispatchLookup, Answer, Proceed, PlanningOutcome, Goto, Admitting
<1>14. ASSUME NEW h \in Handlers, DispatchPersist(h)
      PROVE  PlanOK(q)'
  <2>1. PICK w \in Workers :
           \/ pc[w] = "reject" /\ PersistTerminal(Rejected(at[w][1]), "failed")
           \/ pc[w] = "empty" /\ PersistTerminal(Empty(at[w][1]), "admitted")
           \/ pc[w] = "plan" /\ PersistPlan(at[w][1])
    BY <1>14 DEF DispatchPersist
  <2>2. at[w][1] \in Requests /\ PlanningOK(w)
    BY <1>know, <1>work, <2>1
  <2>3. CASE pc[w] = "reject" /\ PersistTerminal(Rejected(at[w][1]), "failed")
    BY <1>know, <1>slots, <2>2, <2>3 DEF PersistTerminal, PlanningOK, PlanOK, Rejected, Empty
  <2>4. CASE pc[w] = "empty" /\ PersistTerminal(Empty(at[w][1]), "admitted")
    BY <1>know, <1>slots, <2>2, <2>4 DEF PersistTerminal, PlanningOK, PlanOK, Rejected, Empty
  <2>5. CASE pc[w] = "plan" /\ PersistPlan(at[w][1])
    BY <1>know, <1>slots, <2>2, <2>5 DEF PersistPlan, PlanningOK, PlanOK, Rejected, Empty
  <2>6. QED
    BY <2>1, <2>3, <2>4, <2>5
<1>15. ASSUME NEW h \in Handlers, DispatchAdmitted(h)
      PROVE  PlanOK(q)'
  BY <1>15, <1>same, <1>know, <1>work DEF DispatchAdmitted, Answer, Goto, Admitting
<1>16. ASSUME NEW h \in Handlers, DispatchFailed(h)
      PROVE  PlanOK(q)'
  BY <1>16, <1>same, <1>know, <1>work DEF DispatchFailed, Answer, Goto, Admitting
<1>17. ASSUME NEW h \in Handlers, DispatchClaim(h)
      PROVE  PlanOK(q)'
  BY <1>17, <1>same, <1>know, <1>work DEF DispatchClaim, Claim, Goto, Admitting
<1>18. ASSUME NEW h \in Handlers, DispatchTimeout(h)
      PROVE  PlanOK(q)'
  BY <1>18, <1>same, <1>know, <1>work DEF DispatchTimeout, Answer, Goto, Admitting
<1>19. ASSUME NEW h \in Handlers, RequestError(h)
      PROVE  PlanOK(q)'
  BY <1>19, <1>same, <1>know, <1>work DEF RequestError, Goto, Admitting
<1>20. ASSUME NEW h \in Handlers, NEW r \in Requests, DispatchPublish(h, r)
      PROVE  PlanOK(q)'
  BY <1>20, <1>same, <1>know, <1>work DEF DispatchPublish, Goto, Admitting
<1>21. ASSUME NEW h \in Handlers, NEW r \in Requests, DispatchRepeat(h, r)
      PROVE  PlanOK(q)'
  BY <1>21, <1>same, <1>know, <1>work DEF DispatchRepeat, Goto, Admitting
<1>22. ASSUME NEW r \in Requests, ApiPublish(r)
      PROVE  PlanOK(q)'
  BY <1>22, <1>same, <1>know, <1>work DEF ApiPublish, Admitting
<1>23. ASSUME NEW r \in Requests, ApiReject(r)
      PROVE  PlanOK(q)'
  BY <1>23, <1>know, <1>slots DEF ApiReject, PersistTerminal, PlanOK, Rejected, Empty
<1>24. ASSUME NEW r \in Requests, DeleteRevision(r)
      PROVE  PlanOK(q)'
  BY <1>24, <1>same, <1>know, <1>work DEF DeleteRevision, Admitting
<1>25. ASSUME NEW r \in Requests, LoseEligibility(r)
      PROVE  PlanOK(q)'
  BY <1>25, <1>same, <1>know, <1>work DEF LoseEligibility, Admitting
<1>26. ASSUME NEW i \in Runs, LeaseLapses(i)
      PROVE  PlanOK(q)'
  BY <1>26, <1>same, <1>know, <1>work DEF LeaseLapses, Lapse, Admitting
<1>27. ASSUME NEW i \in Runs, Stall(i)
      PROVE  PlanOK(q)'
  BY <1>27, <1>same, <1>know, <1>work DEF Stall, Lapse, Admitting
<1>28. ASSUME NEW i \in Runs, RetryDue(i)
      PROVE  PlanOK(q)'
  BY <1>28, <1>same, <1>know, <1>work DEF RetryDue, Admitting
<1>29. ASSUME PlanningError
      PROVE  PlanOK(q)'
  BY <1>29, <1>same, <1>know, <1>work DEF PlanningError, Goto, Admitting
<1>30. ASSUME PassError
      PROVE  PlanOK(q)'
  BY <1>30, <1>same, <1>know, <1>work DEF PassError, Goto, Admitting
<1>31. ASSUME Crash
      PROVE  PlanOK(q)'
  BY <1>31, <1>same, <1>know, <1>work DEF Crash, Admitting
<1>32. CASE UNCHANGED vars
  BY <1>32, <1>same, <1>know, <1>work DEF vars, Admitting
<1>33. QED
  BY <1>1, <1>2, <1>3, <1>4, <1>5, <1>6, <1>7, <1>8, <1>9, <1>10, <1>11, <1>12, <1>13, <1>14, <1>15, <1>16,
     <1>17, <1>18, <1>19, <1>20, <1>21, <1>22, <1>23, <1>24, <1>25, <1>26, <1>27, <1>28, <1>29, <1>30,
     <1>31, <1>32
     DEF Next, Poll, Process, Dispatch

\* The job of one more variant.
LEMMA OneMoreNamed ==
  ASSUME NEW s \in Seq(Nat), NEW q \in Requests, NEW n \in Variants, Names(s, q, n),
         status[<<q, n>>] = "admitted", NEW j \in Nat, j = jobId[<<q, n>>]
  PROVE  Names(Append(s, j), q, n + 1)
<1>1. Len(s) = n /\ Len(Append(s, j)) = n + 1 /\ Append(s, j)[n + 1] = j /\ n \in Nat
  BY DEF Names, Variants
<1>2. ASSUME NEW v \in Variants, v < n + 1
      PROVE  status[<<q, v>>] = "admitted" /\ Append(s, j)[v + 1] = jobId[<<q, v>>]
  <2>1. CASE v = n
    BY <1>1, <2>1
  <2>2. CASE v # n
    <3>1. v < n /\ v + 1 \in 1..Len(s)
      BY <1>1, <1>2, <2>2 DEF Variants
    <3>2. Append(s, j)[v + 1] = s[v + 1]
      BY <3>1
    <3>3. QED
      BY <3>1, <3>2 DEF Names
  <2>3. QED
    BY <2>1, <2>2
<1>3. QED
  BY <1>1, <1>2 DEF Names

\* All jobs of a plan are named in one way.
LEMMA SameNames ==
  ASSUME NEW s \in Seq(Nat), NEW t \in Seq(Nat), NEW q \in Requests,
         Names(s, q, PlanSize[q]), Names(t, q, PlanSize[q])
  PROVE  s = t
<1>1. Len(s) = PlanSize[q] /\ Len(t) = PlanSize[q] /\ PlanSize[q] \in 0..MaxVariants /\ MaxVariants \in Nat
  BY AdmissionAssumption DEF Names
<1>2. ASSUME NEW k \in 1..PlanSize[q] PROVE s[k] = t[k]
  <2>1. k - 1 \in Variants /\ k - 1 < PlanSize[q] /\ (k - 1) + 1 = k
    BY <1>1 DEF Variants
  <2>2. QED
    BY <2>1 DEF Names
<1>3. QED
  BY <1>1, <1>2

\* What a step adds to the answers is right.
LEMMA NewAnswers ==
  ASSUME TypeInv, AnswerInv, [Next]_vars, NEW q \in Requests, NEW a \in answers'[q]
  PROVE  a \in answers[q] \/ AnswerOK(q, a)
<1> DEFINE Goal == a \in answers[q] \/ AnswerOK(q, a)
<1>rec. ASSUME NEW r \in Requests, NEW kind, NEW s, Record(r, kind, s), AnswerOK(r, [kind |-> kind, ids |-> s])
        PROVE  Goal
  BY <1>rec DEF Record, TypeInv, TypeOK
<1>know. ASSUME NEW h \in Handlers, at[h] \in Runs
         PROVE  /\ at[h][1] \in Requests /\ at[h][2] \in Variants /\ at[h] = <<at[h][1], at[h][2]>>
                /\ PlanningOK(h) /\ PcInv(h) /\ IdsOK(h) /\ PlanOK(at[h][1])
  BY <1>know, RunFacts DEF AnswerInv, TypeInv, Workers
<1>none. \A r \in Requests : PlanSize[r] = 0 => Names(<<>>, r, PlanSize[r])
  BY AdmissionAssumption DEF Names, Variants
<1>1. ASSUME PollStart
      PROVE  Goal
  BY <1>1 DEF PollStart
<1>2. ASSUME NEW r \in Requests, PollConsider(r)
      PROVE  Goal
  BY <1>2 DEF PollConsider
<1>3. ASSUME PollRevision
      PROVE  Goal
  BY <1>3 DEF PollRevision
<1>4. ASSUME PollPersist
      PROVE  Goal
  BY <1>4 DEF PollPersist
<1>5. ASSUME PollClaims
      PROVE  Goal
  BY <1>5 DEF PollClaims
<1>6. ASSUME PollDone
      PROVE  Goal
  BY <1>6 DEF PollDone
<1>7. ASSUME NEW i \in Runs, PollClaim(i)
      PROVE  Goal
  BY <1>7 DEF PollClaim
<1>8. ASSUME NEW w \in Workers, Insert(w)
      PROVE  Goal
  BY <1>8 DEF Insert
<1>9. ASSUME NEW w \in Workers, Select(w)
      PROVE  Goal
  BY <1>9 DEF Select
<1>10. ASSUME NEW w \in Workers, Finish(w)
      PROVE  Goal
  BY <1>10 DEF Finish
<1>11. ASSUME NEW w \in Workers, Retry(w)
      PROVE  Goal
  BY <1>11 DEF Retry
<1>12. ASSUME NEW w \in Workers, AdmissionError(w)
      PROVE  Goal
  BY <1>12 DEF AdmissionError
<1>13. ASSUME NEW h \in Handlers, DispatchLookup(h)
      PROVE  Goal
  <2>1. at[h] \in Runs /\ at[h][1] \in Requests /\ PlanOK(at[h][1])
    BY <1>13, <1>know DEF DispatchLookup, TypeInv, PcInv, Workers
  <2>2. CASE status[Rejected(at[h][1])] = "failed" /\ Answer(h, "rejected", <<>>)
    <3>1. AnswerOK(at[h][1], [kind |-> "rejected", ids |-> <<>>])
      BY <2>1, <2>2 DEF AnswerOK, PlanOK
    <3>2. QED
      BY <1>rec, <2>1, <2>2, <3>1 DEF Answer
  <2>3. CASE status[Empty(at[h][1])] = "admitted" /\ Answer(h, "admitted", <<>>)
    <3>1. AnswerOK(at[h][1], [kind |-> "admitted", ids |-> <<>>])
      BY <1>none, <2>1, <2>3 DEF AnswerOK, PlanOK
    <3>2. QED
      BY <1>rec, <2>1, <2>3, <3>1 DEF Answer
  <2>4. CASE answers' = answers
    BY <2>4
  <2>5. QED
    BY <1>13, <2>2, <2>3, <2>4 DEF DispatchLookup, Proceed
<1>14. ASSUME NEW h \in Handlers, DispatchPersist(h)
      PROVE  Goal
  <2>1. at[h] \in Runs /\ at[h][1] \in Requests /\ PlanningOK(h)
    BY <1>14, <1>know DEF DispatchPersist, TypeInv, PcInv, Workers
  <2>2. CASE pc[h] = "reject" /\ Answer(h, "rejected", <<>>)
    <3>1. AnswerOK(at[h][1], [kind |-> "rejected", ids |-> <<>>])
      BY <2>1, <2>2 DEF AnswerOK, PlanningOK
    <3>2. QED
      BY <1>rec, <2>1, <2>2, <3>1 DEF Answer
  <2>3. CASE pc[h] = "empty" /\ Answer(h, "admitted", <<>>)
    <3>1. AnswerOK(at[h][1], [kind |-> "admitted", ids |-> <<>>])
      BY <1>none, <2>1, <2>3 DEF AnswerOK, PlanningOK
    <3>2. QED
      BY <1>rec, <2>1, <2>3, <3>1 DEF Answer
  <2>4. CASE answers' = answers
    BY <2>4
  <2>5. QED
    BY <1>14, <2>2, <2>3, <2>4 DEF DispatchPersist, Proceed
<1>15. ASSUME NEW h \in Handlers, DispatchAdmitted(h)
      PROVE  Goal
  <2>1. /\ at[h] \in Runs /\ at[h][1] \in Requests /\ at[h][2] \in Variants /\ at[h] = <<at[h][1], at[h][2]>>
        /\ Names(ids[h], at[h][1], at[h][2]) /\ at[h][1] \notin Invalid /\ at[h][2] < PlanSize[at[h][1]]
    BY <1>15, <1>know DEF DispatchAdmitted, TypeInv, PcInv, IdsOK, PlanningOK, Workers
  <2>2. CASE at[h][2] + 1 = PlanSize[at[h][1]]
    <3>1. /\ ids[h] \in Seq(Nat) /\ jobId[at[h]] \in Nat /\ jobId[at[h]] = jobId[<<at[h][1], at[h][2]>>]
          /\ status[<<at[h][1], at[h][2]>>] = "admitted"
      BY <1>15, <2>1, RunFacts DEF DispatchAdmitted, TypeInv, TypeOK
    <3>2. Names(Append(ids[h], jobId[at[h]]), at[h][1], PlanSize[at[h][1]])
      BY <2>1, <2>2, <3>1, OneMoreNamed
    <3>3. AnswerOK(at[h][1], [kind |-> "admitted", ids |-> Append(ids[h], jobId[at[h]])])
      BY <2>1, <3>2 DEF AnswerOK
    <3>4. QED
      BY <1>15, <1>rec, <2>1, <2>2, <3>3 DEF DispatchAdmitted, Answer
  <2>3. CASE at[h][2] + 1 # PlanSize[at[h][1]]
    BY <1>15, <2>3 DEF DispatchAdmitted
  <2>4. QED
    BY <2>2, <2>3
<1>16. ASSUME NEW h \in Handlers, DispatchFailed(h)
      PROVE  Goal
  <2>1. /\ at[h] \in Runs /\ at[h][1] \in Requests /\ at[h][2] \in Variants /\ at[h] = <<at[h][1], at[h][2]>>
        /\ at[h][1] \notin Invalid /\ at[h][2] < PlanSize[at[h][1]] /\ status[at[h]] = "failed"
    BY <1>16, <1>know DEF DispatchFailed, TypeInv, PcInv, PlanningOK, Workers
  <2>2. AnswerOK(at[h][1], [kind |-> "failed", ids |-> <<>>])
    BY <2>1 DEF AnswerOK
  <2>3. QED
    BY <1>16, <1>rec, <2>1, <2>2 DEF DispatchFailed, Answer
<1>17. ASSUME NEW h \in Handlers, DispatchClaim(h)
      PROVE  Goal
  BY <1>17 DEF DispatchClaim
<1>18. ASSUME NEW h \in Handlers, DispatchTimeout(h)
      PROVE  Goal
  <2>1. at[h][1] \in Requests
    BY <1>18, <1>know DEF DispatchTimeout, TypeInv, PcInv, Workers
  <2>2. AnswerOK(at[h][1], [kind |-> "pending", ids |-> <<>>])
    BY DEF AnswerOK
  <2>3. QED
    BY <1>18, <1>rec, <2>1, <2>2 DEF DispatchTimeout, Answer
<1>19. ASSUME NEW h \in Handlers, RequestError(h)
      PROVE  Goal
  BY <1>19 DEF RequestError
<1>20. ASSUME NEW h \in Handlers, NEW r \in Requests, DispatchPublish(h, r)
      PROVE  Goal
  BY <1>20 DEF DispatchPublish
<1>21. ASSUME NEW h \in Handlers, NEW r \in Requests, DispatchRepeat(h, r)
      PROVE  Goal
  <2>1. AnswerOK(r, [kind |-> "unavailable", ids |-> <<>>])
    BY DEF AnswerOK
  <2>2. QED
    BY <1>21, <1>rec, <2>1 DEF DispatchRepeat
<1>22. ASSUME NEW r \in Requests, ApiPublish(r)
      PROVE  Goal
  BY <1>22 DEF ApiPublish
<1>23. ASSUME NEW r \in Requests, ApiReject(r)
      PROVE  Goal
  BY <1>23 DEF ApiReject
<1>24. ASSUME NEW r \in Requests, DeleteRevision(r)
      PROVE  Goal
  BY <1>24 DEF DeleteRevision
<1>25. ASSUME NEW r \in Requests, LoseEligibility(r)
      PROVE  Goal
  BY <1>25 DEF LoseEligibility
<1>26. ASSUME NEW i \in Runs, LeaseLapses(i)
      PROVE  Goal
  BY <1>26 DEF LeaseLapses, Lapse
<1>27. ASSUME NEW i \in Runs, Stall(i)
      PROVE  Goal
  BY <1>27 DEF Stall, Lapse
<1>28. ASSUME NEW i \in Runs, RetryDue(i)
      PROVE  Goal
  BY <1>28 DEF RetryDue
<1>29. ASSUME PlanningError
      PROVE  Goal
  BY <1>29 DEF PlanningError
<1>30. ASSUME PassError
      PROVE  Goal
  BY <1>30 DEF PassError
<1>31. ASSUME Crash
      PROVE  Goal
  BY <1>31 DEF Crash
<1>32. CASE UNCHANGED vars
  BY <1>32 DEF vars
<1>33. QED
  BY <1>1, <1>2, <1>3, <1>4, <1>5, <1>6, <1>7, <1>8, <1>9, <1>10, <1>11, <1>12, <1>13, <1>14, <1>15, <1>16,
     <1>17, <1>18, <1>19, <1>20, <1>21, <1>22, <1>23, <1>24, <1>25, <1>26, <1>27, <1>28, <1>29, <1>30,
     <1>31, <1>32
     DEF Next, Poll, Process, Dispatch

\* Every step keeps the ids that a handler has collected.
LEMMA IdsKept ==
  ASSUME TypeInv, AnswerInv, [Next]_vars, NEW x \in Handlers
  PROVE  IdsOK(x)'
<1> USE AdmissionAssumption DEF Workers
<1>know. /\ IdsOK(x) /\ PcInv(x) /\ pc[x] \in Pc /\ RowsStand
         /\ pc \in [Workers -> Pc] /\ at \in [Workers -> Runs \cup {NoRun}] /\ ids \in [Handlers -> Seq(Nat)]
         /\ x # Poller
  BY RowsStandKept DEF TypeInv, TypeOK, AnswerInv
<1>same. ASSUME at'[x] = at[x], ids'[x] = ids[x],
                pc'[x] \in {"variants"} \cup Admitting <=> pc[x] \in {"variants"} \cup Admitting
         PROVE  IdsOK(x)'
  <2>1. CASE pc[x] \in {"variants"} \cup Admitting
    <3>1. at[x][1] \in Requests /\ Names(ids[x], at[x][1], at[x][2])
      BY <1>know, <2>1, RunFacts DEF PcInv, IdsOK, Admitting
    <3>2. /\ Len(ids[x]) = at[x][2]
          /\ \A v \in Variants : v < at[x][2] =>
                 status'[<<at[x][1], v>>] = "admitted" /\ ids[x][v + 1] = jobId'[<<at[x][1], v>>]
      BY <1>know, <3>1, NamesStand
    <3>3. Names(ids[x], at[x][1], at[x][2])'
      BY <1>same, <3>2 DEF Names
    <3>4. QED
      BY <1>same, <2>1, <3>3 DEF IdsOK
  <2>2. CASE pc[x] \notin {"variants"} \cup Admitting
    BY <1>know, <1>same, <2>2 DEF IdsOK
  <2>3. QED
    BY <2>1, <2>2
<1>first. ASSUME at'[x][2] = 0, ids'[x] = <<>> PROVE IdsOK(x)'
  BY <1>first DEF IdsOK, Names, Variants
<1>empty. ASSUME pc'[x] \notin {"variants"} \cup Admitting, ids'[x] = <<>> PROVE IdsOK(x)'
  BY <1>empty DEF IdsOK
<1>none. pc[x] \notin {"variants"} \cup Admitting => ids[x] = <<>>
  BY <1>know DEF IdsOK
<1>1. ASSUME PollStart
      PROVE  IdsOK(x)'
  BY <1>1, <1>same, <1>know DEF PollStart, Goto, Admitting
<1>2. ASSUME NEW r \in Requests, PollConsider(r)
      PROVE  IdsOK(x)'
  BY <1>2, <1>same, <1>know DEF PollConsider, Goto, Admitting
<1>3. ASSUME PollRevision
      PROVE  IdsOK(x)'
  BY <1>3, <1>same, <1>know DEF PollRevision, PlanningOutcome, Goto, Admitting
<1>4. ASSUME PollPersist
      PROVE  IdsOK(x)'
  BY <1>4, <1>same, <1>know DEF PollPersist, PersistTerminal, PersistPlan, Goto, Admitting
<1>5. ASSUME PollClaims
      PROVE  IdsOK(x)'
  BY <1>5, <1>same, <1>know DEF PollClaims, Goto, Admitting
<1>6. ASSUME PollDone
      PROVE  IdsOK(x)'
  BY <1>6, <1>same, <1>know DEF PollDone, Goto, Admitting
<1>7. ASSUME NEW i \in Runs, PollClaim(i)
      PROVE  IdsOK(x)'
  BY <1>7, <1>same, <1>know DEF PollClaim, Claim, Goto, Admitting
<1>8. ASSUME NEW w \in Workers, Insert(w)
      PROVE  IdsOK(x)'
  BY <1>8, <1>same, <1>know DEF Insert, Goto, Admitting
<1>9. ASSUME NEW w \in Workers, Select(w)
      PROVE  IdsOK(x)'
  BY <1>9, <1>same, <1>know DEF Select, Goto, Admitting
<1>10. ASSUME NEW w \in Workers, Finish(w)
      PROVE  IdsOK(x)'
  BY <1>10, <1>same, <1>know DEF Finish, FinishRow, WriteRow, Caller, Goto, Admitting
<1>11. ASSUME NEW w \in Workers, Retry(w)
      PROVE  IdsOK(x)'
  BY <1>11, <1>same, <1>know DEF Retry, FinishRow, WriteRow, Caller, Goto, Admitting
<1>12. ASSUME NEW w \in Workers, AdmissionError(w)
      PROVE  IdsOK(x)'
  BY <1>12, <1>same, <1>know DEF AdmissionError, Goto, Admitting
<1>13. ASSUME NEW h \in Handlers, DispatchLookup(h)
      PROVE  IdsOK(x)'
  <2>1. CASE x # h
    BY <1>13, <1>same, <1>know, <2>1 DEF DispatchLookup, Answer, Proceed, PlanningOutcome, Goto
  <2>2. CASE x = h
    BY <1>13, <1>first, <1>empty, <1>none, <1>know, <2>2 DEF DispatchLookup, Answer, Proceed, PlanningOutcome, Goto, PcInv, Planning, Admitting
  <2>3. QED
    BY <2>1, <2>2
<1>14. ASSUME NEW h \in Handlers, DispatchPersist(h)
      PROVE  IdsOK(x)'
  <2>1. CASE x # h
    BY <1>14, <1>same, <1>know, <2>1 DEF DispatchPersist, Answer, Proceed, Goto
  <2>2. CASE x = h
    BY <1>14, <1>first, <1>empty, <1>none, <1>know, <2>2 DEF DispatchPersist, Answer, Proceed, Goto, PcInv, Planning, Admitting
  <2>3. QED
    BY <2>1, <2>2
<1>15. ASSUME NEW h \in Handlers, DispatchAdmitted(h)
      PROVE  IdsOK(x)'
  <2>1. CASE x # h
    BY <1>15, <1>same, <1>know, <2>1 DEF DispatchAdmitted, Answer, Goto
  <2>2. CASE x = h /\ at[h][2] + 1 = PlanSize[at[h][1]]
    BY <1>15, <1>empty, <1>know, <2>2 DEF DispatchAdmitted, Answer, Goto, Admitting
  <2>3. CASE x = h /\ at[h][2] + 1 # PlanSize[at[h][1]]
    <3>1. /\ at[x] \in Runs /\ at[x][1] \in Requests /\ at[x][2] \in Variants /\ at[x] = <<at[x][1], at[x][2]>>
          /\ Names(ids[x], at[x][1], at[x][2])
      BY <1>15, <1>know, <2>3, RunFacts DEF DispatchAdmitted, PcInv, IdsOK
    <3>2. /\ ids[x] \in Seq(Nat) /\ jobId[at[x]] \in Nat /\ jobId[at[x]] = jobId[<<at[x][1], at[x][2]>>]
          /\ status[<<at[x][1], at[x][2]>>] = "admitted"
      BY <1>15, <1>know, <2>3, <3>1, RunFacts DEF DispatchAdmitted, TypeInv, TypeOK
    <3>3. Names(Append(ids[x], jobId[at[x]]), at[x][1], at[x][2] + 1)
      BY <3>1, <3>2, OneMoreNamed
    <3>4. /\ pc'[x] = "variants" /\ at'[x] = <<at[x][1], at[x][2] + 1>> /\ ids'[x] = Append(ids[x], jobId[at[x]])
      BY <1>15, <1>know, <2>3 DEF DispatchAdmitted
    <3>5. at'[x][1] = at[x][1] /\ at'[x][2] = at[x][2] + 1
      BY <3>4
    <3>6. Names(ids'[x], at[x][1], at[x][2] + 1)
      BY <3>3, <3>4
    <3>7. /\ Len(ids'[x]) = at[x][2] + 1
           /\ \A v \in Variants : v < at[x][2] + 1 =>
                  status'[<<at[x][1], v>>] = "admitted" /\ ids'[x][v + 1] = jobId'[<<at[x][1], v>>]
      BY <1>know, <3>1, <3>6, NamesStand
    <3>8. /\ Len(ids'[x]) = at'[x][2]
          /\ \A v \in Variants : v < at'[x][2] =>
                 status'[<<at'[x][1], v>>] = "admitted" /\ ids'[x][v + 1] = jobId'[<<at'[x][1], v>>]
      BY <3>5, <3>7
    <3>9. Names(ids[x], at[x][1], at[x][2])'
      BY <3>8 DEF Names
    <3>10. QED
      BY <3>4, <3>9 DEF IdsOK
  <2>4. QED
    BY <2>1, <2>2, <2>3
<1>16. ASSUME NEW h \in Handlers, DispatchFailed(h)
      PROVE  IdsOK(x)'
  <2>1. CASE x # h
    BY <1>16, <1>same, <1>know, <2>1 DEF DispatchFailed, Answer, Goto
  <2>2. CASE x = h
    BY <1>16, <1>first, <1>empty, <1>none, <1>know, <2>2 DEF DispatchFailed, Answer, Goto, PcInv, Planning, Admitting
  <2>3. QED
    BY <2>1, <2>2
<1>17. ASSUME NEW h \in Handlers, DispatchClaim(h)
      PROVE  IdsOK(x)'
  BY <1>17, <1>same, <1>know DEF DispatchClaim, Claim, Goto, Admitting
<1>18. ASSUME NEW h \in Handlers, DispatchTimeout(h)
      PROVE  IdsOK(x)'
  <2>1. CASE x # h
    BY <1>18, <1>same, <1>know, <2>1 DEF DispatchTimeout, Answer, Goto
  <2>2. CASE x = h
    BY <1>18, <1>first, <1>empty, <1>none, <1>know, <2>2 DEF DispatchTimeout, Answer, Goto, PcInv, Planning, Admitting
  <2>3. QED
    BY <2>1, <2>2
<1>19. ASSUME NEW h \in Handlers, RequestError(h)
      PROVE  IdsOK(x)'
  <2>1. CASE x # h
    BY <1>19, <1>same, <1>know, <2>1 DEF RequestError, Goto
  <2>2. CASE x = h
    BY <1>19, <1>first, <1>empty, <1>none, <1>know, <2>2 DEF RequestError, Goto, PcInv, Planning, Admitting
  <2>3. QED
    BY <2>1, <2>2
<1>20. ASSUME NEW h \in Handlers, NEW r \in Requests, DispatchPublish(h, r)
      PROVE  IdsOK(x)'
  <2>1. CASE x # h
    BY <1>20, <1>same, <1>know, <2>1 DEF DispatchPublish, Goto
  <2>2. CASE x = h
    BY <1>20, <1>first, <1>empty, <1>none, <1>know, <2>2 DEF DispatchPublish, Goto, PcInv, Planning, Admitting
  <2>3. QED
    BY <2>1, <2>2
<1>21. ASSUME NEW h \in Handlers, NEW r \in Requests, DispatchRepeat(h, r)
      PROVE  IdsOK(x)'
  <2>1. CASE x # h
    BY <1>21, <1>same, <1>know, <2>1 DEF DispatchRepeat, Goto
  <2>2. CASE x = h
    BY <1>21, <1>first, <1>empty, <1>none, <1>know, <2>2 DEF DispatchRepeat, Goto, PcInv, Planning, Admitting
  <2>3. QED
    BY <2>1, <2>2
<1>22. ASSUME NEW r \in Requests, ApiPublish(r)
      PROVE  IdsOK(x)'
  BY <1>22, <1>same, <1>know DEF ApiPublish, Admitting
<1>23. ASSUME NEW r \in Requests, ApiReject(r)
      PROVE  IdsOK(x)'
  BY <1>23, <1>same, <1>know DEF ApiReject, PersistTerminal, Admitting
<1>24. ASSUME NEW r \in Requests, DeleteRevision(r)
      PROVE  IdsOK(x)'
  BY <1>24, <1>same, <1>know DEF DeleteRevision, Admitting
<1>25. ASSUME NEW r \in Requests, LoseEligibility(r)
      PROVE  IdsOK(x)'
  BY <1>25, <1>same, <1>know DEF LoseEligibility, Admitting
<1>26. ASSUME NEW i \in Runs, LeaseLapses(i)
      PROVE  IdsOK(x)'
  BY <1>26, <1>same, <1>know DEF LeaseLapses, Lapse, Admitting
<1>27. ASSUME NEW i \in Runs, Stall(i)
      PROVE  IdsOK(x)'
  BY <1>27, <1>same, <1>know DEF Stall, Lapse, Admitting
<1>28. ASSUME NEW i \in Runs, RetryDue(i)
      PROVE  IdsOK(x)'
  BY <1>28, <1>same, <1>know DEF RetryDue, Admitting
<1>29. ASSUME PlanningError
      PROVE  IdsOK(x)'
  BY <1>29, <1>same, <1>know DEF PlanningError, Goto, Admitting
<1>30. ASSUME PassError
      PROVE  IdsOK(x)'
  BY <1>30, <1>same, <1>know DEF PassError, Goto, Admitting
<1>31. ASSUME Crash
      PROVE  IdsOK(x)'
  BY <1>31, <1>empty DEF Crash, Admitting
<1>32. CASE UNCHANGED vars
  BY <1>32, <1>same, <1>know DEF vars, Admitting
<1>33. QED
  BY <1>1, <1>2, <1>3, <1>4, <1>5, <1>6, <1>7, <1>8, <1>9, <1>10, <1>11, <1>12, <1>13, <1>14, <1>15, <1>16,
     <1>17, <1>18, <1>19, <1>20, <1>21, <1>22, <1>23, <1>24, <1>25, <1>26, <1>27, <1>28, <1>29, <1>30,
     <1>31, <1>32
     DEF Next, Poll, Process, Dispatch

\* AnswerInv is inductive next to the types.
LEMMA AnswersKept == TypeInv /\ AnswerInv /\ [Next]_vars => AnswerInv'
<1> SUFFICES ASSUME TypeInv, AnswerInv, [Next]_vars PROVE AnswerInv'
  OBVIOUS
<1>1. ASSUME NEW q \in Requests PROVE PlanOK(q)' /\ \A a \in answers'[q] : AnswerOK(q, a)'
  <2>1. ASSUME NEW a \in answers'[q] PROVE AnswerOK(q, a)'
    <3>1. AnswerOK(q, a)
      BY NewAnswers DEF AnswerInv
    <3>2. RowsStand
      BY RowsStandKept
    <3>3. QED
      BY <3>1, <3>2, AnswersStand
  <2>2. QED
    BY <2>1, PlansKept
<1>2. QED
  BY <1>1, PlanningKept, IdsKept DEF AnswerInv

\* A runner that repeats a dispatch step is told of the same child jobs each time, and
\* is never told of a failure after it was told of them (dispatchFromLease), as long as
\* the workflow is there.
THEOREM RepeatedStepsAgree == Spec => []StepHasOneResult
<1>1. Init => AnswerInv
  BY RunFacts, TerminalRows, AdmissionAssumption
     DEF Init, AnswerInv, PlanOK, PlanningOK, IdsOK, Admitting, Workers
<1>2. TypeInv /\ AnswerInv => StepHasOneResult
  <2> SUFFICES ASSUME TypeInv, AnswerInv, NEW r \in Dispatched, revision[r] /\ eligible[r]
               PROVE  Cardinality({a \in answers[r] : a.kind \in {"admitted", "failed", "rejected"}}) <= 1
    BY DEF StepHasOneResult
  <2> DEFINE S == {a \in answers[r] : a.kind \in {"admitted", "failed", "rejected"}}
  <2>0. r \in Requests /\ revision[r] /\ PlanSize[r] \in Nat
    BY AdmissionAssumption
  <2>1. ASSUME NEW a \in S, NEW b \in S PROVE a = b
    <3>1. AnswerOK(r, a) /\ AnswerOK(r, b)
      BY <2>0 DEF AnswerInv
    <3>2. a \in Replies /\ b \in Replies
      BY <2>0 DEF TypeInv, TypeOK
    <3>3. a.kind = b.kind
      BY <2>0, <3>1, RunFacts DEF AnswerOK, Names
    <3>4. a.ids = b.ids
      <4>1. CASE a.kind = "admitted"
        BY <2>0, <3>1, <3>2, <3>3, <4>1, SameNames DEF AnswerOK, Replies
      <4>2. CASE a.kind # "admitted"
        BY <3>1, <3>3, <4>2 DEF AnswerOK
      <4>3. QED
        BY <4>1, <4>2
    <3>5. QED
      BY <3>2, <3>3, <3>4 DEF Replies
  <2> HIDE DEF S
  <2>2. CASE S = {}
    BY <2>2, FS_EmptySet DEF S
  <2>3. CASE S # {}
    <3>1. PICK a \in S : TRUE
      BY <2>3
    <3>2. S = {a}
      BY <2>1, <3>1
    <3>3. Cardinality(S) = 1
      BY <3>2, FS_Singleton
    <3>4. QED
      BY <3>3 DEF S
  <2>4. QED
    BY <2>2, <2>3
<1>3. QED
  BY InitTyped, StepTyped, AnswersKept, <1>1, <1>2, PTL DEF Spec

-----------------------------------------------------------------------------
(* Refinement.                                                             *)

\* Initial states map to initial states.
LEMMA PromiseInit == Init => Promise!Init
BY RunFacts DEF Init, Promise!Init, Verdicts, Final

\* A run is started in the sense of RunPromise when it has a job.
LEMMA IsStarted == \A i : Promise!IsStarted(i) <=> JobOf(i) # {}
BY DEF Promise!IsStarted, JobOf

\* Every step of admission is a step of the promise, or changes nothing in it.
LEMMA PromiseStep == Inv /\ [Next]_vars => [Promise!Next]_<<jobs, Verdicts>>
<1> SUFFICES ASSUME Inv, [Next]_vars PROVE Promise!Next \/ (jobs' = jobs /\ Verdicts' = Verdicts)
  OBVIOUS
<1>type. TypeInv /\ TypeOK /\ Runs \subseteq Rows
  BY RunFacts DEF Inv, TypeInv
<1>1. CASE NoVerdict
  <2>1. \A i \in Runs : (IF Final(i) THEN status[i] ELSE "open")' = IF Final(i) THEN status[i] ELSE "open"
    BY <1>1 DEF NoVerdict, Final
  <2>2. QED
    BY <1>1, <2>1 DEF NoVerdict, Verdicts
<1>2. ASSUME NEW w \in Workers, Started(w)
      PROVE  Promise!Next
  <2>1. at[w] \in Runs
    BY <1>2, <1>type DEF Started, TypeInv, PcInv
  <2>2. Verdicts[at[w]] = "open"
    BY <1>2, <2>1 DEF Started, Holds, Verdicts, Final
  <2>3. Verdicts' = Verdicts
    BY <1>2 DEF Started, Verdicts, Final
  <2>4. Promise!Start(at[w])
    BY <1>2, <2>2, <2>3, IsStarted DEF Started, Promise!Start
  <2>5. QED
    BY <2>1, <2>4 DEF Promise!Next
<1>3. ASSUME NEW w \in Workers, NEW verdict \in {"admitted", "failed"}, Given(w, verdict)
      PROVE  Promise!Next
  <2>1. at[w] \in Runs
    BY <1>3, <1>type DEF Given, TypeInv, PcInv
  <2>2. Verdicts[at[w]] = "open"
    BY <1>3, <2>1 DEF Given, Holds, Verdicts, Final
  <2>3. status' = [status EXCEPT ![at[w]] = verdict] /\ status \in [Rows -> Status]
    BY <1>3, <1>type DEF Given, WriteRow, TypeOK
  <2>4. Verdicts' = [Verdicts EXCEPT ![at[w]] = verdict]
    BY <1>type, <2>1, <2>3 DEF Verdicts, Final
  <2>5. /\ found[w] # 0 => JobOf(at[w]) # {}
        /\ found[w] = 0 => JobOf(at[w]) = {}
    BY <1>3 DEF Given, Inv, FinishInv
  <2>6. CASE found[w] = 0
    <3>1. Promise!Fail(at[w])
      BY <1>3, <2>2, <2>4, <2>5, <2>6, IsStarted DEF Given, Promise!Fail
    <3>2. QED
      BY <2>1, <3>1 DEF Promise!Next
  <2>7. CASE found[w] # 0
    <3>1. Promise!Admit(at[w])
      BY <1>3, <2>2, <2>4, <2>5, <2>7, IsStarted DEF Given, Promise!Admit
    <3>2. QED
      BY <2>1, <3>1 DEF Promise!Next
  <2>8. QED
    BY <2>6, <2>7
<1>4. QED
  BY <1>1, <1>2, <1>3, <1>type, StepCases

\* Admission implements RunPromise: each run is started at most once, and its one
\* verdict stands and agrees with whether it was started.
THEOREM AdmissionKeepsPromise == Spec => KeepsPromise
BY InitInv, StepInv, PromiseInit, PromiseStep, PTL DEF Spec, KeepsPromise, Promise!Spec
=============================================================================
