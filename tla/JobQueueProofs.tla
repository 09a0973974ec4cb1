--------------------------- MODULE JobQueueProofs ---------------------------
(***************************************************************************)
(* Theorems of JobQueue, for any number of jobs, leases, runners, legacy   *)
(* workers, teams and crashes.  The inductive invariant Inv is the type    *)
(* invariant, what each row of the jobs table satisfies (RowInv), a bound  *)
(* on the leases in circulation, and two of the safety properties, which   *)
(* are inductive next to those.  Capacity, update reservations and the     *)
(* agreement of rows with their events hold of deployments without legacy  *)
(* workers; ApiInv is their invariant.                                     *)
(***************************************************************************)
EXTENDS JobQueue, FiniteSetTheorems, TLAPS

USE DEF jobVars, accessVars, requestVars, claimVars, clientVars, historyVars

\* A request that has claimed a job knows which one.
ClaimOK == \A r \in Runners : claimPc[r] = "claimed" => claimed[r] \in Jobs \X Leases

TypeInv == TypeOK /\ ClaimOK

\* Arithmetic the steps below rely on.
LEMMA Zero == 0 \in Ticks
BY ConstantsAssumption DEF Ticks

LEMMA NextJob == TypeOK /\ lastJob < MaxJobs => lastJob + 1 \in Jobs /\ lastJob + 1 \in 0..MaxJobs
BY ConstantsAssumption DEF TypeOK, Jobs

LEMMA NextLease == TypeOK /\ leases < MaxLeases => leases + 1 \in Leases /\ leases + 1 \in 0..MaxLeases
BY ConstantsAssumption DEF TypeOK, Leases

LEMMA NextCrash == TypeOK /\ crashes < MaxCrashes => crashes + 1 \in 0..MaxCrashes
BY ConstantsAssumption DEF TypeOK

LEMMA NextAge == TypeOK => \A j \in Jobs : age[j] < Term => age[j] + 1 \in Ticks
BY ConstantsAssumption DEF TypeOK, Ticks

\* The initial state, and every step, is well typed.
LEMMA InitTyped == Init => TypeInv
BY Zero, ConstantsAssumption DEF Init, TypeInv, TypeOK, ClaimOK, Status, RestartPc, ClaimPc, BootPc, Jobs

\* releaseJob leaves the four columns it writes well typed.
LEMMA ReleaseTyped ==
  ASSUME TypeOK, NEW j \in Jobs, ReleaseJob(j)
  PROVE  /\ status' \in [Jobs -> Status]
         /\ worker' \in [Jobs -> Runners \cup Workers \cup {Nobody}]
         /\ lease' \in [Jobs -> Leases \cup {NoLease}]
         /\ age' \in [Jobs -> Ticks]
<1>1. CASE status[j] = "running"
  BY <1>1, Zero DEF ReleaseJob, ReturnToQueue, TypeOK, Status
<1>2. CASE status[j] # "running"
  BY <1>2 DEF ReleaseJob, TypeOK
<1>3. QED
  BY <1>1, <1>2

LEMMA TypesKept == TypeInv /\ [Next]_vars => TypeInv'
<1> SUFFICES ASSUME TypeInv, [Next]_vars PROVE TypeInv'
  OBVIOUS
<1>1. ASSUME NEW d \in Definitions, NEW c \in BOOLEAN, Enqueue(d, c)
      PROVE  TypeInv'
  BY <1>1, Zero, NextJob DEF Enqueue, InsertJob, TypeInv, TypeOK, ClaimOK, Status, RestartPc, ClaimPc, BootPc
<1>2. ASSUME NEW j \in Jobs, NEW c \in BOOLEAN, Supersede(j, c)
      PROVE  TypeInv'
  BY <1>2, Zero DEF Supersede, TypeInv, TypeOK, ClaimOK, Status, RestartPc, ClaimPc, BootPc
<1>3. ASSUME NEW r \in Runners, ClaimContext(r)
      PROVE  TypeInv'
  BY <1>3, Zero DEF ClaimContext, TypeInv, TypeOK, ClaimOK, Status, RestartPc, ClaimPc, BootPc
<1>4. ASSUME NEW r \in Runners, ClearCancelled(r)
      PROVE  TypeInv'
  BY <1>4, Zero DEF ClearCancelled, SweepCancelled, TypeInv, TypeOK, ClaimOK, Status, RestartPc, ClaimPc, BootPc
<1>5. ASSUME NEW r \in Runners, ClearStale(r)
      PROVE  TypeInv'
  BY <1>5, Zero DEF ClearStale, SweepStale, TypeInv, TypeOK, ClaimOK, Status, RestartPc, ClaimPc, BootPc
<1>6. ASSUME NEW r \in Runners, NEW j \in Jobs, ClaimNextForRunner(r, j)
      PROVE  TypeInv'
  BY <1>6, Zero, NextLease DEF ClaimNextForRunner, TypeInv, TypeOK, ClaimOK, Status, RestartPc, ClaimPc, BootPc
<1>7. ASSUME NEW r \in Runners, ClaimNothing(r)
      PROVE  TypeInv'
  BY <1>7, Zero DEF ClaimNothing, TypeInv, TypeOK, ClaimOK, Status, RestartPc, ClaimPc, BootPc
<1>8. ASSUME NEW r \in Runners, ClaimGranted(r)
      PROVE  TypeInv'
  BY <1>8, Zero DEF ClaimGranted, TypeInv, TypeOK, ClaimOK, Status, RestartPc, ClaimPc, BootPc
<1>9. ASSUME NEW r \in Runners, ClaimRevisionMissing(r)
      PROVE  TypeInv'
  <2>1. claimed[r][1] \in Jobs
    BY <1>9 DEF ClaimRevisionMissing, TypeInv, ClaimOK
  <2>2. /\ status' \in [Jobs -> Status]
        /\ worker' \in [Jobs -> Runners \cup Workers \cup {Nobody}]
        /\ lease' \in [Jobs -> Leases \cup {NoLease}]
        /\ age' \in [Jobs -> Ticks]
    BY <1>9, <2>1, ReleaseTyped DEF ClaimRevisionMissing, TypeInv
  <2>3. QED
    BY <1>9, <2>2 DEF ClaimRevisionMissing, TypeInv, TypeOK, ClaimOK, ClaimPc
<1>10. ASSUME NEW r \in Runners, NEW j \in Jobs, NEW l \in Leases, RenewRunnerLease(r, j, l)
      PROVE  TypeInv'
  BY <1>10, Zero DEF RenewRunnerLease, TypeInv, TypeOK, ClaimOK, Status, RestartPc, ClaimPc, BootPc
<1>11. ASSUME NEW r \in Runners, NEW j \in Jobs, NEW l \in Leases, ReleaseRunnerLease(r, j, l)
      PROVE  TypeInv'
  BY <1>11, Zero DEF ReleaseRunnerLease, ReturnToQueue, TypeInv, TypeOK, ClaimOK, Status, RestartPc, ClaimPc, BootPc
<1>12. ASSUME NEW r \in Runners, NEW j \in Jobs, NEW l \in Leases, NEW s \in FinalStatus, CompleteJobForRunner(r, j, l, s)
      PROVE  TypeInv'
  BY <1>12, Zero DEF CompleteJobForRunner, RecordCompletion, FinalStatus, TypeInv, TypeOK, ClaimOK, Status, RestartPc, ClaimPc, BootPc
<1>13. ASSUME NEW w \in Workers, NEW j \in Jobs, ClaimNextJob(w, j)
      PROVE  TypeInv'
  BY <1>13, Zero DEF ClaimNextJob, TypeInv, TypeOK, ClaimOK, Status, RestartPc, ClaimPc, BootPc
<1>14. ASSUME NEW w \in Workers, NEW j \in Jobs, LegacyRelease(w, j)
      PROVE  TypeInv'
  <2>1. /\ status' \in [Jobs -> Status]
        /\ worker' \in [Jobs -> Runners \cup Workers \cup {Nobody}]
        /\ lease' \in [Jobs -> Leases \cup {NoLease}]
        /\ age' \in [Jobs -> Ticks]
    BY <1>14, ReleaseTyped DEF LegacyRelease, TypeInv
  <2>2. QED
    BY <1>14, <2>1 DEF LegacyRelease, LegacyDone, TypeInv, TypeOK, ClaimOK
<1>15. ASSUME NEW w \in Workers, NEW j \in Jobs, FinishJob(w, j)
      PROVE  TypeInv'
  BY <1>15, Zero DEF FinishJob, LegacyDone, TypeInv, TypeOK, ClaimOK, Status, RestartPc, ClaimPc, BootPc
<1>16. ASSUME NEW w \in Workers, NEW j \in Jobs, NEW s \in FinalStatus, CompleteJob(w, j, s)
      PROVE  TypeInv'
  <2>1. working' \in [Workers -> SUBSET Jobs]
    BY <1>16 DEF CompleteJob, LegacyDone, TypeInv, TypeOK
  <2>2. CASE Exists(j)
    <3>1. /\ status' \in [Jobs -> Status]
          /\ completed' \in [Jobs -> BOOLEAN]
          /\ outcome' \in [Jobs -> {"none", "success", "failed"}]
      <4>1. /\ status' \in [Jobs -> Status]
            /\ completed' \in [Jobs -> BOOLEAN]
        BY <1>16, <2>2 DEF CompleteJob, RecordCompletion, FinalStatus, TypeInv, TypeOK, Status
      <4>2. outcome' \in [Jobs -> {"none", "success", "failed"}]
        BY <1>16, <2>2 DEF CompleteJob, RecordCompletion, FinalStatus, TypeInv, TypeOK
      <4>3. QED
        BY <4>1, <4>2
    <3>2. /\ lease' \in [Jobs -> Leases \cup {NoLease}]
          /\ age' \in [Jobs -> Ticks]
      BY <1>16, <2>2, Zero DEF CompleteJob, TypeInv, TypeOK
    <3>3. QED
      BY <1>16, <2>1, <3>1, <3>2 DEF CompleteJob, TypeInv, TypeOK, ClaimOK
  <2>3. CASE ~Exists(j)
    BY <1>16, <2>1, <2>3 DEF CompleteJob, TypeInv, TypeOK, ClaimOK
  <2>4. QED
    BY <2>2, <2>3
<1>17. ASSUME NEW j \in Jobs, CancelJob(j)
      PROVE  TypeInv'
  BY <1>17, Zero DEF CancelJob, TypeInv, TypeOK, ClaimOK, Status, RestartPc, ClaimPc, BootPc
<1>18. ASSUME NEW j \in Jobs, RestartRead(j)
      PROVE  TypeInv'
  BY <1>18, Zero DEF RestartRead, TypeInv, TypeOK, ClaimOK, Status, RestartPc, ClaimPc, BootPc
<1>19. ASSUME NEW j \in Jobs, RestartInsert(j)
      PROVE  TypeInv'
  BY <1>19, Zero, NextJob DEF RestartInsert, InsertJob, TypeInv, TypeOK, ClaimOK, Status, RestartPc, ClaimPc, BootPc
<1>20. ASSUME NEW j \in Jobs, RestartRefused(j)
      PROVE  TypeInv'
  BY <1>20, Zero DEF RestartRefused, TypeInv, TypeOK, ClaimOK, Status, RestartPc, ClaimPc, BootPc
<1>21. ASSUME NEW j \in Jobs, RestartCancel(j)
      PROVE  TypeInv'
  BY <1>21, Zero DEF RestartCancel, TypeInv, TypeOK, ClaimOK, Status, RestartPc, ClaimPc, BootPc
<1>22. ASSUME NEW j \in Jobs, DeleteJob(j)
      PROVE  TypeInv'
  BY <1>22, Zero DEF DeleteJob, TypeInv, TypeOK, ClaimOK, Status, RestartPc, ClaimPc, BootPc
<1>23. ASSUME NEW r \in Runners, NEW t \in Teams, GrantTeam(r, t)
      PROVE  TypeInv'
  BY <1>23, Zero DEF GrantTeam, TypeInv, TypeOK, ClaimOK, Status, RestartPc, ClaimPc, BootPc
<1>24. ASSUME NEW r \in Runners, NEW t \in Teams, RevokeTeamGrant(r, t)
      PROVE  TypeInv'
  BY <1>24, Zero DEF RevokeTeamGrant, TypeInv, TypeOK, ClaimOK, Status, RestartPc, ClaimPc, BootPc
<1>25. ASSUME NEW r \in Runners, RevokeRunner(r)
      PROVE  TypeInv'
  BY <1>25, Zero DEF RevokeRunner, TypeInv, TypeOK, ClaimOK, Status, RestartPc, ClaimPc, BootPc
<1>26. ASSUME NEW r \in Runners, NEW scope \in Teams \cup {Shared}, RevokeRunnerLeases(r, scope)
      PROVE  TypeInv'
  BY <1>26, Zero DEF RevokeRunnerLeases, TypeInv, TypeOK, ClaimOK, Status, RestartPc, ClaimPc, BootPc
<1>27. ASSUME NEW r \in Runners, ReserveForUpdate(r)
      PROVE  TypeInv'
  BY <1>27, Zero DEF ReserveForUpdate, TypeInv, TypeOK, ClaimOK, Status, RestartPc, ClaimPc, BootPc
<1>28. ASSUME NEW r \in Runners, UpdateOver(r)
      PROVE  TypeInv'
  BY <1>28, Zero DEF UpdateOver, TypeInv, TypeOK, ClaimOK, Status, RestartPc, ClaimPc, BootPc
<1>29. ASSUME NEW t \in Teams, MarkWorkspaceDeleting(t)
      PROVE  TypeInv'
  BY <1>29, Zero DEF MarkWorkspaceDeleting, TypeInv, TypeOK, ClaimOK, Status, RestartPc, ClaimPc, BootPc
<1>30. ASSUME InitClearCancelled
      PROVE  TypeInv'
  BY <1>30, Zero DEF InitClearCancelled, SweepCancelled, TypeInv, TypeOK, ClaimOK, Status, RestartPc, ClaimPc, BootPc
<1>31. ASSUME InitClearStale
      PROVE  TypeInv'
  BY <1>31, Zero DEF InitClearStale, SweepStale, TypeInv, TypeOK, ClaimOK, Status, RestartPc, ClaimPc, BootPc
<1>32. ASSUME NEW j \in Jobs, Tick(j)
      PROVE  TypeInv'
  BY <1>32, Zero, NextAge DEF Tick, TypeInv, TypeOK, ClaimOK, Status, RestartPc, ClaimPc, BootPc
<1>33. ASSUME Crash
      PROVE  TypeInv'
  BY <1>33, Zero, NextCrash DEF Crash, TypeInv, TypeOK, ClaimOK, Status, RestartPc, ClaimPc, BootPc
<1>34. CASE UNCHANGED vars
  BY <1>34 DEF vars, TypeInv, TypeOK, ClaimOK, Status, RestartPc, ClaimPc, BootPc
<1>35. QED
  BY <1>1, <1>2, <1>3, <1>4, <1>5, <1>6, <1>7, <1>8, <1>9, <1>10, <1>11, <1>12, <1>13, <1>14, <1>15, <1>16, <1>17, <1>18, <1>19, <1>20, <1>21, <1>22, <1>23, <1>24, <1>25, <1>26, <1>27, <1>28, <1>29, <1>30, <1>31, <1>32, <1>33, <1>34 DEF Next, Request, Producer, ClaimRequest, UseLease, LegacyWorker, User, Administrator

-----------------------------------------------------------------------------
\* What every row satisfies.  Only fresh ids have no row; a queued row carries
\* nothing of an earlier run; only a leased row runs on a runner; a published
\* outcome marks the row completed, and a completed row that is also fenced has
\* lost its lease, so that the sweep cannot requeue it.
Row(j) ==
    /\ j > lastJob => status[j] = "none"
    /\ status[j] = "none" => /\ worker[j] = Nobody /\ lease[j] = NoLease
                             /\ ~fenced[j] /\ ~completed[j] /\ outcome[j] = "none"
    /\ status[j] = "pending" => worker[j] = Nobody /\ lease[j] = NoLease
    /\ status[j] \in {"pending", "running"} => ~fenced[j] /\ ~completed[j]
    /\ status[j] = "running" /\ worker[j] \in Runners => lease[j] # NoLease
    /\ outcome[j] # "none" => completed[j] \/ status[j] = "deleted"
    /\ completed[j] /\ fenced[j] => lease[j] = NoLease

RowInv == \A j \in Jobs : Row(j)

\* INSERT INTO jobs creates a row that satisfies Row and leaves the others alone.
LEMMA InsertedRow ==
    ASSUME TypeInv, RowInv, NEW d \in Definitions, InsertJob(d), NEW i \in Jobs
    PROVE  Row(i)'
<1>1. lastJob + 1 \in Jobs /\ lastJob \in Nat /\ i \in Nat
  BY NextJob DEF TypeInv, TypeOK, InsertJob, Jobs
<1>2. Row(i) /\ Row(lastJob + 1)
  BY <1>1 DEF RowInv
<1>3. CASE i = lastJob + 1
  BY <1>1, <1>2, <1>3 DEF InsertJob, Row, TypeInv, TypeOK
<1>4. CASE i # lastJob + 1
  <2>1. status'[i] = status[i] /\ (i > lastJob' => i > lastJob)
    BY <1>1, <1>4 DEF InsertJob, TypeInv, TypeOK
  <2>2. QED
    BY <1>2, <2>1 DEF InsertJob, Row
<1>5. QED
  BY <1>3, <1>4

\* Every step preserves the row invariant.
LEMMA RowsKept == TypeInv /\ RowInv /\ [Next]_vars => RowInv'
<1> SUFFICES ASSUME TypeInv, RowInv, [Next]_vars, NEW i \in Jobs PROVE Row(i)'
  BY DEF RowInv, Jobs
<1>row. Row(i)
  BY DEF RowInv
<1>1. ASSUME NEW d \in Definitions, NEW c \in BOOLEAN, Enqueue(d, c)
      PROVE  Row(i)'
  BY <1>1, InsertedRow DEF Enqueue, TypeInv, TypeOK
<1>2. ASSUME NEW j \in Jobs, NEW c \in BOOLEAN, Supersede(j, c)
      PROVE  Row(i)'
  BY <1>2, <1>row DEF Supersede, Exists, Row, TypeInv, TypeOK
<1>3. ASSUME NEW r \in Runners, ClaimContext(r)
      PROVE  Row(i)'
  BY <1>3, <1>row DEF ClaimContext, Row, TypeInv, TypeOK
<1>4. ASSUME NEW r \in Runners, ClearCancelled(r)
      PROVE  Row(i)'
  BY <1>4, <1>row DEF ClearCancelled, SweepCancelled, Row, TypeInv, TypeOK
<1>5. ASSUME NEW r \in Runners, ClearStale(r)
      PROVE  Row(i)'
  BY <1>5, <1>row DEF ClearStale, SweepStale, Stale, Row, TypeInv, TypeOK
<1>6. ASSUME NEW r \in Runners, NEW j \in Jobs, ClaimNextForRunner(r, j)
      PROVE  Row(i)'
  BY <1>6, <1>row, NextLease DEF ClaimNextForRunner, ClaimableBy, Oldest, NoLease, Row, TypeInv, TypeOK
<1>7. ASSUME NEW r \in Runners, ClaimNothing(r)
      PROVE  Row(i)'
  BY <1>7, <1>row DEF ClaimNothing, Row, TypeInv, TypeOK
<1>8. ASSUME NEW r \in Runners, ClaimGranted(r)
      PROVE  Row(i)'
  BY <1>8, <1>row DEF ClaimGranted, Row, TypeInv, TypeOK
<1>9. ASSUME NEW r \in Runners, ClaimRevisionMissing(r)
      PROVE  Row(i)'
  BY <1>9, <1>row DEF ClaimRevisionMissing, ReleaseJob, ReturnToQueue, Row, TypeInv, TypeOK
<1>10. ASSUME NEW r \in Runners, NEW j \in Jobs, NEW l \in Leases, RenewRunnerLease(r, j, l)
      PROVE  Row(i)'
  BY <1>10, <1>row DEF RenewRunnerLease, LeaseIsCurrent, HoldsLease, Row, TypeInv, TypeOK
<1>11. ASSUME NEW r \in Runners, NEW j \in Jobs, NEW l \in Leases, ReleaseRunnerLease(r, j, l)
      PROVE  Row(i)'
  BY <1>11, <1>row DEF ReleaseRunnerLease, ReturnToQueue, LeaseIsCurrent, HoldsLease, Row, TypeInv, TypeOK
<1>12. ASSUME NEW r \in Runners, NEW j \in Jobs, NEW l \in Leases, NEW s \in FinalStatus, CompleteJobForRunner(r, j, l, s)
      PROVE  Row(i)'
  BY <1>12, <1>row DEF CompleteJobForRunner, RecordCompletion, FinalStatus, HoldsLease, Row, TypeInv, TypeOK
<1>13. ASSUME NEW w \in Workers, NEW j \in Jobs, ClaimNextJob(w, j)
      PROVE  Row(i)'
  BY <1>13, <1>row, ConstantsAssumption DEF ClaimNextJob, LegacyClaimable, Oldest, Row, TypeInv, TypeOK
<1>14. ASSUME NEW w \in Workers, NEW j \in Jobs, LegacyRelease(w, j)
      PROVE  Row(i)'
  BY <1>14, <1>row DEF LegacyRelease, ReleaseJob, ReturnToQueue, LegacyDone, Row, TypeInv, TypeOK
<1>15. ASSUME NEW w \in Workers, NEW j \in Jobs, FinishJob(w, j)
      PROVE  Row(i)'
  BY <1>15, <1>row DEF FinishJob, LegacyDone, Exists, Row, TypeInv, TypeOK
<1>16. ASSUME NEW w \in Workers, NEW j \in Jobs, NEW s \in FinalStatus, CompleteJob(w, j, s)
      PROVE  Row(i)'
  BY <1>16, <1>row DEF CompleteJob, RecordCompletion, FinalStatus, LegacyDone, Exists, Row, TypeInv, TypeOK
<1>17. ASSUME NEW j \in Jobs, CancelJob(j)
      PROVE  Row(i)'
  BY <1>17, <1>row DEF CancelJob, Row, TypeInv, TypeOK
<1>18. ASSUME NEW j \in Jobs, RestartRead(j)
      PROVE  Row(i)'
  BY <1>18, <1>row DEF RestartRead, Row, TypeInv, TypeOK
<1>19. ASSUME NEW j \in Jobs, RestartInsert(j)
      PROVE  Row(i)'
  BY <1>19, InsertedRow DEF RestartInsert, TypeInv, TypeOK
<1>20. ASSUME NEW j \in Jobs, RestartRefused(j)
      PROVE  Row(i)'
  BY <1>20, <1>row DEF RestartRefused, Row, TypeInv, TypeOK
<1>21. ASSUME NEW j \in Jobs, RestartCancel(j)
      PROVE  Row(i)'
  BY <1>21, <1>row DEF RestartCancel, Exists, Row, TypeInv, TypeOK
<1>22. ASSUME NEW j \in Jobs, DeleteJob(j)
      PROVE  Row(i)'
  BY <1>22, <1>row DEF DeleteJob, Exists, Row, TypeInv, TypeOK
<1>23. ASSUME NEW r \in Runners, NEW t \in Teams, GrantTeam(r, t)
      PROVE  Row(i)'
  BY <1>23, <1>row DEF GrantTeam, Row, TypeInv, TypeOK
<1>24. ASSUME NEW r \in Runners, NEW t \in Teams, RevokeTeamGrant(r, t)
      PROVE  Row(i)'
  BY <1>24, <1>row DEF RevokeTeamGrant, Row, TypeInv, TypeOK
<1>25. ASSUME NEW r \in Runners, RevokeRunner(r)
      PROVE  Row(i)'
  BY <1>25, <1>row DEF RevokeRunner, Row, TypeInv, TypeOK
<1>26. ASSUME NEW r \in Runners, NEW scope \in Teams \cup {Shared}, RevokeRunnerLeases(r, scope)
      PROVE  Row(i)'
  BY <1>26, <1>row DEF RevokeRunnerLeases, Row, TypeInv, TypeOK
<1>27. ASSUME NEW r \in Runners, ReserveForUpdate(r)
      PROVE  Row(i)'
  BY <1>27, <1>row DEF ReserveForUpdate, Row, TypeInv, TypeOK
<1>28. ASSUME NEW r \in Runners, UpdateOver(r)
      PROVE  Row(i)'
  BY <1>28, <1>row DEF UpdateOver, Row, TypeInv, TypeOK
<1>29. ASSUME NEW t \in Teams, MarkWorkspaceDeleting(t)
      PROVE  Row(i)'
  BY <1>29, <1>row DEF MarkWorkspaceDeleting, Row, TypeInv, TypeOK
<1>30. ASSUME InitClearCancelled
      PROVE  Row(i)'
  BY <1>30, <1>row DEF InitClearCancelled, SweepCancelled, Row, TypeInv, TypeOK
<1>31. ASSUME InitClearStale
      PROVE  Row(i)'
  BY <1>31, <1>row DEF InitClearStale, SweepStale, Stale, Row, TypeInv, TypeOK
<1>32. ASSUME NEW j \in Jobs, Tick(j)
      PROVE  Row(i)'
  BY <1>32, <1>row DEF Tick, Row, TypeInv, TypeOK
<1>33. ASSUME Crash
      PROVE  Row(i)'
  BY <1>33, <1>row DEF Crash, Row, TypeInv, TypeOK
<1>34. CASE UNCHANGED vars
  BY <1>34, <1>row DEF vars, Row
<1>35. QED
  BY <1>1, <1>2, <1>3, <1>4, <1>5, <1>6, <1>7, <1>8, <1>9, <1>10, <1>11, <1>12, <1>13, <1>14, <1>15, <1>16, <1>17, <1>18, <1>19, <1>20, <1>21, <1>22, <1>23, <1>24, <1>25, <1>26, <1>27, <1>28, <1>29, <1>30, <1>31, <1>32, <1>33, <1>34 DEF Next, Request, Producer, ClaimRequest, UseLease, LegacyWorker, User, Administrator

-----------------------------------------------------------------------------
\* Steps that start no job and change neither the workflow nor the worker of a running one.
NoNewRun ==
    \A i \in Jobs : status'[i] = "running" =>
        status[i] = "running" /\ definition'[i] = definition[i] /\ worker'[i] = worker[i]

OnlyClaimsStart ==
    \/ NoNewRun
    \/ \E r \in Runners, j \in Jobs : ClaimNextForRunner(r, j)
    \/ \E w \in Workers, j \in Jobs : ClaimNextJob(w, j)

\* The two claim statements are the only steps that start a job.
LEMMA Starts == TypeInv /\ [Next]_vars => OnlyClaimsStart
<1> SUFFICES ASSUME TypeInv, [Next]_vars PROVE OnlyClaimsStart
  OBVIOUS
<1> USE DEF OnlyClaimsStart
<1>1. ASSUME NEW d \in Definitions, NEW c \in BOOLEAN, Enqueue(d, c)
      PROVE  OnlyClaimsStart
  BY <1>1 DEF Enqueue, InsertJob, OnlyClaimsStart, NoNewRun, TypeInv, TypeOK
<1>2. ASSUME NEW j \in Jobs, NEW c \in BOOLEAN, Supersede(j, c)
      PROVE  OnlyClaimsStart
  BY <1>2 DEF Supersede, Exists, OnlyClaimsStart, NoNewRun, TypeInv, TypeOK
<1>3. ASSUME NEW r \in Runners, ClaimContext(r)
      PROVE  OnlyClaimsStart
  BY <1>3 DEF ClaimContext, OnlyClaimsStart, NoNewRun, TypeInv, TypeOK
<1>4. ASSUME NEW r \in Runners, ClearCancelled(r)
      PROVE  OnlyClaimsStart
  BY <1>4 DEF ClearCancelled, SweepCancelled, OnlyClaimsStart, NoNewRun, TypeInv, TypeOK
<1>5. ASSUME NEW r \in Runners, ClearStale(r)
      PROVE  OnlyClaimsStart
  BY <1>5 DEF ClearStale, SweepStale, Stale, OnlyClaimsStart, NoNewRun, TypeInv, TypeOK
<1>6. ASSUME NEW r \in Runners, NEW j \in Jobs, ClaimNextForRunner(r, j)
      PROVE  OnlyClaimsStart
  BY <1>6
<1>7. ASSUME NEW r \in Runners, ClaimNothing(r)
      PROVE  OnlyClaimsStart
  BY <1>7 DEF ClaimNothing, OnlyClaimsStart, NoNewRun, TypeInv, TypeOK
<1>8. ASSUME NEW r \in Runners, ClaimGranted(r)
      PROVE  OnlyClaimsStart
  BY <1>8 DEF ClaimGranted, OnlyClaimsStart, NoNewRun, TypeInv, TypeOK
<1>9. ASSUME NEW r \in Runners, ClaimRevisionMissing(r)
      PROVE  OnlyClaimsStart
  BY <1>9 DEF ClaimRevisionMissing, ReleaseJob, ReturnToQueue, OnlyClaimsStart, NoNewRun, TypeInv, TypeOK
<1>10. ASSUME NEW r \in Runners, NEW j \in Jobs, NEW l \in Leases, RenewRunnerLease(r, j, l)
      PROVE  OnlyClaimsStart
  BY <1>10 DEF RenewRunnerLease, LeaseIsCurrent, HoldsLease, OnlyClaimsStart, NoNewRun, TypeInv, TypeOK
<1>11. ASSUME NEW r \in Runners, NEW j \in Jobs, NEW l \in Leases, ReleaseRunnerLease(r, j, l)
      PROVE  OnlyClaimsStart
  BY <1>11 DEF ReleaseRunnerLease, ReturnToQueue, LeaseIsCurrent, HoldsLease, OnlyClaimsStart, NoNewRun, TypeInv, TypeOK
<1>12. ASSUME NEW r \in Runners, NEW j \in Jobs, NEW l \in Leases, NEW s \in FinalStatus, CompleteJobForRunner(r, j, l, s)
      PROVE  OnlyClaimsStart
  BY <1>12 DEF CompleteJobForRunner, RecordCompletion, FinalStatus, HoldsLease, OnlyClaimsStart, NoNewRun, TypeInv, TypeOK
<1>13. ASSUME NEW w \in Workers, NEW j \in Jobs, ClaimNextJob(w, j)
      PROVE  OnlyClaimsStart
  BY <1>13
<1>14. ASSUME NEW w \in Workers, NEW j \in Jobs, LegacyRelease(w, j)
      PROVE  OnlyClaimsStart
  BY <1>14 DEF LegacyRelease, ReleaseJob, ReturnToQueue, LegacyDone, OnlyClaimsStart, NoNewRun, TypeInv, TypeOK
<1>15. ASSUME NEW w \in Workers, NEW j \in Jobs, FinishJob(w, j)
      PROVE  OnlyClaimsStart
  BY <1>15 DEF FinishJob, LegacyDone, Exists, OnlyClaimsStart, NoNewRun, TypeInv, TypeOK
<1>16. ASSUME NEW w \in Workers, NEW j \in Jobs, NEW s \in FinalStatus, CompleteJob(w, j, s)
      PROVE  OnlyClaimsStart
  BY <1>16 DEF CompleteJob, RecordCompletion, FinalStatus, LegacyDone, Exists, OnlyClaimsStart, NoNewRun, TypeInv, TypeOK
<1>17. ASSUME NEW j \in Jobs, CancelJob(j)
      PROVE  OnlyClaimsStart
  BY <1>17 DEF CancelJob, OnlyClaimsStart, NoNewRun, TypeInv, TypeOK
<1>18. ASSUME NEW j \in Jobs, RestartRead(j)
      PROVE  OnlyClaimsStart
  BY <1>18 DEF RestartRead, OnlyClaimsStart, NoNewRun, TypeInv, TypeOK
<1>19. ASSUME NEW j \in Jobs, RestartInsert(j)
      PROVE  OnlyClaimsStart
  BY <1>19 DEF RestartInsert, InsertJob, OnlyClaimsStart, NoNewRun, TypeInv, TypeOK
<1>20. ASSUME NEW j \in Jobs, RestartRefused(j)
      PROVE  OnlyClaimsStart
  BY <1>20 DEF RestartRefused, OnlyClaimsStart, NoNewRun, TypeInv, TypeOK
<1>21. ASSUME NEW j \in Jobs, RestartCancel(j)
      PROVE  OnlyClaimsStart
  BY <1>21 DEF RestartCancel, Exists, OnlyClaimsStart, NoNewRun, TypeInv, TypeOK
<1>22. ASSUME NEW j \in Jobs, DeleteJob(j)
      PROVE  OnlyClaimsStart
  BY <1>22 DEF DeleteJob, Exists, OnlyClaimsStart, NoNewRun, TypeInv, TypeOK
<1>23. ASSUME NEW r \in Runners, NEW t \in Teams, GrantTeam(r, t)
      PROVE  OnlyClaimsStart
  BY <1>23 DEF GrantTeam, OnlyClaimsStart, NoNewRun, TypeInv, TypeOK
<1>24. ASSUME NEW r \in Runners, NEW t \in Teams, RevokeTeamGrant(r, t)
      PROVE  OnlyClaimsStart
  BY <1>24 DEF RevokeTeamGrant, OnlyClaimsStart, NoNewRun, TypeInv, TypeOK
<1>25. ASSUME NEW r \in Runners, RevokeRunner(r)
      PROVE  OnlyClaimsStart
  BY <1>25 DEF RevokeRunner, OnlyClaimsStart, NoNewRun, TypeInv, TypeOK
<1>26. ASSUME NEW r \in Runners, NEW scope \in Teams \cup {Shared}, RevokeRunnerLeases(r, scope)
      PROVE  OnlyClaimsStart
  BY <1>26 DEF RevokeRunnerLeases, OnlyClaimsStart, NoNewRun, TypeInv, TypeOK
<1>27. ASSUME NEW r \in Runners, ReserveForUpdate(r)
      PROVE  OnlyClaimsStart
  BY <1>27 DEF ReserveForUpdate, OnlyClaimsStart, NoNewRun, TypeInv, TypeOK
<1>28. ASSUME NEW r \in Runners, UpdateOver(r)
      PROVE  OnlyClaimsStart
  BY <1>28 DEF UpdateOver, OnlyClaimsStart, NoNewRun, TypeInv, TypeOK
<1>29. ASSUME NEW t \in Teams, MarkWorkspaceDeleting(t)
      PROVE  OnlyClaimsStart
  BY <1>29 DEF MarkWorkspaceDeleting, OnlyClaimsStart, NoNewRun, TypeInv, TypeOK
<1>30. ASSUME InitClearCancelled
      PROVE  OnlyClaimsStart
  BY <1>30 DEF InitClearCancelled, SweepCancelled, OnlyClaimsStart, NoNewRun, TypeInv, TypeOK
<1>31. ASSUME InitClearStale
      PROVE  OnlyClaimsStart
  BY <1>31 DEF InitClearStale, SweepStale, Stale, OnlyClaimsStart, NoNewRun, TypeInv, TypeOK
<1>32. ASSUME NEW j \in Jobs, Tick(j)
      PROVE  OnlyClaimsStart
  BY <1>32 DEF Tick, OnlyClaimsStart, NoNewRun, TypeInv, TypeOK
<1>33. ASSUME Crash
      PROVE  OnlyClaimsStart
  BY <1>33 DEF Crash, OnlyClaimsStart, NoNewRun, TypeInv, TypeOK
<1>34. CASE UNCHANGED vars
  BY <1>34 DEF vars, NoNewRun
<1>35. QED
  BY <1>1, <1>2, <1>3, <1>4, <1>5, <1>6, <1>7, <1>8, <1>9, <1>10, <1>11, <1>12, <1>13, <1>14, <1>15, <1>16, <1>17, <1>18, <1>19, <1>20, <1>21, <1>22, <1>23, <1>24, <1>25, <1>26, <1>27, <1>28, <1>29, <1>30, <1>31, <1>32, <1>33, <1>34 DEF Next, Request, Producer, ClaimRequest, UseLease, LegacyWorker, User, Administrator

\* A claim that found its group idle keeps the groups exclusive.
LEMMA ClaimKeepsGroups ==
    ASSUME TypeInv, OneRunningPerGroup, NEW j \in Jobs, ~GroupBusy(j),
           definition' = definition, status' = [status EXCEPT ![j] = "running"]
    PROVE  OneRunningPerGroup'
<1> SUFFICES ASSUME NEW a \in Jobs, status'[a] = "running", NEW b \in Peers(a)', status'[b] = "running"
             PROVE  FALSE
  BY DEF OneRunningPerGroup, GroupBusy, Jobs
<1>1. b \in Jobs /\ b \in Peers(a) /\ a \in Peers(b)
  BY DEF Peers, Team, Key
<1>2. (a = j \/ status[a] = "running") /\ (b = j \/ status[b] = "running")
  BY <1>1 DEF TypeInv, TypeOK
<1>3. QED
  BY <1>1, <1>2 DEF OneRunningPerGroup, GroupBusy, Peers

\* So does every step.
LEMMA GroupsKept == TypeInv /\ OneRunningPerGroup /\ [Next]_vars => OneRunningPerGroup'
<1> SUFFICES ASSUME TypeInv, OneRunningPerGroup, [Next]_vars PROVE OneRunningPerGroup'
  OBVIOUS
<1>1. CASE NoNewRun
  <2> SUFFICES ASSUME NEW a \in Jobs, status'[a] = "running", NEW b \in Peers(a)', status'[b] = "running"
               PROVE  FALSE
    BY DEF OneRunningPerGroup, GroupBusy, Jobs
  <2>1. b \in Jobs /\ b \in Peers(a) /\ status[a] = "running" /\ status[b] = "running"
    BY <1>1 DEF NoNewRun, Peers, Team, Key
  <2>2. QED
    BY <2>1 DEF OneRunningPerGroup, GroupBusy
<1>2. ASSUME NEW r \in Runners, NEW j \in Jobs, ClaimNextForRunner(r, j)
      PROVE  OneRunningPerGroup'
  BY <1>2, ClaimKeepsGroups DEF ClaimNextForRunner, Oldest, ClaimableBy
<1>3. ASSUME NEW w \in Workers, NEW j \in Jobs, ClaimNextJob(w, j)
      PROVE  OneRunningPerGroup'
  BY <1>3, ClaimKeepsGroups DEF ClaimNextJob, Oldest, LegacyClaimable
<1>4. QED
  BY <1>1, <1>2, <1>3, Starts DEF OnlyClaimsStart

-----------------------------------------------------------------------------
\* RunningJobIsAuthorized, of one row.
AuthorizedRow(j) ==
    crashes = 0 /\ status[j] = "running" /\ worker[j] \in Runners =>
        \/ Authorized(worker[j], Team(j))
        \/ <<worker[j], Team(j)>> \in fencing
        \/ <<worker[j], Shared>> \in fencing

\* Every step preserves RunningJobIsAuthorized.
LEMMA AuthorizationKept == TypeInv /\ RowInv /\ RunningJobIsAuthorized /\ [Next]_vars => RunningJobIsAuthorized'
<1> SUFFICES ASSUME TypeInv, RowInv, RunningJobIsAuthorized, [Next]_vars, NEW i \in Jobs
             PROVE  AuthorizedRow(i)'
  BY DEF RunningJobIsAuthorized, AuthorizedRow, Jobs
<1>row. Row(i) /\ AuthorizedRow(i)
  BY DEF RowInv, RunningJobIsAuthorized, AuthorizedRow
<1>1. ASSUME NEW d \in Definitions, NEW c \in BOOLEAN, Enqueue(d, c)
      PROVE  AuthorizedRow(i)'
  BY <1>1, <1>row DEF Enqueue, InsertJob, AuthorizedRow, Authorized, Team, Row, TypeInv, TypeOK
<1>2. ASSUME NEW j \in Jobs, NEW c \in BOOLEAN, Supersede(j, c)
      PROVE  AuthorizedRow(i)'
  BY <1>2, <1>row DEF Supersede, Exists, AuthorizedRow, Authorized, Team, Row, TypeInv, TypeOK
<1>3. ASSUME NEW r \in Runners, ClaimContext(r)
      PROVE  AuthorizedRow(i)'
  BY <1>3, <1>row DEF ClaimContext, AuthorizedRow, Authorized, Team, Row, TypeInv, TypeOK
<1>4. ASSUME NEW r \in Runners, ClearCancelled(r)
      PROVE  AuthorizedRow(i)'
  BY <1>4, <1>row DEF ClearCancelled, SweepCancelled, AuthorizedRow, Authorized, Team, Row, TypeInv, TypeOK
<1>5. ASSUME NEW r \in Runners, ClearStale(r)
      PROVE  AuthorizedRow(i)'
  BY <1>5, <1>row DEF ClearStale, SweepStale, Stale, AuthorizedRow, Authorized, Team, Row, TypeInv, TypeOK
<1>6. ASSUME NEW r \in Runners, NEW j \in Jobs, ClaimNextForRunner(r, j)
      PROVE  AuthorizedRow(i)'
  BY <1>6, <1>row DEF ClaimNextForRunner, ClaimableBy, Oldest, NoLease, AuthorizedRow, Authorized, Team, Row, TypeInv, TypeOK
<1>7. ASSUME NEW r \in Runners, ClaimNothing(r)
      PROVE  AuthorizedRow(i)'
  BY <1>7, <1>row DEF ClaimNothing, AuthorizedRow, Authorized, Team, Row, TypeInv, TypeOK
<1>8. ASSUME NEW r \in Runners, ClaimGranted(r)
      PROVE  AuthorizedRow(i)'
  BY <1>8, <1>row DEF ClaimGranted, AuthorizedRow, Authorized, Team, Row, TypeInv, TypeOK
<1>9. ASSUME NEW r \in Runners, ClaimRevisionMissing(r)
      PROVE  AuthorizedRow(i)'
  BY <1>9, <1>row DEF ClaimRevisionMissing, ReleaseJob, ReturnToQueue, AuthorizedRow, Authorized, Team, Row, TypeInv, TypeOK
<1>10. ASSUME NEW r \in Runners, NEW j \in Jobs, NEW l \in Leases, RenewRunnerLease(r, j, l)
      PROVE  AuthorizedRow(i)'
  BY <1>10, <1>row DEF RenewRunnerLease, LeaseIsCurrent, HoldsLease, AuthorizedRow, Authorized, Team, Row, TypeInv, TypeOK
<1>11. ASSUME NEW r \in Runners, NEW j \in Jobs, NEW l \in Leases, ReleaseRunnerLease(r, j, l)
      PROVE  AuthorizedRow(i)'
  BY <1>11, <1>row DEF ReleaseRunnerLease, ReturnToQueue, LeaseIsCurrent, HoldsLease, AuthorizedRow, Authorized, Team, Row, TypeInv, TypeOK
<1>12. ASSUME NEW r \in Runners, NEW j \in Jobs, NEW l \in Leases, NEW s \in FinalStatus, CompleteJobForRunner(r, j, l, s)
      PROVE  AuthorizedRow(i)'
  BY <1>12, <1>row DEF CompleteJobForRunner, RecordCompletion, FinalStatus, HoldsLease, AuthorizedRow, Authorized, Team, Row, TypeInv, TypeOK
<1>13. ASSUME NEW w \in Workers, NEW j \in Jobs, ClaimNextJob(w, j)
      PROVE  AuthorizedRow(i)'
  BY <1>13, <1>row, ConstantsAssumption DEF ClaimNextJob, LegacyClaimable, Oldest, AuthorizedRow, Authorized, Team, Row, TypeInv, TypeOK
<1>14. ASSUME NEW w \in Workers, NEW j \in Jobs, LegacyRelease(w, j)
      PROVE  AuthorizedRow(i)'
  <2>1. /\ status'[i] = "running" => status[i] = "running" /\ worker'[i] = worker[i]
        /\ i # j => worker'[i] = worker[i]
    BY <1>14, <1>row DEF LegacyRelease, ReleaseJob, ReturnToQueue, TypeInv, TypeOK
  <2>2. QED
    BY <1>14, <1>row, <2>1 DEF LegacyRelease, LegacyDone, AuthorizedRow, Authorized, Team, Row, TypeInv, TypeOK
<1>15. ASSUME NEW w \in Workers, NEW j \in Jobs, FinishJob(w, j)
      PROVE  AuthorizedRow(i)'
  BY <1>15, <1>row DEF FinishJob, LegacyDone, Exists, AuthorizedRow, Authorized, Team, Row, TypeInv, TypeOK
<1>16. ASSUME NEW w \in Workers, NEW j \in Jobs, NEW s \in FinalStatus, CompleteJob(w, j, s)
      PROVE  AuthorizedRow(i)'
  BY <1>16, <1>row DEF CompleteJob, RecordCompletion, FinalStatus, LegacyDone, Exists, AuthorizedRow, Authorized, Team, Row, TypeInv, TypeOK
<1>17. ASSUME NEW j \in Jobs, CancelJob(j)
      PROVE  AuthorizedRow(i)'
  BY <1>17, <1>row DEF CancelJob, AuthorizedRow, Authorized, Team, Row, TypeInv, TypeOK
<1>18. ASSUME NEW j \in Jobs, RestartRead(j)
      PROVE  AuthorizedRow(i)'
  BY <1>18, <1>row DEF RestartRead, AuthorizedRow, Authorized, Team, Row, TypeInv, TypeOK
<1>19. ASSUME NEW j \in Jobs, RestartInsert(j)
      PROVE  AuthorizedRow(i)'
  BY <1>19, <1>row DEF RestartInsert, InsertJob, AuthorizedRow, Authorized, Team, Row, TypeInv, TypeOK
<1>20. ASSUME NEW j \in Jobs, RestartRefused(j)
      PROVE  AuthorizedRow(i)'
  BY <1>20, <1>row DEF RestartRefused, AuthorizedRow, Authorized, Team, Row, TypeInv, TypeOK
<1>21. ASSUME NEW j \in Jobs, RestartCancel(j)
      PROVE  AuthorizedRow(i)'
  BY <1>21, <1>row DEF RestartCancel, Exists, AuthorizedRow, Authorized, Team, Row, TypeInv, TypeOK
<1>22. ASSUME NEW j \in Jobs, DeleteJob(j)
      PROVE  AuthorizedRow(i)'
  BY <1>22, <1>row DEF DeleteJob, Exists, AuthorizedRow, Authorized, Team, Row, TypeInv, TypeOK
<1>23. ASSUME NEW r \in Runners, NEW t \in Teams, GrantTeam(r, t)
      PROVE  AuthorizedRow(i)'
  BY <1>23, <1>row DEF GrantTeam, AuthorizedRow, Authorized, Team, Row, TypeInv, TypeOK
<1>24. ASSUME NEW r \in Runners, NEW t \in Teams, RevokeTeamGrant(r, t)
      PROVE  AuthorizedRow(i)'
  BY <1>24, <1>row DEF RevokeTeamGrant, AuthorizedRow, Authorized, Team, Row, TypeInv, TypeOK
<1>25. ASSUME NEW r \in Runners, RevokeRunner(r)
      PROVE  AuthorizedRow(i)'
  BY <1>25, <1>row DEF RevokeRunner, AuthorizedRow, Authorized, Team, Row, TypeInv, TypeOK
<1>26. ASSUME NEW r \in Runners, NEW scope \in Teams \cup {Shared}, RevokeRunnerLeases(r, scope)
      PROVE  AuthorizedRow(i)'
  BY <1>26, <1>row DEF RevokeRunnerLeases, AuthorizedRow, Authorized, Team, Row, TypeInv, TypeOK
<1>27. ASSUME NEW r \in Runners, ReserveForUpdate(r)
      PROVE  AuthorizedRow(i)'
  BY <1>27, <1>row DEF ReserveForUpdate, AuthorizedRow, Authorized, Team, Row, TypeInv, TypeOK
<1>28. ASSUME NEW r \in Runners, UpdateOver(r)
      PROVE  AuthorizedRow(i)'
  BY <1>28, <1>row DEF UpdateOver, AuthorizedRow, Authorized, Team, Row, TypeInv, TypeOK
<1>29. ASSUME NEW t \in Teams, MarkWorkspaceDeleting(t)
      PROVE  AuthorizedRow(i)'
  BY <1>29, <1>row DEF MarkWorkspaceDeleting, AuthorizedRow, Authorized, Team, Row, TypeInv, TypeOK
<1>30. ASSUME InitClearCancelled
      PROVE  AuthorizedRow(i)'
  BY <1>30, <1>row DEF InitClearCancelled, SweepCancelled, AuthorizedRow, Authorized, Team, Row, TypeInv, TypeOK
<1>31. ASSUME InitClearStale
      PROVE  AuthorizedRow(i)'
  BY <1>31, <1>row DEF InitClearStale, SweepStale, Stale, AuthorizedRow, Authorized, Team, Row, TypeInv, TypeOK
<1>32. ASSUME NEW j \in Jobs, Tick(j)
      PROVE  AuthorizedRow(i)'
  BY <1>32, <1>row DEF Tick, AuthorizedRow, Authorized, Team, Row, TypeInv, TypeOK
<1>33. ASSUME Crash
      PROVE  AuthorizedRow(i)'
  BY <1>33, <1>row DEF Crash, AuthorizedRow, Authorized, Team, Row, TypeInv, TypeOK
<1>34. CASE UNCHANGED vars
  BY <1>34, <1>row DEF vars, AuthorizedRow, Authorized, Team
<1>35. QED
  BY <1>1, <1>2, <1>3, <1>4, <1>5, <1>6, <1>7, <1>8, <1>9, <1>10, <1>11, <1>12, <1>13, <1>14, <1>15, <1>16, <1>17, <1>18, <1>19, <1>20, <1>21, <1>22, <1>23, <1>24, <1>25, <1>26, <1>27, <1>28, <1>29, <1>30, <1>31, <1>32, <1>33, <1>34 DEF Next, Request, Producer, ClaimRequest, UseLease, LegacyWorker, User, Administrator

-----------------------------------------------------------------------------
\* The leases runners hold, or are about to be told, have been granted.
LeaseBound ==
    /\ \A r \in Runners : claimPc[r] = "claimed" => claimed[r][2] <= leases
    /\ \A r \in Runners : \A p \in held[r] : p[2] <= leases

\* Every step preserves the bound.
LEMMA LeaseBoundKept == TypeInv /\ LeaseBound /\ [Next]_vars => LeaseBound'
<1> SUFFICES ASSUME TypeInv, LeaseBound, [Next]_vars PROVE LeaseBound'
  OBVIOUS
<1>1. ASSUME NEW d \in Definitions, NEW c \in BOOLEAN, Enqueue(d, c)
      PROVE  LeaseBound'
  BY <1>1 DEF Enqueue, InsertJob, LeaseBound, TypeInv, TypeOK
<1>2. ASSUME NEW j \in Jobs, NEW c \in BOOLEAN, Supersede(j, c)
      PROVE  LeaseBound'
  BY <1>2 DEF Supersede, Exists, LeaseBound, TypeInv, TypeOK
<1>3. ASSUME NEW r \in Runners, ClaimContext(r)
      PROVE  LeaseBound'
  BY <1>3 DEF ClaimContext, LeaseBound, TypeInv, TypeOK
<1>4. ASSUME NEW r \in Runners, ClearCancelled(r)
      PROVE  LeaseBound'
  BY <1>4 DEF ClearCancelled, SweepCancelled, LeaseBound, TypeInv, TypeOK
<1>5. ASSUME NEW r \in Runners, ClearStale(r)
      PROVE  LeaseBound'
  BY <1>5 DEF ClearStale, SweepStale, Stale, LeaseBound, TypeInv, TypeOK
<1>6. ASSUME NEW r \in Runners, NEW j \in Jobs, ClaimNextForRunner(r, j)
      PROVE  LeaseBound'
  <2>1. leases \in Nat /\ leases' = leases + 1 /\ held' = held
    BY <1>6 DEF ClaimNextForRunner, TypeInv, TypeOK
  <2>2. \A q \in Runners : claimPc'[q] = "claimed" =>
            claimed'[q][2] = leases + 1 \/ (claimPc[q] = "claimed" /\ claimed'[q] = claimed[q])
    <3>1. /\ claimPc' = [claimPc EXCEPT ![r] = "claimed"]
          /\ claimed' = [claimed EXCEPT ![r] = <<j, leases + 1>>]
      BY <1>6 DEF ClaimNextForRunner
    <3>2. claimed'[r][2] = leases + 1
      BY <3>1 DEF TypeInv, TypeOK
    <3>3. \A q \in Runners : q # r => claimPc'[q] = claimPc[q] /\ claimed'[q] = claimed[q]
      BY <3>1 DEF TypeInv, TypeOK
    <3>4. QED
      BY <3>2, <3>3
  <2>3. \A x \in Leases : x <= leases => x <= leases + 1
    BY <2>1 DEF Leases
  <2>4. \A q \in Runners : claimPc'[q] = "claimed" => claimed'[q][2] <= leases'
    BY <2>1, <2>2, <2>3 DEF LeaseBound, TypeInv, ClaimOK
  <2>5. \A q \in Runners : \A p \in held'[q] : p[2] <= leases'
    BY <2>1, <2>3 DEF LeaseBound, TypeInv, TypeOK
  <2>6. QED
    BY <2>4, <2>5 DEF LeaseBound
<1>7. ASSUME NEW r \in Runners, ClaimNothing(r)
      PROVE  LeaseBound'
  BY <1>7 DEF ClaimNothing, LeaseBound, TypeInv, TypeOK
<1>8. ASSUME NEW r \in Runners, ClaimGranted(r)
      PROVE  LeaseBound'
  BY <1>8 DEF ClaimGranted, LeaseBound, TypeInv, TypeOK
<1>9. ASSUME NEW r \in Runners, ClaimRevisionMissing(r)
      PROVE  LeaseBound'
  BY <1>9 DEF ClaimRevisionMissing, ReleaseJob, ReturnToQueue, LeaseBound, TypeInv, TypeOK
<1>10. ASSUME NEW r \in Runners, NEW j \in Jobs, NEW l \in Leases, RenewRunnerLease(r, j, l)
      PROVE  LeaseBound'
  BY <1>10 DEF RenewRunnerLease, LeaseIsCurrent, HoldsLease, LeaseBound, TypeInv, TypeOK
<1>11. ASSUME NEW r \in Runners, NEW j \in Jobs, NEW l \in Leases, ReleaseRunnerLease(r, j, l)
      PROVE  LeaseBound'
  BY <1>11 DEF ReleaseRunnerLease, ReturnToQueue, LeaseIsCurrent, HoldsLease, LeaseBound, TypeInv, TypeOK
<1>12. ASSUME NEW r \in Runners, NEW j \in Jobs, NEW l \in Leases, NEW s \in FinalStatus, CompleteJobForRunner(r, j, l, s)
      PROVE  LeaseBound'
  BY <1>12 DEF CompleteJobForRunner, RecordCompletion, FinalStatus, HoldsLease, LeaseBound, TypeInv, TypeOK
<1>13. ASSUME NEW w \in Workers, NEW j \in Jobs, ClaimNextJob(w, j)
      PROVE  LeaseBound'
  BY <1>13 DEF ClaimNextJob, LegacyClaimable, Oldest, LeaseBound, TypeInv, TypeOK
<1>14. ASSUME NEW w \in Workers, NEW j \in Jobs, LegacyRelease(w, j)
      PROVE  LeaseBound'
  BY <1>14 DEF LegacyRelease, ReleaseJob, ReturnToQueue, LegacyDone, LeaseBound, TypeInv, TypeOK
<1>15. ASSUME NEW w \in Workers, NEW j \in Jobs, FinishJob(w, j)
      PROVE  LeaseBound'
  BY <1>15 DEF FinishJob, LegacyDone, Exists, LeaseBound, TypeInv, TypeOK
<1>16. ASSUME NEW w \in Workers, NEW j \in Jobs, NEW s \in FinalStatus, CompleteJob(w, j, s)
      PROVE  LeaseBound'
  BY <1>16 DEF CompleteJob, RecordCompletion, FinalStatus, LegacyDone, Exists, LeaseBound, TypeInv, TypeOK
<1>17. ASSUME NEW j \in Jobs, CancelJob(j)
      PROVE  LeaseBound'
  BY <1>17 DEF CancelJob, LeaseBound, TypeInv, TypeOK
<1>18. ASSUME NEW j \in Jobs, RestartRead(j)
      PROVE  LeaseBound'
  BY <1>18 DEF RestartRead, LeaseBound, TypeInv, TypeOK
<1>19. ASSUME NEW j \in Jobs, RestartInsert(j)
      PROVE  LeaseBound'
  BY <1>19 DEF RestartInsert, InsertJob, LeaseBound, TypeInv, TypeOK
<1>20. ASSUME NEW j \in Jobs, RestartRefused(j)
      PROVE  LeaseBound'
  BY <1>20 DEF RestartRefused, LeaseBound, TypeInv, TypeOK
<1>21. ASSUME NEW j \in Jobs, RestartCancel(j)
      PROVE  LeaseBound'
  BY <1>21 DEF RestartCancel, Exists, LeaseBound, TypeInv, TypeOK
<1>22. ASSUME NEW j \in Jobs, DeleteJob(j)
      PROVE  LeaseBound'
  BY <1>22 DEF DeleteJob, Exists, LeaseBound, TypeInv, TypeOK
<1>23. ASSUME NEW r \in Runners, NEW t \in Teams, GrantTeam(r, t)
      PROVE  LeaseBound'
  BY <1>23 DEF GrantTeam, LeaseBound, TypeInv, TypeOK
<1>24. ASSUME NEW r \in Runners, NEW t \in Teams, RevokeTeamGrant(r, t)
      PROVE  LeaseBound'
  BY <1>24 DEF RevokeTeamGrant, LeaseBound, TypeInv, TypeOK
<1>25. ASSUME NEW r \in Runners, RevokeRunner(r)
      PROVE  LeaseBound'
  BY <1>25 DEF RevokeRunner, LeaseBound, TypeInv, TypeOK
<1>26. ASSUME NEW r \in Runners, NEW scope \in Teams \cup {Shared}, RevokeRunnerLeases(r, scope)
      PROVE  LeaseBound'
  BY <1>26 DEF RevokeRunnerLeases, LeaseBound, TypeInv, TypeOK
<1>27. ASSUME NEW r \in Runners, ReserveForUpdate(r)
      PROVE  LeaseBound'
  BY <1>27 DEF ReserveForUpdate, LeaseBound, TypeInv, TypeOK
<1>28. ASSUME NEW r \in Runners, UpdateOver(r)
      PROVE  LeaseBound'
  BY <1>28 DEF UpdateOver, LeaseBound, TypeInv, TypeOK
<1>29. ASSUME NEW t \in Teams, MarkWorkspaceDeleting(t)
      PROVE  LeaseBound'
  BY <1>29 DEF MarkWorkspaceDeleting, LeaseBound, TypeInv, TypeOK
<1>30. ASSUME InitClearCancelled
      PROVE  LeaseBound'
  BY <1>30 DEF InitClearCancelled, SweepCancelled, LeaseBound, TypeInv, TypeOK
<1>31. ASSUME InitClearStale
      PROVE  LeaseBound'
  BY <1>31 DEF InitClearStale, SweepStale, Stale, LeaseBound, TypeInv, TypeOK
<1>32. ASSUME NEW j \in Jobs, Tick(j)
      PROVE  LeaseBound'
  BY <1>32 DEF Tick, LeaseBound, TypeInv, TypeOK
<1>33. ASSUME Crash
      PROVE  LeaseBound'
  BY <1>33 DEF Crash, LeaseBound, TypeInv, TypeOK
<1>34. CASE UNCHANGED vars
  BY <1>34 DEF vars, LeaseBound
<1>35. QED
  BY <1>1, <1>2, <1>3, <1>4, <1>5, <1>6, <1>7, <1>8, <1>9, <1>10, <1>11, <1>12, <1>13, <1>14, <1>15, <1>16, <1>17, <1>18, <1>19, <1>20, <1>21, <1>22, <1>23, <1>24, <1>25, <1>26, <1>27, <1>28, <1>29, <1>30, <1>31, <1>32, <1>33, <1>34 DEF Next, Request, Producer, ClaimRequest, UseLease, LegacyWorker, User, Administrator

\* A lease that is dead stays dead: a new claim takes a lease nobody holds yet.
LEMMA DeadKept ==
    ASSUME TypeInv, RowInv, LeaseBound, [Next]_vars,
           NEW j0 \in Jobs, NEW l0 \in Leases, l0 <= leases, Dead(j0, l0)
    PROVE  Dead(j0, l0)'
<1>row. Row(j0) /\ l0 # NoLease /\ l0 # leases + 1
  BY DEF RowInv, Leases, NoLease, TypeInv, TypeOK
<1>1. ASSUME NEW d \in Definitions, NEW c \in BOOLEAN, Enqueue(d, c)
      PROVE  Dead(j0, l0)'
  BY <1>1, <1>row DEF Enqueue, InsertJob, Dead, Expired, Row, TypeInv, TypeOK
<1>2. ASSUME NEW j \in Jobs, NEW c \in BOOLEAN, Supersede(j, c)
      PROVE  Dead(j0, l0)'
  BY <1>2, <1>row DEF Supersede, Exists, Dead, Expired, Row, TypeInv, TypeOK
<1>3. ASSUME NEW r \in Runners, ClaimContext(r)
      PROVE  Dead(j0, l0)'
  BY <1>3, <1>row DEF ClaimContext, Dead, Expired, Row, TypeInv, TypeOK
<1>4. ASSUME NEW r \in Runners, ClearCancelled(r)
      PROVE  Dead(j0, l0)'
  BY <1>4, <1>row DEF ClearCancelled, SweepCancelled, Dead, Expired, Row, TypeInv, TypeOK
<1>5. ASSUME NEW r \in Runners, ClearStale(r)
      PROVE  Dead(j0, l0)'
  BY <1>5, <1>row DEF ClearStale, SweepStale, Stale, Dead, Expired, Row, TypeInv, TypeOK
<1>6. ASSUME NEW r \in Runners, NEW j \in Jobs, ClaimNextForRunner(r, j)
      PROVE  Dead(j0, l0)'
  BY <1>6, <1>row DEF ClaimNextForRunner, ClaimableBy, Oldest, NoLease, Dead, Expired, Row, TypeInv, TypeOK
<1>7. ASSUME NEW r \in Runners, ClaimNothing(r)
      PROVE  Dead(j0, l0)'
  BY <1>7, <1>row DEF ClaimNothing, Dead, Expired, Row, TypeInv, TypeOK
<1>8. ASSUME NEW r \in Runners, ClaimGranted(r)
      PROVE  Dead(j0, l0)'
  BY <1>8, <1>row DEF ClaimGranted, Dead, Expired, Row, TypeInv, TypeOK
<1>9. ASSUME NEW r \in Runners, ClaimRevisionMissing(r)
      PROVE  Dead(j0, l0)'
  BY <1>9, <1>row DEF ClaimRevisionMissing, ReleaseJob, ReturnToQueue, Dead, Expired, Row, TypeInv, TypeOK
<1>10. ASSUME NEW r \in Runners, NEW j \in Jobs, NEW l \in Leases, RenewRunnerLease(r, j, l)
      PROVE  Dead(j0, l0)'
  BY <1>10, <1>row DEF RenewRunnerLease, LeaseIsCurrent, HoldsLease, Dead, Expired, Row, TypeInv, TypeOK
<1>11. ASSUME NEW r \in Runners, NEW j \in Jobs, NEW l \in Leases, ReleaseRunnerLease(r, j, l)
      PROVE  Dead(j0, l0)'
  BY <1>11, <1>row DEF ReleaseRunnerLease, ReturnToQueue, LeaseIsCurrent, HoldsLease, Dead, Expired, Row, TypeInv, TypeOK
<1>12. ASSUME NEW r \in Runners, NEW j \in Jobs, NEW l \in Leases, NEW s \in FinalStatus, CompleteJobForRunner(r, j, l, s)
      PROVE  Dead(j0, l0)'
  BY <1>12, <1>row DEF CompleteJobForRunner, RecordCompletion, FinalStatus, HoldsLease, Dead, Expired, Row, TypeInv, TypeOK
<1>13. ASSUME NEW w \in Workers, NEW j \in Jobs, ClaimNextJob(w, j)
      PROVE  Dead(j0, l0)'
  BY <1>13, <1>row DEF ClaimNextJob, LegacyClaimable, Oldest, Dead, Expired, Row, TypeInv, TypeOK
<1>14. ASSUME NEW w \in Workers, NEW j \in Jobs, LegacyRelease(w, j)
      PROVE  Dead(j0, l0)'
  BY <1>14, <1>row DEF LegacyRelease, ReleaseJob, ReturnToQueue, LegacyDone, Dead, Expired, Row, TypeInv, TypeOK
<1>15. ASSUME NEW w \in Workers, NEW j \in Jobs, FinishJob(w, j)
      PROVE  Dead(j0, l0)'
  BY <1>15, <1>row DEF FinishJob, LegacyDone, Exists, Dead, Expired, Row, TypeInv, TypeOK
<1>16. ASSUME NEW w \in Workers, NEW j \in Jobs, NEW s \in FinalStatus, CompleteJob(w, j, s)
      PROVE  Dead(j0, l0)'
  BY <1>16, <1>row DEF CompleteJob, RecordCompletion, FinalStatus, LegacyDone, Exists, Dead, Expired, Row, TypeInv, TypeOK
<1>17. ASSUME NEW j \in Jobs, CancelJob(j)
      PROVE  Dead(j0, l0)'
  BY <1>17, <1>row DEF CancelJob, Dead, Expired, Row, TypeInv, TypeOK
<1>18. ASSUME NEW j \in Jobs, RestartRead(j)
      PROVE  Dead(j0, l0)'
  BY <1>18, <1>row DEF RestartRead, Dead, Expired, Row, TypeInv, TypeOK
<1>19. ASSUME NEW j \in Jobs, RestartInsert(j)
      PROVE  Dead(j0, l0)'
  BY <1>19, <1>row DEF RestartInsert, InsertJob, Dead, Expired, Row, TypeInv, TypeOK
<1>20. ASSUME NEW j \in Jobs, RestartRefused(j)
      PROVE  Dead(j0, l0)'
  BY <1>20, <1>row DEF RestartRefused, Dead, Expired, Row, TypeInv, TypeOK
<1>21. ASSUME NEW j \in Jobs, RestartCancel(j)
      PROVE  Dead(j0, l0)'
  BY <1>21, <1>row DEF RestartCancel, Exists, Dead, Expired, Row, TypeInv, TypeOK
<1>22. ASSUME NEW j \in Jobs, DeleteJob(j)
      PROVE  Dead(j0, l0)'
  BY <1>22, <1>row DEF DeleteJob, Exists, Dead, Expired, Row, TypeInv, TypeOK
<1>23. ASSUME NEW r \in Runners, NEW t \in Teams, GrantTeam(r, t)
      PROVE  Dead(j0, l0)'
  BY <1>23, <1>row DEF GrantTeam, Dead, Expired, Row, TypeInv, TypeOK
<1>24. ASSUME NEW r \in Runners, NEW t \in Teams, RevokeTeamGrant(r, t)
      PROVE  Dead(j0, l0)'
  BY <1>24, <1>row DEF RevokeTeamGrant, Dead, Expired, Row, TypeInv, TypeOK
<1>25. ASSUME NEW r \in Runners, RevokeRunner(r)
      PROVE  Dead(j0, l0)'
  BY <1>25, <1>row DEF RevokeRunner, Dead, Expired, Row, TypeInv, TypeOK
<1>26. ASSUME NEW r \in Runners, NEW scope \in Teams \cup {Shared}, RevokeRunnerLeases(r, scope)
      PROVE  Dead(j0, l0)'
  BY <1>26, <1>row DEF RevokeRunnerLeases, Dead, Expired, Row, TypeInv, TypeOK
<1>27. ASSUME NEW r \in Runners, ReserveForUpdate(r)
      PROVE  Dead(j0, l0)'
  BY <1>27, <1>row DEF ReserveForUpdate, Dead, Expired, Row, TypeInv, TypeOK
<1>28. ASSUME NEW r \in Runners, UpdateOver(r)
      PROVE  Dead(j0, l0)'
  BY <1>28, <1>row DEF UpdateOver, Dead, Expired, Row, TypeInv, TypeOK
<1>29. ASSUME NEW t \in Teams, MarkWorkspaceDeleting(t)
      PROVE  Dead(j0, l0)'
  BY <1>29, <1>row DEF MarkWorkspaceDeleting, Dead, Expired, Row, TypeInv, TypeOK
<1>30. ASSUME InitClearCancelled
      PROVE  Dead(j0, l0)'
  BY <1>30, <1>row DEF InitClearCancelled, SweepCancelled, Dead, Expired, Row, TypeInv, TypeOK
<1>31. ASSUME InitClearStale
      PROVE  Dead(j0, l0)'
  BY <1>31, <1>row DEF InitClearStale, SweepStale, Stale, Dead, Expired, Row, TypeInv, TypeOK
<1>32. ASSUME NEW j \in Jobs, Tick(j)
      PROVE  Dead(j0, l0)'
  BY <1>32, <1>row, ConstantsAssumption DEF Tick, Dead, Expired, Row, TypeInv, TypeOK
<1>33. ASSUME Crash
      PROVE  Dead(j0, l0)'
  BY <1>33, <1>row DEF Crash, Dead, Expired, Row, TypeInv, TypeOK
<1>34. CASE UNCHANGED vars
  BY <1>34 DEF vars, Dead, Expired
<1>35. QED
  BY <1>1, <1>2, <1>3, <1>4, <1>5, <1>6, <1>7, <1>8, <1>9, <1>10, <1>11, <1>12, <1>13, <1>14, <1>15, <1>16, <1>17, <1>18, <1>19, <1>20, <1>21, <1>22, <1>23, <1>24, <1>25, <1>26, <1>27, <1>28, <1>29, <1>30, <1>31, <1>32, <1>33, <1>34 DEF Next, Request, Producer, ClaimRequest, UseLease, LegacyWorker, User, Administrator

-----------------------------------------------------------------------------
\* Without legacy workers a row that is done went through completeJobForRunner.
DoneRow(j) == status[j] \in {"success", "failed"} => completed[j]

DoneInv == \A j \in Jobs : DoneRow(j)

\* Every step of such a deployment preserves that.
LEMMA DoneKept ==
    ASSUME Workers = {}, TypeInv, RowInv, DoneInv, [Next]_vars
    PROVE  DoneInv'
<1> SUFFICES ASSUME NEW i \in Jobs PROVE DoneRow(i)'
  BY DEF DoneInv, Jobs
<1>row. DoneRow(i) /\ Row(i)
  BY DEF DoneInv, RowInv
<1>1. ASSUME NEW d \in Definitions, NEW c \in BOOLEAN, Enqueue(d, c)
      PROVE  DoneRow(i)'
  BY <1>1, <1>row DEF Enqueue, InsertJob, DoneRow, Row, TypeInv, TypeOK
<1>2. ASSUME NEW j \in Jobs, NEW c \in BOOLEAN, Supersede(j, c)
      PROVE  DoneRow(i)'
  BY <1>2, <1>row DEF Supersede, Exists, DoneRow, Row, TypeInv, TypeOK
<1>3. ASSUME NEW r \in Runners, ClaimContext(r)
      PROVE  DoneRow(i)'
  BY <1>3, <1>row DEF ClaimContext, DoneRow, Row, TypeInv, TypeOK
<1>4. ASSUME NEW r \in Runners, ClearCancelled(r)
      PROVE  DoneRow(i)'
  BY <1>4, <1>row DEF ClearCancelled, SweepCancelled, DoneRow, Row, TypeInv, TypeOK
<1>5. ASSUME NEW r \in Runners, ClearStale(r)
      PROVE  DoneRow(i)'
  BY <1>5, <1>row DEF ClearStale, SweepStale, Stale, DoneRow, Row, TypeInv, TypeOK
<1>6. ASSUME NEW r \in Runners, NEW j \in Jobs, ClaimNextForRunner(r, j)
      PROVE  DoneRow(i)'
  BY <1>6, <1>row DEF ClaimNextForRunner, ClaimableBy, Oldest, NoLease, DoneRow, Row, TypeInv, TypeOK
<1>7. ASSUME NEW r \in Runners, ClaimNothing(r)
      PROVE  DoneRow(i)'
  BY <1>7, <1>row DEF ClaimNothing, DoneRow, Row, TypeInv, TypeOK
<1>8. ASSUME NEW r \in Runners, ClaimGranted(r)
      PROVE  DoneRow(i)'
  BY <1>8, <1>row DEF ClaimGranted, DoneRow, Row, TypeInv, TypeOK
<1>9. ASSUME NEW r \in Runners, ClaimRevisionMissing(r)
      PROVE  DoneRow(i)'
  BY <1>9, <1>row DEF ClaimRevisionMissing, ReleaseJob, ReturnToQueue, DoneRow, Row, TypeInv, TypeOK
<1>10. ASSUME NEW r \in Runners, NEW j \in Jobs, NEW l \in Leases, RenewRunnerLease(r, j, l)
      PROVE  DoneRow(i)'
  BY <1>10, <1>row DEF RenewRunnerLease, LeaseIsCurrent, HoldsLease, DoneRow, Row, TypeInv, TypeOK
<1>11. ASSUME NEW r \in Runners, NEW j \in Jobs, NEW l \in Leases, ReleaseRunnerLease(r, j, l)
      PROVE  DoneRow(i)'
  BY <1>11, <1>row DEF ReleaseRunnerLease, ReturnToQueue, LeaseIsCurrent, HoldsLease, DoneRow, Row, TypeInv, TypeOK
<1>12. ASSUME NEW r \in Runners, NEW j \in Jobs, NEW l \in Leases, NEW s \in FinalStatus, CompleteJobForRunner(r, j, l, s)
      PROVE  DoneRow(i)'
  BY <1>12, <1>row DEF CompleteJobForRunner, RecordCompletion, FinalStatus, HoldsLease, DoneRow, Row, TypeInv, TypeOK
<1>13. ASSUME NEW w \in Workers, NEW j \in Jobs, ClaimNextJob(w, j)
      PROVE  DoneRow(i)'
  BY <1>13
<1>14. ASSUME NEW w \in Workers, NEW j \in Jobs, LegacyRelease(w, j)
      PROVE  DoneRow(i)'
  BY <1>14
<1>15. ASSUME NEW w \in Workers, NEW j \in Jobs, FinishJob(w, j)
      PROVE  DoneRow(i)'
  BY <1>15
<1>16. ASSUME NEW w \in Workers, NEW j \in Jobs, NEW s \in FinalStatus, CompleteJob(w, j, s)
      PROVE  DoneRow(i)'
  BY <1>16
<1>17. ASSUME NEW j \in Jobs, CancelJob(j)
      PROVE  DoneRow(i)'
  BY <1>17, <1>row DEF CancelJob, DoneRow, Row, TypeInv, TypeOK
<1>18. ASSUME NEW j \in Jobs, RestartRead(j)
      PROVE  DoneRow(i)'
  BY <1>18, <1>row DEF RestartRead, DoneRow, Row, TypeInv, TypeOK
<1>19. ASSUME NEW j \in Jobs, RestartInsert(j)
      PROVE  DoneRow(i)'
  BY <1>19, <1>row DEF RestartInsert, InsertJob, DoneRow, Row, TypeInv, TypeOK
<1>20. ASSUME NEW j \in Jobs, RestartRefused(j)
      PROVE  DoneRow(i)'
  BY <1>20, <1>row DEF RestartRefused, DoneRow, Row, TypeInv, TypeOK
<1>21. ASSUME NEW j \in Jobs, RestartCancel(j)
      PROVE  DoneRow(i)'
  BY <1>21, <1>row DEF RestartCancel, Exists, DoneRow, Row, TypeInv, TypeOK
<1>22. ASSUME NEW j \in Jobs, DeleteJob(j)
      PROVE  DoneRow(i)'
  BY <1>22, <1>row DEF DeleteJob, Exists, DoneRow, Row, TypeInv, TypeOK
<1>23. ASSUME NEW r \in Runners, NEW t \in Teams, GrantTeam(r, t)
      PROVE  DoneRow(i)'
  BY <1>23, <1>row DEF GrantTeam, DoneRow, Row, TypeInv, TypeOK
<1>24. ASSUME NEW r \in Runners, NEW t \in Teams, RevokeTeamGrant(r, t)
      PROVE  DoneRow(i)'
  BY <1>24, <1>row DEF RevokeTeamGrant, DoneRow, Row, TypeInv, TypeOK
<1>25. ASSUME NEW r \in Runners, RevokeRunner(r)
      PROVE  DoneRow(i)'
  BY <1>25, <1>row DEF RevokeRunner, DoneRow, Row, TypeInv, TypeOK
<1>26. ASSUME NEW r \in Runners, NEW scope \in Teams \cup {Shared}, RevokeRunnerLeases(r, scope)
      PROVE  DoneRow(i)'
  BY <1>26, <1>row DEF RevokeRunnerLeases, DoneRow, Row, TypeInv, TypeOK
<1>27. ASSUME NEW r \in Runners, ReserveForUpdate(r)
      PROVE  DoneRow(i)'
  BY <1>27, <1>row DEF ReserveForUpdate, DoneRow, Row, TypeInv, TypeOK
<1>28. ASSUME NEW r \in Runners, UpdateOver(r)
      PROVE  DoneRow(i)'
  BY <1>28, <1>row DEF UpdateOver, DoneRow, Row, TypeInv, TypeOK
<1>29. ASSUME NEW t \in Teams, MarkWorkspaceDeleting(t)
      PROVE  DoneRow(i)'
  BY <1>29, <1>row DEF MarkWorkspaceDeleting, DoneRow, Row, TypeInv, TypeOK
<1>30. ASSUME InitClearCancelled
      PROVE  DoneRow(i)'
  BY <1>30, <1>row DEF InitClearCancelled, SweepCancelled, DoneRow, Row, TypeInv, TypeOK
<1>31. ASSUME InitClearStale
      PROVE  DoneRow(i)'
  BY <1>31, <1>row DEF InitClearStale, SweepStale, Stale, DoneRow, Row, TypeInv, TypeOK
<1>32. ASSUME NEW j \in Jobs, Tick(j)
      PROVE  DoneRow(i)'
  BY <1>32, <1>row DEF Tick, DoneRow, Row, TypeInv, TypeOK
<1>33. ASSUME Crash
      PROVE  DoneRow(i)'
  BY <1>33, <1>row DEF Crash, DoneRow, Row, TypeInv, TypeOK
<1>34. CASE UNCHANGED vars
  BY <1>34, <1>row DEF vars, DoneRow
<1>35. QED
  BY <1>1, <1>2, <1>3, <1>4, <1>5, <1>6, <1>7, <1>8, <1>9, <1>10, <1>11, <1>12, <1>13, <1>14, <1>15, <1>16, <1>17, <1>18, <1>19, <1>20, <1>21, <1>22, <1>23, <1>24, <1>25, <1>26, <1>27, <1>28, <1>29, <1>30, <1>31, <1>32, <1>33, <1>34 DEF Next, Request, Producer, ClaimRequest, UseLease, LegacyWorker, User, Administrator

\* Nor does a row tell the opposite of its event: a completion is only recorded for
\* a row without one, and what a completed row becomes later is at most cancelled.
OutcomeRow(j) == /\ outcome[j] = "success" => status[j] # "failed"
                 /\ outcome[j] = "failed" => status[j] # "success"

\* Every step of such a deployment preserves that, too.
LEMMA OutcomeKept ==
    ASSUME Workers = {}, TypeInv, RowInv, OutcomeMatchesEvent, [Next]_vars
    PROVE  OutcomeMatchesEvent'
<1> SUFFICES ASSUME NEW i \in Jobs PROVE OutcomeRow(i)'
  BY DEF OutcomeMatchesEvent, OutcomeRow, Jobs
<1>row. OutcomeRow(i) /\ Row(i)
  BY DEF OutcomeMatchesEvent, OutcomeRow, RowInv
<1>1. ASSUME NEW d \in Definitions, NEW c \in BOOLEAN, Enqueue(d, c)
      PROVE  OutcomeRow(i)'
  BY <1>1, <1>row DEF Enqueue, InsertJob, OutcomeRow, Row, TypeInv, TypeOK
<1>2. ASSUME NEW j \in Jobs, NEW c \in BOOLEAN, Supersede(j, c)
      PROVE  OutcomeRow(i)'
  BY <1>2, <1>row DEF Supersede, Exists, OutcomeRow, Row, TypeInv, TypeOK
<1>3. ASSUME NEW r \in Runners, ClaimContext(r)
      PROVE  OutcomeRow(i)'
  BY <1>3, <1>row DEF ClaimContext, OutcomeRow, Row, TypeInv, TypeOK
<1>4. ASSUME NEW r \in Runners, ClearCancelled(r)
      PROVE  OutcomeRow(i)'
  BY <1>4, <1>row DEF ClearCancelled, SweepCancelled, OutcomeRow, Row, TypeInv, TypeOK
<1>5. ASSUME NEW r \in Runners, ClearStale(r)
      PROVE  OutcomeRow(i)'
  BY <1>5, <1>row DEF ClearStale, SweepStale, Stale, OutcomeRow, Row, TypeInv, TypeOK
<1>6. ASSUME NEW r \in Runners, NEW j \in Jobs, ClaimNextForRunner(r, j)
      PROVE  OutcomeRow(i)'
  BY <1>6, <1>row DEF ClaimNextForRunner, ClaimableBy, Oldest, NoLease, OutcomeRow, Row, TypeInv, TypeOK
<1>7. ASSUME NEW r \in Runners, ClaimNothing(r)
      PROVE  OutcomeRow(i)'
  BY <1>7, <1>row DEF ClaimNothing, OutcomeRow, Row, TypeInv, TypeOK
<1>8. ASSUME NEW r \in Runners, ClaimGranted(r)
      PROVE  OutcomeRow(i)'
  BY <1>8, <1>row DEF ClaimGranted, OutcomeRow, Row, TypeInv, TypeOK
<1>9. ASSUME NEW r \in Runners, ClaimRevisionMissing(r)
      PROVE  OutcomeRow(i)'
  BY <1>9, <1>row DEF ClaimRevisionMissing, ReleaseJob, ReturnToQueue, OutcomeRow, Row, TypeInv, TypeOK
<1>10. ASSUME NEW r \in Runners, NEW j \in Jobs, NEW l \in Leases, RenewRunnerLease(r, j, l)
      PROVE  OutcomeRow(i)'
  BY <1>10, <1>row DEF RenewRunnerLease, LeaseIsCurrent, HoldsLease, OutcomeRow, Row, TypeInv, TypeOK
<1>11. ASSUME NEW r \in Runners, NEW j \in Jobs, NEW l \in Leases, ReleaseRunnerLease(r, j, l)
      PROVE  OutcomeRow(i)'
  BY <1>11, <1>row DEF ReleaseRunnerLease, ReturnToQueue, LeaseIsCurrent, HoldsLease, OutcomeRow, Row, TypeInv, TypeOK
<1>12. ASSUME NEW r \in Runners, NEW j \in Jobs, NEW l \in Leases, NEW s \in FinalStatus, CompleteJobForRunner(r, j, l, s)
      PROVE  OutcomeRow(i)'
  BY <1>12, <1>row DEF CompleteJobForRunner, RecordCompletion, FinalStatus, HoldsLease, OutcomeRow, Row, TypeInv, TypeOK
<1>13. ASSUME NEW w \in Workers, NEW j \in Jobs, ClaimNextJob(w, j)
      PROVE  OutcomeRow(i)'
  BY <1>13
<1>14. ASSUME NEW w \in Workers, NEW j \in Jobs, LegacyRelease(w, j)
      PROVE  OutcomeRow(i)'
  BY <1>14
<1>15. ASSUME NEW w \in Workers, NEW j \in Jobs, FinishJob(w, j)
      PROVE  OutcomeRow(i)'
  BY <1>15
<1>16. ASSUME NEW w \in Workers, NEW j \in Jobs, NEW s \in FinalStatus, CompleteJob(w, j, s)
      PROVE  OutcomeRow(i)'
  BY <1>16
<1>17. ASSUME NEW j \in Jobs, CancelJob(j)
      PROVE  OutcomeRow(i)'
  BY <1>17, <1>row DEF CancelJob, OutcomeRow, Row, TypeInv, TypeOK
<1>18. ASSUME NEW j \in Jobs, RestartRead(j)
      PROVE  OutcomeRow(i)'
  BY <1>18, <1>row DEF RestartRead, OutcomeRow, Row, TypeInv, TypeOK
<1>19. ASSUME NEW j \in Jobs, RestartInsert(j)
      PROVE  OutcomeRow(i)'
  BY <1>19, <1>row DEF RestartInsert, InsertJob, OutcomeRow, Row, TypeInv, TypeOK
<1>20. ASSUME NEW j \in Jobs, RestartRefused(j)
      PROVE  OutcomeRow(i)'
  BY <1>20, <1>row DEF RestartRefused, OutcomeRow, Row, TypeInv, TypeOK
<1>21. ASSUME NEW j \in Jobs, RestartCancel(j)
      PROVE  OutcomeRow(i)'
  BY <1>21, <1>row DEF RestartCancel, Exists, OutcomeRow, Row, TypeInv, TypeOK
<1>22. ASSUME NEW j \in Jobs, DeleteJob(j)
      PROVE  OutcomeRow(i)'
  BY <1>22, <1>row DEF DeleteJob, Exists, OutcomeRow, Row, TypeInv, TypeOK
<1>23. ASSUME NEW r \in Runners, NEW t \in Teams, GrantTeam(r, t)
      PROVE  OutcomeRow(i)'
  BY <1>23, <1>row DEF GrantTeam, OutcomeRow, Row, TypeInv, TypeOK
<1>24. ASSUME NEW r \in Runners, NEW t \in Teams, RevokeTeamGrant(r, t)
      PROVE  OutcomeRow(i)'
  BY <1>24, <1>row DEF RevokeTeamGrant, OutcomeRow, Row, TypeInv, TypeOK
<1>25. ASSUME NEW r \in Runners, RevokeRunner(r)
      PROVE  OutcomeRow(i)'
  BY <1>25, <1>row DEF RevokeRunner, OutcomeRow, Row, TypeInv, TypeOK
<1>26. ASSUME NEW r \in Runners, NEW scope \in Teams \cup {Shared}, RevokeRunnerLeases(r, scope)
      PROVE  OutcomeRow(i)'
  BY <1>26, <1>row DEF RevokeRunnerLeases, OutcomeRow, Row, TypeInv, TypeOK
<1>27. ASSUME NEW r \in Runners, ReserveForUpdate(r)
      PROVE  OutcomeRow(i)'
  BY <1>27, <1>row DEF ReserveForUpdate, OutcomeRow, Row, TypeInv, TypeOK
<1>28. ASSUME NEW r \in Runners, UpdateOver(r)
      PROVE  OutcomeRow(i)'
  BY <1>28, <1>row DEF UpdateOver, OutcomeRow, Row, TypeInv, TypeOK
<1>29. ASSUME NEW t \in Teams, MarkWorkspaceDeleting(t)
      PROVE  OutcomeRow(i)'
  BY <1>29, <1>row DEF MarkWorkspaceDeleting, OutcomeRow, Row, TypeInv, TypeOK
<1>30. ASSUME InitClearCancelled
      PROVE  OutcomeRow(i)'
  BY <1>30, <1>row DEF InitClearCancelled, SweepCancelled, OutcomeRow, Row, TypeInv, TypeOK
<1>31. ASSUME InitClearStale
      PROVE  OutcomeRow(i)'
  BY <1>31, <1>row DEF InitClearStale, SweepStale, Stale, OutcomeRow, Row, TypeInv, TypeOK
<1>32. ASSUME NEW j \in Jobs, Tick(j)
      PROVE  OutcomeRow(i)'
  BY <1>32, <1>row DEF Tick, OutcomeRow, Row, TypeInv, TypeOK
<1>33. ASSUME Crash
      PROVE  OutcomeRow(i)'
  BY <1>33, <1>row DEF Crash, OutcomeRow, Row, TypeInv, TypeOK
<1>34. CASE UNCHANGED vars
  BY <1>34, <1>row DEF vars, OutcomeRow
<1>35. QED
  BY <1>1, <1>2, <1>3, <1>4, <1>5, <1>6, <1>7, <1>8, <1>9, <1>10, <1>11, <1>12, <1>13, <1>14, <1>15, <1>16, <1>17, <1>18, <1>19, <1>20, <1>21, <1>22, <1>23, <1>24, <1>25, <1>26, <1>27, <1>28, <1>29, <1>30, <1>31, <1>32, <1>33, <1>34 DEF Next, Request, Producer, ClaimRequest, UseLease, LegacyWorker, User, Administrator

\* Occupied, as a predicate of one row.
Occupant(j, r) == worker[j] = r /\ (status[j] = "running" \/ (status[j] = "cancelled" /\ ~completed[j]))

\* A step that does not make r busier, nor reserves it while it is busy.
Occupancy(j, r) ==
    /\ Occupant(j, r)' => Occupant(j, r)
    /\ r \in reserved' => r \in reserved \/ ~Occupant(j, r)

\* Only the claim of a runner makes a runner busier.
LEMMA OnlyClaimsOccupy ==
    ASSUME Workers = {}, TypeInv, RowInv, DoneInv, [Next]_vars, NEW i \in Jobs, NEW q \in Runners
    PROVE  Occupancy(i, q) \/ \E r \in Runners, j \in Jobs : ClaimNextForRunner(r, j)
<1> DEFINE Goal == Occupancy(i, q) \/ \E r \in Runners, j \in Jobs : ClaimNextForRunner(r, j)
<1>row. DoneRow(i) /\ Row(i)
  BY DEF DoneInv, RowInv
<1>1. ASSUME NEW d \in Definitions, NEW c \in BOOLEAN, Enqueue(d, c)
      PROVE  Goal
  BY <1>1, <1>row, ConstantsAssumption DEF Enqueue, InsertJob, Occupancy, Occupant, DoneRow, Row, TypeInv, TypeOK
<1>2. ASSUME NEW j \in Jobs, NEW c \in BOOLEAN, Supersede(j, c)
      PROVE  Goal
  BY <1>2, <1>row, ConstantsAssumption DEF Supersede, Exists, Occupancy, Occupant, DoneRow, Row, TypeInv, TypeOK
<1>3. ASSUME NEW r \in Runners, ClaimContext(r)
      PROVE  Goal
  BY <1>3, <1>row, ConstantsAssumption DEF ClaimContext, Occupancy, Occupant, DoneRow, Row, TypeInv, TypeOK
<1>4. ASSUME NEW r \in Runners, ClearCancelled(r)
      PROVE  Goal
  BY <1>4, <1>row, ConstantsAssumption DEF ClearCancelled, SweepCancelled, Occupancy, Occupant, DoneRow, Row, TypeInv, TypeOK
<1>5. ASSUME NEW r \in Runners, ClearStale(r)
      PROVE  Goal
  BY <1>5, <1>row, ConstantsAssumption DEF ClearStale, SweepStale, Stale, Occupancy, Occupant, DoneRow, Row, TypeInv, TypeOK
<1>6. ASSUME NEW r \in Runners, NEW j \in Jobs, ClaimNextForRunner(r, j)
      PROVE  Goal
  BY <1>6
<1>7. ASSUME NEW r \in Runners, ClaimNothing(r)
      PROVE  Goal
  BY <1>7, <1>row, ConstantsAssumption DEF ClaimNothing, Occupancy, Occupant, DoneRow, Row, TypeInv, TypeOK
<1>8. ASSUME NEW r \in Runners, ClaimGranted(r)
      PROVE  Goal
  BY <1>8, <1>row, ConstantsAssumption DEF ClaimGranted, Occupancy, Occupant, DoneRow, Row, TypeInv, TypeOK
<1>9. ASSUME NEW r \in Runners, ClaimRevisionMissing(r)
      PROVE  Goal
  BY <1>9, <1>row, ConstantsAssumption DEF ClaimRevisionMissing, ReleaseJob, ReturnToQueue, Occupancy, Occupant, DoneRow, Row, TypeInv, TypeOK
<1>10. ASSUME NEW r \in Runners, NEW j \in Jobs, NEW l \in Leases, RenewRunnerLease(r, j, l)
      PROVE  Goal
  BY <1>10, <1>row, ConstantsAssumption DEF RenewRunnerLease, LeaseIsCurrent, HoldsLease, Occupancy, Occupant, DoneRow, Row, TypeInv, TypeOK
<1>11. ASSUME NEW r \in Runners, NEW j \in Jobs, NEW l \in Leases, ReleaseRunnerLease(r, j, l)
      PROVE  Goal
  BY <1>11, <1>row, ConstantsAssumption DEF ReleaseRunnerLease, ReturnToQueue, LeaseIsCurrent, HoldsLease, Occupancy, Occupant, DoneRow, Row, TypeInv, TypeOK
<1>12. ASSUME NEW r \in Runners, NEW j \in Jobs, NEW l \in Leases, NEW s \in FinalStatus, CompleteJobForRunner(r, j, l, s)
      PROVE  Goal
  BY <1>12, <1>row, ConstantsAssumption DEF CompleteJobForRunner, RecordCompletion, FinalStatus, HoldsLease, Occupancy, Occupant, DoneRow, Row, TypeInv, TypeOK
<1>13. ASSUME NEW w \in Workers, NEW j \in Jobs, ClaimNextJob(w, j)
      PROVE  Goal
  BY <1>13
<1>14. ASSUME NEW w \in Workers, NEW j \in Jobs, LegacyRelease(w, j)
      PROVE  Goal
  BY <1>14
<1>15. ASSUME NEW w \in Workers, NEW j \in Jobs, FinishJob(w, j)
      PROVE  Goal
  BY <1>15
<1>16. ASSUME NEW w \in Workers, NEW j \in Jobs, NEW s \in FinalStatus, CompleteJob(w, j, s)
      PROVE  Goal
  BY <1>16
<1>17. ASSUME NEW j \in Jobs, CancelJob(j)
      PROVE  Goal
  BY <1>17, <1>row, ConstantsAssumption DEF CancelJob, Occupancy, Occupant, DoneRow, Row, TypeInv, TypeOK
<1>18. ASSUME NEW j \in Jobs, RestartRead(j)
      PROVE  Goal
  BY <1>18, <1>row, ConstantsAssumption DEF RestartRead, Occupancy, Occupant, DoneRow, Row, TypeInv, TypeOK
<1>19. ASSUME NEW j \in Jobs, RestartInsert(j)
      PROVE  Goal
  BY <1>19, <1>row, ConstantsAssumption DEF RestartInsert, InsertJob, Occupancy, Occupant, DoneRow, Row, TypeInv, TypeOK
<1>20. ASSUME NEW j \in Jobs, RestartRefused(j)
      PROVE  Goal
  BY <1>20, <1>row, ConstantsAssumption DEF RestartRefused, Occupancy, Occupant, DoneRow, Row, TypeInv, TypeOK
<1>21. ASSUME NEW j \in Jobs, RestartCancel(j)
      PROVE  Goal
  BY <1>21, <1>row, ConstantsAssumption DEF RestartCancel, Exists, Occupancy, Occupant, DoneRow, Row, TypeInv, TypeOK, Status
<1>22. ASSUME NEW j \in Jobs, DeleteJob(j)
      PROVE  Goal
  BY <1>22, <1>row, ConstantsAssumption DEF DeleteJob, Exists, Occupancy, Occupant, DoneRow, Row, TypeInv, TypeOK
<1>23. ASSUME NEW r \in Runners, NEW t \in Teams, GrantTeam(r, t)
      PROVE  Goal
  BY <1>23, <1>row, ConstantsAssumption DEF GrantTeam, Occupancy, Occupant, DoneRow, Row, TypeInv, TypeOK
<1>24. ASSUME NEW r \in Runners, NEW t \in Teams, RevokeTeamGrant(r, t)
      PROVE  Goal
  BY <1>24, <1>row, ConstantsAssumption DEF RevokeTeamGrant, Occupancy, Occupant, DoneRow, Row, TypeInv, TypeOK
<1>25. ASSUME NEW r \in Runners, RevokeRunner(r)
      PROVE  Goal
  BY <1>25, <1>row, ConstantsAssumption DEF RevokeRunner, Occupancy, Occupant, DoneRow, Row, TypeInv, TypeOK
<1>26. ASSUME NEW r \in Runners, NEW scope \in Teams \cup {Shared}, RevokeRunnerLeases(r, scope)
      PROVE  Goal
  BY <1>26, <1>row, ConstantsAssumption DEF RevokeRunnerLeases, Occupancy, Occupant, DoneRow, Row, TypeInv, TypeOK
<1>27. ASSUME NEW r \in Runners, ReserveForUpdate(r)
      PROVE  Goal
  BY <1>27, <1>row, ConstantsAssumption DEF ReserveForUpdate, Occupied, Occupancy, Occupant, DoneRow, Row, TypeInv, TypeOK
<1>28. ASSUME NEW r \in Runners, UpdateOver(r)
      PROVE  Goal
  BY <1>28, <1>row, ConstantsAssumption DEF UpdateOver, Occupancy, Occupant, DoneRow, Row, TypeInv, TypeOK
<1>29. ASSUME NEW t \in Teams, MarkWorkspaceDeleting(t)
      PROVE  Goal
  BY <1>29, <1>row, ConstantsAssumption DEF MarkWorkspaceDeleting, Occupancy, Occupant, DoneRow, Row, TypeInv, TypeOK
<1>30. ASSUME InitClearCancelled
      PROVE  Goal
  BY <1>30, <1>row, ConstantsAssumption DEF InitClearCancelled, SweepCancelled, Occupancy, Occupant, DoneRow, Row, TypeInv, TypeOK
<1>31. ASSUME InitClearStale
      PROVE  Goal
  BY <1>31, <1>row, ConstantsAssumption DEF InitClearStale, SweepStale, Stale, Occupancy, Occupant, DoneRow, Row, TypeInv, TypeOK
<1>32. ASSUME NEW j \in Jobs, Tick(j)
      PROVE  Goal
  BY <1>32, <1>row, ConstantsAssumption DEF Tick, Occupancy, Occupant, DoneRow, Row, TypeInv, TypeOK
<1>33. ASSUME Crash
      PROVE  Goal
  BY <1>33, <1>row, ConstantsAssumption DEF Crash, Occupancy, Occupant, DoneRow, Row, TypeInv, TypeOK
<1>34. CASE UNCHANGED vars
  BY <1>34 DEF vars, Occupancy, Occupant
<1>35. QED
  BY <1>1, <1>2, <1>3, <1>4, <1>5, <1>6, <1>7, <1>8, <1>9, <1>10, <1>11, <1>12, <1>13, <1>14, <1>15, <1>16, <1>17, <1>18, <1>19, <1>20, <1>21, <1>22, <1>23, <1>24, <1>25, <1>26, <1>27, <1>28, <1>29, <1>30, <1>31, <1>32, <1>33, <1>34 DEF Next, Request, Producer, ClaimRequest, UseLease, LegacyWorker, User, Administrator

\* The table is finite.
LEMMA FiniteJobs == IsFiniteSet(Jobs)
BY FS_Interval, ConstantsAssumption DEF Jobs

\* What a runner occupies is finite, so that it can be counted.
LEMMA OccupiedIsFinite ==
    ASSUME NEW r \in Runners
    PROVE  IsFiniteSet(Occupied(r)) /\ Cardinality(Occupied(r)) \in Nat
BY FiniteJobs, FS_Subset, FS_CardinalityType DEF Occupied

\* A claim adds its job to its runner and nothing to another.
LEMMA ClaimOccupies ==
    ASSUME TypeInv, NEW r \in Runners, NEW j \in Jobs, ClaimNextForRunner(r, j)
    PROVE  /\ Occupied(r)' \subseteq Occupied(r) \cup {j}
           /\ \A q \in Runners \ {r} : Occupied(q)' \subseteq Occupied(q)
BY DEF ClaimNextForRunner, Oldest, ClaimableBy, Occupied, TypeInv, TypeOK, Jobs

\* Every step preserves RunnerWithinCapacity.
LEMMA CapacityKept ==
    ASSUME Workers = {}, TypeInv, RowInv, DoneInv, RunnerWithinCapacity, [Next]_vars
    PROVE  RunnerWithinCapacity'
<1> SUFFICES ASSUME NEW q \in Runners PROVE Cardinality(Occupied(q)') <= Capacity[q]
  BY DEF RunnerWithinCapacity
<1>0. Cardinality(Occupied(q)) \in Nat /\ Capacity[q] \in Nat /\ Cardinality(Occupied(q)) <= Capacity[q]
  BY OccupiedIsFinite, ConstantsAssumption DEF RunnerWithinCapacity
<1>1. ASSUME Occupied(q)' \subseteq Occupied(q)
      PROVE  Cardinality(Occupied(q)') <= Capacity[q]
  <2>1. Cardinality(Occupied(q)') <= Cardinality(Occupied(q)) /\ Cardinality(Occupied(q)') \in Nat
    BY <1>1, OccupiedIsFinite, FS_Subset, FS_CardinalityType
  <2>2. QED
    BY <1>0, <2>1
<1>2. ASSUME NEW j \in Jobs, ClaimNextForRunner(q, j)
      PROVE  Cardinality(Occupied(q)') <= Capacity[q]
  <2>1. Occupied(q)' \subseteq Occupied(q) \cup {j}
    BY <1>2, ClaimOccupies
  <2>2. Cardinality(Occupied(q)) < Capacity[q]
    BY <1>2 DEF ClaimNextForRunner, Oldest, ClaimableBy
  <2>3. IsFiniteSet(Occupied(q) \cup {j}) /\ Cardinality(Occupied(q) \cup {j}) <= Cardinality(Occupied(q)) + 1
    <3> DEFINE S == Occupied(q)
    <3>1. IsFiniteSet(S) /\ Cardinality(S) \in Nat
      BY OccupiedIsFinite
    <3> HIDE DEF S
    <3>2. /\ IsFiniteSet(S \cup {j})
          /\ Cardinality(S \cup {j}) = IF j \in S THEN Cardinality(S) ELSE Cardinality(S) + 1
      BY <3>1, FS_AddElement
    <3>3. IsFiniteSet(S \cup {j}) /\ Cardinality(S \cup {j}) <= Cardinality(S) + 1
      BY <3>1, <3>2
    <3>4. QED
      BY <3>3 DEF S
  <2>4. /\ Cardinality(Occupied(q)') \in Nat
        /\ Cardinality(Occupied(q) \cup {j}) \in Nat
        /\ Cardinality(Occupied(q)') <= Cardinality(Occupied(q) \cup {j})
    BY <2>1, <2>3, FS_Subset, FS_CardinalityType
  <2>5. QED
    BY <1>0, <2>2, <2>3, <2>4
<1>3. ASSUME NEW r \in Runners \ {q}, NEW j \in Jobs, ClaimNextForRunner(r, j)
      PROVE  Cardinality(Occupied(q)') <= Capacity[q]
  BY <1>1, <1>3, ClaimOccupies
<1>4. ASSUME \A i \in Jobs : Occupancy(i, q)
      PROVE  Cardinality(Occupied(q)') <= Capacity[q]
  BY <1>1, <1>4 DEF Occupancy, Occupant, Occupied, Jobs
<1>5. QED
  BY <1>2, <1>3, <1>4, OnlyClaimsOccupy

\* Every step preserves ReservedRunnerIsIdle.
LEMMA ReservedKept ==
    ASSUME Workers = {}, TypeInv, RowInv, DoneInv, ReservedRunnerIsIdle, [Next]_vars
    PROVE  ReservedRunnerIsIdle'
<1> SUFFICES ASSUME NEW q \in Runners, q \in reserved', NEW i \in Jobs, Occupant(i, q)'
             PROVE  FALSE
  BY TypesKept DEF ReservedRunnerIsIdle, Occupied, Occupant, Jobs, TypeInv, TypeOK
<1>1. CASE Occupancy(i, q)
  BY <1>1 DEF Occupancy, Occupant, Occupied, ReservedRunnerIsIdle
<1>2. ASSUME NEW r \in Runners, NEW j \in Jobs, ClaimNextForRunner(r, j)
      PROVE  FALSE
  BY <1>2 DEF ClaimNextForRunner, Oldest, ClaimableBy, Occupant, Occupied, ReservedRunnerIsIdle, TypeInv, TypeOK
<1>3. QED
  BY <1>1, <1>2, OnlyClaimsOccupy

-----------------------------------------------------------------------------
\* The inductive invariant.
Inv ==
    /\ TypeInv /\ RowInv /\ LeaseBound
    /\ OneRunningPerGroup /\ RunningJobIsAuthorized

\* It holds initially ...
LEMMA InitInv == Init => Inv
BY InitTyped, ConstantsAssumption
   DEF Init, Inv, RowInv, Row, LeaseBound, OneRunningPerGroup, RunningJobIsAuthorized, Jobs

\* ... and every step preserves it.
LEMMA InvKept == Inv /\ [Next]_vars => Inv'
BY TypesKept, RowsKept, LeaseBoundKept, GroupsKept, AuthorizationKept DEF Inv

\* Every reachable state of the queue satisfies the inductive invariant.
THEOREM Invariance == Spec => []Inv
BY InitInv, InvKept, PTL DEF Spec

\* Every variable keeps its type.
THEOREM TypeCorrect == Spec => []TypeOK
BY Invariance, PTL DEF Inv, TypeInv

\* Jobs of one concurrency group never run together, however claims, legacy
\* workers, sweeps, restarts, revocations and crashes interleave.
THEOREM GroupsAreExclusive == Spec => []OneRunningPerGroup
BY Invariance, PTL DEF Inv

\* A running job whose runner has lost its access has a revocation under way,
\* as long as the control plane has not crashed.
THEOREM WithdrawnAccessReachesJobs == Spec => []RunningJobIsAuthorized
BY Invariance, PTL DEF Inv

\* A job whose terminal event is published is never queued nor run again.
THEOREM PublishedJobsNeverRun == Spec => []TerminalEventIsFinal
<1>1. Inv => TerminalEventIsFinal
  BY DEF Inv, RowInv, Row, TerminalEventIsFinal
<1>2. QED
  BY <1>1, Invariance, PTL

\* A lease that has expired, been fenced, completed or replaced is never accepted
\* again, in any later state.
THEOREM DeadLeasesAreRefused == Spec => DeadLeaseStaysDead
<1>1. Inv /\ [Next]_vars =>
        [\A r \in Runners : \A p \in held[r] : Dead(p[1], p[2]) => ~HoldsLease(r, p[1], p[2])']_vars
  <2> SUFFICES ASSUME Inv, [Next]_vars, NEW r \in Runners, NEW p \in held[r], Dead(p[1], p[2])
               PROVE  ~HoldsLease(r, p[1], p[2])'
    OBVIOUS
  <2>1. p[1] \in Jobs /\ p[2] \in Leases /\ p[2] <= leases
    BY DEF Inv, TypeInv, TypeOK, LeaseBound
  <2>2. Dead(p[1], p[2])'
    BY <2>1, DeadKept DEF Inv
  <2>3. QED
    BY <2>2 DEF Dead, HoldsLease
<1>2. QED
  BY <1>1, Invariance, PTL DEF Spec, DeadLeaseStaysDead

\* The invariant of a deployment whose jobs are all run by API runners.
ApiInv == Inv /\ DoneInv /\ OutcomeMatchesEvent /\ RunnerWithinCapacity /\ ReservedRunnerIsIdle

\* Such a deployment always satisfies it.
THEOREM ApiInvariance == ASSUME Workers = {} PROVE Spec => []ApiInv
<1>1. Init => ApiInv
  <2> SUFFICES ASSUME Init PROVE ApiInv
    OBVIOUS
  <2>1. Inv /\ DoneInv /\ OutcomeMatchesEvent
    BY InitInv DEF Init, DoneInv, DoneRow, OutcomeMatchesEvent
  <2>2. \A r \in Runners : Occupied(r) = {}
    BY DEF Init, Occupied
  <2>3. RunnerWithinCapacity
    <3>1. Cardinality({}) = 0
      BY FS_EmptySet
    <3>2. \A r \in Runners : 0 <= Capacity[r]
      BY ConstantsAssumption
    <3>3. \A r \in Runners : Cardinality(Occupied(r)) = 0
      BY <2>2, <3>1
    <3>4. QED
      BY <3>2, <3>3 DEF RunnerWithinCapacity
  <2>4. QED
    BY <2>1, <2>3 DEF Init, ApiInv, ReservedRunnerIsIdle
<1>2. ApiInv /\ [Next]_vars => ApiInv'
  BY InvKept, DoneKept, OutcomeKept, CapacityKept, ReservedKept DEF ApiInv, Inv
<1>3. QED
  BY <1>1, <1>2, PTL DEF Spec

\* Without legacy workers no runner is given more than its concurrency, counting
\* the cancelled jobs it has not acknowledged.
THEOREM RunnersStayWithinCapacity == ASSUME Workers = {} PROVE Spec => []RunnerWithinCapacity
BY ApiInvariance, PTL DEF ApiInv

\* Without legacy workers a runner reserved for an update occupies no job.
THEOREM ReservedRunnersStayIdle == ASSUME Workers = {} PROVE Spec => []ReservedRunnerIsIdle
BY ApiInvariance, PTL DEF ApiInv

\* Without legacy workers a job whose published event tells of a success is never stored
\* as a failure, nor the reverse, whoever cancels, restarts or recovers it.
THEOREM EventsAgreeWithRows == ASSUME Workers = {} PROVE Spec => []OutcomeMatchesEvent
BY ApiInvariance, PTL DEF ApiInv
=============================================================================
