SPECIFICATION Spec
CONSTANTS
    MaxJobs = 2
    MaxLeases = 2
    MaxCrashes = 1
    Term = 1
    shared = shared
    legacy = legacy
    t1 = t1
    Runners = {shared}
    Workers = {}
    Teams = {t1}
    Shared = Shared
    Nobody = Nobody
    NoKey = NoKey
    Definitions <- OneDef
    HomeTeam <- MCHomeTeam
    Capacity <- One
    TeamOf <- MCTeamOf
    KeyOf <- MCKeyOf
    CanRun <- Every
INVARIANTS
    RunnerWithinCapacity
    ReservedRunnerIsIdle
    RunningJobIsAuthorized
    TerminalEventIsFinal
    OutcomeMatchesEvent
PROPERTIES
    DeadLeaseStaysDead
CONSTRAINTS
    AtMostTwoInFlight
\* The model stops when its jobs, leases and enrolled runners are used up.
CHECK_DEADLOCK FALSE
