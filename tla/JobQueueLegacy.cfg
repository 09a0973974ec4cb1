SPECIFICATION FairSpec
CONSTANTS
    MaxJobs = 2
    MaxLeases = 1
    MaxCrashes = 0
    Term = 1
    shared = shared
    legacy = legacy
    t1 = t1
    Runners = {shared}
    Workers = {legacy}
    Teams = {t1}
    Shared = Shared
    Nobody = Nobody
    NoKey = NoKey
    Definitions <- OneDef
    HomeTeam <- MCHomeTeam
    Capacity <- One
    TeamOf <- MCTeamOf
    KeyOf <- MCKeyOf
    CanRun <- Every
INVARIANTS
    OneRunningPerGroup
PROPERTIES
    ExpiredLeaseIsRecovered
CONSTRAINTS
    AtMostOneInFlight
    NoUpdateNoDeletion
\* The model stops when its jobs, leases and enrolled runners are used up.
CHECK_DEADLOCK FALSE
