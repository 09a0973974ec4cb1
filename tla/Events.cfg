SPECIFICATION FairSpec
CONSTANTS
    d1 = d1
    d2 = d2
    h1 = h1
    h2 = h2
    MaxEvents = 2
    MaxRevisions = 2
    Declared = {1}
    MaxAttempts = 2
    Handlers = {h1}
    Dispatchers = {d1, d2}
    MaxRetries = 1
    MaxFaults = 1
INVARIANTS
    AdmittedHasInvocation
    OutcomeCountsDeliveries
PROPERTIES
    VerdictStands
    NoBackfill
    FirstDeliveryEnds
CONSTRAINTS
    OneDeliveryOrFanout
