SPECIFICATION FairSpec
CONSTANTS
    Poller = Poller
    Nobody = Nobody
    h1 = h1
    h2 = h2
    MaxRequests = 3
    MaxVariants = 2
    PlanSize <- TwoNoneOne
    Invalid = {3}
    Dispatched = {1, 2}
    Removable = {1}
    Handlers = {h1, h2}
    MaxFaults = 1
INVARIANTS
    AdmittedNamesItsJob
    StepHasOneResult
PROPERTIES
    KeepsPromise
    EveryRequestSettles
CONSTRAINTS
    Apart
    TwoWorkers
