SPECIFICATION Spec
CONSTANTS
    d1 = d1
    d2 = d2
    h1 = h1
    h2 = h2
    MaxEvents = 1
    MaxRevisions = 1
    Declared = {1}
    MaxAttempts = 1
    Handlers = {h1}
    Dispatchers = {d1}
    MaxRetries = 0
    MaxFaults = 0
INVARIANTS
    OwedIsDeliverable
