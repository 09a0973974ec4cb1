SPECIFICATION FairSpec
CONSTANTS
    r1 = r1
    r2 = r2
    v1 = v1
    v2 = v2
    Runners = {r1, r2}
    Revocable = {r1}
    Versions = {v1, v2}
    First = v1
    MaxUpdates = 2
    MaxBeats = 1
INVARIANTS
    OnePendingUpdate
PROPERTIES
    ResultStands
    ReservationEnds
CONSTRAINTS
    TwoHandlers
    Upgrades
    OneReport
    InOrder
