SPECIFICATION Spec
CONSTANTS
    k1 = k1
    k2 = k2
    n1 = n1
    wsA = wsA
    wsB = wsB
    s1 = s1
    s2 = s2
    t1 = t1
    t2 = t2
    p1 = p1
    p2 = p2
    c1 = c1
    d1 = d1
    d2 = d2
    x1 = x1
    q1 = q1
    q2 = q2
    q3 = q3
    Keys = {k1, k2}
    Names = {k1, n1}
    Workspaces = {wsA, wsB}
    Sources = {s1, s2}
    IdOf <- MCIdOf
    Variants <- MCVariants
    Requests = {q1, q2, q3}
    Ticks = {t1, t2}
    ProcessOf <- MCProcessOf
    MaxRevisions = 3
    MaxMinutes = 2
    Held <- MCHeldBoth
    Null = Null
    Connectors = {c1}
    Definitions = {d1, d2}
    Emits <- MCEmits
    Deliveries = {x1}
    Anonymous = Anonymous
    Edits = {e1}
    MaxHandlers = 2
    MaxVersions = 2
    MaxTokens = 2
    Nothing = Nothing
INVARIANT TriggerReachesItsWorkflow
CHECK_DEADLOCK FALSE
