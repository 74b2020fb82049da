CONSTANTS
    r1 = r1
    r2 = r2
    r3 = r3
    g1 = g1
    g2 = g2
    Readers = {r1, r2, r3}
    GroupOf <- TwoGroups
    Matching = {r1, r2, r3}
    FaultSets = {{"leave"}}
    MaxSessions = 1
    MaxUpdates <- Once
    MaxVer = 0
SPECIFICATION Spec
INVARIANT OwnGroup
CHECK_DEADLOCK FALSE
