CONSTANTS
    r1 = r1
    r2 = r2
    r3 = r3
    g1 = g1
    g2 = g2
    Readers = {r1, r2, r3}
    GroupOf <- TwoGroups
    Matching = {r1, r2}
    FaultSets <- Regimes
    MaxSessions = 2
    MaxUpdates <- UpdatesIn
    MaxVer = 1
SPECIFICATION FairSpec
INVARIANTS TypeOK OwnGroupUndisturbed NoUpdateFails VersionsKeptApart
           SessionStaysOpen Fresh AllClosed
PROPERTIES UpdateReturns DropEndsUndisturbed
CHECK_DEADLOCK FALSE
