CONSTANTS
    N = 2
    Faults = {}
    MaxRounds = 2
    MaxTimeouts = 0
SPECIFICATION FairSpec
INVARIANT NobodyStranded
CHECK_DEADLOCK FALSE
