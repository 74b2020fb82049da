CONSTANTS
    N = 2
    Faults = {"exit"}
    MaxRounds = 3
    MaxTimeouts = 1
SPECIFICATION FairSpec
INVARIANTS TypeOK NoEarlyLeave HeardBeforeLeft
PROPERTY RoundCompletes
CHECK_DEADLOCK FALSE
