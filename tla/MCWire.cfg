CONSTANTS
    ByteBase = 32
    W16 = 1
    W32 = 1
    W64 = 2
    TextBytes = {2, 3, 7}
    MaxFrame = 10
    Messages <- MCMessages
    StrayBytes = {0, 1, 2, 3, 5}
    MaxSends = 2
    MaxStray = 6
SPECIFICATION Spec
INVARIANTS TypeOK Canonical OnlyOversizeRefused
PROPERTY WholeMessages
CHECK_DEADLOCK FALSE
