CONSTANTS
    U64Max = 15
    U32 = 4
    Base = 4
    Size = 6
    Layout <- MCLayout
    Layouts <- MCLayouts
    Offsets = {0, 1, 4, 8, 14, 15}
    Counts = {0, 1, 2, 3, 5}
    Depth = 2
    MaxCalls = 3
    MaxConns = 2
SPECIFICATION Spec
INVARIANTS TypeOK InsideRegion OkIsOwn EntriesAccounted
PROPERTY QuietAfterReturn
CHECK_DEADLOCK FALSE
