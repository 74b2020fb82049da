CONSTANTS
    Groups = {g1, g2}
    Names = {a}
    Layouts = {u8, u64}
    MaxStarts = 2
    MaxRegions = 2
    MaxUpdates = 4
SPECIFICATION Spec
INVARIANTS TypeOK MirrorsCatalog SlotMatchesTuples NothingLost HandlesUsable
CHECK_DEADLOCK FALSE
