CONSTANTS
    Groups = {g1}
    Sessions = {s1}
    Sizes = {0, 1}
    Keys = {k1, k2}
    PDs = {d1, d2}
    NoKey = NoKey
    NoPd = NoPd
    IdSpace = 1
    MaxRegions = 1
SPECIFICATION Spec
SYMMETRY Symmetry
INVARIANT SameTuple
CHECK_DEADLOCK FALSE
