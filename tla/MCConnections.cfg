CONSTANTS
    Conns = {k1, k2, k3}
    Devices = {d1, d2}
    NoPd = NoPd
SPECIFICATION Spec
INVARIANTS TypeOK Supported DomainOnDevice Reachable
SYMMETRY MCSymmetry
CHECK_DEADLOCK FALSE
