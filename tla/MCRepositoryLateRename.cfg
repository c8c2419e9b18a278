SPECIFICATION Spec
CONSTANTS
    Proc = {p1, p2, p3}
    Contained = {p1, p2, p3}
    MaxFence = 3
    MaxRevision = 5
    None = None
    Torn = Torn
SYMMETRY KindSymmetry
INVARIANTS
    LiveLockStands
CHECK_DEADLOCK FALSE
