CONSTANTS
    Connects = {c1, c2}
    Disconnects = {d1}
    None = None
    Overlap = FALSE
SPECIFICATION Spec
CHECK_DEADLOCK FALSE
SYMMETRY CallSymmetry
INVARIANT ClosedNotBusy
