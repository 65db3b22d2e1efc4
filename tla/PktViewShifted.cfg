SPECIFICATION Spec
CONSTANTS
    N = 6
    None = None
    Programs <- MCShifted
    Lens = {2, 3}
    Headroom = 2
INVARIANT
    ValueExact
CHECK_DEADLOCK FALSE
