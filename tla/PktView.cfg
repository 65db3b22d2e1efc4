SPECIFICATION Spec
CONSTANTS
    N = 6
    None = None
    Programs <- MCPrograms
    Lens = {1, 2, 3}
    Headroom = 2
INVARIANTS
    ViewSound
    BranchExact
    ReloadAccepted
CHECK_DEADLOCK FALSE
