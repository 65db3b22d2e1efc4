SPECIFICATION Spec
CONSTANTS
    B = 1
    None = None
    EINVAL = 6
    Leaves <- MCLeaves
    Imms <- MCImms
    NumMax = 260
INVARIANTS
    ValueExact
    CondExact
    EvalExact
