SPECIFICATION Spec
CONSTANTS
    NONE = NONE
    A = A
    B = B
    M = M
    Regs = {2, 6}
    Slots = {0, 1}
    Inputs <- MCInputs
    MapNames <- MCMapNames
INVARIANTS
    RefsExact
    FlowExact
    TailExact
    TrackedRefExact
    SupportedAccepted
PROPERTY
    Terminates
