SPECIFICATION Spec
CONSTANTS
    B = 1
    None = None
    V = 8
    Keys = {"k0", "k1"}
    Addrs <- MCAddrs
    Offs = {0, 3, 4}
    Sizes = {1, 4, 8}
    Sources <- MCSources
    Imms <- MCImms
    MaxOps = 3
INVARIANTS
    StackExact
    SigmaExact
    FoldExact
    LoadExact
CHECK_DEADLOCK FALSE
