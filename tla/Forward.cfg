CONSTANTS
  N = 4
  Cell = {"pkt"}
  Key = {0, 1}
  Val = {0, 1}
  Reg = Reg
  None = None
  Programs <- MCPrograms
  Inits <- MCInits
  Queries <- MCQueries
SPECIFICATION Spec
INVARIANTS ReachExact ReadsExact StateExact RetExact
