CONSTANTS
  B = 2
  None = None
  Refused = Refused
  Reg = Reg
  Programs <- AllPrograms
  Worlds <- MCWorlds
  Inputs <- MCInputs
  Conds <- MCConds
SPECIFICATION Spec
CHECK_DEADLOCK FALSE
INVARIANTS InputExact MeaningExact WitnessReplays
