CONSTANTS
  N = 7
  MaxOps = 2
  None = None
  Programs <- MCSharedFact
SPECIFICATION Spec
INVARIANT NoNullLoad
