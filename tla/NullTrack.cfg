CONSTANTS
  N = 7
  MaxOps = 2
  None = None
  Programs <- MCPrograms
SPECIFICATION Spec
INVARIANTS FactsSound CondExact NoNullLoad OrderIrrelevant
