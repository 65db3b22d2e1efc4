CONSTANTS
  N = 4
  None = None
  Graphs <- MCGraphs
  Targets <- MCTargets
SPECIFICATION Spec
INVARIANTS TopologicalOrder SortCoversLive CycleExact SliceExact AncestorsExact IndInv
PROPERTY Terminates
