CONSTANTS
  N = 5
  i1 = i1
  i2 = i2
  Input = {i1, i2}
  None = None
  NoRet <- MCNoRet
  Unknown = {}
  Programs <- MCPrograms
  Policies <- MCPolicies
SPECIFICATION Spec
INVARIANTS WitnessReal UntestedFlagged
PROPERTY Decides
