SPECIFICATION Spec
CONSTANTS
  r1 = r1
  r2 = r2
  Requests <- MCRequests
  Endless = {}
  Script = FALSE
  ModSets <- MCModSets
SYMMETRY Symmetry
INVARIANT ActionsHold
