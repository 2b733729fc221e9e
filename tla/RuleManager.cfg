SPECIFICATION Spec
CONSTANTS
  o1 = o1
  o2 = o2
  o3 = o3
  c1 = c1
  p1 = p1
  p2 = p2
  Objs <- MCObjs
  Prios <- MCPrios
  Contexts <- MCContexts
  Verdicts <- AllVerdicts
  Pages <- OnePage
SYMMETRY Symmetry
INVARIANTS
  HighestFires
  OnePerId
PROPERTIES
  DeletedStaysDeleted
  TiesKeepOrder
