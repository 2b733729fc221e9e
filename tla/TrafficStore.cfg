CONSTANTS
  f1 = f1
  f2 = f2
  f3 = f3
  p1 = p1
  Flows <- TwoFlows
  Colors <- MCColors
  Pages <- OnePage
  HasDb = TRUE
  QueueCap = 1
  PageLimit = 1
  MaxBacklog = 1
  MaxSessions = 2
SPECIFICATION Spec
CHECK_DEADLOCK FALSE
SYMMETRY Symmetry
INVARIANTS ListedIsIndexed DiskCatchesUp OldestSavedFirst PageIsCurrent
