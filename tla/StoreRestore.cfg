CONSTANTS
  f1 = f1
  f2 = f2
  f3 = f3
  p1 = p1
  Flows <- TwoFlows
  Colors <- MCColors
  Pages = {}
  HasDb = TRUE
  QueueCap = 1
  PageLimit = 2
  MaxBacklog = 2
  MaxSessions = 2
SPECIFICATION Spec
CHECK_DEADLOCK FALSE
PROPERTY StartRestores
