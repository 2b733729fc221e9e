SPECIFICATION TerminalSpec
CONSTANTS
  f1 = f1
  f2 = f2
  Flows <- MCFlows
  Colors <- MCColors
  Files <- MCFiles
  Pages = {"cui"}
  screen = "cui"
  HasDb = TRUE
  QueueCap = 1
  PageLimit = 1
  MaxBacklog = 2
  MaxSessions = 2
INVARIANTS
  IndexCoversTable
  SearchIsExact
  TerminalShowsListed
PROPERTY ResponseIsSaved
CHECK_DEADLOCK FALSE
