SPECIFICATION FairSpec
CONSTANTS
  r1 = r1
  r2 = r2
  Requests <- MCRequests
  Endless = {r2}
  Script = TRUE
  ModSets <- MCModSets
INVARIANTS
  DropLeavesNoTrace
  BlockHolds
  BodySentIsRecorded
  ServedIsRecorded
PROPERTIES
  SentIsAnswered
  DecidedLeaves
