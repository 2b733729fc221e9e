SPECIFICATION FairSpec
CONSTANTS
  Plans <- MCPlans
  MaxRequests = 3
  MaxFrames = 2
INVARIANTS
  InStep
PROPERTIES
  MadeIsAsked
  FrameArrives
  ConnectionEnds
CHECK_DEADLOCK FALSE
