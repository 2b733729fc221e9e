SPECIFICATION FairSpec
CHECK_DEADLOCK FALSE
CONSTANTS
  text = text
  binary = binary
  p1 = p1
  p2 = p2
  Requests <- MCRequests
  Pages <- MCPages
  QueueCap <- MCQueueCap
  Binary <- MCBinary
INVARIANTS
  PendingIsWaiting
  NoneStrandedWhenOff
  OwnContent
PROPERTIES
  ReturnedIsFinal
  DropStands
  ImplementsGate
  OffReleases
  NotificationShown
