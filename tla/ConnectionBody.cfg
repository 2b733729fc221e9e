SPECIFICATION Spec
CONSTANTS
  Plans <- MCPosts
  MaxRequests = 3
  MaxFrames = 2
INVARIANT KeepAliveHolds
CHECK_DEADLOCK FALSE
