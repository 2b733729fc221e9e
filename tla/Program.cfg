SPECIFICATION Spec
CONSTANTS
  Pages = {"t1", "t2"}
  Hosts = {"a", "b"}
  Flows = {1}
  Patterns = {"*", "a*"}
  Matches <- MCMatches
  Names = {"n1", "n2"}
  Ports = {8080, 9090}
  Domains = {"d"}
  Addresses = {"i1", "i2"}
  ConfigFile <- MCConfigFile
  MaxEdits = 7
INVARIANTS
  SessionsAreSaved
  LeavesVerify
  OverridesInForce
PROPERTIES
  ScopeShrinksByRule
  RemovalNamesItsRow
CHECK_DEADLOCK FALSE
