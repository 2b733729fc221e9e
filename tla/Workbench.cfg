SPECIFICATION Spec
CONSTANTS
  Pages = {"t1", "t2"}
  Targets = {"k1"}
  MaxInjections = 2
  Entries = {"e1"}
  Tools = {"resender"}
  Texts = {"https://a"}
  MaxCards = 2
  MaxSends = 2
  MaxClicks = 5
INVARIANTS
  LiveIsListed
  ResultIsOfItsCard
CHECK_DEADLOCK FALSE
