SPECIFICATION Spec
CONSTANTS
  Calls = {1, 2}
  Requests <- MCRequests
  Texts <- MCTexts
  Hosts = {"g"}
  Endless <- MCEndless
  Payloads <- MCPayloads
INVARIANTS
  RepliesInOrder
  StepsUseLatestValue
PROPERTY
  CallsReturn
