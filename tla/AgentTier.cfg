\* ESCALATION_POOL has three candidates; the second one's key is missing.
CONSTANTS
  Size = 3
  Usable = {1, 3}
  RecursionLimit = 10
  MaxChunks = 2
SPECIFICATION Spec
INVARIANTS
  TypeOK
  RunInv
  CallsAreBounded
PROPERTIES
  KeepsTierContract
  TierEnds
CHECK_DEADLOCK FALSE
