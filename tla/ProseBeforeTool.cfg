\* ESCALATION_POOL has three candidates; the second one's key is missing.
CONSTANTS
  Size = 3
  Usable = {1, 3}
  RecursionLimit = 10
  MaxChunks = 1
SPECIFICATION Spec
INVARIANT OnlyFinalTurn
CHECK_DEADLOCK FALSE
