SPECIFICATION ListSpec
CONSTANTS
  PoolSize = 2
  Broken = broken
  HeardTypes = {"INTERNAL", "RESET", "SINGLE", "MULT", "MULT_LAST"}
  TimerInterval = 2
  Stalls = TRUE
\* A stalled master may end in a segmentation fault, and stops there.
CHECK_DEADLOCK FALSE
INVARIANTS TypeOK PoolsWhole ReceivedIsOwned ResendIsCurrent PointersAgree ResendClearLeavesEmpty
