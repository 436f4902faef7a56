SPECIFICATION Spec
CONSTANTS
  PoolSize = 2
  Broken = broken
  HeardTypes = {"SINGLE"}
  TimerInterval = 2
  Stalls = TRUE
INVARIANTS CommitsToEmptyQueue
