SPECIFICATION ListSpec
CONSTANTS
  PoolSize = 2
  Broken = broken
  HeardTypes = {"INTERNAL", "RESET", "SINGLE", "MULT", "MULT_LAST"}
INVARIANTS TypeOK PoolsWhole ReceivedIsOwned SendsWhatWasBuilt PointersAgree
