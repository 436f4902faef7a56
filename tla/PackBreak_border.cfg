SPECIFICATION Spec
CONSTANTS
  Bits = 152
  RAND_MAX = 2147483647
  Draws <- MCDraws
  LateDraws = {}
  MaxFlips = 1
INVARIANTS FlipsInPack
