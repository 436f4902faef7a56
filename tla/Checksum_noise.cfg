SPECIFICATION SumSpec
CONSTANTS
  Bits = 152
  RAND_MAX = 2147483647
  Draws <- MCDraws
  LateDraws <- MCLateDraws
  MaxFlips = 4
  PackLen = 19
  Messages <- MCMessages
INVARIANTS TwoFlipsDiffer FlipsNeverCancel FlipsNoticed OddNoticed LoopDivides
