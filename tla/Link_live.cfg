SPECIFICATION LinkFairSpec
CONSTANTS
  Payload <- MCPayload
  Garbled = garbled
  NoData = nodata
  TimeOnAir = 2
  Timeouts <- MCTimeouts
  Loses = TRUE
  Breaks = TRUE
  ErrMod = 4
  PoolSize = 1
  SlaveTimeout = 7
  MaxLag = 0
PROPERTIES TransactionEnds
