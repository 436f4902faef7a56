SPECIFICATION FairSpec
CONSTANTS
  Payload = {p1}
  Garbled = garbled
  NoData = nodata
  TimeOnAir = 1
  Timeouts = {2}
  Loses = TRUE
  Breaks = FALSE
  ErrMod = 1
PROPERTIES CallReturns
