SPECIFICATION Spec
CONSTANTS
  Payload = {p1}
  Garbled = garbled
  NoData = nodata
  TimeOnAir = 2
  Timeouts = {2}
  Loses = TRUE
  Breaks = FALSE
  ErrMod = 2
INVARIANTS CollisionReported
