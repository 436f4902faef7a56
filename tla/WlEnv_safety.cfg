SPECIFICATION Spec
CONSTANTS
  Payload = {p1}
  Garbled = garbled
  NoData = nodata
  TimeOnAir = 1
  Timeouts = {0, 2}
  Loses = FALSE
  Breaks = TRUE
  ErrMod = 1
INVARIANTS TypeOK BlockingSendDone AvailableStays OverwriteCounted
PROPERTIES ImplementsRadio
