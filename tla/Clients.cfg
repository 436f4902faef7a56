SPECIFICATION ClientsFairSpec
CONSTANTS
  Payload <- MCPayload
  Original = original
  Mended = mended
  Blank = blank
  Garbled = garbled
  NoData = nodata
  TimeOnAir = 2
  Timeouts <- MCTimeouts
  Loses = TRUE
  Breaks = TRUE
  ErrMod = 16
  Rounds = 2
  MaxLag = 1
INVARIANTS ClientsTypeOK OneBall RallyErrorFree SendsWhatCame GivesUpForAReason ScriptPasses
PROPERTIES TestsEnd
