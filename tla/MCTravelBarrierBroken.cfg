SPECIFICATION SystemSpec
CONSTANTS
  Players = {h, c1}
  Host = h
  MaxEpoch = 1
  MaxRequests = 1
  MayRequest = {h}
  MayFail = {}
  MayLeave = {}
  MayStall = FALSE
  MaxJoins = 0
  MaxRaw = 0
  BufferLimit = 1
CHECK_DEADLOCK FALSE
INVARIANTS
  EveryoneHasLoaded
