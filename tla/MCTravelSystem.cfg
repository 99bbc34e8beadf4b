SPECIFICATION SystemSpec
CONSTANTS
  Players = {h, c1}
  Host = h
  MaxEpoch = 2
  MaxRequests = 2
  MayRequest = {c1}
  MayFail = {h}
  MayLeave = {c1}
  MayStall = TRUE
  MaxJoins = 1
  MaxRaw = 2
  BufferLimit = 1
CHECK_DEADLOCK FALSE
INVARIANTS
  SystemTypeOK
  ResumeIsEarned
  KeepsHostOrder
  
