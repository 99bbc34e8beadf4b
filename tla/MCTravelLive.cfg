SPECIFICATION FairSpec
CONSTANTS
  Players = {h, c1, c2}
  Host = h
  MaxEpoch = 2
  MaxRequests = 2
  MayRequest = {h}
  MayFail = {h, c1}
  MayLeave = {}
  MayStall = FALSE
  MaxJoins = 0
  MaxRaw = 0
  BufferLimit = 1
CHECK_DEADLOCK FALSE
PROPERTIES
  TravelFinishes
  SuppressionReturns
