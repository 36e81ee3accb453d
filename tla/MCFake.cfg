SPECIFICATION FairSpec
CONSTANTS
  c3 = c3
  c4 = c4
  v1 = v1
  v2 = v2
  v3 = v3
  Call = {c1, c2, c3, c4}
  NoCall = NoCall
  VM = {v1, v2, v3}
  ID <- SharedID
  HasTTL = {c1, c2, c3}
  Slots = 2
  ExpiredPerSlot = 1
INVARIANTS WaitGroupExact NoSendOnClosed SlotsRespected
PROPERTY CloseEnds
CHECK_DEADLOCK FALSE
