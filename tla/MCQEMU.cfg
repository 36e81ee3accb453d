SPECIFICATION FairSpec
CONSTANTS
  c3 = c3
  v1 = v1
  v3 = v3
  Call = {c1, c2}
  NoCall = NoCall
  VM = {v1}
  ID <- SharedID
  HasTTL = {c1}
  Slots = 2
  ExpiredPerSlot = 1
INVARIANT NoStrayGuest
PROPERTIES ImplementsFake CloseEnds CloseKillsAll
CHECK_DEADLOCK FALSE
