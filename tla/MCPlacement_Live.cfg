CONSTANTS
  r1 = r1 r2 = r2 r3 = r3 v1 = v1 v2 = v2 v3 = v3
  Host = {h1}
  VM = {v1, v2}
  NoHost = NoHost
  NoReq = NoReq
  Capacities = {2}
  Policy = "BestFit"
  Req = {r1, r2}
  IDs <- OwnOrShared
  QueueDepth = 1
  Booter = TRUE
  MayStop = TRUE
  FleetChanges = FALSE
  MaxCallers = 1
  MaxReleases = 1
SPECIFICATION FairSpec
INVARIANTS InOnePlace FailedHoldsNoSlot PlacedHoldsItsSlot OneHolderPerID
PROPERTIES EveryAdmitReturns StopReturns
CHECK_DEADLOCK FALSE
