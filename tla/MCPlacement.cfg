CONSTANTS
  r1 = r1 r2 = r2 r3 = r3 v1 = v1 v2 = v2 v3 = v3
  Host = {h1}
  VM = {v1, v2, v3}
  NoHost = NoHost
  NoReq = NoReq
  Capacities = {2}
  Policy = "BestFit"
  Req = {r1, r2, r3}
  IDs <- Own
  QueueDepth = 2
  Booter = FALSE
  MayStop = FALSE
  FleetChanges = TRUE
  MaxCallers = 1
  MaxReleases = 1
SPECIFICATION Spec
SYMMETRY Symmetry
INVARIANTS FirstInFirstOut NoLostWakeup
CHECK_DEADLOCK FALSE
