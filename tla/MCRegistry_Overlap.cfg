CONSTANTS
  Host = {h1}
  VM = {v1}
  NoHost = NoHost
  Capacities = {2}
  Policy = "BestFit"
  Call = {c1}
  HeartbeatTimeout = 1
  ForceRemoveAfter = 2
SPECIFICATION Spec
INVARIANTS AcceptedIsReady
