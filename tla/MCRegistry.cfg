CONSTANTS
  Host = {h1}
  VM = {v1}
  NoHost = NoHost
  Capacities = {1, 2}
  Policy = "WorstFit"
  Call = {c1, c2}
  HeartbeatTimeout = 1
  ForceRemoveAfter = 2
SPECIFICATION FairSpec
INVARIANTS TrackedIsReady UntrackedIsDraining
PROPERTIES GracePeriodGiven DeadHostsAreRemoved
