SPECIFICATION FairSpec
CONSTANTS
  VM = {v1, v2}
  NoHost = NoHost
  slotsPerHost = 2
  MaxHosts = 6
  MaxDesired = 3
  MaxChanges = 3
PROPERTIES ScaleDownOrphansNothing DrainIsFinal DrainsTowardsDesired FleetConverges
CHECK_DEADLOCK FALSE
