CONSTANTS
  Host = {h1, h2, h3}
  VM = {v1, v2, v3, v4}
  NoHost = NoHost
  Capacities = {1, 2, 3}
  Policy = "BestFit"
SPECIFICATION Spec
SYMMETRY Symmetry
INVARIANTS SlotAccounting BucketsExact NoCapacityIsTrue UsedIsInflight
PROPERTIES PlacementsFollowPolicy ImplementsSlotPool
