SPECIFICATION FairSpec
CONSTANTS
  Host = {h1, h2}
  VM = {v1}
  NoHost = NoHost
  Policy = "BestFit"
  Slots = 2
  Notices = 1
  Asks <- AskTTLs
  Milli = 6
  Word = 64
  DefaultTTL = 6
  MaxTTL = 12
  maxBootAttempts = 2
  MaxFaults = 1
INVARIANTS RunningHoldsSlot SlotHasGuest PinnedAtMostMaxTTL
PROPERTIES LiveAgentServes SlotsComeBack
CHECK_DEADLOCK FALSE
