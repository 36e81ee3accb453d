CONSTANTS
  HostID = {h1, h2, h3, h4}
  NoHost = NoHost
SPECIFICATION Spec
INVARIANT IndexMatchesIds
PROPERTY ImplementsIdSet
