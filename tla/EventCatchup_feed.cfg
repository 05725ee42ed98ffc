SPECIFICATION FairSpec
CONSTANTS
  Clients = {c1}
  MaxEvents = 3
  MaxDisconnects = 1
  HighWater = 2
INVARIANTS
  TypeOK
  NoSilentGap
PROPERTIES
  ImplementsFeed
  CatchesUp
CHECK_DEADLOCK FALSE
