SPECIFICATION Spec
CONSTANTS
  Clients = {c1}
  MaxEvents = 3
  MaxDisconnects = 0
  HighWater = 2
INVARIANT CatchupIsFresh
CHECK_DEADLOCK FALSE
