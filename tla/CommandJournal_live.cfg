SPECIFICATION FairSpec
CONSTANTS
  Commands = {c1}
  CompactAfter = 2
  MaxConnections = 3
  MaxCrashes = 2
  MaxTornWrites = 1
PROPERTY EveryRequestSettles
CHECK_DEADLOCK FALSE
