SPECIFICATION Spec
CONSTANTS
  Commands = {c1}
  CompactAfter = 3
  MaxConnections = 3
  MaxCrashes = 2
  MaxTornWrites = 1
INVARIANT AtMostOnce
CHECK_DEADLOCK FALSE
