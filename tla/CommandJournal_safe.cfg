SPECIFICATION Spec
CONSTANTS
  Commands = {c1, c2}
  CompactAfter = 3
  MaxConnections = 2
  MaxCrashes = 2
  MaxTornWrites = 0
SYMMETRY Symmetry
INVARIANTS
  TypeOK
  AtMostOnce
  FileMatchesMemory
  DispatchedIsRemembered
  JournalInv
PROPERTY KeepsContract
CHECK_DEADLOCK FALSE
