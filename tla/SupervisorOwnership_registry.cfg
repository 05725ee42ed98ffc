SPECIFICATION Spec
CONSTANTS
  Supervisors = {s1,s2,s3}
  Shutters = {t1}
  None = None
  MaxStalls = 2
  MaxCrashes = 1
  InodesReused = FALSE
SYMMETRY Symmetry
INVARIANTS
  TypeOK
  OneOwner
PROPERTY ShutdownHoldsOff
CHECK_DEADLOCK FALSE
