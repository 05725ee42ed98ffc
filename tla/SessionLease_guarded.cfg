SPECIFICATION FairSpec
CONSTANTS
  Processes = {p1, p2, p3}
  Stalls = FALSE
  Races = FALSE
  MaxCrashes = 2
INVARIANTS
  TypeOK
  SingleWriter
  HeldLeaseOnDisk
  RoundsSuffice
  LeaseInv
PROPERTY CallsEnd
CHECK_DEADLOCK FALSE
