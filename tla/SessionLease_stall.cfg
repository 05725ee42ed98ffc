SPECIFICATION Spec
CONSTANTS
  Processes = {p1, p2, p3}
  Stalls = TRUE
  Races = FALSE
  MaxCrashes = 1
INVARIANT SingleWriter
CHECK_DEADLOCK FALSE
