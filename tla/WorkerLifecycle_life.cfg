SPECIFICATION FairSpec
CONSTANTS
  MaxPids = 3
  MaxFaults = 3
  MaxRestarts = 2
  MaxCommands = 2
  Tries = 2
  MaxRounds = 1
  SlowCancel = FALSE
INVARIANTS
  TypeOK
  OneProcess
  KnownProcess
PROPERTY TimedOutStopEnds
CHECK_DEADLOCK FALSE
