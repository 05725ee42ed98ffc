SPECIFICATION FairSpec
CONSTANTS
  Jobs = {tick, shot}
  Once = {shot}
  Period = 2
  MaxTime = 4
  MaxWorkers = 2
  MaxEdits = 2
  MaxUpdates = 1
INVARIANTS
  TypeOK
  NoReplay
  Coalesced
  ActiveWillRun
PROPERTIES
  EndedIsQuiet
  DueIsClaimed
CHECK_DEADLOCK FALSE
