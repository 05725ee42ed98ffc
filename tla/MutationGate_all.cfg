SPECIFICATION FairSpec
CONSTANTS
  Mutations = {m1}
  Aborts = {a1}
  Restarts = {r1,r2}
  Sweeps = {s1}
  Detaches = {d1}
INVARIANTS
  TypeOK
  OneFence
  NoLostWakeup
  RestartCapturesAlone
  NoEvictionDuringRestart
PROPERTY EveryoneEnds
CHECK_DEADLOCK FALSE
