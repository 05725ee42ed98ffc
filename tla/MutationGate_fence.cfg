SPECIFICATION Spec
CONSTANTS
  Mutations = {m1}
  Aborts = {}
  Restarts = {}
  Sweeps = {s1}
  Detaches = {d1}
INVARIANT EvictionDecidesAlone
CHECK_DEADLOCK FALSE
