SPECIFICATION Spec
CONSTANTS
  c1 = c1
  c2 = c2
  k1 = k1
  k2 = k2
  Conns <- MCConns
  Callbacks <- MCCallbacks
  MayFail = TRUE
INVARIANTS
  SleeperIsWatched
PROPERTIES
  EveryConnectionAccepted
CHECK_DEADLOCK FALSE
