SPECIFICATION MCSpec
CONSTANTS
  w1 = w1
  None = None
  Workers = {w1}
  MaxHeight = 2
  UseConsensusFollower = TRUE
INVARIANTS
  CleanShutdown
  EachHeightOnce
  PrefetchComplete
PROPERTIES
  Terminates
  Prefetched
CHECK_DEADLOCK FALSE
