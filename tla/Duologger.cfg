\* The two-level loop across reloads that change its ratio.
SPECIFICATION FairSpec
CONSTANTS
  Ratios = {0, 1, 3}
  PipeCap = 2
  MaxEdits = 1
  GivenI = FALSE
  OptI = 0
  OptS = FALSE
INVARIANT LoopExact
PROPERTY ImplementsDaemon
PROPERTY DaemonEnds
CHECK_DEADLOCK FALSE
