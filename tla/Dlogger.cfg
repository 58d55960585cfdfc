\* The daemon: safety and liveness over all interleavings of signals, reloads and deaths.
SPECIFICATION FairSpec
CONSTANTS
  m1 = m1
  m2 = m2
  Mods = {m1, m2}
  PipeCap = 2
  BufSize = 2
  MaxEdits = 1
  OptS = FALSE
INVARIANT ConfigFollowed
INVARIANT ReloadHonoured
PROPERTY TimerSafe
PROPERTY ImplementsDaemon
PROPERTY ReloadHappens
PROPERTY DaemonEnds
PROPERTY KeepsCollecting
CHECK_DEADLOCK FALSE
