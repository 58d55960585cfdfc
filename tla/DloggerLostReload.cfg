\* The comment that handlers are only on during the sleep call.
SPECIFICATION Spec
CONSTANTS
  m1 = m1
  Mods = {m1}
  PipeCap = 1
  BufSize = 1
  MaxEdits = 1
  OptS = FALSE
INVARIANT NoLostReload
CHECK_DEADLOCK FALSE
