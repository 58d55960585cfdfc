\* One cycle of two objects whose keys overlap, over all orders of the hash.
SPECIFICATION Spec
CONSTANTS
  k1 = k1
  k2 = k2
  k3 = k3
  k4 = k4
  k5 = k5
  Keys = {k1, k2, k3, k4, k5}
  LineSz = 2
  NumObjs = 2
  LongAlone = TRUE
SYMMETRY KeySymmetry
INVARIANT LogExact
CHECK_DEADLOCK FALSE
