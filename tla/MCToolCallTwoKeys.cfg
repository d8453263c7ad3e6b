SPECIFICATION Spec
CONSTANTS
  Tasks = {t1, t2}
  Conv = {k1, k2}
  Own = {}
  Main = Main
  None = None
  Rungs = {"reclaim"}
SYMMETRY Symmetry
INVARIANTS
  HeldUntilClean
CHECK_DEADLOCK FALSE
