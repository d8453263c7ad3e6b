SPECIFICATION Spec
CONSTANTS
  Tasks = {t1, t2}
  Conv = {k1}
  Own = {o1}
  Main = Main
  None = None
  Rungs = {"reclaim", "whole"}
SYMMETRY Symmetry
INVARIANTS
  SoleOrWholeHeldUntilClean
  NothingLeft
CHECK_DEADLOCK FALSE
