SPECIFICATION FairSpec
CONSTANTS
  Tasks = {t1, t2}
  Conv = {k1, k2}
  Own = {}
  Main = Main
  None = None
  Rungs = {"reclaim"}
PROPERTIES
  CallReturns
  HoldsReturned
CHECK_DEADLOCK FALSE
