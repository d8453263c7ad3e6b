SPECIFICATION RouterSpec
CONSTANTS
  Calls = {c1, c2}
  Instances = {i1, i2}
  Host = Host
  Whole = Whole
  Nothing = Nothing
  Gone = Gone
  Setups <- EverySetup
  Backends = {b1}
  Kinds = {k1}
  Ids = {d1}
  Every = Every
  Selectors <- EveryShape
  Workers = {w1, w2}
  Idle = Idle
SYMMETRY Symmetry
INVARIANTS
  NoInheritance
  ResidueIsOwed
  MarkedUntilGone
PROPERTIES
  RetiredMeansGone
  ServesNoResidue
