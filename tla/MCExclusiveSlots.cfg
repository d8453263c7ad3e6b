SPECIFICATION Spec
CONSTANTS
  Calls = {c1, c2, c3}
  Mortal = {c1}
  Instances = {i1, i2}
  Timeout = 1
  NoOne = NoOne
SYMMETRY Symmetry
CHECK_DEADLOCK TRUE
INVARIANTS
  Exclusion
  BoundIsPerCallAhead
  NoLostWake
PROPERTIES
  NoOvertaking
  ImplementsAdmission
