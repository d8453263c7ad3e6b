SPECIFICATION StoresSpec
CONSTANTS
  Paths = {p1, p2}
  Reads = {r1, r2}
  MaxChanges = 2
  Tainted = {2}
  None = None
  Requests = {q1, q2}
  Sessions = {s1, s2}
  Replicas = {h1}
  MaxCached = 1
  NoSession = NoSession
  NoState = NoState
  Unreadable = Unreadable
  Nobody = Nobody
SYMMETRY Symmetry
INVARIANTS
  InputsCoexisted
  OnlyInputsRefuse
  NoForeignDecisions
PROPERTIES
  TrustedIsNotRecorded
  SavesFollowOn
CHECK_DEADLOCK FALSE
