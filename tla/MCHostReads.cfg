SPECIFICATION StoresSpec
CONSTANTS
  Paths = {p1, p2}
  Reads = {r1, r2, r3}
  MaxChanges = 0
  Tainted = {}
  None = None
  Requests = {}
  Sessions = {}
  Replicas = {}
  MaxCached = 1
  NoSession = NoSession
  NoState = NoState
  Unreadable = Unreadable
  Nobody = Nobody
INVARIANTS
  OnlyMutationsRefuse
CHECK_DEADLOCK FALSE
