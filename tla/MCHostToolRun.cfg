SPECIFICATION FairSpec
CONSTANTS
  Calls = {c1, c2}
  UserCalls = {c1, c2}
  None = None
  MaxCalls = 2
  MaxFiles = 2
  MaxTotal = 5
  MaxPerFile = 4
  Framing = 1
  Sizes = {1, 2, 4}
INVARIANTS
  LedgerExact
  OneIdentity
PROPERTIES
  NothingAfterClose
  CallersLeave
CHECK_DEADLOCK FALSE
