SPECIFICATION TransportSpec
CONSTANTS
  MaxCalls = 2
  MaxWindow = 2
  MaxNumber = 3
  Kids = {1, 2}
  Prog = Prog
  Other = Other
  Nobody = Nobody
INVARIANTS
  FrontierIsExact
  OnceAndInOrder
  SpentIsTold
  OnlyTheOvertakenAreSkipped
  UnnotedIsQuiet
PROPERTIES
  EveryRequestIsReached
  ReplacementIsSpared
CHECK_DEADLOCK FALSE
