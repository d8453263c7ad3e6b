SPECIFICATION FairSpec
CONSTANTS
  c1 = c1
  c2 = c2
  Calls = {c1, c2}
  NumResources = 2
  Uses <- MCUses
  Nobody = Nobody
  Sids = {s1}
  Ids = {1, 2}
  SessionLimit = 1
INVARIANTS
  OneOwner
  RetirementIsFinal
  IdHeldUntilSettled
PROPERTIES
  EverythingDrains
CHECK_DEADLOCK FALSE
