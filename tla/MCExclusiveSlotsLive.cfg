SPECIFICATION FairSpec
CONSTANTS
  Calls = {c1, c2, c3}
  Mortal = {}
  Instances = {i1}
  Timeout = 1
  NoOne = NoOne
PROPERTIES
  Reopens
  ExclusiveIsServed
