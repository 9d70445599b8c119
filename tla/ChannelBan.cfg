SPECIFICATION FairSpec
CONSTANTS
  n1 = n1
  n2 = n2
  Nodes = {n1, n2}
  Uses <- CheckedUses
  Threshold = 2
  Window = 1
  MaxTime = 2
  MaxCalls = 2
INVARIANTS
  FailuresAreCounted
PROPERTIES
  BanIsServed
  BanEnds
CHECK_DEADLOCK FALSE
