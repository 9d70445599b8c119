SPECIFICATION FairSpec
CONSTANTS
  p1 = p1
  p2 = p2
  r1 = r1
  r2 = r2
  Procs = {p1, p2}
  Redises = {r1, r2}
  Topologies <- SharedOrOwn
  Ops = {"validate", "rotate", "advance", "revoke", "byHash", "bulk"}
  TTL = 2
  MaxVersion = 2
  MaxFaults = 2
INVARIANTS
  NoReactivation
  StaleBound
PROPERTIES
  FenceLifts
