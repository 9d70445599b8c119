SPECIFICATION FairClientSpec
CONSTANTS
    tabA = tabA
    tabB = tabB
    Tabs = {tabA, tabB}
    Uses <- CheckedUses
    Sids = {s1, s2}
    None = None
    RaceTries = 1
    MaxClientFaults = 1
INVARIANTS
    NotBackAfterSignOut
    ReuseNeedsLoss
PROPERTIES TabsConverge
CHECK_DEADLOCK FALSE
