SPECIFICATION UpdatesSpec
CONSTANTS
  c1 = c1
  c2 = c2
  m1 = m1
  m2 = m2
  m3 = m3
  Channels = {c1, c2}
  Models = {m1, m2, m3}
  Base <- TwoChannelBase
  Sources <- TwoSources
  Targets <- TwoTargets
  Patterns <- TwoPatterns
  Offers <- ThreeOffers
  AutoSync = {c1}
  Jobs = {"apply", "all", "detect", "task"}
  MaxJobs = 2
  MaxEvents = 1
INVARIANTS
  UpdatesAreSound
CHECK_DEADLOCK FALSE
