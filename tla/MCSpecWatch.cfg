SPECIFICATION FairWatchSpec
CONSTANTS
  k1 = k1
  k2 = k2
  u1 = u1
  v1 = v1
  v2 = v2
  bad = bad
  None = None
  Checker = {k1, k2}
  Sources <- MCSources
  Doc = {v1, v2, bad}
  Broken = {bad}
  Additive <- MCAdditive
  JournalCap = 1
  MaxPublish = 2
  MaxResets = 1
  MaxCrashes = 1
  MaxFaults = 1
INVARIANTS
  KnownIsReported
PROPERTIES
  ChangeIsReported
  ResetTakesHold
CHECK_DEADLOCK FALSE
