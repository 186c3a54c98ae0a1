SPECIFICATION LogSpec
CONSTANTS
  NoTime = NoTime
  TTL = 2
  MaxLogBytes = 4
  Weights = {1, 2}
  MaxLag = 1
  Lazy = TRUE
  DiskMayFail = TRUE
  MaxRecords = 4
  MaxNow = 5
  MaxStarts = 1
INVARIANTS
  NewestSurvive
  NothingOverstays
PROPERTIES
  KeptForTTL
\* the model's clock and counters have an end
CHECK_DEADLOCK FALSE
