SPECIFICATION FairLogSpec
CONSTANTS
  NoTime = NoTime
  TTL = 2
  MaxLogBytes = 8
  Weights = {1}
  MaxLag = 3
  Lazy = FALSE
  DiskMayFail = FALSE
  MaxRecords = 4
  MaxNow = 6
  MaxStarts = 2
PROPERTIES
  KeptAsDocumented
\* the model's clock and counters have an end
CHECK_DEADLOCK FALSE
