SPECIFICATION MCReporterSpec
CONSTANTS
  f1 = f1
  f2 = f2
  f3 = f3
  recorder = recorder
  watcher = watcher
  NoFp = NoFp
  Fp = {f1, f2, f3}
  Windowed = {f1, f2}
  Muted = {f2}
  Emitter = {recorder, watcher}
  Acker = {watcher}
  Ticker = {watcher}
  MinOccurrences = 2
  MaxTracked = 2
  MaxPerHour = 1
  QueueCap = 1
  MaxStarts = 1
  DiskMayFail = FALSE
  MaxCalls = 4
INVARIANTS
  CloseDeliversAll
  LatchedIsLogged
  OneAlertEach
PROPERTIES
  LiveWindowKept
  AlerterGoesOn
\* nobody has to report, and a closed alerter with idle reporters stops
CHECK_DEADLOCK FALSE
