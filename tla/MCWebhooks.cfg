SPECIFICATION FairSpec
CONSTANTS
  r1 = r1
  r2 = r2
  m1 = m1
  k1 = k1
  paid = paid
  made = made
  charges = charges
  None = None
  Request = {r1}
  Emission = {m1}
  Clearer = {k1}
  CallOf <- MCCallOf
  EmitOf <- MCEmitOf
  Declared <- MCDeclared
  FaultKind = {"duplicate", "drop", "delay", "reorder"}
  FaultEvent = {made}
  MaxLog = 3
  QueueCap = 1
  MaxArmed = 2
INVARIANTS
  NothingIsLost
  LogInOrder
  SinkAccounting
  CloseIsSafe
PROPERTIES
  EverythingEnds
CHECK_DEADLOCK FALSE
