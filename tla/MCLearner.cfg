SPECIFICATION FairSpec
CONSTANTS
  charges = charges
  refunds = refunds
  latest = latest
  oldest = oldest
  u = u
  uuid = uuid
  f = f
  g = g
  v = v
  w = w
  h = h
  tick = tick
  Id = Id
  None = None
  Placeholder <- MCPlaceholder
  Threshold = 1
  PinCount = 2
  Exchange <- MCExchange
  ClassOf <- MCClassOf
  ErrorClass = {"4xx", "5xx"}
  Volatile = {}
  MinSamples = 2
  ValueCap = 1
  Accepter = {h}
  Ticker = {tick}
  MaxObserved = 4
  MaxAccepts = 1
  MaxCrashes = 1
INVARIANTS
  MergesLoseNothing
  FindingsAreDrift
PROPERTIES
  AcceptReachesDisk
CHECK_DEADLOCK FALSE
