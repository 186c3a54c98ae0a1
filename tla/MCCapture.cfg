SPECIFICATION HandlerSpec
CONSTANTS
  e1 = e1
  e2 = e2
  e3 = e3
  e4 = e4
  Inbound <- MCInbound
  Size <- MCSize
  Exchange = {e1, e2, e3, e4}
  Depth = 2
  MaxBytes = 4
  MaxInFlight = 2
INVARIANTS
  BudgetKept
  NoSendAfterClose
  EveryCaptureCounted
PROPERTIES
  ImplementsLossyQueue
  HandOverGoesOn
\* every exchange is served once: the system stops when all are done
CHECK_DEADLOCK FALSE
