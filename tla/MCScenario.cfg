SPECIFICATION Spec
CONSTANTS
  x = x
  p = p
  q = q
  k = k
  None = None
  Variable = {x}
  Menu <- MCMenu
  MaxSteps <- MCMaxSteps
  AppRequest <- MCAppRequest
  Delay = 2
  MaxJournal = 2
  MaxSent = 3
  MaxNow = 1
INVARIANTS
  EvidenceHonest
  ClocksDifferByTimeouts
  ValidatedResolves
  VerdictHonest
CHECK_DEADLOCK FALSE
