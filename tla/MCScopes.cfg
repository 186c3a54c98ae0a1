SPECIFICATION Spec
CONSTANTS
  c1 = c1
  c2 = c2
  a = a
  b = b
  ik = ik
  None = None
  NoScope = NoScope
  Client = {c1, c2}
  Scope = {a, b}
  IdemKey = {ik}
  Ask <- MCAsk
  Faults <- MCFaults
  Rules <- MCRules
  Recordings <- MCRecordings
  MaxScopes = 1
  MaxJournal = 2
  MaxKeys = 3
  MaxRequests = 3
  MaxResets = 1
INVARIANTS
  AnsweredAsIfAlone
  NothingLeftBehind
  JournalHonest
CHECK_DEADLOCK FALSE
