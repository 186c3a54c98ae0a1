SPECIFICATION Spec
CONSTANTS
  c1 = c1
  c2 = c2
  admin = admin
  name = name
  amount = amount
  ik = ik
  ik2 = ik2
  admin2 = admin2
  None = None
  Client = {c1, c2}
  Admin = {admin}
  Field = {amount}
  IdemKey = {ik}
  SeedKey = {2}
  MaxResources = 1
  MaxRetries = 1
  MaxIdem = 1
  MaxSeq = 3
  Target = {2}
  MaxVersion = 1
  MaxClears = 1
SYMMETRY MCSymmetry
INVARIANTS
  FreshNumbers
  QuotaOvershoot
PROPERTIES
  KeyCreatesOnce
  NoLostUpdate
\* the model's counters have an end
CHECK_DEADLOCK FALSE
