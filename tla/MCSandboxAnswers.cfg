SPECIFICATION FairSpec
CONSTANTS
  c1 = c1
  c2 = c2
  admin = admin
  name = name
  amount = amount
  ik = ik
  ik2 = ik2
  admin2 = admin2
  None = None
  Client = {c1}
  Admin = {admin, admin2}
  Field = {amount}
  IdemKey = {ik, ik2}
  SeedKey = {2}
  MaxResources = 1
  MaxRetries = 1
  MaxIdem = 1
  MaxSeq = 2
  Target = {2}
  MaxVersion = 0
  MaxClears = 1
PROPERTIES
  EverythingAnswers
\* the model's counters have an end
CHECK_DEADLOCK FALSE
