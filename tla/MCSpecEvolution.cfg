SPECIFICATION Spec
CONSTANTS
  Volatile = {"id"}
  Versions <- MCVersions
  Recordings <- MCRecordings
  Admissions <- MCAdmissions
  Values <- MCValues
INVARIANTS
  QuietMeansCompatible
  UpdateTakesHold
  SandboxHonoursSpec
