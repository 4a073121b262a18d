SPECIFICATION MCSpec
CONSTANTS
  Jobs = {"a"}
  Ports = {"19000", "19001"}
  Versions <- SomeVersions
  MaxRounds = 2
INVARIANTS
  OutcomeOutlivesStarts
  BinarySurvives
  UpdateSparesKnownJobs
CHECK_DEADLOCK FALSE
