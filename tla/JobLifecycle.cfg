SPECIFICATION FairSpec
CONSTANTS
  j1 = j1
  Jobs = {j1}
  Kinds = {"plain", "watched", "ephemeral"}
  CleanModes = {"one", "days"}
  SlowExits = FALSE
  Viewed = FALSE
  Faults = {"write", "replace", "assign", "terminate", "stall"}
INVARIANTS
  RunningIsReachable
  RecordMatchesMemory
  RunningRecordHasWaiter
  StatusTellsTruth
PROPERTIES
  OutcomeIsFinal
  PlainJobsAreNotAutoKilled
  KilledIsReleased
  UnwatchedJobsEnd
  DroppedIsWiped
  StopCompletes
  LedgerIsKept
