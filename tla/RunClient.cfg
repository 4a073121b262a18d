SPECIFICATION FairRunSpec
CONSTANTS
  j1 = j1
  Jobs = {j1}
  Mine = j1
  Kinds = {"watched", "ephemeral"}
  CleanModes = {"one"}
  SlowExits = TRUE
  Viewed = FALSE
  Faults = {"assign"}
  Ledgers = {TRUE, FALSE}
  Lossy = TRUE
  Others = {"kill", "clean", "stop", "crash"}
INVARIANTS
  ExitCodeOfQuietRun
  CleanAfterStreamLeavesNothing
PROPERTIES
  JobEndsWithClient
  CommandReturns
CHECK_DEADLOCK FALSE
