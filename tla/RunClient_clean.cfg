SPECIFICATION RunSpec
CONSTANTS
  j1 = j1
  Jobs = {j1}
  Mine = j1
  Kinds = {"ephemeral"}
  CleanModes = {"one"}
  SlowExits = FALSE
  Viewed = FALSE
  Faults = {}
  Ledgers = {TRUE}
  Lossy = FALSE
  Others = {}
INVARIANT
  CleanLeavesNothing
CHECK_DEADLOCK FALSE
