SPECIFICATION RunSpec
CONSTANTS
  j1 = j1
  Jobs = {j1}
  Mine = j1
  Kinds = {"watched"}
  CleanModes = {"one"}
  SlowExits = FALSE
  Viewed = FALSE
  Faults = {}
  Ledgers = {TRUE}
  Lossy = FALSE
  Others = {"kill"}
INVARIANT
  ExitCodeAligned
CHECK_DEADLOCK FALSE
