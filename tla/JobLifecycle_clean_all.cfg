SPECIFICATION Spec
CONSTANTS
  j1 = j1
  Jobs = {j1}
  Kinds = {"plain"}
  CleanModes = {"all"}
  SlowExits = FALSE
  Viewed = FALSE
  Faults = {}
INVARIANTS
  RunningKeepsRecord
