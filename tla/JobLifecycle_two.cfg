SPECIFICATION Spec
CONSTANTS
  j1 = j1
  j2 = j2
  Jobs = {j1, j2}
  Kinds = {"plain"}
  CleanModes = {"one", "days"}
  SlowExits = FALSE
  Viewed = TRUE
  Faults = {"write"}
SYMMETRY JobSymmetry
INVARIANT RunningKeepsRecord
