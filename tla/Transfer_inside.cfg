SPECIFICATION Spec
CONSTANTS
  f1 = f1
  Files = {f1}
  Dirs = {}
  Modes = {"upload"}
  Pools = {1}
  Before = {"absent"}
  Existing = {TRUE}
INVARIANT
  LandsInside
CHECK_DEADLOCK FALSE
