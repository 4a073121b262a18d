SPECIFICATION FairSpec
CONSTANTS
  f1 = f1
  f2 = f2
  Files = {f1, f2}
  Dirs = {"d1"}
  Modes = {"local", "download", "upload", "relay"}
  Pools = {1, 2}
  Before = {"old"}
  Existing = {TRUE}
INVARIANTS
  NoDamagedTarget
  RootCause
  TrackerAtRest
PROPERTIES
  CopyIsKept
  ReturnIsQuiet
  TransferEnds
  TempsAreRemoved
CHECK_DEADLOCK FALSE
