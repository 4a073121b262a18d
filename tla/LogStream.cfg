SPECIFICATION FairSpec
CONSTANTS
  v1 = v1
  v2 = v2
  Viewers = {v1, v2}
  Watchdogs = {v1}
  Chunks = 3
  Cap = 1
  Whole = 1
  Recent = 1
INVARIANTS
  NoSendOnClosed
  InOrder
  NothingElseIsLost
PROPERTIES
  ViewersDoNotHoldTheJob
  StreamsEnd
  WatchdogLossIsNoticed
CHECK_DEADLOCK FALSE
