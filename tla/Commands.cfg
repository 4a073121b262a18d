SPECIFICATION CommandSpec
CONSTANTS
  Entries = {1, 2, 3}
  Paths = {"a", "b"}
  Blobs <- SmallBlobs
  Large = 2
  MaxFiles = 2
  MaxSize = 6
  MaxLines = 2
  Buffer = 2
  SmallFile = 1
  Chunk = 2
  Threshold = 3
  DefaultTail = 1
  Limit = 4
  Names = {"m", "n"}
  Writers = {1, 2}
  Nodes = {"m", "n", "o"}
  Machines = {"x", "y"}
INVARIANTS
  RmOkMeansGone
  CountIsHonest
  DiffTellsTruth
  HashedBytesAddUp
  SliceIsExact
  HistoryIsExact
  LedgerKeepsEntries
  SearchTellsTruth
CHECK_DEADLOCK FALSE
