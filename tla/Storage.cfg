SPECIFICATION StorageSpec
CONSTANTS
  SyncModes = {"sync", "batch", "none"}
  MaxSeq = 5
  MaxFileSize = 3
  SyncEvery = 2
  MaxCrashes = 2
  Key = {k1, k2}
  Value = {a, b}
  Absent = Absent
  Puts = {a, b}
  TreeKeys = {1, 2, 3, 4, 5, 6}
  TreeValue = {x}
  MaxOps = 4
  MaxStops = 2
  MaxFileId = 4
  FileSizes = {1, 2}
  StopPoints = {"idle", "merging", "deleting"}
  MaxSegment = 4
  SegmentSize = 1
  CompactAt = 3
  MaxTable = 4
  FlushAt = 2
  MergeAt = 3
  MaxKeys = 2
  MaxPages = 9
  MaxTreeOps = 9
  StopInSplit = FALSE
  SKey = {1, 2, 3}
  BlockSize = 2
  MinThreshold = 2
  SizeThresholds <- MCThresholds
  L0Trigger = 2
  LevelBaseSize = 2
  Fanout = 2
  MaxLevels = 3
  MaxAdded = 4
  PartKey = {1, 2, 3, 4, 5, 6}
  PartValue = {x, y}
  MaxPartitionSize = 2
  MinPartitionSize = 2
  RingNode = {1, 2, 3}
  NoNode = NoNode
  VnodeCount = 2
  RingSize = 7
  ReplicationFactor = 2
  Pk = {d1, d2}
  Term = {1, 2}
  NoTerm = NoTerm
  NoDoc = NoDoc
  Part = {1, 2}
  MaxPending = 4
  BlockData = {x, empty}
  EmptyBlock = empty
  MaxLeaves = 4
SYMMETRY StorageSymmetry
VIEW StorageView
INVARIANTS AckedReplayed LogIntact StoresDurable TreeSound SortedStores LookupsExact
CHECK_DEADLOCK FALSE
