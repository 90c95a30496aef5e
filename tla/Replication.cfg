SPECIFICATION ReplicationSpec
CONSTANTS
  N = 3
  W = 2
  R = 2
  Value = {a, b}
  None = None
  Sloppy = TRUE
  MaxVersion = 3
  Follower = {1, 2}
  LKey = {k1, k2}
  LValue = {a}
  NoValue = NoValue
  Modes = {"async", "semi_sync"}
  Retention = 1
  MaxLsn = 3
  Leaders = {1, 2, 3}
  MValue = {a}
  NoEntry = NoEntry
  MaxMWrites = 3
  Repl = {1, 2, 3}
  RRQuorums <- MCQuorums
  Absent = Absent
  MaxRRPuts = 4
  HNode = {1, 2, 3, 4}
  Preferred = {2, 3}
  HWriteQuorum = 2
  HintTtl = 2
  MaxHVersion = 3
  MaxHTime = 3
  Rep = {1, 2, 3}
  Elem = {x}
  MaxUpdates = 3
  MaxStamp = 2
  VNode = {1, 2, 3}
  VKey = {k1, k2}
  MaxVersions = 3
  GNode = {1, 2, 3}
  TSuspect = 1
  TDead = 2
  TCleanup = 3
  Unknown = Unknown
  MaxRounds = 8
VIEW ReplicationView
INVARIANTS AckedSurvives QuorumStores ReplicasFollow MergesConverge FailuresDetected
PROPERTIES MonotonicReads
CHECK_DEADLOCK FALSE
