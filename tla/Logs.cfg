SPECIFICATION LogsSpec
CONSTANTS
  Shapes <- MCShapes
  PKey = {k1}
  NoKey = NoKey
  Consumer = {1, 2}
  None = None
  MaxRegroups = 3
  MaxRestarts = 1
  CKey = {k1, k2}
  CValue = {u, w}
  NoRow = NoRow
  Shown = {u}
  MaxSeq = 3
  Stream = {s1, s2}
  Polling = {polled}
  Live = {live}
  NoSnapshot = NoSnapshot
  SnapshotInterval = 2
  MaxEvents = 4
  MaxStops = 1
  UKey = {k1, k2}
  UValue = {u, w}
  NoRecord = NoRecord
  System = {d}
  MaxULsn = 3
  MaxReopens = 1
  JKey = {k1}
  Duration = 1
  Latenesses = {0, 2}
  WindowSize = 2
  MaxArrivals = 4
  MaxTs = 3
VIEW LogsView
INVARIANTS AtLeastOnce DerivedFromLog ProjectionsExact DerivedAsOf JoinExact
CHECK_DEADLOCK FALSE
