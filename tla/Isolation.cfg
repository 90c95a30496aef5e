SPECIFICATION IsolationSpec
CONSTANTS
  x = x
  y = y
  on = on
  Absent = Absent
  Key <- MCKey
  Value <- MCValue
  Predicate <- MCPredicate
  Constraint <- MCConstraint
  MaxTx = 3
  MaxSize = 2
  MKey = {z}
  MValue = {a, b}
  None = None
  MaxMTx = 4
  MaxLen = 3
  Deleter = {3}
SYMMETRY IsolationSymmetry
VIEW StatusView
INVARIANTS Serializable WritersExclude CommitsInOrder
PROPERTIES SnapshotStable ReadsStable ConstraintsKept
CHECK_DEADLOCK FALSE
