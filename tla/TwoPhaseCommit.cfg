SPECIFICATION Spec
CONSTANTS
  Participant = {p1, p2}
  Key = {k}
  MaxTx = 2
INVARIANTS
  Atomicity
  LocksInDoubt
PROPERTIES
  FirstIsAtomic
CHECK_DEADLOCK FALSE
