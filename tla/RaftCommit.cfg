SPECIFICATION Spec
CONSTANTS
  N = 3
  Command = {c}
  MaxTerm = 3
  MaxLen = 1
INVARIANTS
  LeaderCompleteness
CHECK_DEADLOCK FALSE
