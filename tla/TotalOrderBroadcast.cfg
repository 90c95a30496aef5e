SPECIFICATION Spec
CONSTANTS
  N = 3
  Value = {a, b}
  None = None
  MaxSlot = 3
  MaxRound = 4
  Crashable = {0, 1, 2}
INVARIANTS Agreement TotalOrder NoDuplication NoDecidedProposal
