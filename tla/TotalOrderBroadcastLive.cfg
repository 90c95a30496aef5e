SPECIFICATION FairSpec
CONSTANTS
  N = 3
  Value = {a, b}
  None = None
  MaxSlot = 3
  MaxRound = 4
  Crashable = {}
PROPERTIES EventuallyDelivered
