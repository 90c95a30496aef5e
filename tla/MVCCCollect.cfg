SPECIFICATION Spec
CONSTANTS
  Key = {x}
  Value = {a, b}
  None = None
  MaxTx = 3
  MaxLen = 4
  Deleter = {}
PROPERTIES CollectionInvisible
CHECK_DEADLOCK FALSE
