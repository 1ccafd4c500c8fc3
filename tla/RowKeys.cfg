CONSTANTS
  Texts = {}
  Limits = {2}
  Offsets = {0}
  RowLimits = {0}
  Columns <- MCColumns
  Total = 1
  DefaultRowLimit = 2
  MaxRowLimit = 3
  InlineMaxBytes = 1
  MaxInt = 7
SPECIFICATION Spec
CHECK_DEADLOCK FALSE
INVARIANT KeysAreUnique
