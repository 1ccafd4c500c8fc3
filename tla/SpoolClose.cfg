CONSTANTS
  Ids = {f1, f2}
  NoId = NoId
  Writers = {w1, w2}
  Readers = {}
  Sizes = {1}
  TTL = 1
  MaxBytes = 2
  MaxTime = 1
  Faults = FALSE
  Neighbours = FALSE
SPECIFICATION Spec
INVARIANTS CloseRemovesResults
