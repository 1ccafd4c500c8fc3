\* Two Puts at once and a third after either: eviction with something left to
\* evict, a result over the limit by itself, expiry, Close and restarts.
CONSTANTS
  Ids = {f1, f2, f3}
  NoId = NoId
  Writers = {w1, w2}
  Readers = {}
  Sizes = {1, 3}
  TTL = 1
  MaxBytes = 2
  MaxTime = 2
  Faults = FALSE
  Neighbours = FALSE
SYMMETRY Symmetry
SPECIFICATION Spec
INVARIANTS Accounting SizeBound
PROPERTIES NewestSurvives EvictionIsNeeded
