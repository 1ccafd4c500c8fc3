\* Two files are enough for one to be evicted while it is read; every operation
\* on the file system may fail, and another instance sweeps the directory.
CONSTANTS
  Ids = {f1, f2}
  NoId = NoId
  Writers = {w1, w2}
  Readers = {r1}
  Sizes = {2}
  TTL = 1
  MaxBytes = 2
  MaxTime = 3
  Faults = TRUE
  Neighbours = TRUE
SYMMETRY Symmetry
SPECIFICATION Spec
INVARIANTS TypeOK RegisteredIsComplete NoLeak
PROPERTIES ImplementsStore
