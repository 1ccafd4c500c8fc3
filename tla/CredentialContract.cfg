CONSTANTS
  Callers = {c1, c2, c3}
  MaxGen = 3
SPECIFICATION Spec
INVARIANTS RefusedIsGone
PROPERTIES RetryIsFresh
