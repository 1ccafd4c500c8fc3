\* Two callers and a login with one refresh after it, rotated or not, lost or
\* not; fairness is assumed, so there is no symmetry.
CONSTANTS
  Callers = {c1, c2}
  NoCaller = NoCaller
  Headers <- MCHeaders
  MaxGrants = 2
SPECIFICATION FairSpec
INVARIANTS TypeOK InStep FileKeepsUp
PROPERTIES RefreshIsWarranted ImplementsContract KeepsAnswering CallsReturn
