\* Two callers and three sessions: one caller can complain about the first
\* session when the second is on hand, or already dead, or the third obtained.
\* Fairness is assumed, so there is no symmetry.
CONSTANTS
  Callers = {c1, c2}
  NoCaller = NoCaller
  Attempts = 2
  NegTTL = 2
  Headers <- MCHeaders
  MaxSessions = 3
  MaxTime = 3
SPECIFICATION FairSpec
INVARIANTS TypeOK SingleLogin NoLoginUnderBan OnlyRefusedDropped
PROPERTIES ImplementsContract KeepsAnswering CallsReturn
