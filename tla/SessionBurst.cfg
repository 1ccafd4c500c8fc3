CONSTANTS
  Callers = {c1, c2}
  NoCaller = NoCaller
  Attempts = 2
  NegTTL = 2
  Headers <- MCHeaders
  MaxSessions = 1
  MaxTime = 1
SPECIFICATION BurstSpec
INVARIANT WaitersReadTheResult
