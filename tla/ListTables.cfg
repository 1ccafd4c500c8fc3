\* Two callers: one overtakes the other between its snapshot and the write lock,
\* or between Metabase's answer and Set.  Two keys, since the lock is for all.
\* The clock passes two lifetimes.
CONSTANTS
  Callers = {c1, c2}
  Keys = {k1, k2}
  NoKey = NoKey
  TTL = 2
  MaxFetch = 2
  MaxTime = 6
  Metadata <- MCMetadata
SPECIFICATION Spec
INVARIANTS TypeOK AnswersAreRecent JoinsSurvive
PROPERTIES FreshNeverDropped
