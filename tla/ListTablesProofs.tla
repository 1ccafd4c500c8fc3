-------------------------- MODULE ListTablesProofs --------------------------
(***************************************************************************)
(* What the metadata cache promises, for every number of callers and keys, *)
(* every TTL and every bound on a fetch; and that the joins of a database  *)
(* can be read off what list_tables gives out, for every database.         *)
(***************************************************************************)
EXTENDS ListTables, FiniteSetTheorems, SequenceTheorems, TLAPS

\* An entry is as old as its value allows: it was set within one fetch of it.
Timely(e) == e.expiresAt =< e.val + MaxFetch + TTL

\* What a call relies on in each of its places.  A call about to drop has seen
\* its snapshot expire; a call with an answer is still within its fetch.
CallOK(c) ==
  /\ ~At(c, "idle") /\ ~At(c, "done") => call[c].key \in Keys
  /\ At(c, "read") => Timely(call[c].entry)
  /\ At(c, "drop") => now > call[c].entry.expiresAt
  /\ At(c, "fetch") => call[c].since =< now /\ now =< call[c].since + MaxFetch
  /\ At(c, "fetched") => /\ call[c].since =< call[c].val
                         /\ now =< call[c].since + MaxFetch
  /\ At(c, "done") => call[c].since =< call[c].val + MaxFetch + TTL

CacheInv == /\ TypeOK
            /\ \A k \in Keys : entries[k] # NoEntry => Timely(entries[k])
            /\ \A c \in Callers : CallOK(c)

\* The invariant holds at the start.
LEMMA InitCacheInv == Init => CacheInv
BY CacheAssumption DEF Init, CacheInv, TypeOK, CallOK, At, Idle, Entry, NoEntry, Timely

\* Every step keeps it.
LEMMA NextCacheInv == CacheInv /\ [Next]_vars => CacheInv'
<1> SUFFICES ASSUME CacheInv, [Next]_vars PROVE CacheInv'
  OBVIOUS
<1> USE CacheAssumption
<1>1. ASSUME NEW c \in Callers, NEW k \in Keys, GetMiss(c, k) PROVE CacheInv'
  <2>1. TypeOK'
    BY <1>1 DEF CacheInv, TypeOK, CallOK, At, Goes, Idle, Entry, NoEntry, GetMiss
  <2>2. \A j \in Keys : entries'[j] # NoEntry => Timely(entries[j])'
    BY <1>1 DEF CacheInv, TypeOK, CallOK, At, Entry, NoEntry, Timely, GetMiss
  <2>3. ASSUME NEW d \in Callers PROVE CallOK(d)'
    <3>1. CASE d = c
      BY <1>1, <3>1 DEF CacheInv, TypeOK, CallOK, At, Goes, Idle, Entry, NoEntry, Timely, GetMiss
    <3>2. CASE d # c
      BY <1>1, <3>2 DEF CacheInv, TypeOK, CallOK, At, Goes, Timely, GetMiss
    <3> QED
      BY <3>1, <3>2
  <2> QED
    BY <2>1, <2>2, <2>3 DEF CacheInv
<1>2. ASSUME NEW c \in Callers, NEW k \in Keys, GetEntry(c, k) PROVE CacheInv'
  BY <1>2 DEF CacheInv, TypeOK, CallOK, At, Goes, Idle, Entry, NoEntry, Timely, GetEntry
<1>3. ASSUME NEW c \in Callers, GetHit(c) PROVE CacheInv'
  <2>1. TypeOK'
    BY <1>3 DEF CacheInv, TypeOK, CallOK, At, Goes, Idle, Entry, NoEntry, GetHit
  <2>2. \A j \in Keys : entries'[j] # NoEntry => Timely(entries[j])'
    BY <1>3 DEF CacheInv, TypeOK, CallOK, At, Entry, NoEntry, Timely, GetHit
  <2>3. ASSUME NEW d \in Callers PROVE CallOK(d)'
    <3>1. CASE d = c
      BY <1>3, <3>1 DEF CacheInv, TypeOK, CallOK, At, Goes, Idle, Entry, NoEntry, Timely, GetHit
    <3>2. CASE d # c
      BY <1>3, <3>2 DEF CacheInv, TypeOK, CallOK, At, Goes, Timely, GetHit
    <3> QED
      BY <3>1, <3>2
  <2> QED
    BY <2>1, <2>2, <2>3 DEF CacheInv
<1>4. ASSUME NEW c \in Callers, GetExpired(c) PROVE CacheInv'
  BY <1>4 DEF CacheInv, TypeOK, CallOK, At, Goes, Idle, Entry, NoEntry, Timely, GetExpired
<1>5. ASSUME NEW c \in Callers, Drop(c) PROVE CacheInv'
  <2>1. TypeOK'
    BY <1>5 DEF CacheInv, TypeOK, CallOK, At, Goes, Idle, Entry, NoEntry, Drop
  <2>2. \A j \in Keys : entries'[j] # NoEntry => Timely(entries[j])'
    BY <1>5 DEF CacheInv, TypeOK, CallOK, At, Entry, NoEntry, Timely, Drop
  <2>3. ASSUME NEW d \in Callers PROVE CallOK(d)'
    <3>1. CASE d = c
      BY <1>5, <3>1 DEF CacheInv, TypeOK, CallOK, At, Goes, Idle, Entry, NoEntry, Timely, Drop
    <3>2. CASE d # c
      BY <1>5, <3>2 DEF CacheInv, TypeOK, CallOK, At, Goes, Timely, Drop
    <3> QED
      BY <3>1, <3>2
  <2> QED
    BY <2>1, <2>2, <2>3 DEF CacheInv
<1>6. ASSUME NEW c \in Callers, Answer(c) PROVE CacheInv'
  <2>1. TypeOK'
    <3>1. call' = [call EXCEPT ![c] = [call[c] EXCEPT !.pc = "fetched", !.val = now]]
      BY <1>6 DEF Answer, Goes
    <3>2. UNCHANGED <<now, entries>>
      BY <1>6 DEF Answer
    <3> QED BY <3>1, <3>2 DEF CacheInv, TypeOK
  <2>2. \A j \in Keys : entries'[j] # NoEntry => Timely(entries[j])'
    BY <1>6 DEF CacheInv, TypeOK, CallOK, At, Entry, NoEntry, Timely, Answer
  <2>3. ASSUME NEW d \in Callers PROVE CallOK(d)'
    <3>1. CASE d = c
      BY <1>6, <3>1 DEF CacheInv, TypeOK, CallOK, At, Goes, Idle, Entry, NoEntry, Timely, Answer
    <3>2. CASE d # c
      BY <1>6, <3>2 DEF CacheInv, TypeOK, CallOK, At, Goes, Timely, Answer
    <3> QED
      BY <3>1, <3>2
  <2> QED
    BY <2>1, <2>2, <2>3 DEF CacheInv
<1>7. ASSUME NEW c \in Callers, FetchFails(c) PROVE CacheInv'
  BY <1>7 DEF CacheInv, TypeOK, CallOK, At, Goes, Idle, Entry, NoEntry, Timely, FetchFails
<1>8. ASSUME NEW c \in Callers, Set(c) PROVE CacheInv'
  <2>1. TypeOK'
    <3>1. entries' \in [Keys -> Entry] /\ now' = now /\ now \in Nat
      BY <1>8 DEF CacheInv, TypeOK, CallOK, At, Entry, Set
    <3>2. ASSUME NEW k \in Keys, (entries[k] # NoEntry)'
          PROVE (entries[k].expiresAt \in TTL..(now + TTL))'
      BY <1>8, <3>2 DEF CacheInv, TypeOK, Entry, Set
    <3>3. (call \in [Callers -> [pc : {"idle", "read", "drop", "fetch", "fetched", "done"},
                                 key : Keys \cup {NoKey}, entry : Entry,
                                 val : Nat, since : Nat]])'
      BY <1>8 DEF CacheInv, TypeOK, Goes, Idle, Entry, NoEntry, Set
    <3> QED
      BY <3>1, <3>2, <3>3 DEF TypeOK
  <2>2. \A j \in Keys : entries'[j] # NoEntry => Timely(entries[j])'
    BY <1>8 DEF CacheInv, TypeOK, CallOK, At, Entry, NoEntry, Timely, Set
  <2>3. ASSUME NEW d \in Callers PROVE CallOK(d)'
    <3>1. CASE d = c
      BY <1>8, <3>1 DEF CacheInv, TypeOK, CallOK, At, Goes, Idle, Entry, NoEntry, Timely, Set
    <3>2. CASE d # c
      BY <1>8, <3>2 DEF CacheInv, TypeOK, CallOK, At, Goes, Timely, Set
    <3> QED
      BY <3>1, <3>2
  <2> QED
    BY <2>1, <2>2, <2>3 DEF CacheInv
<1>9. ASSUME NEW c \in Callers, Return(c) PROVE CacheInv'
  BY <1>9 DEF CacheInv, TypeOK, CallOK, At, Goes, Idle, Entry, NoEntry, Timely, Return
<1>10. CASE Tick
  BY <1>10 DEF CacheInv, TypeOK, CallOK, At, Idle, Entry, NoEntry, Timely, Tick
<1>11. CASE UNCHANGED vars
  BY <1>11 DEF CacheInv, TypeOK, CallOK, At, Idle, Entry, NoEntry, Timely, vars
<1> QED
  BY <1>1, <1>2, <1>3, <1>4, <1>5, <1>6, <1>7, <1>8, <1>9, <1>10, <1>11 DEF Next

\* The inductive invariant.
THEOREM CacheInvariant == Spec => []CacheInv
BY InitCacheInv, NextCacheInv, PTL DEF Spec

\* The state stays within its types, and every entry within the TTL from now.
THEOREM CacheTypeOK == Spec => []TypeOK
<1>1. CacheInv => TypeOK
  BY DEF CacheInv
<1> QED
  BY <1>1, CacheInvariant, PTL

\* What a list tool gives out is no older than the TTL and one fetch.
THEOREM CacheAnswersAreRecent == Spec => []AnswersAreRecent
<1>1. CacheInv => AnswersAreRecent
  BY DEF CacheInv, CallOK, AnswersAreRecent
<1> QED
  BY <1>1, CacheInvariant, PTL

\* Only expired entries are removed, however late the write lock is taken.
THEOREM CacheKeepsFresh == Spec => FreshNeverDropped
<1> DEFINE Kept == \A k \in Keys : entries[k] # NoEntry /\ entries'[k] = NoEntry
                                     => now > entries[k].expiresAt
<1>1. CacheInv /\ [Next]_vars => Kept \/ UNCHANGED vars
  <2> SUFFICES ASSUME CacheInv, Next PROVE Kept
    OBVIOUS
  <2>1. ASSUME NEW c \in Callers, Drop(c) PROVE Kept
    BY <2>1 DEF CacheInv, TypeOK, CallOK, At, Entry, NoEntry, Drop
  <2>2. ASSUME NEW c \in Callers, Set(c) PROVE Kept
    BY <2>2, CacheAssumption DEF CacheInv, TypeOK, CallOK, At, Entry, NoEntry, Set
  <2>3. ASSUME UNCHANGED entries PROVE Kept
    BY <2>3
  <2> QED
    BY <2>1, <2>2, <2>3 DEF Next, GetMiss, GetEntry, GetHit, GetExpired, Answer,
       FetchFails, Return, Tick
<1> QED
  BY <1>1, CacheInvariant, PTL DEF Spec, FreshNeverDropped

-----------------------------------------------------------------------------
\* What is in the cache, and under way, was read by now.
ReadInPast == /\ now \in 0..MaxTime
              /\ \A k \in Keys : entries[k].val \in 0..now
              /\ \A c \in Callers : call[c].val \in 0..now /\ call[c].entry.val \in 0..now

LEMMA InitReadInPast == Init => ReadInPast
BY CacheAssumption DEF Init, ReadInPast, Idle, NoEntry

LEMMA NextReadInPast == TypeOK /\ ReadInPast /\ [Next]_vars => ReadInPast'
<1> SUFFICES ASSUME TypeOK, ReadInPast, [Next]_vars PROVE ReadInPast'
  OBVIOUS
<1> USE CacheAssumption DEF TypeOK, ReadInPast, Entry, At, Goes, Idle, NoEntry
<1>1. ASSUME NEW c \in Callers, NEW k \in Keys, GetMiss(c, k) PROVE ReadInPast'
  BY <1>1 DEF GetMiss
<1>9. ASSUME NEW c \in Callers, NEW k \in Keys, GetEntry(c, k) PROVE ReadInPast'
  BY <1>9 DEF GetEntry
<1>2. ASSUME NEW c \in Callers, GetHit(c) PROVE ReadInPast'
  BY <1>2 DEF GetHit
<1>10. ASSUME NEW c \in Callers, GetExpired(c) PROVE ReadInPast'
  BY <1>10 DEF GetExpired
<1>3. ASSUME NEW c \in Callers, Drop(c) PROVE ReadInPast'
  BY <1>3 DEF Drop
<1>4. ASSUME NEW c \in Callers, Answer(c) PROVE ReadInPast'
  BY <1>4 DEF Answer
<1>5. ASSUME NEW c \in Callers, FetchFails(c) PROVE ReadInPast'
  BY <1>5 DEF FetchFails
<1>11. ASSUME NEW c \in Callers, Return(c) PROVE ReadInPast'
  BY <1>11 DEF Return
<1>6. ASSUME NEW c \in Callers, Set(c) PROVE ReadInPast'
  BY <1>6 DEF Set
<1>7. CASE Tick
  BY <1>7 DEF Tick
<1>8. CASE UNCHANGED vars
  BY <1>8 DEF vars
<1> QED
  BY <1>1, <1>2, <1>3, <1>4, <1>5, <1>6, <1>7, <1>8, <1>9, <1>10, <1>11 DEF Next

\* A place is an index of a table and one of a field in it.
LEMMA PlaceFacts ==
  ASSUME NEW raw \in Seq(RawTable)
  PROVE  /\ \A t \in DOMAIN raw : \A f \in DOMAIN raw[t].fields : <<t, f>> \in Places(raw)
         /\ \A p \in Places(raw) : /\ p = <<p[1], p[2]>>
                                   /\ p[1] \in DOMAIN raw /\ p[2] \in DOMAIN raw[p[1]].fields
                                   /\ FieldAt(raw, p) \in RawField
<1>1. ASSUME NEW p \in Places(raw)
      PROVE  /\ p = <<p[1], p[2]>>
             /\ p[1] \in DOMAIN raw /\ p[2] \in DOMAIN raw[p[1]].fields
             /\ FieldAt(raw, p) \in RawField
  <2>1. PICK t \in DOMAIN raw : p \in {<<t, f>> : f \in DOMAIN raw[t].fields}
    BY DEF Places
  <2>2. PICK f \in DOMAIN raw[t].fields : p = <<t, f>>
    BY <2>1
  <2>3. raw[t] \in RawTable
    BY LenProperties, ElementOfSeq
  <2>4. raw[t].fields \in Seq(RawField)
    BY <2>3 DEF RawTable
  <2>5. raw[t].fields[f] \in RawField
    BY <2>4, LenProperties, ElementOfSeq
  <2> QED BY <2>2, <2>5 DEF FieldAt
<1>2. ASSUME NEW t \in DOMAIN raw, NEW f \in DOMAIN raw[t].fields PROVE <<t, f>> \in Places(raw)
  BY DEF Places
<1> QED BY <1>1, <1>2

\* What MetadataAssumption says of one answer of Metabase.
Keyed(raw) ==
  \A p, q \in Places(raw) :
    /\ Len(FieldAt(raw, p).fk) =< 1
    /\ FieldAt(raw, p).id = FieldAt(raw, q).id => p = q

\* An optional id.
LEMMA OptionalId ==
  ASSUME NEW fk \in Seq(Int), Len(fk) =< 1, NEW id \in Int
  PROVE  fk = <<id>> <=> fk # <<>> /\ fk[1] = id
<1>1. CASE fk = <<>>
  BY <1>1
<1>2. CASE fk # <<>>
  <2>1. Len(fk) = 1
    <3> DEFINE n == Len(fk)
    <3>1. n \in Nat /\ n # 0 /\ n =< 1
      BY <1>2, EmptySeq
    <3> HIDE DEF n
    <3>2. n = 1
      BY <3>1
    <3> QED BY <3>2 DEF n
  <2>2. fk = <<fk[1]>>
    BY <2>1
  <2> QED BY <1>2, <2>2
<1> QED BY <1>1, <1>2

\* The key of a field leads to the one field with the id that it names.
LEMMA LinkFacts ==
  ASSUME NEW raw \in Seq(RawTable), Keyed(raw), NEW p \in Places(raw)
  PROVE  /\ \A q \in Places(raw) : FieldAt(raw, p).fk = <<FieldAt(raw, q).id>> =>
              /\ p[2] \in Linked(raw, p[1])
              /\ LastPlace(WithId(raw, p[1], FieldAt(raw, p).fk[1])) = q
         /\ p[2] \in Linked(raw, p[1]) =>
              \E q \in Places(raw) : FieldAt(raw, p).fk = <<FieldAt(raw, q).id>>
<1>1. /\ p[1] \in DOMAIN raw /\ p[2] \in DOMAIN raw[p[1]].fields
      /\ FieldAt(raw, p) = raw[p[1]].fields[p[2]] /\ FieldAt(raw, p) \in RawField
  BY PlaceFacts DEF FieldAt
<1>2. ASSUME NEW q \in Places(raw)
      PROVE  FieldAt(raw, q).id \in Int /\ q[1] \in Int /\ q[2] \in Int
  <2>1. FieldAt(raw, q) \in RawField /\ q[1] \in DOMAIN raw /\ q[2] \in DOMAIN raw[q[1]].fields
    BY PlaceFacts
  <2>2. raw[q[1]] \in RawTable /\ q[1] \in Int
    BY <2>1, LenProperties, ElementOfSeq
  <2>3. raw[q[1]].fields \in Seq(RawField)
    BY <2>2 DEF RawTable
  <2>4. q[2] \in Int
    BY <2>1, <2>3, LenProperties
  <2> QED BY <2>1, <2>2, <2>4 DEF RawField
<1> DEFINE fk == FieldAt(raw, p).fk
<1>3. fk \in Seq(Int) /\ Len(fk) =< 1
  BY <1>1 DEF Keyed, RawField
<1>4. ASSUME NEW q \in Places(raw), fk = <<FieldAt(raw, q).id>>
      PROVE  p[2] \in Linked(raw, p[1]) /\ LastPlace(WithId(raw, p[1], fk[1])) = q
  <2>1. fk # <<>> /\ fk[1] = FieldAt(raw, q).id
    BY <1>2, <1>3, <1>4, OptionalId
  <2>2. WithId(raw, p[1], fk[1]) = {q}
    BY <2>1 DEF WithId, Keyed
  <2>3. LastPlace({q}) = q
    BY <1>2 DEF LastPlace
  <2> QED BY <1>1, <2>1, <2>2, <2>3 DEF Linked
<1>5. ASSUME p[2] \in Linked(raw, p[1])
      PROVE  \E q \in Places(raw) : fk = <<FieldAt(raw, q).id>>
  <2>1. fk # <<>> /\ WithId(raw, p[1], fk[1]) # {}
    BY <1>1, <1>5 DEF Linked
  <2>2. PICK q \in Places(raw) : FieldAt(raw, q).id = fk[1]
    BY <2>1 DEF WithId
  <2> QED BY <1>2, <1>3, <2>1, <2>2, OptionalId
<1> QED BY <1>4, <1>5

\* Nothing else can be made out of the keys, and nothing is lost.
LEMMA ReadableIsJoins ==
  ASSUME NEW raw \in Seq(RawTable), Keyed(raw), Unambiguous(raw)
  PROVE  Readable(Flatten(raw)) = Joins(raw)
<1> DEFINE out == Flatten(raw)
           Name(p) == out[p[1]].columns[p[2]].name
           key(p) == out[p[1]].foreignKeys[p[2]]
<1>1. /\ DOMAIN out = DOMAIN raw
      /\ \A t \in DOMAIN raw : /\ DOMAIN out[t].columns = DOMAIN raw[t].fields
                              /\ out[t].name = raw[t].name
                              /\ out[t].foreignKeys = ForeignKeys(raw, t)
      /\ \A t \in DOMAIN raw : \A f \in DOMAIN raw[t].fields :
           out[t].columns[f].name = raw[t].fields[f].name
  BY DEF Flatten, Columns
<1>2. UNION {{<<t, f>> : f \in DOMAIN out[t].columns} : t \in DOMAIN out} = Places(raw)
  BY <1>1 DEF Places
<1>3. \A p \in Places(raw) : Name(p) = FieldAt(raw, p).name
  BY <1>1, PlaceFacts DEF FieldAt
<1> HIDE DEF out
<1>4. Readable(out) = {j \in Places(raw) \X Places(raw) :
        \E k \in DOMAIN out[j[1][1]].foreignKeys :
          LET fkey == out[j[1][1]].foreignKeys[k]
          IN  /\ fkey.from = Name(j[1])
              /\ fkey.toTable = out[j[2][1]].name /\ fkey.toColumn = Name(j[2])}
  BY <1>2 DEF Readable
<1> HIDE DEF Name
<1>5. ASSUME NEW p \in Places(raw), NEW k \in Linked(raw, p[1])
      PROVE  /\ <<p[1], k>> \in Places(raw)
             /\ \A q \in Places(raw) : raw[p[1]].fields[k].fk = <<FieldAt(raw, q).id>> =>
                  out[p[1]].foreignKeys[k] =
                    [from |-> raw[p[1]].fields[k].name,
                     toTable |-> raw[q[1]].name, toColumn |-> FieldAt(raw, q).name]
  <2>1. p[1] \in DOMAIN raw /\ k \in DOMAIN raw[p[1]].fields
    BY PlaceFacts DEF Linked
  <2>2. <<p[1], k>> \in Places(raw) /\ FieldAt(raw, <<p[1], k>>) = raw[p[1]].fields[k]
    BY <2>1, PlaceFacts DEF FieldAt
  <2>3. ASSUME NEW q \in Places(raw), raw[p[1]].fields[k].fk = <<FieldAt(raw, q).id>>
        PROVE  LastPlace(WithId(raw, p[1], raw[p[1]].fields[k].fk[1])) = q
    BY <2>2, <2>3, LinkFacts
  <2>4. out[p[1]].foreignKeys[k] =
          LET field == raw[p[1]].fields[k]
              target == LastPlace(WithId(raw, p[1], field.fk[1]))
          IN  [from |-> field.name,
               toTable |-> raw[target[1]].name, toColumn |-> FieldAt(raw, target).name]
    <3>1. ForeignKeys(raw, p[1])[k] =
            LET field == raw[p[1]].fields[k]
                target == LastPlace(WithId(raw, p[1], field.fk[1]))
            IN  [from |-> field.name,
                 toTable |-> raw[target[1]].name, toColumn |-> FieldAt(raw, target).name]
      BY DEF ForeignKeys
    <3>2. out[p[1]].foreignKeys = ForeignKeys(raw, p[1])
      BY <1>1, <2>1
    <3> QED BY <3>1, <3>2
  <2>5. ASSUME NEW q \in Places(raw), raw[p[1]].fields[k].fk = <<FieldAt(raw, q).id>>
        PROVE  out[p[1]].foreignKeys[k] =
                 [from |-> raw[p[1]].fields[k].name,
                  toTable |-> raw[q[1]].name, toColumn |-> FieldAt(raw, q).name]
    BY <2>3, <2>4, <2>5
  <2> QED BY <2>2, <2>5
<1>6. ASSUME NEW p \in Places(raw), NEW q \in Places(raw),
             FieldAt(raw, p).fk = <<FieldAt(raw, q).id>>
      PROVE  \E k \in DOMAIN out[p[1]].foreignKeys :
               LET fkey == out[p[1]].foreignKeys[k]
               IN  /\ fkey.from = Name(p)
                   /\ fkey.toTable = out[q[1]].name /\ fkey.toColumn = Name(q)
  <2>1. p[2] \in Linked(raw, p[1]) /\ p[1] \in DOMAIN raw /\ q[1] \in DOMAIN raw
    BY <1>6, LinkFacts, PlaceFacts
  <2>2. out[p[1]].foreignKeys[p[2]] =
          [from |-> FieldAt(raw, p).name,
           toTable |-> raw[q[1]].name, toColumn |-> FieldAt(raw, q).name]
    BY <1>5, <1>6, <2>1 DEF FieldAt
  <2>3. p[2] \in DOMAIN out[p[1]].foreignKeys
    BY <1>1, <2>1 DEF ForeignKeys
  <2> QED BY <1>1, <1>3, <2>1, <2>2, <2>3
<1>7. ASSUME NEW p \in Places(raw), NEW q \in Places(raw),
             NEW k \in DOMAIN out[p[1]].foreignKeys,
             out[p[1]].foreignKeys[k].from = Name(p),
             out[p[1]].foreignKeys[k].toTable = out[q[1]].name,
             out[p[1]].foreignKeys[k].toColumn = Name(q)
      PROVE  FieldAt(raw, p).fk = <<FieldAt(raw, q).id>>
  <2>1. /\ p = <<p[1], p[2]>> /\ p[1] \in DOMAIN raw /\ p[2] \in DOMAIN raw[p[1]].fields
        /\ q = <<q[1], q[2]>> /\ q[1] \in DOMAIN raw /\ q[2] \in DOMAIN raw[q[1]].fields
    BY PlaceFacts
  <2>2. k \in Linked(raw, p[1]) /\ k \in DOMAIN raw[p[1]].fields
    <3>1. out[p[1]].foreignKeys = ForeignKeys(raw, p[1])
      BY <1>1, <2>1
    <3>2. k \in Linked(raw, p[1])
      BY <3>1 DEF ForeignKeys
    <3> QED BY <3>2 DEF Linked
  <2>3. <<p[1], k>> \in Places(raw)
    BY <1>5, <2>2
  <2>4. PICK r \in Places(raw) : FieldAt(raw, <<p[1], k>>).fk = <<FieldAt(raw, r).id>>
    <3>1. <<p[1], k>>[1] = p[1] /\ <<p[1], k>>[2] = k
      OBVIOUS
    <3> QED BY <2>2, <2>3, <3>1, LinkFacts
  <2>5. out[p[1]].foreignKeys[k] =
          [from |-> raw[p[1]].fields[k].name,
           toTable |-> raw[r[1]].name, toColumn |-> FieldAt(raw, r).name]
    BY <1>5, <2>2, <2>4 DEF FieldAt
  <2>6. raw[p[1]].fields[k].name = raw[p[1]].fields[p[2]].name
    BY <1>3, <1>7, <2>5 DEF FieldAt
  <2>7. k = p[2]
    BY <2>1, <2>2, <2>6 DEF Unambiguous
  <2>8. raw[r[1]].name = raw[q[1]].name /\ FieldAt(raw, r).name = FieldAt(raw, q).name
    BY <1>1, <1>3, <1>7, <2>1, <2>5
  <2>9. r = <<r[1], r[2]>> /\ r[1] \in DOMAIN raw /\ r[2] \in DOMAIN raw[r[1]].fields
    BY PlaceFacts
  <2>10. r[1] = q[1]
    BY <2>1, <2>8, <2>9 DEF Unambiguous
  <2>11. r[2] = q[2]
    BY <2>1, <2>8, <2>9, <2>10 DEF Unambiguous, FieldAt
  <2>12. r = q
    BY <2>1, <2>9, <2>10, <2>11
  <2> QED BY <2>1, <2>4, <2>7, <2>12
<1>8. Readable(out) = Joins(raw)
  <2>1. ASSUME NEW j \in Places(raw) \X Places(raw)
        PROVE  j \in Readable(out) <=> j \in Joins(raw)
    <3>1. j[1] \in Places(raw) /\ j[2] \in Places(raw)
      OBVIOUS
    <3>2. j \in Joins(raw) <=> FieldAt(raw, j[1]).fk = <<FieldAt(raw, j[2]).id>>
      BY DEF Joins
    <3>3. j \in Joins(raw) => j \in Readable(out)
      BY <1>4, <1>6, <3>1, <3>2
    <3>4. j \in Readable(out) => j \in Joins(raw)
      BY <1>4, <1>7, <3>1, <3>2
    <3> QED BY <3>3, <3>4
  <2>2. /\ Readable(out) \subseteq Places(raw) \X Places(raw)
        /\ Joins(raw) \subseteq Places(raw) \X Places(raw)
    BY <1>4 DEF Joins
  <2> QED BY <2>1, <2>2
<1> QED BY <1>8 DEF out

\* A table has as many keys as joins go out from it.
LEMMA KeysAreJoins ==
  ASSUME NEW raw \in Seq(RawTable), Keyed(raw), NEW t \in DOMAIN raw
  PROVE  Cardinality(DOMAIN Flatten(raw)[t].foreignKeys)
           = Cardinality({j \in Joins(raw) : j[1][1] = t})
<1> DEFINE L == Linked(raw, t)
           J == {j \in Joins(raw) : j[1][1] = t}
           Target(f) == LastPlace(WithId(raw, t, raw[t].fields[f].fk[1]))
           b == [f \in L |-> <<<<t, f>>, Target(f)>>]
<1>1. DOMAIN Flatten(raw)[t].foreignKeys = L
  BY DEF Flatten, ForeignKeys
<1>2. IsFiniteSet(L)
  <2>1. raw[t] \in RawTable
    BY LenProperties, ElementOfSeq
  <2>2. raw[t].fields \in Seq(RawField)
    BY <2>1 DEF RawTable
  <2>3. L \subseteq 1..Len(raw[t].fields) /\ Len(raw[t].fields) \in Nat
    BY <2>2, LenProperties DEF Linked
  <2> HIDE DEF L
  <2>4. IsFiniteSet(1..Len(raw[t].fields))
    BY <2>3, FS_Interval
  <2> QED BY <2>3, <2>4, FS_Subset
<1>3. ASSUME NEW f \in L
      PROVE  /\ <<t, f>> \in Places(raw) /\ Target(f) \in Places(raw)
             /\ FieldAt(raw, <<t, f>>).fk = <<FieldAt(raw, Target(f)).id>>
  <2>1. f \in DOMAIN raw[t].fields
    BY DEF Linked
  <2>2. <<t, f>> \in Places(raw) /\ <<t, f>>[1] = t /\ <<t, f>>[2] = f
    BY <2>1, PlaceFacts
  <2>3. PICK q \in Places(raw) : FieldAt(raw, <<t, f>>).fk = <<FieldAt(raw, q).id>>
    BY <2>2, LinkFacts
  <2>4. LastPlace(WithId(raw, t, FieldAt(raw, <<t, f>>).fk[1])) = q
    BY <2>2, <2>3, LinkFacts
  <2>5. Target(f) = q
    BY <2>2, <2>4 DEF FieldAt
  <2> QED BY <2>2, <2>3, <2>5
<1>4. ASSUME NEW j \in J
      PROVE  j[1][2] \in L /\ j = <<<<t, j[1][2]>>, Target(j[1][2])>>
  <2>1. /\ j[1] \in Places(raw) /\ j[2] \in Places(raw) /\ j = <<j[1], j[2]>>
        /\ FieldAt(raw, j[1]).fk = <<FieldAt(raw, j[2]).id>> /\ j[1][1] = t
    BY DEF Joins
  <2>2. j[1][2] \in L /\ LastPlace(WithId(raw, t, FieldAt(raw, j[1]).fk[1])) = j[2]
    BY <2>1, LinkFacts
  <2>3. j[1] = <<t, j[1][2]>>
    BY <2>1, PlaceFacts
  <2>4. Target(j[1][2]) = j[2]
    BY <2>1, <2>2 DEF FieldAt
  <2> QED BY <2>1, <2>2, <2>3, <2>4
<1> HIDE DEF L, Target
<1>5. b \in Bijection(L, J)
  <2>1. ASSUME NEW f \in L PROVE b[f] \in J
    BY <1>3 DEF Joins
  <2>2. \A f, g \in L : b[f] = b[g] => f = g
    OBVIOUS
  <2>3. ASSUME NEW j \in J PROVE \E f \in L : b[f] = j
    BY <1>4
  <2> HIDE DEF J
  <2> QED BY <2>1, <2>2, <2>3 DEF Bijection, Injection, Surjection, IsInjective
<1> HIDE DEF J
<1>6. Cardinality(L) = Cardinality(J)
  BY <1>2, <1>5, FS_Bijection DEF ExistsBijection
<1> QED BY <1>1, <1>6 DEF J

\* The joins of the database can be read off every answer of list_tables, these
\* and no others, whatever the database is.
THEOREM ListTablesJoinsSurvive == Spec => []JoinsSurvive
<1>1. TypeOK /\ ReadInPast => JoinsSurvive
  <2> SUFFICES ASSUME TypeOK, ReadInPast, NEW c \in Callers, Unambiguous(Raw(c))
               PROVE  /\ Readable(Tables(c)) = Joins(Raw(c))
                      /\ \A t \in DOMAIN Raw(c) :
                           Cardinality(DOMAIN Tables(c)[t].foreignKeys)
                             = Cardinality({j \in Joins(Raw(c)) : j[1][1] = t})
    BY DEF JoinsSurvive
  <2>1. call[c].val \in 0..MaxTime
    BY CacheAssumption DEF ReadInPast
  <2>2. Raw(c) \in Seq(RawTable) /\ Keyed(Raw(c))
    BY <2>1, MetadataAssumption DEF Raw, Keyed
  <2> QED BY <2>2, ReadableIsJoins, KeysAreJoins DEF Tables
<1> QED
  BY <1>1, InitReadInPast, NextReadInPast, CacheTypeOK, PTL DEF Spec

=============================================================================
