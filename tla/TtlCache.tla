------------------------------ MODULE TtlCache ------------------------------
(***************************************************************************)
(* The metadata cache (internal/cache/ttl.go) under the list tools, which  *)
(* read Metabase through it: fetchDatabases and fetchMetadata ask the      *)
(* cache, on a miss ask Metabase, and put the answer in.  Nothing joins    *)
(* concurrent misses.                                                      *)
(*                                                                         *)
(* A value is represented by the time at which Metabase read it, so its    *)
(* age can be told.  Get takes a snapshot under the read lock, looks at    *)
(* the clock without it, and removes an expired entry under the write      *)
(* lock: other calls, and time, pass between these.                        *)
(***************************************************************************)
EXTENDS Naturals

CONSTANTS
  Callers,      \* tool calls that may be under way at the same time
  Keys,         \* databasesCacheKey, or the database_ids asked for
  NoKey,
  TTL,          \* cacheTTL
  MaxFetch,     \* longest time from a miss to Set
  MaxTime       \* bound on the clock

ASSUME CacheAssumption ==
  /\ NoKey \notin Keys
  /\ TTL \in Nat \ {0} /\ MaxFetch \in Nat /\ MaxTime \in Nat

VARIABLES
  now,
  entries,      \* the map: per key an entry or NoEntry
  call          \* the tool call of each caller

vars == <<now, entries, call>>

\* With a positive TTL no entry expires at 0.
NoEntry == [val |-> 0, expiresAt |-> 0]

\* read: Get holds a snapshot of the entry; drop: the snapshot was found expired
\* and the write lock is still to be taken; fetch: Metabase was asked at the time
\* since; fetched: it answered val; done: val was given out at the time since.
Idle == [pc |-> "idle", key |-> NoKey, entry |-> NoEntry, val |-> 0, since |-> 0]

Init == /\ now = 0
        /\ entries = [k \in Keys |-> NoEntry]
        /\ call = [c \in Callers |-> Idle]

At(c, p) == call[c].pc = p
Goes(c, r) == call' = [call EXCEPT ![c] = r]

-----------------------------------------------------------------------------
GetMiss(c, k) ==
  /\ At(c, "idle")
  /\ entries[k] = NoEntry
  /\ Goes(c, [Idle EXCEPT !.pc = "fetch", !.key = k, !.since = now])
  /\ UNCHANGED <<now, entries>>

GetEntry(c, k) ==
  /\ At(c, "idle")
  /\ entries[k] # NoEntry
  /\ Goes(c, [Idle EXCEPT !.pc = "read", !.key = k, !.entry = entries[k]])
  /\ UNCHANGED <<now, entries>>

\* Fault: a hit renews the entry it was served from.
GetHitRenews(c) ==
  /\ At(c, "read")
  /\ ~ now > call[c].entry.expiresAt
  /\ Goes(c, [Idle EXCEPT !.pc = "done", !.val = call[c].entry.val, !.since = now])
  /\ entries' = [entries EXCEPT ![call[c].key].expiresAt = now + TTL]
  /\ UNCHANGED now

GetHit(c) ==
  /\ At(c, "read")
  /\ ~ now > call[c].entry.expiresAt
  /\ Goes(c, [Idle EXCEPT !.pc = "done", !.val = call[c].entry.val, !.since = now])
  /\ UNCHANGED <<now, entries>>

GetExpired(c) ==
  /\ At(c, "read")
  /\ now > call[c].entry.expiresAt
  /\ Goes(c, [call[c] EXCEPT !.pc = "drop"])
  /\ UNCHANGED <<now, entries>>

\* Fault: the entry is removed without comparing it with the snapshot.
DropAny(c) ==
  LET k == call[c].key IN
  /\ At(c, "drop")
  /\ entries' = [entries EXCEPT ![k] = NoEntry]
  /\ Goes(c, [Idle EXCEPT !.pc = "fetch", !.key = k, !.since = now])
  /\ UNCHANGED now

\* Get removes the entry only if it is, by its expiry, still the one it read, and
\* misses; the tool asks Metabase.
Drop(c) ==
  LET k == call[c].key IN
  /\ At(c, "drop")
  /\ entries' = [entries EXCEPT ![k] =
                   IF @.expiresAt = call[c].entry.expiresAt THEN NoEntry ELSE @]
  /\ Goes(c, [Idle EXCEPT !.pc = "fetch", !.key = k, !.since = now])
  /\ UNCHANGED now

Answer(c) ==
  /\ At(c, "fetch")
  /\ Goes(c, [call[c] EXCEPT !.pc = "fetched", !.val = now])
  /\ UNCHANGED <<now, entries>>

\* Metabase fails, or the tool call is cancelled: an error is not cached.
FetchFails(c) ==
  /\ At(c, "fetch") \/ At(c, "fetched")
  /\ Goes(c, Idle)
  /\ UNCHANGED <<now, entries>>

\* Fault: the entry is stored without its expiry.
SetUnlimited(c) ==
  /\ At(c, "fetched")
  /\ entries' = [entries EXCEPT ![call[c].key] = [val |-> call[c].val, expiresAt |-> 0]]
  /\ Goes(c, [Idle EXCEPT !.pc = "done", !.val = call[c].val, !.since = now])
  /\ UNCHANGED now

\* Whoever sets last wins, whenever Metabase answered it.
Set(c) ==
  /\ At(c, "fetched")
  /\ entries' = [entries EXCEPT ![call[c].key] =
                   [val |-> call[c].val, expiresAt |-> now + TTL]]
  /\ Goes(c, [Idle EXCEPT !.pc = "done", !.val = call[c].val, !.since = now])
  /\ UNCHANGED now

Return(c) ==
  /\ At(c, "done")
  /\ Goes(c, Idle)
  /\ UNCHANGED <<now, entries>>

\* HTTP_TIMEOUT and the bounded retries of the client end every fetch.
Tick ==
  /\ now < MaxTime
  /\ \A c \in Callers : At(c, "fetch") \/ At(c, "fetched") => now < call[c].since + MaxFetch
  /\ now' = now + 1
  /\ UNCHANGED <<entries, call>>

Next == \/ \E c \in Callers :
             \/ \E k \in Keys : GetMiss(c, k) \/ GetEntry(c, k)
             \/ GetHit(c) \/ GetExpired(c) \/ Drop(c)
             \/ Answer(c) \/ FetchFails(c) \/ Set(c) \/ Return(c)
        \/ Tick

Spec == Init /\ [][Next]_vars

-----------------------------------------------------------------------------
Entry == [val : Nat, expiresAt : Nat]

\* An entry that is present has an expiry, within the TTL from now.
TypeOK ==
  /\ now \in Nat
  /\ entries \in [Keys -> Entry]
  /\ \A k \in Keys : entries[k] # NoEntry => entries[k].expiresAt \in TTL..(now + TTL)
  /\ call \in [Callers -> [pc : {"idle", "read", "drop", "fetch", "fetched", "done"},
                           key : Keys \cup {NoKey}, entry : Entry,
                           val : Nat, since : Nat]]

\* "Cached for 5 minutes": whatever fetches, sets and removals interleave, and
\* although a slow fetch may replace what a faster one has put in later, a tool
\* never gives out what Metabase read longer ago than the TTL and one fetch.
AnswersAreRecent ==
  \A c \in Callers : At(c, "done") => call[c].since =< call[c].val + MaxFetch + TTL

\* A Get that found an expired entry does not remove the fresh one that another
\* call has put in its place before the write lock was taken.
FreshNeverDropped ==
  [][\A k \in Keys : entries[k] # NoEntry /\ entries'[k] = NoEntry
                       => now > entries[k].expiresAt]_vars

=============================================================================
