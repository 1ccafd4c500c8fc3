------------------------------- MODULE Spool -------------------------------
(***************************************************************************)
(* The result spool: Store of internal/spool/spool.go, the directory it    *)
(* keeps its files in, and the process it lives and dies with.             *)
(*                                                                         *)
(* Tool handlers (Writers) call Put, resource handlers (Readers) call      *)
(* ReadAll, and shutdown calls Close, each in a goroutine of its own.  The *)
(* mutex covers the index only, so an action is either one critical        *)
(* section or one operation on the file system between two of them.        *)
(*                                                                         *)
(* The process may stop at any moment (Stop), with or without Close, and a *)
(* new one may start on the same directory (Boot).  Another instance that  *)
(* shares the directory sweeps what looks old to it (NeighbourSweeps).     *)
(***************************************************************************)
EXTENDS Naturals, Sequences, FiniteSetsExt

CONSTANTS
  Ids,          \* file names newID may draw; each is drawn once
  NoId,
  Writers,
  Readers,
  Sizes,        \* possible sizes of an encoded result
  TTL,
  MaxBytes,
  MaxTime,      \* bound on the clock
  Faults,       \* the file system may fail a write, a rename or a removal
  Neighbours    \* another instance shares the directory

ASSUME SpoolAssumption ==
  /\ NoId \notin Ids
  /\ Sizes \subseteq Nat
  /\ TTL \in Nat \ {0} /\ MaxBytes \in Nat \ {0} /\ MaxTime \in Nat
  /\ Faults \in BOOLEAN /\ Neighbours \in BOOLEAN

VARIABLES
  disk,         \* per id: no file, <id>.tmp or <id>.ndjson, and its mtime
  entries,      \* the map: per registered id, the Entry
  order, total,
  closer,       \* Close: not called, removing files, finished
  condemned,    \* files Close has still to remove
  put,          \* the Put of each writer
  reading,      \* per reader: the id whose entry Get returned
  up, now,
  used,         \* ids drawn so far
  mine,         \* history: ids drawn by this process
  failed,       \* history: ids whose file an operation failed on
  swept         \* history: ids whose file another instance removed

index == <<entries, order, total>>
process == <<closer, condemned, up>>
history == <<mine, failed, swept>>
vars == <<disk, index, process, put, reading, now, used, history>>

NoFile == [kind |-> "none", mtime |-> 0]

\* write: <id>.tmp is being written; register: renamed, not in the index yet;
\* sweep; remove: the files Sweep dropped, outside the mutex.
NoPut == [pc |-> "idle", id |-> NoId, bytes |-> 0, created |-> 0, drop |-> {}]

Init == /\ disk = [i \in Ids |-> NoFile]
        /\ entries = <<>> /\ order = <<>> /\ total = 0
        /\ closer = "open" /\ condemned = {}
        /\ put = [w \in Writers |-> NoPut]
        /\ reading = [r \in Readers |-> NoId]
        /\ up = TRUE /\ now = 0
        /\ used = {} /\ mine = {} /\ failed = {} /\ swept = {}

Registered == DOMAIN entries
Kind(i) == disk[i].kind
Expired(i) == now > entries[i].created + TTL
Stale(i) == Kind(i) # "none" /\ disk[i].mtime + TTL =< now
Weight(S) == LET Bytes(i) == entries[i].bytes IN MapThenSumSet(Bytes, S)
At(w, p) == put[w].pc = p
Returns(w) == put' = [put EXCEPT ![w] = NoPut]
Gone(i) == disk' = [disk EXCEPT ![i] = NoFile]
Fails(i) == Faults /\ failed' = failed \cup {i} /\ UNCHANGED disk

-----------------------------------------------------------------------------
\* Fault: the entry is registered before its file is complete.
PutCreateRegistered(w, i, bytes) ==
  /\ up /\ At(w, "idle")
  /\ closer = "open"
  /\ i \notin used
  /\ used' = used \cup {i} /\ mine' = mine \cup {i}
  /\ disk' = [disk EXCEPT ![i] = [kind |-> "tmp", mtime |-> now]]
  /\ put' = [put EXCEPT ![w].pc = "write", ![w].id = i, ![w].bytes = bytes]
  /\ entries' = [j \in Registered \cup {i} |->
                   IF j = i THEN [bytes |-> bytes, created |-> now] ELSE entries[j]]
  /\ UNCHANGED <<order, total, process, reading, now, failed, swept>>

\* Put finds the store open, lets go of the mutex, and creates <id>.tmp.
PutCreate(w, i, bytes) ==
  /\ up /\ At(w, "idle")
  /\ closer = "open"
  /\ i \notin used
  /\ used' = used \cup {i} /\ mine' = mine \cup {i}
  /\ disk' = [disk EXCEPT ![i] = [kind |-> "tmp", mtime |-> now]]
  /\ put' = [put EXCEPT ![w].pc = "write", ![w].id = i, ![w].bytes = bytes]
  /\ UNCHANGED <<index, process, reading, now, failed, swept>>

\* A failed write leaves what it wrote behind.
PutWriteFails(w) ==
  /\ At(w, "write")
  /\ Fails(put[w].id)
  /\ Returns(w)
  /\ UNCHANGED <<index, process, reading, now, used, mine, swept>>

\* The last byte was written at some time until now.  The entry's own clock is
\* read after the rename and before the mutex.
PutRename(w) ==
  LET i == put[w].id IN
  /\ At(w, "write") /\ Kind(i) = "tmp"
  /\ \E t \in disk[i].mtime..now :
       disk' = [disk EXCEPT ![i] = [kind |-> "result", mtime |-> t]]
  /\ put' = [put EXCEPT ![w].pc = "register", ![w].created = now]
  /\ UNCHANGED <<index, process, reading, now, used, history>>

\* Fault: the error of the rename is not returned.
PutRenameUnchecked(w) ==
  LET i == put[w].id IN
  /\ At(w, "write") /\ (Faults \/ Kind(i) = "none")
  /\ \/ Gone(i) /\ UNCHANGED failed
     \/ Fails(i)
  /\ put' = [put EXCEPT ![w].pc = "register", ![w].created = now]
  /\ UNCHANGED <<index, process, reading, now, used, mine, swept>>

\* A failed rename removes the tmp, if it can; and it must fail if another
\* instance has removed the tmp already.
PutRenameFails(w) ==
  LET i == put[w].id IN
  /\ At(w, "write") /\ (Faults \/ Kind(i) = "none")
  /\ \/ Gone(i) /\ UNCHANGED failed
     \/ Fails(i)
  /\ Returns(w)
  /\ UNCHANGED <<index, process, reading, now, used, mine, swept>>

PutRegister(w) ==
  LET i == put[w].id
      e == [bytes |-> put[w].bytes, created |-> put[w].created]
  IN
  /\ At(w, "register")
  /\ entries' = [j \in Registered \cup {i} |-> IF j = i THEN e ELSE entries[j]]
  /\ order' = Append(order, i)
  /\ total' = total + e.bytes
  /\ put' = [put EXCEPT ![w].pc = "sweep"]
  /\ UNCHANGED <<disk, process, reading, now, used, history>>

\* Sweep: expired entries go, then the oldest while the total is over the limit
\* and another one is left.  kept is the index after the first loop, and n the
\* number of evictions of the second.
Alive(i) == i \in Registered /\ ~Expired(i)
Kept == LET kept[n \in 0..Len(order)] ==
              IF n = 0 THEN <<>>
              ELSE IF Alive(order[n]) THEN Append(kept[n - 1], order[n]) ELSE kept[n - 1]
        IN  kept[Len(order)]

\* Fault: two entries are always kept.
FitsWithTwo(n) ==
  LET tail == SubSeq(Kept, n + 1, Len(Kept)) IN
  \/ total - Weight(Registered \ Range(tail)) =< MaxBytes
  \/ Len(tail) =< 2

\* Fault: the last entry is evicted too if it is over the limit by itself.
FitsEmpty(n) ==
  total - Weight(Registered \ Range(SubSeq(Kept, n + 1, Len(Kept)))) =< MaxBytes

\* Fault: what has expired still counts against the limit.
FitsWithExpired(n) ==
  LET tail == SubSeq(Kept, n + 1, Len(Kept)) IN
  \/ total - Weight(Range(SubSeq(Kept, 1, n))) =< MaxBytes
  \/ Len(tail) =< 1

Fits(n) ==
  LET tail == SubSeq(Kept, n + 1, Len(Kept)) IN
  \/ total - Weight(Registered \ Range(tail)) =< MaxBytes
  \/ Len(tail) =< 1

Evictions == CHOOSE n \in 0..Len(Kept) : Fits(n) /\ \A m \in 0..(n - 1) : ~Fits(m)

\* Fault: the bytes of expired entries are subtracted twice.
PutSweepTwice(w) ==
  LET left == SubSeq(Kept, Evictions + 1, Len(Kept))
      drop == Registered \ Range(left)
  IN
  /\ At(w, "sweep")
  /\ order' = left
  /\ entries' = Restrict(entries, Registered \ drop)
  /\ total' = total - Weight(drop) - Weight(Registered \ Range(Kept))
  /\ put' = [put EXCEPT ![w].pc = "remove", ![w].drop = drop]
  /\ UNCHANGED <<disk, process, reading, now, used, history>>

\* Fault: files of expired entries are not put on the list.
PutSweepForgetful(w) ==
  LET left == SubSeq(Kept, Evictions + 1, Len(Kept))
      drop == Registered \ Range(left)
  IN
  /\ At(w, "sweep")
  /\ order' = left
  /\ entries' = Restrict(entries, Registered \ drop)
  /\ total' = total - Weight(drop)
  /\ put' = [put EXCEPT ![w].pc = "remove", ![w].drop = drop \cap Range(Kept)]
  /\ UNCHANGED <<disk, process, reading, now, used, history>>

PutSweep(w) ==
  LET left == SubSeq(Kept, Evictions + 1, Len(Kept))
      drop == Registered \ Range(left)
  IN
  /\ At(w, "sweep")
  /\ order' = left
  /\ entries' = Restrict(entries, Registered \ drop)
  /\ total' = total - Weight(drop)
  /\ put' = [put EXCEPT ![w].pc = "remove", ![w].drop = drop]
  /\ UNCHANGED <<disk, process, reading, now, used, history>>

\* os.Remove of one file: a failure is logged and forgotten.
Remove(i) == \/ Gone(i) /\ UNCHANGED failed
             \/ Fails(i)

PutRemove(w) ==
  /\ At(w, "remove")
  /\ \E i \in put[w].drop :
       /\ Remove(i)
       /\ put' = [put EXCEPT ![w].drop = @ \ {i}]
  /\ UNCHANGED <<index, process, reading, now, used, mine, swept>>

PutReturn(w) ==
  /\ At(w, "remove") /\ put[w].drop = {}
  /\ Returns(w)
  /\ UNCHANGED <<disk, index, process, reading, now, used, history>>

\* ReadAll: Get under the mutex, then the file without it.  A Get that misses
\* changes nothing.
ReadGet(r, i) ==
  /\ up /\ reading[r] = NoId
  /\ i \in Registered /\ ~Expired(i)
  /\ reading' = [reading EXCEPT ![r] = i]
  /\ UNCHANGED <<disk, index, process, put, now, used, history>>

ReadFile(r) ==
  /\ reading[r] # NoId
  /\ reading' = [reading EXCEPT ![r] = NoId]
  /\ UNCHANGED <<disk, index, process, put, now, used, history>>

\* Fault: Close does not reset the running total.
CloseKeepsTotal ==
  /\ up /\ closer = "open"
  /\ closer' = "removing"
  /\ condemned' = Registered
  /\ entries' = <<>> /\ order' = <<>>
  /\ UNCHANGED <<total, disk, up, put, reading, now, used, history>>

\* Close empties the index under the mutex; later calls return at once.
Close ==
  /\ up /\ closer = "open"
  /\ closer' = "removing"
  /\ condemned' = Registered
  /\ entries' = <<>> /\ order' = <<>> /\ total' = 0
  /\ UNCHANGED <<disk, up, put, reading, now, used, history>>

CloseRemove ==
  /\ closer = "removing"
  /\ \E i \in condemned : Remove(i) /\ condemned' = condemned \ {i}
  /\ UNCHANGED <<index, closer, up, put, reading, now, used, mine, swept>>

CloseReturn ==
  /\ closer = "removing" /\ condemned = {}
  /\ closer' = "closed"
  /\ UNCHANGED <<disk, index, condemned, up, put, reading, now, used, history>>

\* The process ends, after Close or by a crash: the files stay as they are.
Stop ==
  /\ up /\ up' = FALSE
  /\ entries' = <<>> /\ order' = <<>> /\ total' = 0
  /\ closer' = "open" /\ condemned' = {}
  /\ put' = [w \in Writers |-> NoPut]
  /\ reading' = [r \in Readers |-> NoId]
  /\ mine' = {} /\ failed' = {} /\ swept' = {}
  /\ UNCHANGED <<disk, now, used>>

\* New on the same directory: sweepOrphans removes both kinds of file, if old.
Boot ==
  /\ ~up /\ up' = TRUE
  /\ \E gone \in SUBSET {i \in Ids : Stale(i)} :
       /\ Faults \/ gone = {i \in Ids : Stale(i)}
       /\ disk' = [i \in Ids |-> IF i \in gone THEN NoFile ELSE disk[i]]
  /\ UNCHANGED <<index, closer, condemned, put, reading, now, used, history>>

\* Another instance starts and removes a file that looks old to it.
NeighbourSweeps(i) ==
  /\ Neighbours /\ Stale(i)
  /\ Gone(i)
  /\ swept' = swept \cup {i}
  /\ UNCHANGED <<index, process, put, reading, now, used, mine, failed>>

Tick == /\ now < MaxTime
        /\ now' = now + 1
        /\ UNCHANGED <<disk, index, process, put, reading, used, history>>

PutStep(w) == \/ PutWriteFails(w) \/ PutRename(w) \/ PutRenameFails(w)
              \/ PutRegister(w) \/ PutSweep(w)
              \/ PutRemove(w) \/ PutReturn(w)

CloseStep == CloseRemove \/ CloseReturn

Next == \/ \E w \in Writers : \/ PutStep(w)
                              \/ \E i \in Ids, b \in Sizes : PutCreate(w, i, b)
        \/ \E r \in Readers : ReadFile(r) \/ \E i \in Ids : ReadGet(r, i)
        \/ Close \/ CloseStep
        \/ Stop \/ Boot
        \/ \E i \in Ids : NeighbourSweeps(i)
        \/ Tick

Spec == Init /\ [][Next]_vars

-----------------------------------------------------------------------------
TypeOK ==
  /\ disk \in [Ids -> [kind : {"none", "tmp", "result"}, mtime : Nat]]
  /\ Registered \subseteq Ids
  /\ \A i \in Registered : entries[i] \in [bytes : Nat, created : Nat]
  /\ order \in Seq(Ids) /\ total \in Nat
  /\ closer \in {"open", "removing", "closed"} /\ condemned \subseteq Ids
  /\ put \in [Writers -> [pc : {"idle", "write", "register", "sweep", "remove"},
                          id : Ids \cup {NoId}, bytes : Nat, created : Nat,
                          drop : SUBSET Ids]]
  /\ reading \in [Readers -> Ids \cup {NoId}]
  /\ up \in BOOLEAN /\ now \in Nat
  /\ used \subseteq Ids
  /\ mine \subseteq used /\ failed \subseteq mine /\ swept \subseteq used

\* The three parts of the index agree whatever Puts, sweeps and Close interleave:
\* the eviction order lists each entry once, and the running total is the sum of
\* the sizes.
Accounting ==
  /\ Range(order) = Registered
  /\ IsInjective(order)
  /\ total = Weight(Registered)

\* What Get hands out can be read: an entry is in the index only while its
\* complete file is in the directory, unless another instance, which judges the
\* file by its modification time and not by the entry, has swept it.
RegisteredIsComplete ==
  \A i \in Registered : Kind(i) = "result" \/ (Kind(i) = "none" /\ i \in swept)

\* The limit holds whenever no Put stands between registering and sweeping, with
\* the documented exception of a single oversized result.
SizeBound ==
  (\A w \in Writers : ~At(w, "sweep")) => total =< MaxBytes \/ Len(order) =< 1

\* Every file of this process is in somebody's charge: in the index, in a Put,
\* or on the list of a sweep or of Close, unless an operation on it failed.
InCharge(i) == \/ i \in Registered \cup condemned
               \/ \E w \in Writers : \/ i \in put[w].drop
                                     \/ /\ put[w].id = i
                                        /\ put[w].pc \in {"write", "register"}

NoLeak == \A i \in mine \ failed : Kind(i) # "none" => InCharge(i)

\* Sweep never takes the result registered last from under its Put: only its
\* own age removes it.
NewestSurvives ==
  [][(order # <<>> /\ up' /\ closer' = closer)
       => LET newest == order[Len(order)]
          IN  newest \in Registered' \/ Expired(newest)]_vars

\* A result goes before its time only for want of room: it and the unexpired ones
\* registered after it are over the limit together.  Its writer may not even have
\* returned yet, so nothing less will do, whoever registers and sweeps in between.
EvictionIsNeeded ==
  [][(up' /\ closer' = closer) =>
       \A k \in DOMAIN order :
         order[k] \in Registered' \/ Expired(order[k])
         \/ Weight({order[j] : j \in {m \in k..Len(order) : Alive(order[m])}}) > MaxBytes]_vars

-----------------------------------------------------------------------------
\* What of this the tools see.  A result is new until its Put registers it.
Unregistered(w) == put[w].pc \in {"write", "register"}
New(i) == i \notin used \/ \E w \in Writers : Unregistered(w) /\ put[w].id = i

Result(i) == CASE New(i) -> "new"
               [] i \in Registered /\ Kind(i) # "none" -> "kept"
               [] i \in Registered /\ Kind(i) = "none" -> "lost"
               [] OTHER -> "gone"

Finds(i) == CASE Kind(i) = "result" -> "whole"
              [] Kind(i) = "tmp" -> "part"
              [] OTHER -> "nothing"

Seen(r) == [id |-> reading[r],
            finds |-> IF reading[r] = NoId THEN "nothing" ELSE Finds(reading[r])]

Store == INSTANCE ResultStore WITH
  Outside <- Neighbours,
  result <- [i \in Ids |-> Result(i)],
  reader <- [r \in Readers |-> Seen(r)]

\* With its files written, renamed and removed outside the mutex, with crashes and
\* restarts on what they leave, the spool is a store of whole results: a result is
\* there from the registration on and not before, nobody reads a part of one, and
\* none that was forgotten comes back.
ImplementsStore == Store!Spec

=============================================================================
