---------------------------- MODULE SpoolProofs ----------------------------
(***************************************************************************)
(* Whatever Puts, readers, sweeps, Close, crashes, restarts, failures of   *)
(* the file system and other instances interleave, and for any number of   *)
(* each.  The files: an indexed result has its complete file.  The store:  *)
(* Put takes effect at once, readers see whole results or none, and what   *)
(* was forgotten does not come back.  The accounts: the running total is   *)
(* the sum of the sizes, the limit on it holds, no file is forgotten, and  *)
(* the newest result is never evicted.                                     *)
(***************************************************************************)
EXTENDS Spool, FiniteSetTheorems, WellFoundedInduction, TLAPS

Files == [kind : {"none", "tmp", "result"}, mtime : Nat]
Pcs == {"idle", "write", "register", "sweep", "remove"}
Puts == [pc : Pcs, id : Ids \cup {NoId}, bytes : Nat, created : Nat,
         drop : SUBSET Ids]

\* The part of the types that the argument needs: not the sizes and the totals.
SpoolTypes == /\ disk \in [Ids -> Files]
              /\ put \in [Writers -> Puts]
              /\ reading \in [Readers -> Ids \cup {NoId}]
              /\ Registered \subseteq mine
              /\ condemned \subseteq Ids
              /\ mine \subseteq used
              /\ used \subseteq Ids
              /\ now \in Nat

\* Nobody else has a claim on the file of such a Put, and what sweeps and Close
\* are about to remove is not in the index any more.
Claims ==
  /\ \A w \in Writers : Unregistered(w) =>
       /\ put[w].id \in mine \ (Registered \cup condemned)
       /\ \A v \in Writers : put[w].id \notin put[v].drop
       /\ \A v \in Writers \ {w} : Unregistered(v) => put[v].id # put[w].id
  /\ condemned \subseteq used
  /\ \A w \in Writers : put[w].drop \subseteq used
  /\ Registered \cap condemned = {}
  /\ \A w \in Writers : Registered \cap put[w].drop = {}
  /\ \A r \in Readers : reading[r] # NoId => reading[r] \in used

\* How far the file is that a Put has not registered.
Progress == \A w \in Writers :
  At(w, "register") => \/ Kind(put[w].id) = "result"
                       \/ Kind(put[w].id) = "none" /\ put[w].id \in swept

\* A process that is down has nothing in memory.
Down == ~up => /\ Registered = {} /\ condemned = {}
               /\ \A w \in Writers : put[w] = NoPut
               /\ \A r \in Readers : reading[r] = NoId

\* A reader that lost the race between Get and reading the file finds no file
\* at all, never one under construction.
ReaderSeesWhole == \A r \in Readers : reading[r] # NoId => Kind(reading[r]) # "tmp"

SpoolInv == /\ SpoolTypes
            /\ Claims
            /\ Progress
            /\ Down
            /\ RegisteredIsComplete
            /\ ReaderSeesWhole

-----------------------------------------------------------------------------
\* Replacing one writer's Put by a well-formed one keeps the table well-formed.
LEMMA PutUpdate ==
  ASSUME NEW f \in [Writers -> Puts], NEW w \in Writers, NEW r \in Puts
  PROVE  [f EXCEPT ![w] = r] \in [Writers -> Puts]
  OBVIOUS

\* The empty Put is well-formed.
LEMMA NoPutTyped == NoPut \in Puts
  BY DEF NoPut, Puts, Pcs

\* Removing a file keeps the directory well-formed.
LEMMA FileGone ==
  ASSUME NEW f \in [Ids -> Files], NEW i \in Ids
  PROVE  [f EXCEPT ![i] = NoFile] \in [Ids -> Files]
  BY DEF Files, NoFile

\* So do the changes a Put makes to its own record: when it starts,
LEMMA PutStarts ==
  ASSUME NEW f \in [Writers -> Puts], NEW w \in Writers, NEW i \in Ids, NEW n \in Nat
  PROVE  [f EXCEPT ![w].pc = "write", ![w].id = i, ![w].bytes = n] \in [Writers -> Puts]
<1>1. [f[w] EXCEPT !.pc = "write", !.id = i, !.bytes = n] \in Puts
  BY DEF Puts, Pcs
<1> QED BY <1>1, PutUpdate

\* when it has renamed its file,
LEMMA PutRenames ==
  ASSUME NEW f \in [Writers -> Puts], NEW w \in Writers, NEW n \in Nat
  PROVE  [f EXCEPT ![w].pc = "register", ![w].created = n] \in [Writers -> Puts]
<1>1. [f[w] EXCEPT !.pc = "register", !.created = n] \in Puts
  BY DEF Puts, Pcs
<1> QED BY <1>1, PutUpdate

\* when it has swept,
LEMMA PutDrops ==
  ASSUME NEW f \in [Writers -> Puts], NEW w \in Writers, NEW D \in SUBSET Ids
  PROVE  [f EXCEPT ![w].pc = "remove", ![w].drop = D] \in [Writers -> Puts]
<1>1. [f[w] EXCEPT !.pc = "remove", !.drop = D] \in Puts
  BY DEF Puts, Pcs
<1> QED BY <1>1, PutUpdate

\* when it has removed one of the dropped files.
LEMMA PutRemoves ==
  ASSUME NEW f \in [Writers -> Puts], NEW w \in Writers, NEW D \in SUBSET Ids
  PROVE  [f EXCEPT ![w].drop = D] \in [Writers -> Puts]
<1>1. [f[w] EXCEPT !.drop = D] \in Puts
  BY DEF Puts, Pcs
<1> QED BY <1>1, PutUpdate

\* The initial state satisfies the invariant.
LEMMA SpoolInit == Init => SpoolInv
<1> SUFFICES ASSUME Init PROVE SpoolInv
  OBVIOUS
<1>1. Registered = {} /\ condemned = {} /\ used = {} /\ mine = {} /\ now = 0 /\ up
  BY DEF Init, Registered
<1>2. put \in [Writers -> Puts] /\ \A w \in Writers : put[w].pc = "idle" /\ put[w].drop = {}
  BY NoPutTyped DEF Init, NoPut
<1>3. reading \in [Readers -> Ids \cup {NoId}] /\ \A r \in Readers : reading[r] = NoId
  BY DEF Init
<1>4. disk \in [Ids -> Files]
  BY DEF Init, NoFile, Files
<1> QED BY <1>1, <1>2, <1>3, <1>4
       DEF SpoolInv, SpoolTypes, Claims, Unregistered, Progress, At, Down,
           RegisteredIsComplete, ReaderSeesWhole

\* Sweep takes a set out of the index and hands it to its writer to remove.
LEMMA SweepDrops ==
  ASSUME NEW w \in Writers, PutSweep(w)
  PROVE  \E D \in SUBSET Registered :
            /\ put' = [put EXCEPT ![w].pc = "remove", ![w].drop = D]
            /\ Registered' = Registered \ D
<1> DEFINE left == SubSeq(Kept, Evictions + 1, Len(Kept))
           D == Registered \ Range(left)
<1>1. put' = [put EXCEPT ![w].pc = "remove", ![w].drop = D]
  BY DEF PutSweep
<1>2. Registered' = Registered \ D
  BY DEF PutSweep, Registered, Restrict
<1> QED BY <1>1, <1>2

\* PutCreate preserves the invariant.
LEMMA PutCreateInv ==
  ASSUME SpoolInv, NEW w \in Writers, NEW i \in Ids, NEW b \in Sizes, PutCreate(w, i, b)
  PROVE  SpoolInv'
<1>0. put' \in [Writers -> Puts]
  BY SpoolAssumption, PutStarts DEF PutCreate, SpoolInv, SpoolTypes
<1> USE SpoolAssumption, NoPutTyped
    DEF SpoolInv, SpoolTypes, Claims, Unregistered, Progress, At, Down, Puts, Pcs, Files,
        RegisteredIsComplete, ReaderSeesWhole, Kind, Registered, index, process,
        history, Returns, Gone, Fails, Remove, NoFile, NoPut
<1>1. SpoolTypes'
  BY <1>0 DEF PutCreate
<1>2. Claims'
  BY DEF PutCreate
<1>3. Progress'
  BY DEF PutCreate
<1>4. Down'
  BY DEF PutCreate
<1>5. RegisteredIsComplete'
  BY DEF PutCreate
<1>6. ReaderSeesWhole'
  BY DEF PutCreate
<1> QED BY <1>1, <1>2, <1>3, <1>4, <1>5, <1>6

\* PutWriteFails preserves the invariant.
LEMMA PutWriteFailsInv ==
  ASSUME SpoolInv, NEW w \in Writers, PutWriteFails(w)
  PROVE  SpoolInv'
<1> USE SpoolAssumption, NoPutTyped
    DEF SpoolInv, SpoolTypes, Claims, Unregistered, Progress, At, Down, Puts, Pcs, Files,
        RegisteredIsComplete, ReaderSeesWhole, Kind, Registered, index, process,
        history, Returns, Gone, Fails, Remove, NoFile, NoPut
<1>1. SpoolTypes'
  BY DEF PutWriteFails
<1>2. Claims'
  BY DEF PutWriteFails
<1>3. Progress'
  BY DEF PutWriteFails
<1>4. Down'
  BY DEF PutWriteFails
<1>5. RegisteredIsComplete'
  BY DEF PutWriteFails
<1>6. ReaderSeesWhole'
  BY DEF PutWriteFails
<1> QED BY <1>1, <1>2, <1>3, <1>4, <1>5, <1>6

\* PutRename preserves the invariant.
LEMMA PutRenameInv ==
  ASSUME SpoolInv, NEW w \in Writers, PutRename(w)
  PROVE  SpoolInv'
<1>0. put' \in [Writers -> Puts]
  BY PutRenames DEF PutRename, SpoolInv, SpoolTypes
<1> USE SpoolAssumption, NoPutTyped
    DEF SpoolInv, SpoolTypes, Claims, Unregistered, Progress, At, Down, Puts, Pcs, Files,
        RegisteredIsComplete, ReaderSeesWhole, Kind, Registered, index, process,
        history, Returns, Gone, Fails, Remove, NoFile, NoPut
<1>1. SpoolTypes'
  BY <1>0 DEF PutRename
<1>2. Claims'
  <2>1. UNCHANGED <<Registered, condemned, reading, used, mine>>
    BY DEF PutRename
  <2>2. \A v \in Writers : /\ put'[v].id = put[v].id /\ put'[v].drop = put[v].drop
                           /\ Unregistered(v)' => Unregistered(v)
    BY DEF PutRename
  <2> QED BY <2>1, <2>2
<1>3. Progress'
  BY DEF PutRename
<1>4. Down'
  BY DEF PutRename
<1>5. RegisteredIsComplete'
  BY DEF PutRename
<1>6. ReaderSeesWhole'
  BY DEF PutRename
<1> QED BY <1>1, <1>2, <1>3, <1>4, <1>5, <1>6

\* PutRenameFails preserves the invariant.
LEMMA PutRenameFailsInv ==
  ASSUME SpoolInv, NEW w \in Writers, PutRenameFails(w)
  PROVE  SpoolInv'
<1> DEFINE i == put[w].id
<1>a. /\ disk' = disk \/ disk' = [disk EXCEPT ![i] = NoFile]
      /\ put' = [put EXCEPT ![w] = NoPut]
  BY DEF PutRenameFails, Gone, Fails, Returns
<1>b. i \in Ids /\ i \notin Registered
  BY DEF PutRenameFails, SpoolInv, SpoolTypes, Claims, Unregistered, At
<1>c. put' \in [Writers -> Puts] /\ disk' \in [Ids -> Files]
  BY <1>a, <1>b, PutUpdate, NoPutTyped, FileGone DEF SpoolInv, SpoolTypes
<1>d. \A j \in Ids : disk'[j] = disk[j] \/ (j = i /\ disk'[j] = NoFile)
  BY <1>a, <1>b DEF SpoolInv, SpoolTypes
<1>e. \A v \in Writers : v # w => put'[v] = put[v]
  BY <1>a DEF SpoolInv, SpoolTypes
<1>f. put'[w].pc = "idle" /\ put'[w].drop = {} /\ put[w].pc = "write"
  BY <1>a DEF SpoolInv, SpoolTypes, PutRenameFails, At, NoPut
<1>g. up
  BY <1>f DEF SpoolInv, Down, NoPut
<1>h. UNCHANGED <<entries, Registered, condemned, up, reading, now, used, mine, swept>>
  BY DEF PutRenameFails, index, process, Registered
<1> USE SpoolAssumption, NoPutTyped
    DEF SpoolInv, SpoolTypes, Claims, Unregistered, Progress, At, Down, Puts, Pcs, Files,
        RegisteredIsComplete, ReaderSeesWhole, Kind, Registered, index, process,
        history, Returns, Gone, Fails, Remove, NoFile, NoPut
<1>1. SpoolTypes'
  BY <1>b, <1>c, <1>d, <1>e, <1>f, <1>g, <1>h
<1>2. Claims'
  <2>1. \A v \in Writers : /\ Unregistered(v)' => v # w /\ Unregistered(v)
                           /\ put'[v].drop \subseteq put[v].drop
    BY <1>e, <1>f
  <2>2. ASSUME NEW v \in Writers, Unregistered(v)'
        PROVE  /\ put'[v].id \in mine' \ (Registered' \cup condemned')
               /\ \A u \in Writers : put'[v].id \notin put'[u].drop
               /\ \A u \in Writers \ {v} : Unregistered(u)' => put'[u].id # put'[v].id
    BY <1>e, <1>h, <2>1, <2>2
  <2> QED BY <1>h, <2>1, <2>2
<1>3. Progress'
  BY <1>b, <1>c, <1>d, <1>e, <1>f, <1>g, <1>h
<1>4. Down'
  BY <1>b, <1>c, <1>d, <1>e, <1>f, <1>g, <1>h
<1>5. RegisteredIsComplete'
  BY <1>b, <1>c, <1>d, <1>e, <1>f, <1>g, <1>h
<1>6. ReaderSeesWhole'
  BY <1>b, <1>c, <1>d, <1>e, <1>f, <1>g, <1>h
<1> QED BY <1>1, <1>2, <1>3, <1>4, <1>5, <1>6

\* PutRegister preserves the invariant.
LEMMA PutRegisterInv ==
  ASSUME SpoolInv, NEW w \in Writers, PutRegister(w)
  PROVE  SpoolInv'
<1> USE SpoolAssumption, NoPutTyped
    DEF SpoolInv, SpoolTypes, Claims, Unregistered, Progress, At, Down, Puts, Pcs, Files,
        RegisteredIsComplete, ReaderSeesWhole, Kind, Registered, index, process,
        history, Returns, Gone, Fails, Remove, NoFile, NoPut
<1>1. SpoolTypes'
  BY DEF PutRegister
<1>2. Claims'
  <2>1. /\ Registered' = Registered \cup {put[w].id}
        /\ UNCHANGED <<condemned, reading, used, mine>>
    BY DEF PutRegister
  <2>2. \A v \in Writers : /\ put'[v].id = put[v].id /\ put'[v].drop = put[v].drop
                           /\ Unregistered(v)' <=> Unregistered(v) /\ v # w
    BY DEF PutRegister
  <2>3. Unregistered(w)
    BY DEF PutRegister
  <2> QED BY <2>1, <2>2, <2>3
<1>3. Progress'
  BY DEF PutRegister
<1>4. Down'
  BY DEF PutRegister
<1>5. RegisteredIsComplete'
  BY DEF PutRegister
<1>6. ReaderSeesWhole'
  BY DEF PutRegister
<1> QED BY <1>1, <1>2, <1>3, <1>4, <1>5, <1>6

\* PutSweep preserves the invariant.
LEMMA PutSweepInv ==
  ASSUME SpoolInv, NEW w \in Writers, PutSweep(w)
  PROVE  SpoolInv'
<1>a. PICK D \in SUBSET Registered :
            /\ put' = [put EXCEPT ![w].pc = "remove", ![w].drop = D]
            /\ Registered' = Registered \ D
  BY SweepDrops
<1>b. D \subseteq mine /\ D \in SUBSET Ids
  BY DEF SpoolInv, SpoolTypes
<1>c. put' \in [Writers -> Puts]
  BY <1>a, <1>b, PutDrops DEF SpoolInv, SpoolTypes
<1>d. put'[w].id = put[w].id /\ put'[w].pc = "remove" /\ put'[w].drop = D
  BY <1>a DEF SpoolInv, SpoolTypes, Puts
<1>e. \A v \in Writers : v # w => put'[v] = put[v]
  BY <1>a DEF SpoolInv, SpoolTypes
<1>f. UNCHANGED <<disk, condemned, up, reading, now, used, mine, failed, swept>> /\ up
  BY DEF PutSweep, process, history, SpoolInv, Down, NoPut, At
<1> USE SpoolAssumption, NoPutTyped
    DEF SpoolInv, SpoolTypes, Claims, Unregistered, Progress, At, Down, Puts, Pcs, Files,
        RegisteredIsComplete, ReaderSeesWhole, Kind, Registered, index, process,
        history, Returns, Gone, Fails, Remove, NoFile, NoPut
<1>1. SpoolTypes'
  BY <1>a, <1>b, <1>c, <1>d, <1>e, <1>f
<1>2. Claims'
  BY <1>a, <1>b, <1>c, <1>d, <1>e, <1>f
<1>3. Progress'
  BY <1>a, <1>b, <1>c, <1>d, <1>e, <1>f
<1>4. Down'
  BY <1>a, <1>b, <1>c, <1>d, <1>e, <1>f
<1>5. RegisteredIsComplete'
  BY <1>a, <1>b, <1>c, <1>d, <1>e, <1>f
<1>6. ReaderSeesWhole'
  BY <1>a, <1>b, <1>c, <1>d, <1>e, <1>f
<1> QED BY <1>1, <1>2, <1>3, <1>4, <1>5, <1>6

\* PutRemove preserves the invariant.
LEMMA PutRemoveInv ==
  ASSUME SpoolInv, NEW w \in Writers, PutRemove(w)
  PROVE  SpoolInv'
<1>a. PICK i \in put[w].drop :
            /\ disk' = disk \/ disk' = [disk EXCEPT ![i] = NoFile]
            /\ put' = [put EXCEPT ![w].drop = @ \ {i}]
  BY DEF PutRemove, Remove, Gone, Fails
<1>b. i \in Ids /\ i \notin Registered /\ put[w].drop \ {i} \in SUBSET Ids
  BY DEF SpoolInv, SpoolTypes, Claims, Puts
<1>c. put' \in [Writers -> Puts] /\ disk' \in [Ids -> Files]
  <2>1. put' = [put EXCEPT ![w].drop = put[w].drop \ {i}]
    BY <1>a
  <2>2. put' \in [Writers -> Puts]
    BY <2>1, <1>b, PutRemoves DEF SpoolInv, SpoolTypes
  <2> QED BY <1>a, <1>b, <2>2, FileGone DEF SpoolInv, SpoolTypes
<1>d. \A j \in Ids : disk'[j] = disk[j] \/ (j = i /\ disk'[j] = NoFile)
  BY <1>a, <1>b DEF SpoolInv, SpoolTypes
<1>e. \A v \in Writers : /\ put'[v].pc = put[v].pc /\ put'[v].id = put[v].id
                         /\ put'[v].drop \subseteq put[v].drop
  BY <1>a DEF SpoolInv, SpoolTypes, Puts
<1>f. UNCHANGED <<entries, Registered, condemned, up, reading, now, used, mine, swept>> /\ up
  BY DEF PutRemove, index, process, Registered, SpoolInv, Down, NoPut, At
<1>g. \A v \in Writers : Unregistered(v) => put[v].id # i
  BY DEF SpoolInv, Claims
<1> USE SpoolAssumption, NoPutTyped
    DEF SpoolInv, SpoolTypes, Claims, Unregistered, Progress, At, Down, Puts, Pcs, Files,
        RegisteredIsComplete, ReaderSeesWhole, Kind, Registered, index, process,
        history, Returns, Gone, Fails, Remove, NoFile, NoPut
<1>1. SpoolTypes'
  BY <1>b, <1>c, <1>d, <1>e, <1>f, <1>g
<1>2. Claims'
  BY <1>b, <1>c, <1>d, <1>e, <1>f, <1>g
<1>3. Progress'
  BY <1>b, <1>c, <1>d, <1>e, <1>f, <1>g
<1>4. Down'
  BY <1>b, <1>c, <1>d, <1>e, <1>f, <1>g
<1>5. RegisteredIsComplete'
  BY <1>b, <1>c, <1>d, <1>e, <1>f, <1>g
<1>6. ReaderSeesWhole'
  BY <1>b, <1>c, <1>d, <1>e, <1>f, <1>g
<1> QED BY <1>1, <1>2, <1>3, <1>4, <1>5, <1>6

\* PutReturn preserves the invariant.
LEMMA PutReturnInv ==
  ASSUME SpoolInv, NEW w \in Writers, PutReturn(w)
  PROVE  SpoolInv'
<1> USE SpoolAssumption, NoPutTyped
    DEF SpoolInv, SpoolTypes, Claims, Unregistered, Progress, At, Down, Puts, Pcs, Files,
        RegisteredIsComplete, ReaderSeesWhole, Kind, Registered, index, process,
        history, Returns, Gone, Fails, Remove, NoFile, NoPut
<1>1. SpoolTypes'
  BY DEF PutReturn
<1>2. Claims'
  BY DEF PutReturn
<1>3. Progress'
  BY DEF PutReturn
<1>4. Down'
  BY DEF PutReturn
<1>5. RegisteredIsComplete'
  BY DEF PutReturn
<1>6. ReaderSeesWhole'
  BY DEF PutReturn
<1> QED BY <1>1, <1>2, <1>3, <1>4, <1>5, <1>6

\* ReadGet preserves the invariant.
LEMMA ReadGetInv ==
  ASSUME SpoolInv, NEW r \in Readers, NEW i \in Ids, ReadGet(r, i)
  PROVE  SpoolInv'
<1> USE SpoolAssumption, NoPutTyped
    DEF SpoolInv, SpoolTypes, Claims, Unregistered, Progress, At, Down, Puts, Pcs, Files,
        RegisteredIsComplete, ReaderSeesWhole, Kind, Registered, index, process,
        history, Returns, Gone, Fails, Remove, NoFile, NoPut
<1>1. SpoolTypes'
  BY DEF ReadGet
<1>2. Claims'
  BY DEF ReadGet
<1>3. Progress'
  BY DEF ReadGet
<1>4. Down'
  BY DEF ReadGet
<1>5. RegisteredIsComplete'
  BY DEF ReadGet
<1>6. ReaderSeesWhole'
  BY DEF ReadGet
<1> QED BY <1>1, <1>2, <1>3, <1>4, <1>5, <1>6

\* ReadFile preserves the invariant.
LEMMA ReadFileInv ==
  ASSUME SpoolInv, NEW r \in Readers, ReadFile(r)
  PROVE  SpoolInv'
<1> USE SpoolAssumption, NoPutTyped
    DEF SpoolInv, SpoolTypes, Claims, Unregistered, Progress, At, Down, Puts, Pcs, Files,
        RegisteredIsComplete, ReaderSeesWhole, Kind, Registered, index, process,
        history, Returns, Gone, Fails, Remove, NoFile, NoPut
<1>1. SpoolTypes'
  BY DEF ReadFile
<1>2. Claims'
  BY DEF ReadFile
<1>3. Progress'
  BY DEF ReadFile
<1>4. Down'
  BY DEF ReadFile
<1>5. RegisteredIsComplete'
  BY DEF ReadFile
<1>6. ReaderSeesWhole'
  BY DEF ReadFile
<1> QED BY <1>1, <1>2, <1>3, <1>4, <1>5, <1>6

\* Close preserves the invariant.
LEMMA CloseInv ==
  ASSUME SpoolInv, Close
  PROVE  SpoolInv'
<1> USE SpoolAssumption, NoPutTyped
    DEF SpoolInv, SpoolTypes, Claims, Unregistered, Progress, At, Down, Puts, Pcs, Files,
        RegisteredIsComplete, ReaderSeesWhole, Kind, Registered, index, process,
        history, Returns, Gone, Fails, Remove, NoFile, NoPut
<1>1. SpoolTypes'
  BY DEF Close
<1>2. Claims'
  BY DEF Close
<1>3. Progress'
  BY DEF Close
<1>4. Down'
  BY DEF Close
<1>5. RegisteredIsComplete'
  BY DEF Close
<1>6. ReaderSeesWhole'
  BY DEF Close
<1> QED BY <1>1, <1>2, <1>3, <1>4, <1>5, <1>6

\* CloseRemove preserves the invariant.
LEMMA CloseRemoveInv ==
  ASSUME SpoolInv, CloseRemove
  PROVE  SpoolInv'
<1>a. PICK i \in condemned : /\ disk' = disk \/ disk' = [disk EXCEPT ![i] = NoFile]
                             /\ condemned' = condemned \ {i}
  BY DEF CloseRemove, Remove, Gone, Fails
<1>b. i \in Ids /\ i \notin Registered
  BY DEF SpoolInv, SpoolTypes, Claims
<1>c. disk' \in [Ids -> Files]
  BY <1>a, <1>b, FileGone DEF SpoolInv, SpoolTypes
<1>d. \A j \in Ids : disk'[j] = disk[j] \/ (j = i /\ disk'[j] = NoFile)
  BY <1>a, <1>b DEF SpoolInv, SpoolTypes
<1>e. UNCHANGED <<entries, Registered, put, up, reading, now, used, mine, swept>> /\ up
  BY DEF CloseRemove, index, Registered, SpoolInv, Down
<1>f. \A v \in Writers : Unregistered(v) => put[v].id # i
  BY DEF SpoolInv, Claims
<1> USE SpoolAssumption, NoPutTyped
    DEF SpoolInv, SpoolTypes, Claims, Unregistered, Progress, At, Down, Puts, Pcs, Files,
        RegisteredIsComplete, ReaderSeesWhole, Kind, Registered, index, process,
        history, Returns, Gone, Fails, Remove, NoFile, NoPut
<1>1. SpoolTypes'
  BY <1>a, <1>b, <1>c, <1>d, <1>e, <1>f
<1>2. Claims'
  BY <1>a, <1>b, <1>c, <1>d, <1>e, <1>f
<1>3. Progress'
  BY <1>a, <1>b, <1>c, <1>d, <1>e, <1>f
<1>4. Down'
  BY <1>a, <1>b, <1>c, <1>d, <1>e, <1>f
<1>5. RegisteredIsComplete'
  BY <1>a, <1>b, <1>c, <1>d, <1>e, <1>f
<1>6. ReaderSeesWhole'
  BY <1>a, <1>b, <1>c, <1>d, <1>e, <1>f
<1> QED BY <1>1, <1>2, <1>3, <1>4, <1>5, <1>6

\* CloseReturn preserves the invariant.
LEMMA CloseReturnInv ==
  ASSUME SpoolInv, CloseReturn
  PROVE  SpoolInv'
<1> USE SpoolAssumption, NoPutTyped
    DEF SpoolInv, SpoolTypes, Claims, Unregistered, Progress, At, Down, Puts, Pcs, Files,
        RegisteredIsComplete, ReaderSeesWhole, Kind, Registered, index, process,
        history, Returns, Gone, Fails, Remove, NoFile, NoPut
<1>1. SpoolTypes'
  BY DEF CloseReturn
<1>2. Claims'
  BY DEF CloseReturn
<1>3. Progress'
  BY DEF CloseReturn
<1>4. Down'
  BY DEF CloseReturn
<1>5. RegisteredIsComplete'
  BY DEF CloseReturn
<1>6. ReaderSeesWhole'
  BY DEF CloseReturn
<1> QED BY <1>1, <1>2, <1>3, <1>4, <1>5, <1>6

\* Stop preserves the invariant.
LEMMA StopInv ==
  ASSUME SpoolInv, Stop
  PROVE  SpoolInv'
<1> USE SpoolAssumption, NoPutTyped
    DEF SpoolInv, SpoolTypes, Claims, Unregistered, Progress, At, Down, Puts, Pcs, Files,
        RegisteredIsComplete, ReaderSeesWhole, Kind, Registered, index, process,
        history, Returns, Gone, Fails, Remove, NoFile, NoPut
<1>1. SpoolTypes'
  BY DEF Stop
<1>2. Claims'
  BY DEF Stop
<1>3. Progress'
  BY DEF Stop
<1>4. Down'
  BY DEF Stop
<1>5. RegisteredIsComplete'
  BY DEF Stop
<1>6. ReaderSeesWhole'
  BY DEF Stop
<1> QED BY <1>1, <1>2, <1>3, <1>4, <1>5, <1>6

\* Boot preserves the invariant.
LEMMA BootInv ==
  ASSUME SpoolInv, Boot
  PROVE  SpoolInv'
<1> USE SpoolAssumption, NoPutTyped
    DEF SpoolInv, SpoolTypes, Claims, Unregistered, Progress, At, Down, Puts, Pcs, Files,
        RegisteredIsComplete, ReaderSeesWhole, Kind, Registered, index, process,
        history, Returns, Gone, Fails, Remove, NoFile, NoPut
<1>1. SpoolTypes'
  BY DEF Boot
<1>2. Claims'
  BY DEF Boot
<1>3. Progress'
  BY DEF Boot
<1>4. Down'
  BY DEF Boot
<1>5. RegisteredIsComplete'
  BY DEF Boot
<1>6. ReaderSeesWhole'
  BY DEF Boot
<1> QED BY <1>1, <1>2, <1>3, <1>4, <1>5, <1>6

\* NeighbourSweeps preserves the invariant.
LEMMA NeighbourSweepsInv ==
  ASSUME SpoolInv, NEW i \in Ids, NeighbourSweeps(i)
  PROVE  SpoolInv'
<1> USE SpoolAssumption, NoPutTyped
    DEF SpoolInv, SpoolTypes, Claims, Unregistered, Progress, At, Down, Puts, Pcs, Files,
        RegisteredIsComplete, ReaderSeesWhole, Kind, Registered, index, process,
        history, Returns, Gone, Fails, Remove, NoFile, NoPut
<1>1. SpoolTypes'
  BY DEF NeighbourSweeps
<1>2. Claims'
  BY DEF NeighbourSweeps
<1>3. Progress'
  BY DEF NeighbourSweeps
<1>4. Down'
  BY DEF NeighbourSweeps
<1>5. RegisteredIsComplete'
  BY DEF NeighbourSweeps
<1>6. ReaderSeesWhole'
  BY DEF NeighbourSweeps
<1> QED BY <1>1, <1>2, <1>3, <1>4, <1>5, <1>6

\* Tick preserves the invariant.
LEMMA TickInv ==
  ASSUME SpoolInv, Tick
  PROVE  SpoolInv'
<1> USE SpoolAssumption, NoPutTyped
    DEF SpoolInv, SpoolTypes, Claims, Unregistered, Progress, At, Down, Puts, Pcs, Files,
        RegisteredIsComplete, ReaderSeesWhole, Kind, Registered, index, process,
        history, Returns, Gone, Fails, Remove, NoFile, NoPut
<1>1. SpoolTypes'
  BY DEF Tick
<1>2. Claims'
  BY DEF Tick
<1>3. Progress'
  BY DEF Tick
<1>4. Down'
  BY DEF Tick
<1>5. RegisteredIsComplete'
  BY DEF Tick
<1>6. ReaderSeesWhole'
  BY DEF Tick
<1> QED BY <1>1, <1>2, <1>3, <1>4, <1>5, <1>6

\* A stutter preserves the invariant.
LEMMA StutterInv ==
  ASSUME SpoolInv, UNCHANGED vars
  PROVE  SpoolInv'
<1> USE SpoolAssumption, NoPutTyped
    DEF SpoolInv, SpoolTypes, Claims, Unregistered, Progress, At, Down, Puts, Pcs, Files,
        RegisteredIsComplete, ReaderSeesWhole, Kind, Registered, index, process,
        history, Returns, Gone, Fails, Remove, NoFile, NoPut
<1>1. SpoolTypes'
  BY DEF vars
<1>2. Claims'
  BY DEF vars
<1>3. Progress'
  BY DEF vars
<1>4. Down'
  BY DEF vars
<1>5. RegisteredIsComplete'
  BY DEF vars
<1>6. ReaderSeesWhole'
  BY DEF vars
<1> QED BY <1>1, <1>2, <1>3, <1>4, <1>5, <1>6

\* Every step preserves the invariant.
LEMMA SpoolStep == SpoolInv /\ [Next]_vars => SpoolInv'
  BY PutCreateInv, PutWriteFailsInv, PutRenameInv, PutRenameFailsInv,
     PutRegisterInv, PutSweepInv, PutRemoveInv, PutReturnInv, ReadGetInv,
     ReadFileInv, CloseInv, CloseRemoveInv, CloseReturnInv, StopInv, BootInv,
     NeighbourSweepsInv, TickInv, StutterInv
     DEF Next, PutStep, CloseStep

\* An entry in the index has its complete file in the directory, unless another
\* instance removed it: Put registers after the rename, and a sweep or Close
\* removes a file only after its entry is gone.
THEOREM SpoolRegisteredIsComplete == Spec => []RegisteredIsComplete
<1>1. SpoolInv => RegisteredIsComplete
  BY DEF SpoolInv
<1> QED BY <1>1, SpoolInit, SpoolStep, PTL DEF Spec

-----------------------------------------------------------------------------
\* The spool as a store of whole results.  Nobody reads what is not registered,
\* and only another instance can have taken a file away.
StoreInv == /\ SpoolInv
            /\ \A w \in Writers, r \in Readers : Unregistered(w) => reading[r] # put[w].id
            /\ swept = {} \/ Neighbours

\* The initial state satisfies it.
LEMMA StoreInit == Init => StoreInv
  BY SpoolInit DEF Init, StoreInv, Unregistered, NoPut

\* Every step preserves it.
LEMMA StoreInvStep == StoreInv /\ [Next]_vars => StoreInv'
<1> SUFFICES ASSUME StoreInv, [Next]_vars
             PROVE  StoreInv'
  OBVIOUS
<1> DEFINE Unread == \A w \in Writers, r \in Readers : Unregistered(w) => reading[r] # put[w].id
           Alone == swept = {} \/ Neighbours
<1>0. SpoolInv' /\ SpoolInv /\ Unread /\ Alone
  BY SpoolStep DEF StoreInv
<1>a. /\ put \in [Writers -> Puts] /\ reading \in [Readers -> Ids \cup {NoId}]
      /\ \A w \in Writers : Unregistered(w) => /\ put[w].id \in Ids \ Registered
                                               /\ put[w].id # NoId
      /\ \A r \in Readers : reading[r] # NoId => reading[r] \in used
  BY <1>0, SpoolAssumption DEF SpoolInv, SpoolTypes, Claims
<1>1. ASSUME NEW w \in Writers, NEW i \in Ids, NEW b \in Sizes, PutCreate(w, i, b)
      PROVE  Unread' /\ Alone'
  <2>1. reading' = reading /\ swept' = swept /\ i \notin used /\ i # NoId
    BY <1>1, SpoolAssumption DEF PutCreate
  <2>2. put'[w].id = i /\ \A v \in Writers : v # w => put'[v] = put[v]
    BY <1>1, <1>a DEF PutCreate, Puts
  <2> QED BY <1>0, <1>a, <2>1, <2>2 DEF Unregistered
<1>2. ASSUME NEW w \in Writers, PutWriteFails(w) \/ PutRenameFails(w) \/ PutReturn(w)
      PROVE  Unread' /\ Alone'
  <2>1. reading' = reading /\ swept' = swept /\ put' = [put EXCEPT ![w] = NoPut]
    BY <1>2 DEF PutWriteFails, PutRenameFails, PutReturn, Returns, history
  <2> QED BY <1>0, <1>a, <2>1 DEF Unregistered, NoPut
<1>3. ASSUME NEW w \in Writers, PutRename(w)
      PROVE  Unread' /\ Alone'
  <2>1. reading' = reading /\ swept' = swept
    BY <1>3 DEF PutRename, history
  <2>2. \A v \in Writers : put'[v].id = put[v].id /\ (Unregistered(v)' => Unregistered(v))
    BY <1>3, <1>a DEF PutRename, Puts, Unregistered, At
  <2> QED BY <1>0, <2>1, <2>2
<1>4. ASSUME NEW w \in Writers, PutRegister(w) \/ PutSweep(w) \/ PutRemove(w)
      PROVE  Unread' /\ Alone'
  <2>1. reading' = reading /\ swept' = swept
    BY <1>4 DEF PutRegister, PutSweep, PutRemove, history
  <2>2. \A v \in Writers : put'[v].id = put[v].id /\ (v = w \/ put'[v] = put[v])
    BY <1>4, <1>a DEF PutRegister, PutSweep, PutRemove, Puts
  <2>3. put'[w].pc \in {"sweep", "remove"}
    BY <1>4, <1>a DEF PutRegister, PutSweep, PutRemove, Puts, At
  <2>4. \A v \in Writers : put'[v].id = put[v].id /\ (Unregistered(v)' => Unregistered(v))
    BY <2>2, <2>3 DEF Unregistered
  <2> QED BY <1>0, <2>1, <2>4
<1>5. ASSUME NEW r \in Readers, NEW i \in Ids, ReadGet(r, i)
      PROVE  Unread' /\ Alone'
  BY <1>0, <1>a, <1>5 DEF ReadGet, history, Unregistered
<1>6. ASSUME NEW r \in Readers, ReadFile(r)
      PROVE  Unread' /\ Alone'
  BY <1>0, <1>a, <1>6 DEF ReadFile, history, Unregistered
<1>7. ASSUME Close \/ CloseStep \/ Boot \/ Tick \/ UNCHANGED vars
      PROVE  Unread' /\ Alone'
  BY <1>0, <1>7 DEF Close, CloseStep, CloseRemove, CloseReturn, Boot, Tick, vars, history, Unregistered
<1>8. ASSUME Stop
      PROVE  Unread' /\ Alone'
  BY <1>0, <1>8 DEF Stop, Unregistered, NoPut
<1>9. ASSUME NEW i \in Ids, NeighbourSweeps(i)
      PROVE  Unread' /\ Alone'
  BY <1>0, <1>9 DEF NeighbourSweeps, Unregistered
<1>10. Unread' /\ Alone'
  BY <1>1, <1>2, <1>3, <1>4, <1>5, <1>6, <1>7, <1>8, <1>9 DEF Next, PutStep
<1> QED BY <1>0, <1>10 DEF StoreInv

\* What a reader is let in for is not new.
LEMMA ReadersKnow ==
  ASSUME StoreInv
  PROVE  /\ \A r \in Readers : reading[r] # NoId => reading[r] \in Ids /\ ~New(reading[r])
         /\ \A i \in Ids : i \in Registered => ~New(i)
         /\ \A i \in condemned : i \in Ids /\ Result(i) = "gone"
         /\ \A w \in Writers : \A i \in put[w].drop : i \in Ids /\ Result(i) = "gone"
         /\ \A w \in Writers : Unregistered(w) => /\ put[w].id \in Ids /\ New(put[w].id)
                                                  /\ put[w].id \notin Registered
  BY DEF StoreInv, SpoolInv, SpoolTypes, Claims, New, Result, Puts

\* Steps that the tools do not see: they touch the files of new results at most.
LEMMA Unseen ==
  ASSUME StoreInv, UNCHANGED reading,
         \A i \in Ids : /\ New(i)' <=> New(i)
                        /\ i \in Registered' <=> i \in Registered
                        /\ New(i) \/ Kind(i)' = Kind(i)
  PROVE  UNCHANGED Store!vars
<1>1. \A i \in Ids : Result(i)' = Result(i)
  <2> TAKE i \in Ids
  <2>1. CASE New(i)
    BY <2>1, ReadersKnow DEF Result
  <2>2. CASE ~New(i)
    BY <2>2 DEF Result
  <2> QED BY <2>1, <2>2
<1>2. \A r \in Readers : Seen(r)' = Seen(r)
  BY ReadersKnow DEF Seen, Finds
<1> QED BY <1>1, <1>2 DEF Store!vars

\* Results are forgotten, and their files stay for now.
LEMMA Forgotten ==
  ASSUME NEW S \in SUBSET Ids,
         \A i \in Ids : Result(i)' = IF i \in S THEN "gone" ELSE Result(i),
         \A r \in Readers : Seen(r)' = Seen(r)
  PROVE  Store!Next
<1>1. Store!Forget(S)
  BY DEF Store!Forget
<1> QED BY <1>1 DEF Store!Next

\* The file of a result that is gone goes too.
LEMMA Erased ==
  ASSUME StoreInv, NEW i \in Ids, Result(i) = "gone", UNCHANGED reading,
         disk' = [disk EXCEPT ![i] = NoFile],
         \A j \in Ids : (New(j)' <=> New(j)) /\ (j \in Registered' <=> j \in Registered)
  PROVE  Store!Next
<1>1. /\ Kind(i)' = "none"
      /\ \A j \in Ids : j # i => Kind(j)' = Kind(j)
  BY DEF StoreInv, SpoolInv, SpoolTypes, Kind, NoFile
<1>2. ~New(i) /\ i \notin Registered
  BY DEF Result
<1>3. \A j \in Ids : Result(j)' = Result(j)
  BY <1>1, <1>2 DEF Result
<1>4. \A r \in Readers : Seen(r)' = IF Seen(r).id = i THEN [id |-> i, finds |-> "nothing"]
                                                      ELSE Seen(r)
  <2> TAKE r \in Readers
  <2>1. CASE reading[r] = NoId
    BY <2>1, SpoolAssumption DEF Seen
  <2>2. CASE reading[r] = i
    BY <2>2, <1>1, SpoolAssumption DEF Seen, Finds
  <2>3. CASE reading[r] \notin {NoId, i}
    BY <2>3, <1>1, ReadersKnow DEF Seen, Finds
  <2> QED BY <2>1, <2>2, <2>3
<1>5. Store!Erase(i)
  BY <1>3, <1>4 DEF Store!Erase, Store!Emptied
<1> QED BY <1>5 DEF Store!Next

\* The Put of an id: it is new while the Put is under way and nobody else has it.
LEMMA PutEnds ==
  ASSUME StoreInv, NEW w \in Writers, Unregistered(w), UNCHANGED used,
         ~Unregistered(w)', \A v \in Writers : v # w => put'[v] = put[v]
  PROVE  \A i \in Ids : New(i)' <=> New(i) /\ i # put[w].id
<1>1. put[w].id \in used
  BY DEF StoreInv, SpoolInv, SpoolTypes, Claims
<1>2. \A v \in Writers : v # w => (Unregistered(v)' <=> Unregistered(v)) /\ put'[v].id = put[v].id
  BY DEF Unregistered
<1>3. \A v \in Writers : v # w /\ Unregistered(v) => put[v].id # put[w].id
  BY DEF StoreInv, SpoolInv, Claims
<1> QED BY <1>1, <1>2, <1>3 DEF New

\* Each step of the spool is a step of the store, or the tools do not see it.
LEMMA StoreStep ==
  ASSUME StoreInv, [Next]_vars
  PROVE  [Store!Next]_(Store!vars)
<1>a. /\ disk \in [Ids -> Files] /\ put \in [Writers -> Puts]
      /\ reading \in [Readers -> Ids \cup {NoId}]
  BY DEF StoreInv, SpoolInv, SpoolTypes
<1>b. swept = {} \/ Neighbours
  BY DEF StoreInv
<1>1. ASSUME NEW w \in Writers, NEW i \in Ids, NEW b \in Sizes, PutCreate(w, i, b)
      PROVE  UNCHANGED Store!vars
  <2>1. /\ ~Unregistered(w) /\ i \notin used /\ used' = used \cup {i}
        /\ UNCHANGED <<reading, entries>>
        /\ disk' = [disk EXCEPT ![i] = [kind |-> "tmp", mtime |-> now]]
    BY <1>1 DEF PutCreate, Unregistered, At, index
  <2>2. put'[w].id = i /\ put'[w].pc = "write" /\ \A v \in Writers : v # w => put'[v] = put[v]
    BY <1>1, <1>a DEF PutCreate, Puts
  <2>3. \A j \in Ids : New(j)' <=> New(j)
    BY <2>1, <2>2 DEF New, Unregistered
  <2>4. New(i) /\ \A j \in Ids : j # i => Kind(j)' = Kind(j)
    BY <2>1, <1>a DEF New, Kind
  <2> QED BY <2>1, <2>3, <2>4, Unseen DEF Registered
<1>2. ASSUME NEW w \in Writers, PutWriteFails(w)
      PROVE  Store!Next
  <2>1. UNCHANGED <<disk, entries, reading, used>> /\ Unregistered(w)
    BY <1>2 DEF PutWriteFails, Fails, index, Unregistered, At
  <2>2. put'[w] = NoPut /\ \A v \in Writers : v # w => put'[v] = put[v]
    BY <1>2, <1>a DEF PutWriteFails, Returns
  <2>3. \A i \in Ids : New(i)' <=> New(i) /\ i # put[w].id
    BY <2>1, <2>2, PutEnds DEF Unregistered, NoPut
  <2>4. \A i \in Ids : Result(i)' = IF i \in {put[w].id} THEN "gone" ELSE Result(i)
    BY <2>1, <2>3, ReadersKnow DEF Result, Registered, Kind
  <2>5. \A r \in Readers : Seen(r)' = Seen(r)
    BY <2>1 DEF Seen, Finds, Kind
  <2> QED BY <2>1, <2>4, <2>5, Forgotten, ReadersKnow
<1>3. ASSUME NEW w \in Writers, PutRename(w)
      PROVE  UNCHANGED Store!vars
  <2>1. /\ Unregistered(w) /\ UNCHANGED <<reading, entries, used>>
        /\ \A j \in Ids : j # put[w].id => Kind(j)' = Kind(j)
    BY <1>3, <1>a DEF PutRename, Unregistered, At, index, Kind
  <2>2. \A v \in Writers : put'[v].id = put[v].id /\ (v = w \/ put'[v] = put[v])
    BY <1>3, <1>a DEF PutRename, Puts
  <2>3. put'[w].pc = "register"
    BY <1>3, <1>a DEF PutRename, Puts
  <2>4. \A j \in Ids : New(j)' <=> New(j)
    BY <2>1, <2>2, <2>3 DEF New, Unregistered
  <2> QED BY <2>1, <2>4, Unseen, ReadersKnow DEF Registered
<1>4. ASSUME NEW w \in Writers, PutRenameFails(w)
      PROVE  Store!Next
  <2>1. /\ UNCHANGED <<entries, reading, used>> /\ Unregistered(w)
        /\ disk' = disk \/ disk' = [disk EXCEPT ![put[w].id] = NoFile]
    BY <1>4 DEF PutRenameFails, Fails, Gone, index, Unregistered, At
  <2>2. put'[w] = NoPut /\ \A v \in Writers : v # w => put'[v] = put[v]
    BY <1>4, <1>a DEF PutRenameFails, Returns
  <2>3. \A i \in Ids : New(i)' <=> New(i) /\ i # put[w].id
    BY <2>1, <2>2, PutEnds DEF Unregistered, NoPut
  <2>4. \A i \in Ids : i # put[w].id => Kind(i)' = Kind(i)
    BY <2>1, <1>a DEF Kind
  <2>5. \A i \in Ids : Result(i)' = IF i \in {put[w].id} THEN "gone" ELSE Result(i)
    BY <2>1, <2>3, <2>4, ReadersKnow DEF Result, Registered
  <2>6. \A r \in Readers : Seen(r)' = Seen(r)
    BY <2>1, <2>4, ReadersKnow DEF Seen, Finds, StoreInv
  <2> QED BY <2>1, <2>5, <2>6, Forgotten, ReadersKnow
<1>5. ASSUME NEW w \in Writers, PutRegister(w)
      PROVE  Store!Next
  <2>0. PICK i \in Ids : i = put[w].id
    BY <1>5, ReadersKnow DEF PutRegister, Unregistered, At
  <2>1. UNCHANGED <<disk, reading, used>> /\ Unregistered(w) /\ Registered' = Registered \cup {i}
    BY <1>5, <2>0 DEF PutRegister, history, Unregistered, At, Registered
  <2>2. put'[w].pc = "sweep" /\ \A v \in Writers : v # w => put'[v] = put[v]
    BY <1>5, <1>a DEF PutRegister, Puts
  <2>3. \A j \in Ids : New(j)' <=> New(j) /\ j # i
    BY <2>0, <2>1, <2>2, PutEnds DEF Unregistered
  <2>4. New(i) /\ i \notin Registered
    BY <2>0, <2>1, ReadersKnow
  <2>5. Kind(i) = "result" \/ (Kind(i) = "none" /\ Neighbours)
    BY <1>5, <1>b, <2>0 DEF PutRegister, StoreInv, SpoolInv, Progress
  <2>6. \A j \in Ids : j # i => Result(j)' = Result(j)
    BY <2>1, <2>3 DEF Result, Kind
  <2>7. Result(i) = "new" /\ Result(i)' = IF Kind(i) = "none" THEN "lost" ELSE "kept"
    BY <2>1, <2>3, <2>4 DEF Result, Kind
  <2>8. \A r \in Readers : Seen(r)' = Seen(r)
    BY <2>1 DEF Seen, Finds, Kind
  <2>9. Store!Put(i) \/ Store!PutLost(i)
    <3>1. CASE Kind(i) = "result"
      <4>1. Store!Put(i)
        BY <2>4, <2>6, <2>7, <2>8, <3>1 DEF Store!Put
      <4> QED BY <4>1
    <3>2. CASE Kind(i) = "none" /\ Neighbours
      <4>1. Store!PutLost(i)
        BY <2>4, <2>6, <2>7, <2>8, <3>2 DEF Store!PutLost
      <4> QED BY <4>1
    <3> QED BY <2>5, <3>1, <3>2
  <2> QED BY <2>9 DEF Store!Next
<1>6. ASSUME NEW w \in Writers, PutSweep(w)
      PROVE  Store!Next
  <2>1. PICK D \in SUBSET Registered :
            /\ put' = [put EXCEPT ![w].pc = "remove", ![w].drop = D]
            /\ Registered' = Registered \ D
    BY <1>6, SweepDrops
  <2>2. UNCHANGED <<disk, reading, used>> /\ ~Unregistered(w)
    BY <1>6 DEF PutSweep, history, Unregistered, At
  <2>3. put'[w].pc = "remove" /\ \A v \in Writers : v # w => put'[v] = put[v]
    BY <2>1, <1>a DEF Puts
  <2>4. \A i \in Ids : New(i)' <=> New(i)
    BY <2>2, <2>3 DEF New, Unregistered
  <2>5. D \in SUBSET Ids
    BY DEF StoreInv, SpoolInv, SpoolTypes
  <2>6. \A i \in Ids : Result(i)' = IF i \in D THEN "gone" ELSE Result(i)
    BY <2>1, <2>2, <2>4, ReadersKnow DEF Result, Kind
  <2>7. \A r \in Readers : Seen(r)' = Seen(r)
    BY <2>2 DEF Seen, Finds, Kind
  <2> QED BY <2>5, <2>6, <2>7, Forgotten
<1>7. ASSUME NEW w \in Writers, PutRemove(w)
      PROVE  Store!Next \/ UNCHANGED Store!vars
  <2>1. PICK i \in put[w].drop :
            /\ disk' = disk \/ disk' = [disk EXCEPT ![i] = NoFile]
            /\ put' = [put EXCEPT ![w].drop = @ \ {i}]
    BY <1>7 DEF PutRemove, Remove, Gone, Fails
  <2>2. UNCHANGED <<entries, reading, used>>
    BY <1>7 DEF PutRemove, index
  <2>3. \A v \in Writers : put'[v].id = put[v].id /\ put'[v].pc = put[v].pc
    BY <2>1, <1>a DEF Puts
  <2>4. \A j \in Ids : (New(j)' <=> New(j)) /\ (j \in Registered' <=> j \in Registered)
    BY <2>2, <2>3 DEF New, Unregistered, Registered
  <2>5. CASE disk' = disk
    BY <2>2, <2>4, <2>5, Unseen DEF Kind
  <2>6. CASE disk' = [disk EXCEPT ![i] = NoFile]
    BY <2>2, <2>4, <2>6, Erased, ReadersKnow
  <2> QED BY <2>1, <2>5, <2>6
<1>8. ASSUME NEW w \in Writers, PutReturn(w)
      PROVE  UNCHANGED Store!vars
  <2>1. UNCHANGED <<disk, entries, reading, used>> /\ ~Unregistered(w)
    BY <1>8 DEF PutReturn, index, history, Unregistered, At
  <2>2. put'[w] = NoPut /\ \A v \in Writers : v # w => put'[v] = put[v]
    BY <1>8, <1>a DEF PutReturn, Returns
  <2>3. \A j \in Ids : New(j)' <=> New(j)
    BY <2>1, <2>2 DEF New, Unregistered, NoPut
  <2> QED BY <2>1, <2>3, Unseen DEF Registered, Kind
<1>9. ASSUME NEW r \in Readers, NEW i \in Ids, ReadGet(r, i)
      PROVE  Store!Next
  <2>1. /\ UNCHANGED <<disk, entries, put, used>> /\ reading[r] = NoId /\ i \in Registered
        /\ reading'[r] = i /\ \A s \in Readers : s # r => reading'[s] = reading[s]
    BY <1>9, <1>a DEF ReadGet, index, history
  <2>2. \A j \in Ids : Result(j)' = Result(j)
    BY <2>1 DEF Result, New, Unregistered, Registered, Kind
  <2>3. Kind(i) \in {"result", "none"} /\ i # NoId
    BY <2>1, SpoolAssumption DEF StoreInv, SpoolInv, RegisteredIsComplete
  <2>4. Result(i) = IF Kind(i) = "none" THEN "lost" ELSE "kept"
    BY <2>1, ReadersKnow DEF Result
  <2>5. Seen(r).id = NoId
    BY <2>1 DEF Seen
  <2>6. Seen(r)' = [id |-> i, finds |-> IF Result(i) = "kept" THEN "whole" ELSE "nothing"]
    BY <2>1, <2>3, <2>4 DEF Seen, Finds, Kind
  <2>7. \A s \in Readers : s # r => Seen(s)' = Seen(s)
    BY <2>1 DEF Seen, Finds, Kind
  <2>8. Store!Open(r, i)
    BY <2>2, <2>4, <2>5, <2>6, <2>7 DEF Store!Open
  <2> QED BY <2>8 DEF Store!Next
<1>10. ASSUME NEW r \in Readers, ReadFile(r)
       PROVE  Store!Next
  <2>1. /\ UNCHANGED <<disk, entries, put, used>> /\ reading[r] # NoId
        /\ reading'[r] = NoId /\ \A s \in Readers : s # r => reading'[s] = reading[s]
    BY <1>10, <1>a DEF ReadFile, index, history
  <2>2. \A j \in Ids : Result(j)' = Result(j)
    BY <2>1 DEF Result, New, Unregistered, Registered, Kind
  <2>3. Seen(r).id # NoId /\ Seen(r)' = Store!NoReader
    BY <2>1 DEF Seen, Store!NoReader
  <2>4. \A s \in Readers : s # r => Seen(s)' = Seen(s)
    BY <2>1 DEF Seen, Finds, Kind
  <2>5. Store!Finish(r)
    BY <2>2, <2>3, <2>4 DEF Store!Finish
  <2> QED BY <2>5 DEF Store!Next
<1>11. ASSUME Close
       PROVE  Store!Next
  <2>1. UNCHANGED <<disk, put, reading, used>> /\ Registered' = {}
    BY <1>11 DEF Close, history, Registered
  <2>2. \A i \in Ids : New(i)' <=> New(i)
    BY <2>1 DEF New, Unregistered
  <2>3. \A i \in Ids : Result(i)' = IF i \in Registered THEN "gone" ELSE Result(i)
    BY <2>1, <2>2, ReadersKnow DEF Result
  <2>4. \A r \in Readers : Seen(r)' = Seen(r)
    BY <2>1 DEF Seen, Finds, Kind
  <2>5. Registered \in SUBSET Ids
    BY DEF StoreInv, SpoolInv, SpoolTypes
  <2> QED BY <2>3, <2>4, <2>5, Forgotten
<1>12. ASSUME CloseRemove
       PROVE  Store!Next \/ UNCHANGED Store!vars
  <2>1. PICK i \in condemned : disk' = disk \/ disk' = [disk EXCEPT ![i] = NoFile]
    BY <1>12 DEF CloseRemove, Remove, Gone, Fails
  <2>2. UNCHANGED <<entries, put, reading, used>>
    BY <1>12 DEF CloseRemove, index
  <2>3. \A j \in Ids : (New(j)' <=> New(j)) /\ (j \in Registered' <=> j \in Registered)
    BY <2>2 DEF New, Unregistered, Registered
  <2>4. CASE disk' = disk
    BY <2>2, <2>3, <2>4, Unseen DEF Kind
  <2>5. CASE disk' = [disk EXCEPT ![i] = NoFile]
    BY <2>2, <2>3, <2>5, Erased, ReadersKnow
  <2> QED BY <2>1, <2>4, <2>5
<1>13. ASSUME Stop
       PROVE  Store!Next
  <2> DEFINE S == {i \in Ids : Result(i) \in {"kept", "lost"} \/ (New(i) /\ i \in used)}
  <2>1. /\ UNCHANGED <<disk, used>> /\ Registered' = {}
        /\ \A w \in Writers : ~Unregistered(w)'
        /\ \A r \in Readers : reading'[r] = NoId
    BY <1>13 DEF Stop, Registered, Unregistered, NoPut
  <2>2. \A i \in Ids : New(i)' <=> i \notin used
    BY <2>1 DEF New
  <2>3. \A i \in Ids : Result(i)' = IF i \in S THEN "gone" ELSE Result(i)
    <3> TAKE i \in Ids
    <3>1. Result(i)' = IF i \in used THEN "gone" ELSE "new"
      BY <2>1, <2>2 DEF Result
    <3>2. Result(i) \in {"new", "kept", "lost", "gone"}
      BY DEF Result
    <3>3. Result(i) = "new" => New(i)
      BY DEF Result
    <3>4. New(i) => Result(i) = "new"
      BY ReadersKnow DEF Result
    <3>5. i \notin used => New(i)
      BY DEF New
    <3> QED BY <3>1, <3>2, <3>3, <3>4, <3>5
  <2>4. \A i \in Ids \ S : Result(i) \in {"new", "gone"}
    BY DEF Result
  <2>5. \A r \in Readers : Seen(r)' = Store!NoReader
    BY <2>1 DEF Seen, Store!NoReader
  <2>6. Store!Crash(S)
    BY <2>3, <2>4, <2>5 DEF Store!Crash
  <2>7. S \in SUBSET Ids
    OBVIOUS
  <2> HIDE DEF S
  <2> QED BY <2>6, <2>7 DEF Store!Next
<1>14. ASSUME Boot
       PROVE  UNCHANGED Store!vars
  <2>1. /\ UNCHANGED <<entries, put, reading, used>> /\ Registered = {}
        /\ \A r \in Readers : reading[r] = NoId
    BY <1>14 DEF Boot, index, StoreInv, SpoolInv, Down
  <2>2. \A i \in Ids : Result(i)' = Result(i)
    BY <2>1 DEF Result, New, Unregistered, Registered
  <2>3. \A r \in Readers : Seen(r)' = Seen(r)
    BY <2>1 DEF Seen
  <2> QED BY <2>2, <2>3 DEF Store!vars
<1>15. ASSUME NEW i \in Ids, NeighbourSweeps(i)
       PROVE  Store!Next \/ UNCHANGED Store!vars
  <2>1. /\ UNCHANGED <<entries, put, reading, used>> /\ Neighbours /\ Kind(i) # "none"
        /\ disk' = [disk EXCEPT ![i] = NoFile]
    BY <1>15 DEF NeighbourSweeps, Gone, Stale, index
  <2>2. \A j \in Ids : (New(j)' <=> New(j)) /\ (j \in Registered' <=> j \in Registered)
    BY <2>1 DEF New, Unregistered, Registered
  <2>3. Kind(i)' = "none" /\ \A j \in Ids : j # i => Kind(j)' = Kind(j)
    BY <2>1, <1>a DEF Kind, NoFile
  <2>4. CASE New(i)
    BY <2>1, <2>2, <2>3, <2>4, Unseen
  <2>5. CASE Result(i) = "gone"
    BY <2>1, <2>2, <2>5, Erased
  <2>6. CASE ~New(i) /\ i \in Registered
    <3>1. Result(i) = "kept" /\ Result(i)' = "lost"
      BY <2>1, <2>2, <2>3, <2>6 DEF Result
    <3>2. \A j \in Ids : j # i => Result(j)' = Result(j)
      BY <2>2, <2>3 DEF Result
    <3>3. \A r \in Readers : Seen(r)' = IF Seen(r).id = i THEN [id |-> i, finds |-> "nothing"]
                                                          ELSE Seen(r)
      <4> TAKE r \in Readers
      <4>1. CASE reading[r] = NoId
        BY <4>1, <2>1, SpoolAssumption DEF Seen
      <4>2. CASE reading[r] = i
        BY <4>2, <2>1, <2>3, SpoolAssumption DEF Seen, Finds
      <4>3. CASE reading[r] \notin {NoId, i}
        BY <4>3, <2>1, <2>3, ReadersKnow DEF Seen, Finds
      <4> QED BY <4>1, <4>2, <4>3
    <3>4. Store!Lose(i)
      BY <2>1, <3>1, <3>2, <3>3 DEF Store!Lose, Store!Emptied
    <3> QED BY <3>4 DEF Store!Next
  <2>7. New(i) \/ Result(i) = "gone" \/ (~New(i) /\ i \in Registered)
    BY DEF Result
  <2> QED BY <2>4, <2>5, <2>6, <2>7
<1>16. ASSUME CloseReturn \/ Tick \/ UNCHANGED vars
       PROVE  UNCHANGED Store!vars
  <2>1. UNCHANGED <<disk, entries, put, reading, used>>
    BY <1>16 DEF CloseReturn, Tick, vars, index, history
  <2>2. \A i \in Ids : New(i)' <=> New(i)
    BY <2>1 DEF New, Unregistered
  <2> QED BY <2>1, <2>2, Unseen DEF Registered, Kind
<1> QED BY <1>1, <1>2, <1>3, <1>4, <1>5, <1>6, <1>7, <1>8, <1>9, <1>10, <1>11, <1>12,
           <1>13, <1>14, <1>15, <1>16 DEF Next, PutStep, CloseStep

\* For any number of results, writers and readers the spool is a store of whole
\* results: Put takes effect when it registers, no reader gets a part of one, and
\* what was forgotten does not come back, not even after a restart.
THEOREM SpoolImplementsStore == Spec => ImplementsStore
<1>1. Init => Store!Init
  <2> SUFFICES ASSUME Init PROVE Store!Init
    OBVIOUS
  <2>1. used = {} /\ Registered = {} /\ \A r \in Readers : reading[r] = NoId
    BY DEF Init, Registered
  <2>2. \A i \in Ids : Result(i) = "new"
    BY <2>1 DEF Result, New
  <2>3. \A r \in Readers : Seen(r) = Store!NoReader
    BY <2>1 DEF Seen, Store!NoReader
  <2> QED BY <2>2, <2>3 DEF Store!Init
<1> QED BY <1>1, StoreInit, StoreInvStep, StoreStep, PTL DEF Spec, ImplementsStore, Store!Spec

-----------------------------------------------------------------------------
\* The accounts.  The sum over a set is a fold: what is needed of it is proved first,
\* by looking at a least set for which it fails.
Pick(s) == CHOOSE x \in s : TRUE

\* f gives each subset of S the sum of the sizes of its entries in e.
Sums(f, e, S) == f = [s \in SUBSET S |-> IF s = {} THEN 0
                                         ELSE e[Pick(s)].bytes + f[s \ {Pick(s)}]]

Sized(e, S) == \A i \in S : e[i].bytes \in Nat

Sum(e, S) == (CHOOSE f : Sums(f, e, S))[S]

\* The total that the properties speak of is this sum.
LEMMA WeightIsSum == \A S : Weight(S) = Sum(entries, S)
<1> TAKE S
<1>1. Weight(S) = (CHOOSE f : f = [s \in SUBSET S |->
                     IF s = {} THEN 0 ELSE entries[CHOOSE x \in s : TRUE].bytes
                                           + f[s \ {CHOOSE x \in s : TRUE}]])[S]
  BY DEF Weight, MapThenSumSet, MapThenFoldSet
<1> QED BY <1>1 DEF Sum, Sums, Pick

\* A set of naturals has a least one.
LEMMA LeastNat ==
  ASSUME NEW T \in SUBSET Nat, T # {}
  PROVE  \E n \in T : \A m \in T : n =< m
<1>1. PICK n \in T : \A m \in T : ~ (<<m, n>> \in OpToRel(<, Nat))
  BY NatLessThanWellFounded, WFMin
<1>2. \A m \in T : ~ (m < n)
  BY <1>1 DEF OpToRel
<1> QED BY <1>2

\* A family of subsets of a finite set has a smallest member.
LEMMA LeastSet ==
  ASSUME NEW S, IsFiniteSet(S), NEW T \in SUBSET (SUBSET S), T # {}
  PROVE  \E A \in T : \A B \in T : B \subseteq A => B = A
<1>1. IsWellFoundedOn(StrictSubsetOrdering(S), FiniteSubsetsOf(S))
  BY FS_StrictSubsetOrderingWellFounded
<1>2. FiniteSubsetsOf(S) = SUBSET S
  BY FS_FiniteSubsetsOfFinite
<1>3. PICK A \in T : \A B \in T : ~ (<<B, A>> \in StrictSubsetOrdering(S))
  BY <1>1, <1>2, WFMin
<1> QED BY <1>3 DEF StrictSubsetOrdering

\* The recursion defines a function.
LEMMA SumsExist ==
  ASSUME NEW S, IsFiniteSet(S), NEW e
  PROVE  \E f : Sums(f, e, S)
<1> DEFINE Body(f, s) == IF s = {} THEN 0 ELSE e[Pick(s)].bytes + f[s \ {Pick(s)}]
           UpTo(n) == \E f : \A s \in SUBSET S : Cardinality(s) =< n => f[s] = Body(f, s)
           Refuted == {n \in Nat : ~UpTo(n)}
<1>1. \A s \in SUBSET S : /\ IsFiniteSet(s) /\ Cardinality(s) \in Nat
                          /\ Cardinality(s) = 0 <=> s = {}
                          /\ s # {} => Cardinality(s \ {Pick(s)}) = Cardinality(s) - 1
  <2> TAKE s \in SUBSET S
  <2>1. IsFiniteSet(s)
    BY FS_Subset
  <2>2. Cardinality(s) \in Nat /\ (Cardinality(s) = 0 <=> s = {})
    BY <2>1, FS_CardinalityType, FS_EmptySet
  <2>3. ASSUME s # {} PROVE Cardinality(s \ {Pick(s)}) = Cardinality(s) - 1
    BY <2>1, <2>3, FS_RemoveElement DEF Pick
  <2> QED BY <2>1, <2>2, <2>3
<1>2. UpTo(0)
  <2> DEFINE f == [s \in SUBSET S |-> 0]
  <2>1. \A s \in SUBSET S : Cardinality(s) =< 0 => s = {}
    <3> TAKE s \in SUBSET S
    <3>1. Cardinality(s) \in Nat /\ (Cardinality(s) = 0 <=> s = {})
      BY <1>1
    <3> QED BY <3>1
  <2>2. \A s \in SUBSET S : Cardinality(s) =< 0 => f[s] = Body(f, s)
    BY <2>1
  <2> QED BY <2>2
<1>3. ASSUME NEW n \in Nat, UpTo(n) PROVE UpTo(n + 1)
  <2>1. PICK f : \A s \in SUBSET S : Cardinality(s) =< n => f[s] = Body(f, s)
    BY <1>3
  <2> DEFINE g == [s \in SUBSET S |-> IF Cardinality(s) =< n THEN f[s] ELSE Body(f, s)]
  <2>2. ASSUME NEW s \in SUBSET S, Cardinality(s) =< n + 1 PROVE g[s] = Body(g, s)
    <3>1. s # {} => g[s \ {Pick(s)}] = f[s \ {Pick(s)}]
      BY <1>1, <2>2
    <3>2. g[s] = Body(f, s)
      BY <2>1
    <3> QED BY <3>1, <3>2
  <2> QED BY <2>2
<1>4. \A n \in Nat : UpTo(n)
  <2> HIDE DEF UpTo
  <2> SUFFICES ASSUME Refuted # {} PROVE FALSE
    OBVIOUS
  <2>1. PICK n \in Nat : ~UpTo(n) /\ \A m \in Nat : ~UpTo(m) => n =< m
    BY LeastNat
  <2>2. n # 0
    BY <1>2, <2>1
  <2>3. PICK m \in Nat : n = m + 1
    BY <2>2
  <2>4. UpTo(m)
    BY <2>1, <2>3
  <2> QED BY <2>1, <2>3, <2>4, <1>3
<1>5. Cardinality(S) \in Nat /\ \A s \in SUBSET S : Cardinality(s) =< Cardinality(S)
  BY FS_CardinalityType, FS_Subset
<1>6. PICK f : \A s \in SUBSET S : f[s] = Body(f, s)
  BY <1>4, <1>5
<1> DEFINE h == [s \in SUBSET S |-> f[s]]
<1>7. h = [s \in SUBSET S |-> Body(h, s)]
  <2>1. \A s \in SUBSET S : s \ {Pick(s)} \in SUBSET S
    OBVIOUS
  <2> QED BY <1>6, <2>1
<1> QED BY <1>7 DEF Sums

\* One entry and the others.
LEMMA SumsPick ==
  ASSUME NEW S, NEW e, NEW f, Sums(f, e, S), NEW A \in SUBSET S, A # {}
  PROVE  /\ Pick(A) \in A
         /\ f[A] = e[Pick(A)].bytes + f[A \ {Pick(A)}]
  BY DEF Sums, Pick

\* A sum of sizes is a natural number.
LEMMA SumsTyped ==
  ASSUME NEW S, IsFiniteSet(S), NEW e, Sized(e, S), NEW f, Sums(f, e, S)
  PROVE  /\ f[{}] = 0
         /\ \A A \in SUBSET S : f[A] \in Nat
<1>1. f[{}] = 0
  BY DEF Sums
<1>2. f[{}] \in Nat
  BY <1>1
<1>3. \A A \in SUBSET S : f[A] \in Nat
  <2> DEFINE Refuted == {A \in SUBSET S : f[A] \notin Nat}
  <2> SUFFICES ASSUME Refuted # {} PROVE FALSE
    OBVIOUS
  <2>0. Refuted \in SUBSET (SUBSET S)
    OBVIOUS
  <2>1. PICK A \in Refuted : \A B \in Refuted : B \subseteq A => B = A
    <3> HIDE DEF Refuted
    <3> QED BY <2>0, LeastSet
  <2>2. A \in SUBSET S /\ f[A] \notin Nat
    BY <2>1
  <2>a. A # {}
    BY <1>2, <2>2
  <2>b. Pick(A) \in A /\ f[A] = e[Pick(A)].bytes + f[A \ {Pick(A)}]
    <3> HIDE DEF Refuted
    <3>1. Pick(A) \in A
      BY <2>2, <2>a, SumsPick
    <3>2. f[A] = e[Pick(A)].bytes + f[A \ {Pick(A)}]
      BY <2>2, <2>a, SumsPick
    <3> QED BY <3>1, <3>2
  <2>3. f[A \ {Pick(A)}] \in Nat
    <3>1. A \ {Pick(A)} \in SUBSET S /\ A \ {Pick(A)} # A /\ A \ {Pick(A)} \subseteq A
      BY <2>2, <2>b
    <3> QED BY <2>1, <3>1
  <2>4. e[Pick(A)].bytes \in Nat
    BY <2>2, <2>b DEF Sized
  <2> QED BY <2>2, <2>b, <2>3, <2>4
<1> QED BY <1>1, <1>3

\* One more entry adds its size, in whatever order the sum is made.
LEMMA SumsAdd ==
  ASSUME NEW S, IsFiniteSet(S), NEW e, Sized(e, S), NEW f, Sums(f, e, S)
  PROVE  \A A \in SUBSET S : \A x \in S \ A : f[A \cup {x}] = f[A] + e[x].bytes
<1> DEFINE Adds(A) == \A x \in S \ A : f[A \cup {x}] = f[A] + e[x].bytes
           Refuted == {A \in SUBSET S : ~Adds(A)}
<1> SUFFICES ASSUME Refuted # {} PROVE FALSE
  OBVIOUS
<1>0. Refuted \in SUBSET (SUBSET S)
  OBVIOUS
<1>1. PICK A \in SUBSET S : ~Adds(A) /\ \A B \in SUBSET S : (~Adds(B) /\ B \subseteq A) => B = A
  <2>1. PICK A \in Refuted : \A B \in Refuted : B \subseteq A => B = A
    <3> HIDE DEF Refuted
    <3> QED BY <1>0, LeastSet
  <2> HIDE DEF Adds
  <2> QED BY <2>1
<1>2. PICK x \in S \ A : f[A \cup {x}] # f[A] + e[x].bytes
  BY <1>1
<1> DEFINE c == Pick(A \cup {x})
           R == A \ {c}
<1>3. c \in A \cup {x} /\ f[A \cup {x}] = e[c].bytes + f[(A \cup {x}) \ {c}]
  <2>1. A \cup {x} \in SUBSET S /\ A \cup {x} # {}
    OBVIOUS
  <2> HIDE DEF c
  <2> DEFINE B == A \cup {x}
  <2>2. B \in SUBSET S /\ B # {}
    BY <2>1
  <2>3. Pick(B) \in B
    <3> HIDE DEF B
    <3> QED BY <2>2, SumsPick
  <2>4. f[B] = e[Pick(B)].bytes + f[B \ {Pick(B)}]
    <3> HIDE DEF B
    <3> QED BY <2>2, SumsPick
  <2> QED BY <2>3, <2>4 DEF c
<1>4. CASE c = x
  <2>1. (A \cup {x}) \ {c} = A
    BY <1>4, <1>2
  <2>2. f[A] \in Nat /\ e[x].bytes \in Nat
    BY SumsTyped DEF Sized
  <2> HIDE DEF c
  <2>3. f[A \cup {x}] = e[x].bytes + f[A]
    BY <1>3, <1>4, <2>1
  <2>4. f[A \cup {x}] = f[A] + e[x].bytes
    BY <2>2, <2>3
  <2> QED BY <1>2, <2>4
<1>5. CASE c # x
  <2>1. c \in A /\ R # A /\ R \subseteq A
    BY <1>3, <1>5
  <2>2. Adds(R)
    BY <1>1, <2>1
  <2>3. f[A] = f[R] + e[c].bytes
    <3>1. R \cup {c} = A /\ c \in S \ R
      BY <2>1
    <3> QED BY <2>2, <3>1
  <2>4. f[R \cup {x}] = f[R] + e[x].bytes
    BY <2>2, <1>2
  <2>5. (A \cup {x}) \ {c} = R \cup {x}
    BY <1>5
  <2>6. f[R] \in Nat /\ e[x].bytes \in Nat /\ e[c].bytes \in Nat
    BY <2>1, SumsTyped DEF Sized
  <2> HIDE DEF c, R
  <2>7. f[A \cup {x}] = e[c].bytes + (f[R] + e[x].bytes)
    BY <1>3, <2>4, <2>5
  <2>8. f[A] + e[x].bytes = (f[R] + e[c].bytes) + e[x].bytes
    BY <2>3
  <2> QED BY <1>2, <2>6, <2>7, <2>8
<1> QED BY <1>4, <1>5

\* Disjoint parts add up.
LEMMA SumsUnion ==
  ASSUME NEW S, IsFiniteSet(S), NEW e, Sized(e, S), NEW f, Sums(f, e, S),
         NEW A \in SUBSET S
  PROVE  \A B \in SUBSET (S \ A) : f[A \cup B] = f[A] + f[B]
<1> DEFINE Adds(B) == f[A \cup B] = f[A] + f[B]
           Refuted == {B \in SUBSET (S \ A) : ~Adds(B)}
<1> SUFFICES ASSUME Refuted # {} PROVE FALSE
  OBVIOUS
<1>0. IsFiniteSet(S \ A)
  BY FS_Difference
<1>1. PICK B \in SUBSET (S \ A) :
        ~Adds(B) /\ \A C \in SUBSET (S \ A) : (~Adds(C) /\ C \subseteq B) => C = B
  <2>1. Refuted \in SUBSET (SUBSET (S \ A))
    OBVIOUS
  <2>2. PICK B \in Refuted : \A C \in Refuted : C \subseteq B => C = B
    <3> HIDE DEF Refuted
    <3> QED BY <1>0, <2>1, LeastSet
  <2> HIDE DEF Adds
  <2> QED BY <2>2
<1>2. B # {}
  <2>1. f[A] \in Nat /\ f[{}] = 0
    BY SumsTyped
  <2>2. A \cup {} = A
    OBVIOUS
  <2>3. f[A \cup {}] = f[A] + f[{}]
    BY <2>1, <2>2
  <2> QED BY <1>1, <2>3
<1>3. PICK x \in B : TRUE
  BY <1>2
<1> DEFINE C == B \ {x}
<1>4. Adds(C)
  BY <1>1, <1>3
<1>5. f[B] = f[C] + e[x].bytes
  <2>1. C \cup {x} = B /\ C \in SUBSET S /\ x \in S \ C
    BY <1>3
  <2> QED BY <2>1, SumsAdd
<1>6. f[A \cup B] = f[A \cup C] + e[x].bytes
  <2>1. (A \cup C) \cup {x} = A \cup B /\ A \cup C \in SUBSET S /\ x \in S \ (A \cup C)
    BY <1>3
  <2> QED BY <2>1, SumsAdd
<1>7. f[A] \in Nat /\ f[C] \in Nat /\ e[x].bytes \in Nat
  <2>1. C \in SUBSET S /\ x \in S
    BY <1>3
  <2> QED BY <2>1, SumsTyped DEF Sized
<1> QED BY <1>1, <1>4, <1>5, <1>6, <1>7

\* Only the sizes of the entries in the set matter.
LEMMA SumsAgree ==
  ASSUME NEW S, IsFiniteSet(S), NEW T \in SUBSET S,
         NEW e, Sized(e, S), NEW f, Sums(f, e, S),
         NEW d, NEW g, Sums(g, d, T), \A i \in T : d[i].bytes = e[i].bytes
  PROVE  g[T] = f[T]
<1> DEFINE Refuted == {A \in SUBSET T : g[A] # f[A]}
<1> SUFFICES ASSUME Refuted # {} PROVE FALSE
  OBVIOUS
<1>0. IsFiniteSet(T) /\ Sized(d, T)
  BY FS_Subset DEF Sized
<1>1. PICK A \in Refuted : \A B \in Refuted : B \subseteq A => B = A
  <2>1. Refuted \in SUBSET (SUBSET T)
    OBVIOUS
  <2> HIDE DEF Refuted
  <2> QED BY <1>0, <2>1, LeastSet
<1>a. A \in SUBSET T /\ A \in SUBSET S
  BY <1>1
<1>2. A # {}
  BY <1>0, <1>1, SumsTyped
<1>3. Pick(A) \in A /\ f[A] = e[Pick(A)].bytes + f[A \ {Pick(A)}]
  BY <1>a, <1>2, SumsPick
<1>4. g[A] = d[Pick(A)].bytes + g[A \ {Pick(A)}]
  BY <1>0, <1>a, <1>2, SumsPick
<1>5. g[A \ {Pick(A)}] = f[A \ {Pick(A)}]
  BY <1>1, <1>3
<1> QED BY <1>1, <1>3, <1>4, <1>5

\* What the steps of the spool need to know of sums.
LEMMA SumFacts ==
  ASSUME NEW S, IsFiniteSet(S), NEW e, Sized(e, S)
  PROVE  /\ Sum(e, {}) = 0
         /\ Sum(e, S) \in Nat
         /\ \A T \in SUBSET S : /\ Sum(e, T) \in Nat
                                /\ Sum(e, S) = Sum(e, T) + Sum(e, S \ T)
<1>1. PICK f : Sums(f, e, S)
  BY SumsExist
<1>2. \A T \in SUBSET S : Sum(e, T) = f[T]
  <2> TAKE T \in SUBSET S
  <2>1. IsFiniteSet(T)
    BY FS_Subset
  <2> DEFINE g == CHOOSE g : Sums(g, e, T)
  <2>2. Sums(g, e, T)
    BY <2>1, SumsExist
  <2> QED BY <1>1, <2>2, SumsAgree DEF Sum
<1>3. \A T \in SUBSET S : f[T] \in Nat /\ f[S] = f[T] + f[S \ T]
  <2> TAKE T \in SUBSET S
  <2>1. T \cup (S \ T) = S /\ S \ T \in SUBSET (S \ T)
    OBVIOUS
  <2>2. f[T] \in Nat
    BY <1>1, SumsTyped
  <2>3. \A B \in SUBSET (S \ T) : f[T \cup B] = f[T] + f[B]
    BY <1>1, SumsUnion
  <2>4. f[T \cup (S \ T)] = f[T] + f[S \ T]
    BY <2>1, <2>3
  <2> QED BY <2>1, <2>2, <2>4
<1>4. f[{}] = 0
  BY <1>1, SumsTyped
<1> QED BY <1>2, <1>3, <1>4

\* Of two tables with the same sizes the sums are the same.
LEMMA SumAgrees ==
  ASSUME NEW S, IsFiniteSet(S), NEW e, Sized(e, S), NEW d, \A i \in S : d[i].bytes = e[i].bytes
  PROVE  Sum(d, S) = Sum(e, S)
<1>1. \A f, g : Sums(f, e, S) /\ Sums(g, d, S) => g[S] = f[S]
  <2> SUFFICES ASSUME NEW f, NEW g, Sums(f, e, S), Sums(g, d, S) PROVE g[S] = f[S]
    OBVIOUS
  <2>1. S \in SUBSET S
    OBVIOUS
  <2> QED BY <2>1, SumsAgree
<1>2. (\E f : Sums(f, e, S)) /\ (\E g : Sums(g, d, S))
  BY SumsExist
<1> QED BY <1>1, <1>2 DEF Sum

\* A new entry adds its size.
LEMMA SumGrows ==
  ASSUME NEW S, IsFiniteSet(S), NEW x, x \notin S, NEW e, Sized(e, S \cup {x})
  PROVE  Sum(e, S \cup {x}) = Sum(e, S) + e[x].bytes
<1>1. IsFiniteSet(S \cup {x})
  BY FS_AddElement
<1>2. PICK f : Sums(f, e, S \cup {x})
  BY <1>1, SumsExist
<1>3. f[S \cup {x}] = f[S] + e[x].bytes
  BY <1>1, <1>2, SumsAdd
<1>4. Sums(CHOOSE g : Sums(g, e, S), e, S)
  BY SumsExist
<1>5. Sums(CHOOSE g : Sums(g, e, S \cup {x}), e, S \cup {x})
  BY <1>1, SumsExist
<1>6. Sum(e, S) = f[S]
  <2>1. S \in SUBSET (S \cup {x})
    OBVIOUS
  <2>2. (CHOOSE g : Sums(g, e, S))[S] = f[S]
    BY <1>1, <1>2, <1>4, <2>1, SumsAgree
  <2> QED BY <2>2 DEF Sum
<1>7. Sum(e, S \cup {x}) = f[S \cup {x}]
  <2>1. S \cup {x} \in SUBSET (S \cup {x})
    OBVIOUS
  <2>2. (CHOOSE g : Sums(g, e, S \cup {x}))[S \cup {x}] = f[S \cup {x}]
    BY <1>1, <1>2, <1>5, <2>1, SumsAgree
  <2> QED BY <2>2 DEF Sum
<1> QED BY <1>3, <1>6, <1>7

-----------------------------------------------------------------------------
\* k lists, for each n, which of the first n entries in order are alive.
KeptBy(k) == k = [n \in 0..Len(order) |->
                    IF n = 0 THEN <<>>
                    ELSE IF Alive(order[n]) THEN Append(k[n - 1], order[n]) ELSE k[n - 1]]

\* The loop of the sweep over the order defines such a k.
LEMMA KeptExists ==
  ASSUME Len(order) \in Nat
  PROVE  \E k : KeptBy(k) /\ Kept = k[Len(order)]
<1> DEFINE Body(k, n) == IF n = 0 THEN <<>>
                         ELSE IF Alive(order[n]) THEN Append(k[n - 1], order[n]) ELSE k[n - 1]
           UpTo(n) == \E k : \A m \in 0..n : k[m] = Body(k, m)
           Refuted == {n \in Nat : ~UpTo(n)}
<1>1. UpTo(0)
  <2> DEFINE k == [m \in 0..0 |-> <<>>]
  <2>1. \A m \in 0..0 : m = 0 /\ k[m] = Body(k, m)
    OBVIOUS
  <2> QED BY <2>1
<1>2. ASSUME NEW n \in Nat, UpTo(n) PROVE UpTo(n + 1)
  <2>1. PICK k : \A m \in 0..n : k[m] = Body(k, m)
    BY <1>2
  <2> DEFINE j == [m \in 0..(n + 1) |-> IF m =< n THEN k[m] ELSE Body(k, m)]
  <2>2. ASSUME NEW m \in 0..(n + 1) PROVE j[m] = Body(j, m)
    <3>1. m # 0 => j[m - 1] = k[m - 1]
      OBVIOUS
    <3>2. j[m] = Body(k, m)
      BY <2>1
    <3> QED BY <3>1, <3>2
  <2> QED BY <2>2
<1>3. \A n \in Nat : UpTo(n)
  <2> HIDE DEF UpTo
  <2> SUFFICES ASSUME Refuted # {} PROVE FALSE
    OBVIOUS
  <2>1. PICK n \in Nat : ~UpTo(n) /\ \A m \in Nat : ~UpTo(m) => n =< m
    BY LeastNat
  <2>2. n # 0
    BY <1>1, <2>1
  <2>3. PICK m \in Nat : n = m + 1
    BY <2>2
  <2>4. UpTo(m)
    BY <2>1, <2>3
  <2> QED BY <2>1, <2>3, <2>4, <1>2
<1>4. PICK k : \A m \in 0..Len(order) : k[m] = Body(k, m)
  BY <1>3
<1> DEFINE h == [m \in 0..Len(order) |-> k[m]]
<1>5. h = [m \in 0..Len(order) |-> Body(h, m)]
  <2>1. \A m \in 0..Len(order) : m # 0 => m - 1 \in 0..Len(order)
    OBVIOUS
  <2> QED BY <1>4, <2>1
<1>6. \E f : KeptBy(f)
  BY <1>5 DEF KeptBy
<1>7. KeptBy(CHOOSE f : KeptBy(f))
  BY <1>6
<1>8. Kept = (CHOOSE f : KeptBy(f))[Len(order)]
  BY DEF Kept, KeptBy
<1> QED BY <1>7, <1>8

\* What is kept is a part of the order, without repetition, and the last of the
\* order stays the last.
LEMMA KeptFacts ==
  ASSUME order \in Seq(Ids), IsInjective(order)
  PROVE  /\ Kept \in Seq(Range(order)) /\ IsInjective(Kept)
         /\ (order # <<>> /\ Alive(order[Len(order)]))
              => Kept # <<>> /\ Kept[Len(Kept)] = order[Len(order)]
<1> DEFINE First(n) == {order[m] : m \in 1..n}
<1>0. Len(order) \in Nat /\ DOMAIN order = 1..Len(order)
  OBVIOUS
<1>1. PICK k : KeptBy(k) /\ Kept = k[Len(order)]
  BY <1>0, KeptExists
<1> DEFINE Good(n) == k[n] \in Seq(First(n)) /\ IsInjective(k[n])
           Refuted == {n \in Nat : n =< Len(order) /\ ~Good(n)}
<1>2. Good(0)
  <2>1. k[0] = <<>>
    BY <1>0, <1>1 DEF KeptBy
  <2> QED BY <2>1 DEF IsInjective
<1>3. ASSUME NEW n \in Nat, n + 1 =< Len(order), Good(n) PROVE Good(n + 1)
  <2>1. First(n + 1) = First(n) \cup {order[n + 1]}
    OBVIOUS
  <2>2. order[n + 1] \notin First(n)
    BY <1>0, <1>3 DEF IsInjective
  <2>3. k[n + 1] = IF Alive(order[n + 1]) THEN Append(k[n], order[n + 1]) ELSE k[n]
    <3>1. n + 1 \in 0..Len(order) /\ n + 1 # 0 /\ (n + 1) - 1 = n
      <4>1. n \in Nat /\ n + 1 =< Len(order) /\ Len(order) \in Nat
        BY <1>0, <1>3
      <4> QED BY <4>1
    <3>2. \A m \in 0..Len(order) : k[m] =
            IF m = 0 THEN <<>>
            ELSE IF Alive(order[m]) THEN Append(k[m - 1], order[m]) ELSE k[m - 1]
      BY <1>1 DEF KeptBy
    <3> QED BY <3>1, <3>2
  <2> DEFINE s == k[n]
             x == order[n + 1]
             F == First(n)
  <2>4. s \in Seq(F) /\ IsInjective(s) /\ x \notin F
    BY <1>3, <2>2
  <2>5. Append(s, x) \in Seq(F \cup {x}) /\ s \in Seq(F \cup {x}) /\ IsInjective(Append(s, x))
    <3> HIDE DEF s, x, F
    <3>1. Append(s, x) \in Seq(F \cup {x}) /\ s \in Seq(F \cup {x})
      BY <2>4
    <3>2. \A i \in 1..Len(s) : s[i] \in F
      BY <2>4
    <3>3. IsInjective(Append(s, x))
      BY <2>4, <3>2 DEF IsInjective
    <3> QED BY <3>1, <3>3
  <2> QED BY <2>1, <2>3, <2>4, <2>5
<1>4. \A n \in Nat : n =< Len(order) => Good(n)
  <2> HIDE DEF Good
  <2> SUFFICES ASSUME Refuted # {} PROVE FALSE
    OBVIOUS
  <2>1. PICK n \in Nat : /\ n =< Len(order) /\ ~Good(n)
                         /\ \A m \in Nat : (m =< Len(order) /\ ~Good(m)) => n =< m
    BY LeastNat
  <2>2. n # 0
    BY <1>2, <2>1
  <2>3. PICK m \in Nat : n = m + 1
    BY <2>2
  <2>4. Good(m)
    BY <1>0, <2>1, <2>3
  <2> QED BY <1>3, <2>1, <2>3, <2>4
<1>5. Good(Len(order))
  <2> HIDE DEF Good
  <2> QED BY <1>0, <1>4
<1>6. First(Len(order)) = Range(order)
  BY <1>0 DEF Range
<1>7. ASSUME order # <<>>, Alive(order[Len(order)])
      PROVE  Kept # <<>> /\ Kept[Len(Kept)] = order[Len(order)]
  <2> DEFINE n == Len(order) - 1
             s == k[n]
             x == order[Len(order)]
  <2>1. n \in Nat /\ n =< Len(order) /\ Len(order) # 0
    BY <1>0, <1>7
  <2>2. Good(n)
    <3> HIDE DEF Good, n
    <3> QED BY <1>4, <2>1
  <2>3. s \in Seq(First(n))
    BY <2>2
  <2>4. Kept = Append(s, x)
    <3>1. Len(order) \in 0..Len(order)
      BY <1>0
    <3>2. \A m \in 0..Len(order) : k[m] =
            IF m = 0 THEN <<>>
            ELSE IF Alive(order[m]) THEN Append(k[m - 1], order[m]) ELSE k[m - 1]
      BY <1>1 DEF KeptBy
    <3> QED BY <1>1, <1>7, <2>1, <3>1, <3>2
  <2> HIDE DEF s, x
  <2>5. Len(Append(s, x)) = Len(s) + 1 /\ Append(s, x)[Len(s) + 1] = x
        /\ Len(s) \in Nat
    BY <2>3
  <2> QED BY <2>4, <2>5 DEF x
<1> QED BY <1>1, <1>5, <1>6, <1>7

\* What is kept is what is alive, in the order of the registrations.
LEMMA KeptInOrder ==
  ASSUME order \in Seq(Ids), IsInjective(order)
  PROVE  /\ \A q \in 1..Len(Kept) :
              \E b \in 1..Len(order) : Kept[q] = order[b] /\ Alive(order[b])
         /\ \A a \in 1..Len(order) :
              Alive(order[a]) => \E q \in 1..Len(Kept) : Kept[q] = order[a]
         /\ \A p, q \in 1..Len(Kept), a, b \in 1..Len(order) :
              (p =< q /\ Kept[p] = order[a] /\ Kept[q] = order[b]) => a =< b
<1>0. Len(order) \in Nat /\ DOMAIN order = 1..Len(order)
  OBVIOUS
<1>1. PICK k : KeptBy(k) /\ Kept = k[Len(order)]
  BY <1>0, KeptExists
<1> DEFINE Alives(s, n) ==
             \A q \in 1..Len(s) : \E b \in 1..n : s[q] = order[b] /\ Alive(order[b])
           All(s, n) ==
             \A a \in 1..n : Alive(order[a]) => \E q \in 1..Len(s) : s[q] = order[a]
           Ordered(s, n) ==
             \A p, q \in 1..Len(s), a, b \in 1..n :
               (p =< q /\ s[p] = order[a] /\ s[q] = order[b]) => a =< b
           Good(n) == /\ k[n] \in Seq(Ids)
                      /\ Alives(k[n], n) /\ All(k[n], n) /\ Ordered(k[n], n)
           Refuted == {n \in Nat : n =< Len(order) /\ ~Good(n)}
<1>2. Good(0)
  <2>1. k[0] = <<>>
    BY <1>0, <1>1 DEF KeptBy
  <2> QED BY <2>1
<1>3. ASSUME NEW n \in Nat, n + 1 =< Len(order), Good(n) PROVE Good(n + 1)
  <2> DEFINE x == order[n + 1]
  <2>1. k[n + 1] = IF Alive(x) THEN Append(k[n], x) ELSE k[n]
    <3>1. n + 1 \in 0..Len(order) /\ n + 1 # 0 /\ (n + 1) - 1 = n
      <4>1. n \in Nat /\ n + 1 =< Len(order) /\ Len(order) \in Nat
        BY <1>0, <1>3
      <4> QED BY <4>1
    <3>2. \A m \in 0..Len(order) : k[m] =
            IF m = 0 THEN <<>>
            ELSE IF Alive(order[m]) THEN Append(k[m - 1], order[m]) ELSE k[m - 1]
      BY <1>1 DEF KeptBy
    <3> QED BY <3>1, <3>2
  <2>2. x \in Ids /\ \A a \in 1..n : a \in 1..Len(order) /\ order[a] # x
    BY <1>0, <1>3 DEF IsInjective
  <2>3. \A a, b \in 1..(n + 1) : order[a] = order[b] => a = b
    BY <1>0, <1>3 DEF IsInjective
  <2>4. PICK s : s = k[n] /\ s \in Seq(Ids) /\ Alives(s, n) /\ All(s, n) /\ Ordered(s, n)
    BY <1>3
  <2>5. CASE Alive(x)
    <3> DEFINE t == Append(s, x)
    <3>1. /\ t \in Seq(Ids) /\ Len(s) \in Nat /\ Len(t) = Len(s) + 1
          /\ t[Len(t)] = x /\ \A q \in 1..Len(s) : t[q] = s[q]
      BY <2>2, <2>4
    <3> HIDE DEF t
    <3>2. Alives(t, n + 1)
      <4>1. SUFFICES ASSUME NEW q \in 1..Len(t)
                     PROVE  \E b \in 1..(n + 1) : t[q] = order[b] /\ Alive(order[b])
        OBVIOUS
      <4>2. CASE q = Len(t)
        <5>1. n + 1 \in 1..(n + 1) /\ t[q] = order[n + 1] /\ Alive(order[n + 1])
          BY <2>5, <3>1, <4>2
        <5> QED BY <5>1
      <4>3. CASE q # Len(t)
        <5>1. q \in 1..Len(s) /\ t[q] = s[q]
          BY <3>1, <4>3
        <5>2. PICK b \in 1..n : s[q] = order[b] /\ Alive(order[b])
          BY <2>4, <5>1
        <5> QED BY <5>1, <5>2
      <4> QED BY <4>2, <4>3
    <3>3. All(t, n + 1)
      BY <2>4, <3>1
    <3>4. Ordered(t, n + 1)
      <4>1. SUFFICES ASSUME NEW p \in 1..Len(t), NEW q \in 1..Len(t),
                            NEW a \in 1..(n + 1), NEW b \in 1..(n + 1),
                            p =< q, t[p] = order[a], t[q] = order[b]
                     PROVE  a =< b
        OBVIOUS
      <4>2. CASE q = Len(t)
        <5>1. b = n + 1
          BY <2>3, <3>1, <4>1, <4>2
        <5> QED BY <5>1
      <4>3. CASE q # Len(t)
        <5>1. p \in 1..Len(s) /\ q \in 1..Len(s)
          BY <3>1, <4>1, <4>3
        <5>2. s[p] = order[a] /\ s[q] = order[b]
          BY <3>1, <4>1, <5>1
        <5>3. a \in 1..n /\ b \in 1..n
          <6>1. \A i \in 1..Len(s), c \in 1..(n + 1) : s[i] = order[c] => c \in 1..n
            BY <2>2, <2>4
          <6> QED BY <5>1, <5>2, <6>1
        <5> QED BY <2>4, <4>1, <5>1, <5>2, <5>3
      <4> QED BY <4>2, <4>3
    <3>5. k[n + 1] = t
      BY <2>1, <2>4, <2>5 DEF t
    <3> HIDE DEF Alives, All, Ordered
    <3> QED BY <3>1, <3>2, <3>3, <3>4, <3>5
  <2>6. CASE ~Alive(x)
    <3>1. Alives(s, n + 1)
      BY <2>4
    <3>2. All(s, n + 1)
      <4>1. \A a \in 1..(n + 1) : a \in 1..n \/ a = n + 1
        OBVIOUS
      <4> QED BY <2>4, <2>6, <4>1
    <3>3. Ordered(s, n + 1)
      <4>1. \A i \in 1..Len(s), c \in 1..(n + 1) : s[i] = order[c] => c \in 1..n
        BY <2>2, <2>4
      <4> QED BY <2>4, <4>1
    <3>4. k[n + 1] = s
      BY <2>1, <2>4, <2>6
    <3> HIDE DEF Alives, All, Ordered
    <3> QED BY <2>4, <3>1, <3>2, <3>3, <3>4
  <2> QED BY <2>5, <2>6
<1>4. \A n \in Nat : n =< Len(order) => Good(n)
  <2> HIDE DEF Good
  <2> SUFFICES ASSUME Refuted # {} PROVE FALSE
    OBVIOUS
  <2>1. PICK n \in Nat : /\ n =< Len(order) /\ ~Good(n)
                         /\ \A m \in Nat : (m =< Len(order) /\ ~Good(m)) => n =< m
    BY LeastNat
  <2>2. n # 0
    BY <1>2, <2>1
  <2>3. PICK m \in Nat : n = m + 1
    BY <2>2
  <2>4. Good(m)
    BY <1>0, <2>1, <2>3
  <2> QED BY <1>3, <2>1, <2>3, <2>4
<1>5. Good(Len(order))
  <2> HIDE DEF Good
  <2> QED BY <1>0, <1>4
<1> QED BY <1>1, <1>5

\* The loop of the evictions stops at the first number that will do, and leaves the
\* last entry.
LEMMA EvictionsFit ==
  ASSUME order \in Seq(Ids), IsInjective(order)
  PROVE  /\ Evictions \in 0..Len(Kept) /\ Fits(Evictions)
         /\ \A m \in 0..(Evictions - 1) : ~Fits(m)
         /\ Kept # <<>> => Evictions < Len(Kept)
<1>1. Len(Kept) \in Nat
  BY KeptFacts
<1> DEFINE T == {n \in 0..Len(Kept) : Fits(n)}
<1>2. Len(Kept) \in T
  <2>1. SubSeq(Kept, Len(Kept) + 1, Len(Kept)) = <<>>
    BY KeptFacts
  <2>2. Fits(Len(Kept))
    BY <2>1 DEF Fits
  <2> QED BY <1>1, <2>2
<1>3. PICK n \in T : \A m \in T : n =< m
  <2>1. T \in SUBSET Nat
    BY <1>1
  <2> HIDE DEF T
  <2> QED BY <1>2, <2>1, LeastNat
<1>4. n \in 0..Len(Kept) /\ Fits(n) /\ \A m \in 0..(n - 1) : ~Fits(m)
  BY <1>1, <1>3
<1>5. /\ Evictions \in 0..Len(Kept) /\ Fits(Evictions)
      /\ \A m \in 0..(Evictions - 1) : ~Fits(m)
  BY <1>4 DEF Evictions
<1>6. ASSUME Kept # <<>> PROVE Evictions < Len(Kept)
  <2>1. Kept \in Seq(Range(order)) /\ Len(Kept) # 0
    BY <1>6, KeptFacts
  <2>2. Len(SubSeq(Kept, (Len(Kept) - 1) + 1, Len(Kept))) = 1
    BY <1>1, <2>1
  <2>3. Fits(Len(Kept) - 1)
    BY <2>2 DEF Fits
  <2> QED BY <1>1, <1>5, <2>1, <2>3
<1> QED BY <1>5, <1>6

\* What a sweep leaves is a part of the order, without repetition.
LEMMA LeftFacts ==
  ASSUME order \in Seq(Ids), IsInjective(order)
  PROVE  LET left == SubSeq(Kept, Evictions + 1, Len(Kept))
         IN  /\ left \in Seq(Ids) /\ Range(left) \subseteq Range(order)
             /\ IsInjective(left)
<1> DEFINE n == Evictions
           left == SubSeq(Kept, n + 1, Len(Kept))
<1>1. Kept \in Seq(Range(order)) /\ IsInjective(Kept) /\ Len(Kept) \in Nat
  BY KeptFacts
<1>2. n \in 0..Len(Kept)
  BY EvictionsFit
<1>3. Range(order) \subseteq Ids
  BY DEF Range
<1> HIDE DEF n
<1>4. /\ Len(left) = Len(Kept) - n
      /\ \A m \in 1..Len(left) : left[m] = Kept[m + n]
      /\ left \in Seq(Range(order))
  BY <1>1, <1>2
<1>5. left \in Seq(Ids)
  BY <1>3, <1>4
<1>6. Range(left) \subseteq Range(order)
  <2> HIDE DEF left
  <2>1. \A m \in DOMAIN left : left[m] \in Range(order)
    BY <1>4
  <2>2. Range(left) = {left[m] : m \in DOMAIN left}
    BY DEF Range
  <2> QED BY <2>1, <2>2
<1>7. IsInjective(left)
  <2> HIDE DEF left
  <2>1. DOMAIN left = 1..Len(left) /\ DOMAIN Kept = 1..Len(Kept)
    BY <1>1, <1>4
  <2>2. SUFFICES ASSUME NEW a \in 1..Len(left), NEW b \in 1..Len(left), left[a] = left[b]
                 PROVE  a = b
    BY <2>1 DEF IsInjective
  <2>3. Kept[a + n] = Kept[b + n] /\ a + n \in 1..Len(Kept) /\ b + n \in 1..Len(Kept)
    BY <1>1, <1>2, <1>4, <2>2
  <2>4. a + n = b + n
    BY <1>1, <2>1, <2>3 DEF IsInjective
  <2> QED BY <1>2, <2>4
<1> QED BY <1>5, <1>6, <1>7 DEF n

-----------------------------------------------------------------------------
\* The three parts of the index, and the bound on the total.
Books == /\ order \in Seq(Ids)
         /\ \A i \in Registered : entries[i] \in [bytes : Nat, created : Nat]
         /\ Accounting
         /\ SizeBound

\* The sizes of what is registered add up.
LEMMA BooksWeigh ==
  ASSUME Books
  PROVE  /\ IsFiniteSet(Registered) /\ Sized(entries, Registered)
         /\ total = Sum(entries, Registered) /\ total \in Nat
<1>1. /\ order \in Seq(Ids) /\ Range(order) = Registered
      /\ total = Weight(Registered)
      /\ \A i \in Registered : entries[i] \in [bytes : Nat, created : Nat]
  BY DEF Books, Accounting
<1>2. order \in Surjection(1..Len(order), Range(order)) /\ Len(order) \in Nat
  BY <1>1 DEF Surjection, Range
<1>3. IsFiniteSet(Range(order))
  BY <1>2, FS_Interval, FS_Surjection
<1>4. Sized(entries, Registered)
  BY <1>1 DEF Sized
<1>5. total = Sum(entries, Registered)
  BY <1>1, WeightIsSum
<1> QED BY <1>1, <1>3, <1>4, <1>5, SumFacts

\* The same for the next state.
LEMMA WeightIsSumNext == \A S : Weight(S)' = Sum(entries', S)
<1> TAKE S
<1>1. Weight(S)' = (CHOOSE f : f = [s \in SUBSET S |->
                     IF s = {} THEN 0 ELSE entries'[CHOOSE x \in s : TRUE].bytes
                                           + f[s \ {CHOOSE x \in s : TRUE}]])[S]
  BY DEF Weight, MapThenSumSet, MapThenFoldSet
<1> QED BY <1>1 DEF Sum, Sums, Pick

\* An empty index is in order.
LEMMA EmptyBooks ==
  ASSUME entries' = <<>>, order' = <<>>, total' = 0
  PROVE  Books'
<1>1. Registered' = {} /\ Range(order') = {} /\ IsInjective(order') /\ order' \in Seq(Ids)
  BY DEF Registered, Range, IsInjective
<1>2. IsFiniteSet({}) /\ Sized(entries', {})
  BY FS_EmptySet DEF Sized
<1>3. Sum(entries', {}) = 0
  BY <1>2, SumFacts
<1>4. Weight(Registered)' = 0
  <2>1. Weight(Registered)' = Sum(entries', Registered')
    BY <1>1, WeightIsSumNext DEF Weight
  <2> QED BY <2>1, <1>1, <1>3
<1>5. Len(order') =< 1
  OBVIOUS
<1> QED BY <1>1, <1>4, <1>5 DEF Books, Accounting, SizeBound

\* A step that leaves the index alone, and no Put past its sweep.
LEMMA SameBooks ==
  ASSUME Books, UNCHANGED index,
         \A w \in Writers : At(w, "sweep") => At(w, "sweep")'
  PROVE  Books'
<1>1. entries' = entries /\ order' = order /\ total' = total /\ Registered' = Registered
  BY DEF index, Registered
<1>2. Weight(Registered)' = Sum(entries', Registered')
  BY WeightIsSumNext DEF Weight
<1>3. Weight(Registered)' = Weight(Registered)
  BY <1>1, <1>2, WeightIsSum
<1>4. Accounting'
  BY <1>1, <1>3 DEF Books, Accounting
<1>5. SizeBound'
  BY <1>1 DEF Books, SizeBound
<1> QED BY <1>1, <1>4, <1>5 DEF Books

\* PutRegister adds one entry, one place in the order and its bytes.
LEMMA PutRegisterBooks ==
  ASSUME SpoolInv, Books, NEW w \in Writers, PutRegister(w)
  PROVE  Books'
<1> DEFINE i == put[w].id
           e == [bytes |-> put[w].bytes, created |-> put[w].created]
<1>1. i \in Ids /\ i \notin Registered /\ e \in [bytes : Nat, created : Nat]
  BY DEF PutRegister, At, SpoolInv, SpoolTypes, Claims, Unregistered, Puts
<1>2. /\ entries' = [j \in Registered \cup {i} |-> IF j = i THEN e ELSE entries[j]]
      /\ order' = Append(order, i)
      /\ total' = total + e.bytes
      /\ put' = [put EXCEPT ![w].pc = "sweep"]
  BY DEF PutRegister
<1>3. order \in Seq(Ids) /\ Range(order) = Registered /\ IsInjective(order)
  BY DEF Books, Accounting
<1>4. IsFiniteSet(Registered) /\ Sized(entries, Registered) /\ total = Sum(entries, Registered)
  BY BooksWeigh
<1>5. At(w, "sweep")'
  BY <1>2 DEF At, SpoolInv, SpoolTypes, Puts
<1> HIDE DEF i, e
<1>6. Registered' = Registered \cup {i}
  BY <1>2 DEF Registered
<1>7. /\ \A j \in Registered : entries'[j] = entries[j]
      /\ entries'[i] = e
  BY <1>1, <1>2
<1>8. \A j \in Registered' : entries'[j] \in [bytes : Nat, created : Nat]
  BY <1>1, <1>6, <1>7 DEF Books
<1>9. order' \in Seq(Ids) /\ Range(order)' = Registered' /\ IsInjective(order)'
  <2>1. order' \in Seq(Ids)
    BY <1>1, <1>2, <1>3
  <2>2. /\ Len(order) \in Nat /\ Len(order') = Len(order) + 1
        /\ DOMAIN order = 1..Len(order) /\ DOMAIN order' = 1..(Len(order) + 1)
        /\ \A n \in 1..Len(order) : order'[n] = order[n]
        /\ order'[Len(order) + 1] = i
    BY <1>1, <1>2, <1>3
  <2>3. Range(order') = Range(order) \cup {i}
    BY <2>2 DEF Range
  <2>4. \A n \in 1..Len(order) : order[n] # i
    BY <1>1, <1>3, <2>2 DEF Range
  <2>5. IsInjective(order')
    BY <1>3, <2>2, <2>4 DEF IsInjective
  <2> QED BY <1>3, <1>6, <2>1, <2>3, <2>5
<1>10. total' = Weight(Registered)'
  <2>1. Sized(entries', Registered \cup {i})
    BY <1>6, <1>8 DEF Sized
  <2>2. Sum(entries', Registered \cup {i}) = Sum(entries', Registered) + entries'[i].bytes
    BY <1>1, <1>4, <2>1, SumGrows
  <2>3. Sum(entries', Registered) = Sum(entries, Registered)
    BY <1>4, <1>7, SumAgrees
  <2>4. Weight(Registered)' = Sum(entries', Registered')
    BY WeightIsSumNext DEF Weight
  <2> QED BY <1>2, <1>4, <1>6, <1>7, <2>2, <2>3, <2>4
<1>11. SizeBound'
  BY <1>5 DEF SizeBound
<1> QED BY <1>8, <1>9, <1>10, <1>11 DEF Books, Accounting

\* PutSweep takes the same entries out of all three, and as many as the limit asks.
LEMMA PutSweepBooks ==
  ASSUME SpoolInv, Books, NEW w \in Writers, PutSweep(w)
  PROVE  Books'
<1> DEFINE left == SubSeq(Kept, Evictions + 1, Len(Kept))
           drop == Registered \ Range(left)
           stay == Range(left)
<1>1. order \in Seq(Ids) /\ Range(order) = Registered /\ IsInjective(order)
  BY DEF Books, Accounting
<1>2. left \in Seq(Ids) /\ stay \subseteq Registered /\ IsInjective(left)
  BY <1>1, LeftFacts
<1>3. order' = left /\ entries' = Restrict(entries, Registered \ drop)
      /\ total' = total - Weight(drop)
  BY DEF PutSweep
<1>4. total - Weight(drop) =< MaxBytes \/ Len(left) =< 1
  BY <1>1, EvictionsFit DEF Fits
<1> HIDE DEF left
<1>5. Registered' = stay /\ \A j \in stay : entries'[j] = entries[j]
  BY <1>2, <1>3 DEF Registered, Restrict
<1>6. IsFiniteSet(Registered) /\ Sized(entries, Registered) /\ total = Sum(entries, Registered)
  BY BooksWeigh
<1>7. /\ Sum(entries, drop) \in Nat /\ Sum(entries, stay) \in Nat
      /\ Sum(entries, Registered) = Sum(entries, stay) + Sum(entries, drop)
  BY <1>2, <1>6, SumFacts
<1>8. total' = Sum(entries, stay)
  BY <1>3, <1>6, <1>7, WeightIsSum
<1>9. Sum(entries', stay) = Sum(entries, stay)
  <2>1. IsFiniteSet(stay) /\ Sized(entries, stay)
    BY <1>2, <1>6, FS_Subset DEF Sized
  <2> QED BY <1>5, <2>1, SumAgrees
<1>10. total' = Weight(Registered)'
  <2>1. Weight(Registered)' = Sum(entries', Registered')
    BY WeightIsSumNext DEF Weight
  <2> QED BY <1>5, <1>8, <1>9, <2>1
<1>11. SizeBound'
  BY <1>3, <1>4 DEF SizeBound
<1>12. \A j \in Registered' : entries'[j] \in [bytes : Nat, created : Nat]
  BY <1>2, <1>5 DEF Books
<1> QED BY <1>2, <1>3, <1>5, <1>10, <1>11, <1>12 DEF Books, Accounting

\* Every step keeps the index in order.
LEMMA BooksStep ==
  ASSUME SpoolInv, Books, [Next]_vars
  PROVE  Books'
<1>1. ASSUME NEW w \in Writers, PutRegister(w) PROVE Books'
  BY <1>1, PutRegisterBooks
<1>2. ASSUME NEW w \in Writers, PutSweep(w) PROVE Books'
  BY <1>2, PutSweepBooks
<1>3. CASE Close \/ Stop
  BY <1>3, EmptyBooks DEF Close, Stop
<1> DEFINE Swept == \A w \in Writers : At(w, "sweep") => At(w, "sweep")'
<1>a. put \in [Writers -> Puts]
  BY DEF SpoolInv, SpoolTypes
<1>4. ASSUME NEW w \in Writers,
             \/ PutWriteFails(w) \/ PutRename(w) \/ PutRenameFails(w)
             \/ PutRemove(w) \/ PutReturn(w) \/ \E i \in Ids, b \in Sizes : PutCreate(w, i, b)
      PROVE  Books'
  <2>1. UNCHANGED index
    BY <1>4 DEF PutWriteFails, PutRename, PutRenameFails, PutRemove, PutReturn, PutCreate
  <2>2. put[w].pc # "sweep"
    BY <1>4 DEF PutWriteFails, PutRename, PutRenameFails, PutRemove, PutReturn, PutCreate, At
  <2>3. \A v \in Writers \ {w} : put'[v] = put[v]
    BY <1>a, <1>4 DEF PutWriteFails, PutRename, PutRenameFails, PutRemove, PutReturn, PutCreate,
                      Returns
  <2>4. Swept
    BY <2>2, <2>3 DEF At
  <2> QED BY <2>1, <2>4, SameBooks
<1>5. CASE \/ \E r \in Readers : ReadFile(r) \/ \E i \in Ids : ReadGet(r, i)
           \/ CloseStep \/ Boot \/ (\E i \in Ids : NeighbourSweeps(i)) \/ Tick
           \/ UNCHANGED vars
  <2>1. UNCHANGED <<index, put>>
    BY <1>5 DEF ReadFile, ReadGet, CloseStep, CloseRemove, CloseReturn, Boot,
                NeighbourSweeps, Tick, vars
  <2>2. Swept
    BY <2>1 DEF At
  <2> QED BY <2>1, <2>2, SameBooks
<1> QED BY <1>1, <1>2, <1>3, <1>4, <1>5 DEF Next, PutStep

-----------------------------------------------------------------------------
\* Who is in charge of which file.
Housekeeping ==
  /\ closer \in {"open", "removing", "closed"} /\ up \in BOOLEAN
  /\ closer = "open" => condemned = {}
  /\ condemned \subseteq mine
  /\ \A w \in Writers : /\ put[w].drop \subseteq mine
                        /\ put[w].pc # "remove" => put[w].drop = {}
  /\ failed \subseteq mine /\ swept \subseteq used
  /\ \A i \in Ids : Kind(i) # "none" => i \in used
  /\ NoLeak

\* The initial state: no file, and nobody has one.
LEMMA HousekeepingInit == Init => Housekeeping
  BY DEF Init, Housekeeping, NoLeak, NoPut, NoFile, Kind

\* Every step keeps every file in somebody's charge.
LEMMA HousekeepingStep ==
  ASSUME SpoolInv, Housekeeping, [Next]_vars
  PROVE  Housekeeping'
<1>a. /\ disk \in [Ids -> Files] /\ put \in [Writers -> Puts]
      /\ Registered \subseteq mine /\ mine \subseteq used /\ used \subseteq Ids
      /\ condemned \subseteq Ids
  BY DEF SpoolInv, SpoolTypes
<1>b. \A w \in Writers : put[w].drop \subseteq mine /\ put[w].drop \subseteq Ids
                         /\ (put[w].pc # "remove" => put[w].drop = {})
  BY <1>a DEF Housekeeping
<1>c. \A w \in Writers : Unregistered(w) => put[w].id \in mine
  BY DEF SpoolInv, Claims
<1> USE DEF Housekeeping, NoLeak, InCharge, Kind, At, Registered
<1>1. ASSUME NEW w \in Writers, NEW i \in Ids, NEW b \in Sizes, PutCreate(w, i, b)
      PROVE  Housekeeping'
  <2>1. /\ put'[w].pc = "write" /\ put'[w].id = i /\ put'[w].drop = put[w].drop
        /\ put[w].pc = "idle" /\ \A v \in Writers \ {w} : put'[v] = put[v]
    BY <1>a, <1>1 DEF PutCreate, Puts
  <2>2. disk'[i].kind = "tmp" /\ \A j \in Ids \ {i} : disk'[j] = disk[j]
    BY <1>a, <1>1 DEF PutCreate
  <2>3. /\ used' = used \cup {i} /\ mine' = mine \cup {i}
        /\ UNCHANGED <<entries, closer, condemned, up, failed, swept>>
    BY <1>1 DEF PutCreate, index, process
  <2> QED BY <1>a, <1>b, <2>1, <2>2, <2>3
<1>2. ASSUME NEW w \in Writers, PutWriteFails(w) \/ PutRenameFails(w)
      PROVE  Housekeeping'
  <2>1. /\ put'[w] = NoPut /\ \A v \in Writers \ {w} : put'[v] = put[v]
        /\ put[w].pc = "write" /\ put[w].drop = {}
    BY <1>a, <1>b, <1>2 DEF PutWriteFails, PutRenameFails, Returns
  <2> DEFINE i == put[w].id
  <2>2. i \in mine
    BY <1>c, <2>1 DEF Unregistered
  <2>3. /\ \A j \in Ids \ {i} : disk'[j] = disk[j]
        /\ \/ failed' = failed \cup {i} /\ disk' = disk
           \/ failed' = failed /\ disk'[i].kind = "none"
    BY <1>a, <1>2, <2>2 DEF PutWriteFails, PutRenameFails, Gone, Fails, NoFile
  <2>4. UNCHANGED <<entries, closer, condemned, up, used, mine, swept>>
    BY <1>2 DEF PutWriteFails, PutRenameFails, index, process
  <2>5. put'[w].pc = "idle" /\ put'[w].drop = {}
    BY <2>1 DEF NoPut
  <2> QED BY <1>a, <1>b, <2>1, <2>2, <2>3, <2>4, <2>5
<1>3. ASSUME NEW w \in Writers, PutRename(w)
      PROVE  Housekeeping'
  <2> DEFINE i == put[w].id
  <2>1. /\ put'[w].pc = "register" /\ put'[w].id = i /\ put'[w].drop = put[w].drop
        /\ put[w].pc = "write" /\ \A v \in Writers \ {w} : put'[v] = put[v]
    BY <1>a, <1>3 DEF PutRename, Puts
  <2>2. i \in mine
    BY <1>c, <2>1 DEF Unregistered
  <2>3. \A j \in Ids \ {i} : disk'[j] = disk[j]
    BY <1>a, <1>3 DEF PutRename
  <2>4. UNCHANGED <<entries, closer, condemned, up, used, mine, failed, swept>>
    BY <1>3 DEF PutRename, index, process, history
  <2> QED BY <1>a, <1>b, <2>1, <2>2, <2>3, <2>4
<1>4. ASSUME NEW w \in Writers, PutRegister(w)
      PROVE  Housekeeping'
  <2> DEFINE i == put[w].id
  <2>1. /\ put'[w].pc = "sweep" /\ put'[w].drop = put[w].drop
        /\ put[w].pc = "register" /\ \A v \in Writers \ {w} : put'[v] = put[v]
    BY <1>a, <1>4 DEF PutRegister, Puts
  <2>2. Registered' = Registered \cup {i}
    BY <1>4 DEF PutRegister
  <2>3. UNCHANGED <<disk, closer, condemned, up, used, mine, failed, swept>>
    BY <1>4 DEF PutRegister, process, history
  <2> QED BY <1>a, <1>b, <2>1, <2>2, <2>3
<1>5. ASSUME NEW w \in Writers, PutSweep(w)
      PROVE  Housekeeping'
  <2>1. PICK D \in SUBSET Registered :
          /\ put' = [put EXCEPT ![w].pc = "remove", ![w].drop = D]
          /\ Registered' = Registered \ D
    BY <1>5, SweepDrops
  <2>2. /\ put'[w].pc = "remove" /\ put'[w].drop = D
        /\ put[w].pc = "sweep" /\ \A v \in Writers \ {w} : put'[v] = put[v]
    BY <1>a, <1>5, <2>1 DEF PutSweep, Puts
  <2>3. UNCHANGED <<disk, closer, condemned, up, used, mine, failed, swept>>
    BY <1>5 DEF PutSweep, process, history
  <2> HIDE DEF Registered
  <2> QED BY <1>a, <1>b, <2>1, <2>2, <2>3
<1>6. ASSUME NEW w \in Writers, PutRemove(w)
      PROVE  Housekeeping'
  <2>1. PICK i \in put[w].drop : Remove(i) /\ put' = [put EXCEPT ![w].drop = @ \ {i}]
    BY <1>6 DEF PutRemove
  <2>2. i \in mine /\ i \in Ids
    BY <1>a, <1>b, <2>1
  <2>3. /\ put'[w].drop = put[w].drop \ {i} /\ put'[w].pc = put[w].pc /\ put'[w].id = put[w].id
        /\ put[w].pc = "remove" /\ \A v \in Writers \ {w} : put'[v] = put[v]
    BY <1>a, <1>6, <2>1 DEF PutRemove, Puts
  <2>4. /\ \A j \in Ids \ {i} : disk'[j] = disk[j]
        /\ \/ failed' = failed \cup {i} /\ disk' = disk
           \/ failed' = failed /\ disk'[i].kind = "none"
    BY <1>a, <2>1, <2>2 DEF Remove, Gone, Fails, NoFile
  <2>5. UNCHANGED <<entries, closer, condemned, up, used, mine, swept>>
    BY <1>6 DEF PutRemove, index, process
  <2> QED BY <1>a, <1>b, <2>2, <2>3, <2>4, <2>5
<1>7. ASSUME NEW w \in Writers, PutReturn(w)
      PROVE  Housekeeping'
  <2>1. /\ put'[w].pc = "idle" /\ put'[w].drop = {}
        /\ put[w].pc = "remove" /\ put[w].drop = {}
        /\ \A v \in Writers \ {w} : put'[v] = put[v]
    BY <1>a, <1>7 DEF PutReturn, Returns, NoPut
  <2>2. UNCHANGED <<entries, disk, closer, condemned, up, used, mine, failed, swept>>
    BY <1>7 DEF PutReturn, index, process, history
  <2> QED BY <1>a, <1>b, <2>1, <2>2
<1>8. CASE Close
  <2>1. /\ closer' = "removing" /\ condemned = {} /\ condemned' = Registered
        /\ UNCHANGED <<disk, up, put, used, mine, failed, swept>>
    BY <1>8 DEF Close, history
  <2> HIDE DEF Registered
  <2> QED BY <1>a, <2>1
<1>9. CASE CloseRemove
  <2>1. PICK i \in condemned : Remove(i) /\ condemned' = condemned \ {i}
    BY <1>9 DEF CloseRemove
  <2>2. i \in mine /\ i \in Ids
    BY <1>a, <2>1
  <2>3. /\ \A j \in Ids \ {i} : disk'[j] = disk[j]
        /\ \/ failed' = failed \cup {i} /\ disk' = disk
           \/ failed' = failed /\ disk'[i].kind = "none"
    BY <1>a, <2>1, <2>2 DEF Remove, Gone, Fails, NoFile
  <2>4. UNCHANGED <<entries, closer, put, up, used, mine, swept>>
    BY <1>9 DEF CloseRemove, index
  <2> QED BY <1>a, <2>1, <2>2, <2>3, <2>4
<1>10. CASE CloseReturn
  <2>1. closer' = "closed" /\ UNCHANGED <<entries, disk, condemned, put, up, used, mine, failed, swept>>
    BY <1>10 DEF CloseReturn, index, history
  <2> QED BY <2>1
<1>11. CASE Stop
  <2>1. /\ condemned' = {} /\ up' = FALSE /\ mine' = {} /\ failed' = {} /\ swept' = {}
        /\ closer' = "open" /\ UNCHANGED <<disk, used>>
        /\ \A w \in Writers : put'[w].drop = {}
    BY <1>11 DEF Stop, NoPut
  <2> QED BY <2>1
<1>12. CASE Boot \/ \E i \in Ids : NeighbourSweeps(i)
  <2>1. \A i \in Ids : disk'[i] = disk[i] \/ disk'[i].kind = "none"
    BY <1>a, <1>12 DEF Boot, NeighbourSweeps, Gone, NoFile
  <2>2. \/ swept' = swept
        \/ \E i \in Ids : Kind(i) # "none" /\ swept' = swept \cup {i}
    BY <1>12 DEF Boot, NeighbourSweeps, Stale, history
  <2>3. up' \in BOOLEAN /\ UNCHANGED <<entries, closer, condemned, put, used, mine, failed>>
    BY <1>12 DEF Boot, NeighbourSweeps, index, process, history
  <2> QED BY <2>1, <2>2, <2>3, <1>a
<1>13. CASE \/ \E r \in Readers : ReadFile(r) \/ \E i \in Ids : ReadGet(r, i)
            \/ Tick \/ UNCHANGED vars
  <2>1. UNCHANGED <<entries, disk, closer, condemned, put, up, used, mine, failed, swept>>
    BY <1>13 DEF ReadFile, ReadGet, Tick, vars, index, process, history
  <2> QED BY <2>1
<1> QED BY <1>1, <1>2, <1>3, <1>4, <1>5, <1>6, <1>7, <1>8, <1>9, <1>10, <1>11, <1>12, <1>13
       DEF Next, PutStep, CloseStep

-----------------------------------------------------------------------------
\* All that the theorems rest on.
AccountInv == SpoolInv /\ Books /\ Housekeeping

\* It holds at the start,
LEMMA AccountInit == Init => AccountInv
<1> SUFFICES ASSUME Init PROVE AccountInv
  OBVIOUS
<1>1. /\ order = <<>> /\ Range(order) = {} /\ IsInjective(order) /\ Registered = {}
      /\ entries = <<>> /\ total = 0
  BY DEF Init, Registered, Range, IsInjective
<1>2. Weight(Registered) = 0
  <2>1. IsFiniteSet({}) /\ Sized(entries, {})
    BY FS_EmptySet DEF Sized
  <2>2. Sum(entries, {}) = 0
    BY <2>1, SumFacts
  <2> QED BY <1>1, <2>2, WeightIsSum
<1>3. Books
  BY <1>1, <1>2 DEF Books, Accounting, SizeBound
<1> QED BY <1>3, SpoolInit, HousekeepingInit DEF AccountInv

\* and after every step.
LEMMA AccountStep == AccountInv /\ [Next]_vars => AccountInv'
<1> SUFFICES ASSUME AccountInv, [Next]_vars PROVE AccountInv'
  OBVIOUS
<1> QED BY SpoolStep, BooksStep, HousekeepingStep DEF AccountInv

\* The state stays within its types, the running total among them: it never
\* goes below zero, for all the bytes that sweeps subtract.
THEOREM SpoolTypeOK == Spec => []TypeOK
<1>1. AccountInv => TypeOK
  <2> SUFFICES ASSUME AccountInv PROVE TypeOK
    OBVIOUS
  <2>1. SpoolTypes /\ Books /\ Housekeeping
    BY DEF AccountInv, SpoolInv
  <2>2. total \in Nat
    BY <2>1, BooksWeigh
  <2>3. Registered \subseteq Ids
    BY <2>1 DEF SpoolTypes
  <2> QED BY <2>1, <2>2, <2>3 DEF TypeOK, SpoolTypes, Books, Housekeeping, Files, Puts, Pcs
<1> QED BY <1>1, AccountInit, AccountStep, PTL DEF Spec

\* The order lists each entry once and the total is the sum of their sizes,
\* whatever Puts, sweeps and Close interleave.
THEOREM SpoolAccounting == Spec => []Accounting
<1>1. AccountInv => Accounting
  BY DEF AccountInv, Books
<1> QED BY <1>1, AccountInit, AccountStep, PTL DEF Spec

\* Between a Put's registration and its sweep the limit may be exceeded; at any
\* other time the total is within it, or a single result is left.
THEOREM SpoolSizeBound == Spec => []SizeBound
<1>1. AccountInv => SizeBound
  BY DEF AccountInv, Books
<1> QED BY <1>1, AccountInit, AccountStep, PTL DEF Spec

\* A sweep leaves the result registered last, unless its lifetime is over.
LEMMA SweepLeavesNewest ==
  ASSUME Books, NEW w \in Writers, PutSweep(w), order # <<>>, Alive(order[Len(order)])
  PROVE  order[Len(order)] \in Registered'
<1> DEFINE n == Evictions
           left == SubSeq(Kept, n + 1, Len(Kept))
           newest == order[Len(order)]
<1>1. order \in Seq(Ids) /\ Range(order) = Registered /\ IsInjective(order)
  BY DEF Books, Accounting
<1>2. /\ Kept \in Seq(Range(order)) /\ Kept # <<>> /\ Kept[Len(Kept)] = newest
      /\ n \in 0..Len(Kept) /\ n < Len(Kept)
  BY <1>1, KeptFacts, EvictionsFit
<1>3. Range(left) \subseteq Registered
  BY <1>1, LeftFacts
<1>4. Registered' = Range(left)
  <2>1. entries' = Restrict(entries, Registered \ (Registered \ Range(left)))
    BY DEF PutSweep
  <2> HIDE DEF left
  <2> QED BY <1>3, <2>1 DEF Registered, Restrict
<1>5. newest \in Range(left)
  <2> HIDE DEF n
  <2>1. Len(Kept) \in Nat
    BY <1>2
  <2>2. /\ Len(left) = Len(Kept) - n /\ DOMAIN left = 1..Len(left)
        /\ \A m \in 1..Len(left) : left[m] = Kept[m + n]
    BY <1>2, <2>1
  <2> HIDE DEF left
  <2>3. Len(left) \in DOMAIN left /\ left[Len(left)] = newest
    BY <1>2, <2>1, <2>2
  <2> QED BY <2>3 DEF Range
<1> QED BY <1>4, <1>5

\* The result registered last is in the index until its lifetime is over, the
\* store is closed or the process stops: no sweep takes it for its size.
THEOREM SpoolNewestSurvives == Spec => NewestSurvives
<1> DEFINE newest == order[Len(order)]
           Survives == (order # <<>> /\ up' /\ closer' = closer)
                         => newest \in Registered' \/ Expired(newest)
<1>1. AccountInv /\ [Next]_vars => [Survives]_vars
  <2> SUFFICES ASSUME AccountInv, Next, order # <<>>, up', closer' = closer
               PROVE  newest \in Registered' \/ Expired(newest)
    OBVIOUS
  <2>1. Books /\ newest \in Registered
    <3>1. Books /\ order \in Seq(Ids) /\ Range(order) = Registered
      BY DEF AccountInv, Books, Accounting
    <3>2. Len(order) \in DOMAIN order
      BY <3>1
    <3> QED BY <3>1, <3>2 DEF Range
  <2>2. ASSUME NEW w \in Writers, PutSweep(w)
        PROVE  newest \in Registered' \/ Expired(newest)
    BY <2>1, <2>2, SweepLeavesNewest DEF Alive
  <2>3. ASSUME NEW w \in Writers, PutRegister(w)
        PROVE  newest \in Registered'
    BY <2>1, <2>3 DEF PutRegister, Registered
  <2>4. CASE Close \/ Stop
    BY <2>4 DEF Close, Stop
  <2>5. ASSUME NEW w \in Writers,
               \/ PutWriteFails(w) \/ PutRename(w) \/ PutRenameFails(w)
               \/ PutRemove(w) \/ PutReturn(w) \/ \E i \in Ids, b \in Sizes : PutCreate(w, i, b)
        PROVE  newest \in Registered'
    BY <2>1, <2>5 DEF PutWriteFails, PutRename, PutRenameFails, PutRemove, PutReturn,
                      PutCreate, Registered, index
  <2>6. CASE \/ \E r \in Readers : ReadFile(r) \/ \E i \in Ids : ReadGet(r, i)
             \/ CloseStep \/ Boot \/ (\E i \in Ids : NeighbourSweeps(i)) \/ Tick
    BY <2>1, <2>6 DEF ReadFile, ReadGet, CloseStep, CloseRemove, CloseReturn, Boot,
                      NeighbourSweeps, Tick, Registered, index
  <2> QED BY <2>2, <2>3, <2>4, <2>5, <2>6 DEF Next, PutStep
<1>2. AccountInv /\ [Next]_vars
        => [(order # <<>> /\ up' /\ closer' = closer)
              => LET last == order[Len(order)]
                 IN  last \in Registered' \/ Expired(last)]_vars
  BY <1>1
<1> QED BY <1>2, AccountInit, AccountStep, PTL DEF Spec, NewestSurvives

\* A sweep that evicts an unexpired result had no room for it.
LEMMA SweepEvictsForRoom ==
  ASSUME Books, NEW w \in Writers, PutSweep(w), NEW k \in DOMAIN order,
         order[k] \notin Registered', ~Expired(order[k])
  PROVE  Weight({order[j] : j \in {m \in k..Len(order) : Alive(order[m])}}) > MaxBytes
<1> DEFINE n == Evictions
           left == SubSeq(Kept, n + 1, Len(Kept))
           tail == SubSeq(Kept, (n - 1) + 1, Len(Kept))
           younger == {order[j] : j \in {m \in k..Len(order) : Alive(order[m])}}
<1>1. /\ order \in Seq(Ids) /\ Range(order) = Registered /\ IsInjective(order)
      /\ Len(order) \in Nat /\ k \in 1..Len(order)
  BY DEF Books, Accounting
<1>2. Alive(order[k])
  BY <1>1 DEF Alive, Range
<1>3. /\ Kept \in Seq(Ids) /\ Len(Kept) \in Nat /\ n \in 0..Len(Kept)
      /\ n # 0 => ~Fits(n - 1)
  <2>1. Kept \in Seq(Range(order)) /\ Range(order) \subseteq Ids
    BY <1>1, KeptFacts DEF Range
  <2>2. Evictions \in 0..Len(Kept) /\ \A m \in 0..(Evictions - 1) : ~Fits(m)
    BY <1>1, EvictionsFit
  <2>3. Kept \in Seq(Ids) /\ Len(Kept) \in Nat
    BY <2>1
  <2> QED BY <2>2, <2>3
<1>4. PICK p \in 1..Len(Kept) : Kept[p] = order[k]
  BY <1>1, <1>2, KeptInOrder
<1>5. Registered' = Range(left)
  <2>1. entries' = Restrict(entries, Registered \ (Registered \ Range(left)))
    BY DEF PutSweep
  <2>2. Range(left) \subseteq Registered
    BY <1>1, LeftFacts
  <2> HIDE DEF left
  <2> QED BY <2>1, <2>2 DEF Registered, Restrict
<1> HIDE DEF n
<1>6. p =< n
  <2> SUFFICES ASSUME p > n PROVE FALSE
    BY <1>3
  <2>1. Len(left) = Len(Kept) - n /\ DOMAIN left = 1..Len(left)
        /\ \A m \in 1..Len(left) : left[m] = Kept[m + n]
    BY <1>3
  <2> HIDE DEF left
  <2>2. p - n \in DOMAIN left /\ left[p - n] = Kept[p]
    BY <1>3, <2>1
  <2>3. Kept[p] \in Range(left)
    BY <2>2 DEF Range
  <2> QED BY <1>4, <1>5, <2>3
<1>7. total - Weight(Registered \ Range(tail)) > MaxBytes
  <2>1. n # 0 /\ ~Fits(n - 1)
    BY <1>3, <1>6
  <2>2. ~(total - Weight(Registered \ Range(tail)) =< MaxBytes)
    BY <2>1 DEF Fits
  <2>3. total - Weight(Registered \ Range(tail)) \in Int
    <3>1. Weight(Registered \ Range(tail)) \in Nat /\ total \in Nat
      BY BooksWeigh, SumFacts, WeightIsSum
    <3> QED BY <3>1
  <2>4. MaxBytes \in Nat
    BY SpoolAssumption
  <2> QED BY <2>2, <2>3, <2>4
<1>8. Range(tail) \subseteq younger
  <2>1. /\ Len(tail) = Len(Kept) - (n - 1) /\ DOMAIN tail = 1..Len(tail)
        /\ \A m \in 1..Len(tail) : tail[m] = Kept[m + (n - 1)]
    BY <1>3, <1>6
  <2> HIDE DEF tail
  <2> SUFFICES ASSUME NEW m \in 1..Len(tail) PROVE tail[m] \in younger
    BY <2>1 DEF Range
  <2> DEFINE q == m + (n - 1)
  <2>2. q \in 1..Len(Kept) /\ p =< q /\ tail[m] = Kept[q]
    BY <1>3, <1>6, <2>1
  <2> HIDE DEF q
  <2>3. PICK b \in 1..Len(order) : Kept[q] = order[b] /\ Alive(order[b])
    BY <1>1, <2>2, KeptInOrder
  <2>4. k =< b
    BY <1>1, <1>4, <2>2, <2>3, KeptInOrder
  <2>5. b \in k..Len(order)
    BY <1>1, <2>4
  <2> QED BY <2>2, <2>3, <2>5
<1> HIDE DEF tail
<1>9. younger \subseteq Registered
  BY DEF Alive
<1> HIDE DEF younger
<1>10. IsFiniteSet(Registered) /\ Sized(entries, Registered) /\ total = Sum(entries, Registered)
  BY BooksWeigh
<1>11. /\ Sum(entries, Range(tail)) \in Nat /\ Sum(entries, Registered \ Range(tail)) \in Nat
       /\ total = Sum(entries, Range(tail)) + Sum(entries, Registered \ Range(tail))
  BY <1>8, <1>9, <1>10, SumFacts
<1>12. Sum(entries, Range(tail)) > MaxBytes
  <2>1. total - Sum(entries, Registered \ Range(tail)) > MaxBytes
    BY <1>7, WeightIsSum
  <2> QED BY <1>11, <2>1, SpoolAssumption
<1>13. Sum(entries, younger) >= Sum(entries, Range(tail))
  <2>1. IsFiniteSet(younger) /\ Sized(entries, younger)
    BY <1>9, <1>10, FS_Subset DEF Sized
  <2>2. Range(tail) \in SUBSET younger /\ younger \ Range(tail) \in SUBSET younger
    BY <1>8
  <2>3. /\ Sum(entries, Range(tail)) \in Nat /\ Sum(entries, younger \ Range(tail)) \in Nat
        /\ Sum(entries, younger) = Sum(entries, Range(tail)) + Sum(entries, younger \ Range(tail))
    BY <2>1, <2>2, SumFacts
  <2> QED BY <2>3
<1>14. Sum(entries, younger) \in Nat
  BY <1>9, <1>10, SumFacts
<1>15. Weight(younger) > MaxBytes
  BY <1>11, <1>12, <1>13, <1>14, SpoolAssumption, WeightIsSum
<1> QED BY <1>15 DEF younger

\* A result leaves the index before its lifetime is over only by Close, by the
\* end of the process, or because it and the unexpired ones after it exceed the
\* limit.
THEOREM SpoolEvictionIsNeeded == Spec => EvictionIsNeeded
<1> DEFINE Needed(k) == \/ order[k] \in Registered' \/ Expired(order[k])
                        \/ Weight({order[j] : j \in {m \in k..Len(order) : Alive(order[m])}})
                             > MaxBytes
<1>1. AccountInv /\ [Next]_vars
        => [(up' /\ closer' = closer) => \A k \in DOMAIN order : Needed(k)]_vars
  <2> SUFFICES ASSUME AccountInv, Next, up', closer' = closer, NEW k \in DOMAIN order
               PROVE  Needed(k)
    OBVIOUS
  <2>1. Books /\ order[k] \in Registered
    <3>1. Books /\ Range(order) = Registered
      BY DEF AccountInv, Books, Accounting
    <3> QED BY <3>1 DEF Range
  <2>2. ASSUME NEW w \in Writers, PutSweep(w) PROVE Needed(k)
    BY <2>1, <2>2, SweepEvictsForRoom
  <2>3. ASSUME NEW w \in Writers, PutRegister(w) PROVE order[k] \in Registered'
    BY <2>1, <2>3 DEF PutRegister, Registered
  <2>4. CASE Close \/ Stop
    BY <2>4 DEF Close, Stop
  <2>5. ASSUME NEW w \in Writers,
               \/ PutWriteFails(w) \/ PutRename(w) \/ PutRenameFails(w)
               \/ PutRemove(w) \/ PutReturn(w) \/ \E i \in Ids, b \in Sizes : PutCreate(w, i, b)
        PROVE  order[k] \in Registered'
    BY <2>1, <2>5 DEF PutWriteFails, PutRename, PutRenameFails, PutRemove, PutReturn,
                      PutCreate, Registered, index
  <2>6. CASE \/ \E r \in Readers : ReadFile(r) \/ \E i \in Ids : ReadGet(r, i)
             \/ CloseStep \/ Boot \/ (\E i \in Ids : NeighbourSweeps(i)) \/ Tick
    BY <2>1, <2>6 DEF ReadFile, ReadGet, CloseStep, CloseRemove, CloseReturn, Boot,
                      NeighbourSweeps, Tick, Registered, index
  <2> QED BY <2>2, <2>3, <2>4, <2>5, <2>6 DEF Next, PutStep
<1>2. AccountInv /\ [Next]_vars
        => [(up' /\ closer' = closer) =>
              \A k \in DOMAIN order :
                order[k] \in Registered' \/ Expired(order[k])
                \/ Weight({order[j] : j \in {m \in k..Len(order) : Alive(order[m])}})
                     > MaxBytes]_vars
  BY <1>1, Zenon
<1> QED BY <1>2, AccountInit, AccountStep, PTL DEF Spec, EvictionIsNeeded

\* A file of this process is in the index, in a Put or on a list of removals,
\* unless an operation on it failed.
THEOREM SpoolNoLeak == Spec => []NoLeak
<1>1. AccountInv => NoLeak
  BY DEF AccountInv, Housekeeping
<1> QED BY <1>1, AccountInit, AccountStep, PTL DEF Spec

=============================================================================
