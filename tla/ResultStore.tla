---------------------------- MODULE ResultStore ----------------------------
(***************************************************************************)
(* What the tools may rely on from the result spool: the promise of Store  *)
(* in internal/spool/spool.go, without files, sizes and clocks.            *)
(*                                                                         *)
(* A result is new until its Put has taken effect.  From then on a reader  *)
(* that is let in finds the whole of it, until it is forgotten, and then   *)
(* it is gone for good.  A reader that has been let in and is overtaken by *)
(* that finds the whole result or nothing.                                 *)
(***************************************************************************)
CONSTANTS
  Ids,
  NoId,
  Readers,
  Outside       \* somebody else has a hand in the directory

VARIABLES
  result,       \* per id: new, kept, lost (the store does not know), gone
  reader        \* per reader: the id it was let in for, and what it finds now

vars == <<result, reader>>

NoReader == [id |-> NoId, finds |-> "nothing"]

Init == /\ result = [i \in Ids |-> "new"]
        /\ reader = [r \in Readers |-> NoReader]

\* From here on the readers of i find nothing.
Emptied(i) ==
  reader' = [r \in Readers |-> IF reader[r].id = i
                               THEN [id |-> i, finds |-> "nothing"] ELSE reader[r]]

\* Put takes effect at once.
Put(i) == /\ result[i] = "new"
          /\ result' = [result EXCEPT ![i] = "kept"]
          /\ UNCHANGED reader

PutLost(i) == /\ Outside /\ result[i] = "new"
              /\ result' = [result EXCEPT ![i] = "lost"]
              /\ UNCHANGED reader

\* Results expire, are evicted or dropped with the store, and Puts fail.  Readers
\* that were let in may still find them.
Forget(S) == /\ result' = [i \in Ids |-> IF i \in S THEN "gone" ELSE result[i]]
             /\ UNCHANGED reader

\* Only what is gone is erased.
Erase(i) == /\ result[i] = "gone"
            /\ Emptied(i)
            /\ UNCHANGED result

Lose(i) == /\ Outside /\ result[i] = "kept"
           /\ result' = [result EXCEPT ![i] = "lost"]
           /\ Emptied(i)

\* A reader is let in for a result that is there.
Open(r, i) ==
  /\ reader[r].id = NoId
  /\ result[i] \in {"kept", "lost"}
  /\ reader' = [reader EXCEPT ![r] =
       [id |-> i, finds |-> IF result[i] = "kept" THEN "whole" ELSE "nothing"]]
  /\ UNCHANGED result

Finish(r) == /\ reader[r].id # NoId
             /\ reader' = [reader EXCEPT ![r] = NoReader]
             /\ UNCHANGED result

\* The process ends: nothing it had is given out again.
Crash(S) == /\ \A i \in Ids \ S : result[i] \in {"new", "gone"}
            /\ result' = [i \in Ids |-> IF i \in S THEN "gone" ELSE result[i]]
            /\ reader' = [r \in Readers |-> NoReader]

Next == \/ \E i \in Ids : Put(i) \/ PutLost(i) \/ Erase(i) \/ Lose(i)
        \/ \E S \in SUBSET Ids : Forget(S) \/ Crash(S)
        \/ \E r \in Readers : Finish(r) \/ \E i \in Ids : Open(r, i)

Spec == Init /\ [][Next]_vars

=============================================================================
