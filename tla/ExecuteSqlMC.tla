---------------------------- MODULE ExecuteSqlMC ----------------------------
(***************************************************************************)
(* ExecuteSql on a small result, and what a comment says of its columns.   *)
(***************************************************************************)
EXTENDS ExecuteSql

SeqsOf(n, chars) == UNION {[1..k -> chars] : k \in 0..n}

\* A query begins with code.  All short rests, and longer ones of the characters
\* that have something to do with each other.
Rests == SeqsOf(3, {"x", " ", "nl", ";", "'", "tick", "bs", "-", "#", "/", "*"})
         \cup SeqsOf(5, {"'", "bs", "#"})
         \cup SeqsOf(5, {"x", "/", "*"})
         \cup SeqsOf(4, {"-", " ", "nl", "x"})
MCTexts == {<<"x">> \o r : r \in Rests}

\* Numbers in range, the largest int64, one beyond it, and a parameter.
MCLimits == {2, 3, 7, 9, -1}

\* a, b, a; a, a, a; and a join that selects id, id and a column called id_2.
MCColumns == {<< <<"a">>, <<"b">>, <<"a">> >>,
              << <<"a">>, <<"a">>, <<"a">> >>,
              << <<"id">>, <<"id">>, <<"id", 2>> >>}

\* rows.go:53: "Key is the uniquified key in Rows[i]"; rows.go:63: otherwise the
\* map would lose data.  No two columns of a result have the same key.
KeysAreUnique ==
  \A i, j \in DOMAIN answer.names : Keys[i] = Keys[j] => i = j

=============================================================================
