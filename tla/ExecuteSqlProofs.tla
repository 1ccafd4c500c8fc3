-------------------------- MODULE ExecuteSqlProofs --------------------------
(***************************************************************************)
(* What the answers of execute_sql satisfy for all texts, limits, offsets, *)
(* columns and sizes of a result.                                          *)
(***************************************************************************)
EXTENDS ExecuteSql, SqlTextProofs, FiniteSetTheorems

\* Until it is delivered an answer has no rows.
QueryInv ==
  /\ TypeOK /\ AnswerIsWhole
  /\ call.pc \in {"sent", "rows"} => answer.rows = None /\ ~answer.resource

\* The limit sent to Metabase is positive and within the cap.
LEMMA LimitBounds ==
  ASSUME NEW n \in RowLimits
  PROVE  NormalizeLimit(n) \in 1..MaxRowLimit
BY QueryAssumption DEF NormalizeLimit

\* What a page asks of the result is part of it.
LEMMA RowsBounds ==
  ASSUME NEW p, NEW n PROVE FirstRows(RowsOf(p), n) \in SUBSET (1..Total)
BY DEF FirstRows, RowsOf

\* At most one number.
LEMMA NextOffsetType ==
  ASSUME NEW p \in Pages PROVE NextOffset(p) \in SUBSET Int
BY QueryAssumption DEF Pages, NextOffset, Int64, Start, Literal

\* The values the actions write.
LEMMA NoPageType == NoPage \in Pages
BY DEF NoPage, Pages

LEMMA IdleType == Idle \in Calls /\ Idle.pc = "idle"
<1>1. NoPage \in Pages /\ <<>> \in Queries
  BY NoPageType DEF Queries
<1> QED
  BY <1>1, QueryAssumption DEF Idle, Calls

LEMMA NoAnswerType ==
  ASSUME NEW w \in SUBSET {"limit", "truncated", "spool"}
  PROVE  LET a == [NoAnswer EXCEPT !.warnings = w]
         IN  a \in Answers /\ a.rows = None /\ ~a.resource
BY DEF NoAnswer, Answers

LEMMA NoAnswerIsOne == NoAnswer \in Answers
BY DEF NoAnswer, Answers

\* The invariant holds at the start.
LEMMA InitQueryInv == Init => QueryInv
<1> SUFFICES ASSUME Init PROVE QueryInv
  OBVIOUS
<1>1. PICK first \in {NoPage} \cup [hasLimit : {TRUE}, limit : Limits, offset : Offsets] :
        walk = [first |-> first, page |-> first, seen |-> {}, cut |-> FALSE, ended |-> FALSE]
  BY DEF Init
<1>2. first \in Pages
  <2>1. ASSUME first \in [hasLimit : {TRUE}, limit : Limits, offset : Offsets]
        PROVE  first \in Pages
    <3>1. /\ first = [hasLimit |-> first.hasLimit, limit |-> first.limit,
                      offset |-> first.offset]
          /\ first.hasLimit \in {TRUE} /\ first.limit \in Limits /\ first.offset \in Offsets
      BY <2>1
    <3>2. first.hasLimit \in BOOLEAN
      BY <3>1, Zenon
    <3>3. first.limit \in Int /\ first.offset \in Int
      BY <3>1, QueryAssumption
    <3> QED
      BY <3>1, <3>2, <3>3 DEF Pages
  <2> QED
    BY <2>1, <1>1, NoPageType
<1>3. walk \in Walks
  BY <1>1, <1>2 DEF Walks
<1>4. call.pc = "idle"
  BY DEF Init, Idle
<1> QED
  BY <1>3, <1>4, IdleType, NoAnswerIsOne DEF Init, QueryInv, TypeOK, AnswerIsWhole

\* Every step keeps it.
LEMMA NextQueryInv == QueryInv /\ [Next]_vars => QueryInv'
<1> SUFFICES ASSUME QueryInv, [Next]_vars PROVE QueryInv'
  OBVIOUS
<1> USE DEF QueryInv, TypeOK, AnswerIsWhole
<1>1. CASE Submit
  <2>1. PICK t \in IF walk.page.hasLimit THEN {<<"x">>} ELSE Texts :
          call' = [Idle EXCEPT !.pc = "inspect", !.text = t, !.page = walk.page]
    BY <1>1 DEF Submit
  <2>2. t \in Queries /\ walk.page \in Pages
    BY <2>1 DEF Walks, Queries
  <2>3. call' \in Calls /\ call'.pc = "inspect"
    BY <2>1, <2>2, IdleType DEF Calls
  <2> QED
    BY <1>1, <2>3, NoAnswerIsOne DEF Submit
<1>2. CASE Refuse
  BY <1>2, IdleType DEF Refuse
<1>3. ASSUME NEW page \in Pages, NEW n \in RowLimits, Sends(page, NormalizeLimit(n))
      PROVE  call' \in Calls /\ call'.pc = "sent" /\ call'.rowLimit # 0
  <2> DEFINE text == <<>>
             limit == NormalizeLimit(n)
  <2>1. text \in Queries
    BY DEF Queries
  <2>2. limit \in 0..MaxRowLimit /\ limit # 0
    BY LimitBounds, QueryAssumption
  <2>3. call' = [call EXCEPT !.pc = "sent", !.text = text, !.page = page, !.rowLimit = limit]
    BY <1>3 DEF Sends
  <2> HIDE DEF text, limit
  <2> QED
    BY <2>1, <2>2, <2>3 DEF Calls
<1>4. ASSUME NEW w \in SUBSET {"limit"}, answer' = [NoAnswer EXCEPT !.warnings = w]
      PROVE  answer' \in Answers /\ answer'.rows = None /\ ~answer'.resource
  BY <1>4, NoAnswerType
<1>5. CASE SendAsIs
  <2>1. call'\in Calls /\ call'.pc = "sent" /\ call'.rowLimit # 0
    BY <1>3, <1>5 DEF SendAsIs, Calls
  <2>2. answer' \in Answers /\ answer'.rows = None /\ ~answer'.resource
    <3>1. CASE call.page.hasLimit
      <4>1. answer' = [NoAnswer EXCEPT !.warnings = {}]
        BY <1>5, <3>1 DEF SendAsIs
      <4> QED
        BY <1>4, <4>1, {} \in SUBSET {"limit"}, Zenon
    <3>2. CASE ~call.page.hasLimit
      BY <1>4, <1>5, <3>2 DEF SendAsIs
    <3> QED
      BY <3>1, <3>2
  <2> QED
    BY <1>5, <2>1, <2>2 DEF SendAsIs
<1>6. CASE AppendLimit
  <2>1. PICK n \in RowLimits :
          \/ Sends([hasLimit |-> TRUE, limit |-> NormalizeLimit(n), offset |-> 0],
                   NormalizeLimit(n))
          \/ Sends(NoPage, NormalizeLimit(n))
    BY <1>6 DEF AppendLimit
  <2>2. [hasLimit |-> TRUE, limit |-> NormalizeLimit(n), offset |-> 0] \in Pages
    BY LimitBounds, QueryAssumption DEF Pages
  <2>3. call' \in Calls /\ call'.pc = "sent" /\ call'.rowLimit # 0
    BY <1>3, <2>1, <2>2, NoPageType
  <2>4. answer' \in Answers /\ answer'.rows = None /\ ~answer'.resource
    BY <1>4, <1>6 DEF AppendLimit
  <2> QED
    BY <1>6, <2>3, <2>4 DEF AppendLimit
<1>7. CASE QueryFails
  BY <1>7, IdleType, NoAnswerIsOne DEF QueryFails
<1>8. CASE Rows
  <2> DEFINE rows == FirstRows(RowsOf(call.page), call.rowLimit)
  <2>1. PICK mark \in Marks(rows), names \in Columns :
          /\ call' = [call EXCEPT !.pc = "rows", !.rows = rows]
          /\ answer' = [answer EXCEPT
               !.nextOffset = NextOffset(call.page),
               !.truncated = Truncated(mark),
               !.warnings = IF Truncated(mark) THEN @ \cup {"truncated"} ELSE @,
               !.names = names]
    BY <1>8 DEF Rows
  <2>2. rows \in SUBSET (1..Total)
    BY RowsBounds
  <2>3. NextOffset(call.page) \in SUBSET Int
    BY NextOffsetType DEF Calls
  <2>4. Truncated(mark) \in BOOLEAN
    BY DEF Truncated
  <2> HIDE DEF rows
  <2>6. call' \in Calls /\ call'.pc = "rows" /\ call'.rowLimit # 0
    BY <1>8, <2>1, <2>2 DEF Rows, Calls
  <2>7. answer' \in Answers /\ answer'.rows = answer.rows
        /\ answer'.resource = answer.resource
    BY <2>1, <2>3, <2>4 DEF Answers
  <2> QED
    BY <1>8, <2>6, <2>7 DEF Rows
<1>9. ASSUME NEW w \in SUBSET {"spool"}, Inline(w),
             call.pc = "rows", call' = [call EXCEPT !.pc = "answered"],
             UNCHANGED <<autoLimit, spool, walk>>
      PROVE  QueryInv'
  <2>1. call' \in Calls /\ call'.rowLimit # 0 /\ call'.rows = call.rows
    BY <1>9 DEF Calls
  <2>2. answer' \in Answers
    BY <1>9 DEF Inline, Answers, Calls
  <2>3. answer'.rows = call.rows /\ answer'.resource = answer.resource
    BY <1>9 DEF Inline, Answers
  <2> QED
    BY <1>9, <2>1, <2>2, <2>3 DEF Inline
<1>10. ASSUME NEW d \in {"auto", "inline", "file"}, Deliver(d) PROVE QueryInv'
  <2>1. CASE \E w \in SUBSET {"spool"} : Inline(w)
    BY <1>9, <1>10, <2>1 DEF Deliver
  <2>2. CASE file' = call.rows /\ answer' = [answer EXCEPT !.resource = TRUE]
    <3>1. /\ call' \in Calls /\ call'.rowLimit # 0 /\ call'.pc = "answered"
          /\ call'.rows = call.rows /\ call.rows \in SUBSET (1..Total)
      BY <1>10 DEF Deliver, Calls
    <3>2. answer' \in Answers /\ answer'.rows = answer.rows /\ answer'.resource
      BY <2>2 DEF Answers
    <3> QED
      BY <1>10, <2>2, <3>1, <3>2 DEF Deliver
  <2> QED
    BY <1>10, <2>1, <2>2 DEF Deliver
<1>11. ASSUME NEW d \in {"auto", "inline", "file"}, DeliverFallback(d) PROVE QueryInv'
  BY <1>9, <1>11 DEF DeliverFallback
<1>12. CASE Drop
  BY <1>12 DEF Drop
<1>13. ASSUME NEW rows \in SUBSET (1..Total), Take(rows) PROVE QueryInv'
  <2> DEFINE page == call.page
             more == /\ page.hasLimit /\ Cardinality(rows) = page.limit
                     /\ answer.nextOffset # {}
             next == CHOOSE n \in answer.nextOffset : TRUE
  <2>1. more => next \in Int
    BY DEF Answers
  <2>2. page \in Pages /\ [page EXCEPT !.offset = next] \in [hasLimit : BOOLEAN, limit : Int, offset : {next}]
    BY DEF Calls, Pages
  <2>3. more => [page EXCEPT !.offset = next] \in Pages
    BY <2>1, <2>2 DEF Pages
  <2>4. more \in BOOLEAN /\ answer.truncated \in BOOLEAN
    BY DEF Answers
  <2>5. walk' = [walk EXCEPT
          !.seen = @ \cup rows, !.cut = @ \/ answer.truncated, !.ended = ~more,
          !.page = IF more THEN [page EXCEPT !.offset = next] ELSE @]
    BY <1>13 DEF Take
  <2> HIDE DEF next, more, page
  <2>6. walk' \in Walks
    BY <2>3, <2>4, <2>5 DEF Walks
  <2> QED
    BY <1>13, <2>6, IdleType DEF Take
<1>14. CASE ReadMisses
  BY <1>14, IdleType DEF ReadMisses
<1>15. CASE UNCHANGED vars
  BY <1>15 DEF vars
<1>16. CASE TakeInline
  BY <1>13, <1>16 DEF TakeInline, Answers
<1>17. CASE ReadResource
  BY <1>13, <1>17 DEF ReadResource
<1> QED
  BY <1>1, <1>2, <1>5, <1>6, <1>7, <1>8, <1>10, <1>11, <1>12, <1>14, <1>15, <1>16, <1>17 DEF Next

\* The inductive invariant.
THEOREM QueryInvariant == Spec => []QueryInv
BY InitQueryInv, NextQueryInv, PTL DEF Spec

\* The state stays within its types: among others, Metabase is never asked
\* without a limit, nor for more than the maximum.
THEOREM QueryTypeOK == Spec => []TypeOK
<1>1. QueryInv => TypeOK
  BY DEF QueryInv
<1> QED
  BY <1>1, QueryInvariant, PTL

\* A result reaches the client exactly once, inline or in the file.
THEOREM QueryAnswerIsWhole == Spec => []AnswerIsWhole
<1>1. QueryInv => AnswerIsWhole
  BY DEF QueryInv
<1> QED
  BY <1>1, QueryInvariant, PTL

-----------------------------------------------------------------------------
Earlier(names, i) == {j \in 1..(i - 1) : names[j] = names[i]}

\* Of two columns of a name the later one has more before it.
LEMMA LaterCountsMore ==
  ASSUME NEW names, NEW i \in Nat, NEW j \in Nat, i < j, 1 =< i, names[i] = names[j]
  PROVE  /\ Cardinality(Earlier(names, i)) \in Nat
         /\ Cardinality(Earlier(names, j)) \in Nat
         /\ Cardinality(Earlier(names, i)) < Cardinality(Earlier(names, j))
<1>1. IsFiniteSet(Earlier(names, j))
  <2>1. IsFiniteSet(1..(j - 1))
    BY FS_Interval
  <2>2. Earlier(names, j) \subseteq 1..(j - 1)
    BY DEF Earlier
  <2> QED
    BY <2>1, <2>2, FS_Subset
<1>2. Earlier(names, i) \subseteq Earlier(names, j) /\ i \in Earlier(names, j) \ Earlier(names, i)
  BY DEF Earlier
<1> QED
  BY <1>1, <1>2, FS_Subset, FS_CardinalityType

\* How many there can be.
LEMMA CountBounds ==
  ASSUME NEW names, NEW i \in Nat, 1 =< i
  PROVE  Cardinality(Earlier(names, i)) \in 0..(i - 1)
<1>1. IsFiniteSet(1..(i - 1)) /\ Cardinality(1..(i - 1)) = i - 1
  BY FS_Interval
<1>2. Earlier(names, i) \subseteq 1..(i - 1)
  BY DEF Earlier
<1> QED
  BY <1>1, <1>2, FS_Subset, FS_CardinalityType

\* A sequence with something appended to it determines both.
LEMMA SuffixInjective ==
  ASSUME NEW S
  PROVE  \A s, t \in Seq(S), x, y \in S : Append(s, x) = Append(t, y) => s = t /\ x = y
<1> SUFFICES ASSUME NEW s \in Seq(S), NEW t \in Seq(S), NEW x \in S, NEW y \in S,
                    Append(s, x) = Append(t, y)
             PROVE  s = t /\ x = y
  OBVIOUS
<1>1. Len(s) = Len(t)
  <2>1. Len(Append(s, x)) = Len(s) + 1 /\ Len(Append(t, y)) = Len(t) + 1
    OBVIOUS
  <2> QED
    BY <2>1
<1>2. x = y
  <2>1. Append(s, x)[Len(s) + 1] = x /\ Append(t, y)[Len(t) + 1] = y
    OBVIOUS
  <2> QED
    BY <1>1, <2>1
<1>3. \A k \in 1..Len(s) : s[k] = t[k]
  <2> SUFFICES ASSUME NEW k \in 1..Len(s) PROVE s[k] = t[k]
    OBVIOUS
  <2>1. Append(s, x)[k] = s[k] /\ Append(t, y)[k] = t[k]
    BY <1>1
  <2> QED
    BY <2>1
<1> QED
  BY <1>1, <1>2, <1>3

\* Two keys are equal only if a column is called like the key of another.
LEMMA KeysApart ==
  ASSUME NEW Parts, Nat \subseteq Parts, NEW names \in Seq(Seq(Parts)), ~Suffixed(names),
         NEW i \in DOMAIN names, NEW j \in DOMAIN names, i < j
  PROVE  Uniquify(names)[i] # Uniquify(names)[j]
<1> DEFINE n(k) == Cardinality(Earlier(names, k))
           key(k) == IF n(k) = 0 THEN names[k] ELSE Append(names[k], n(k) + 1)
<1>1. DOMAIN names = 1..Len(names) /\ Len(names) \in Nat
  OBVIOUS
<1>2. i \in Nat /\ j \in Nat /\ 1 =< i /\ 1 =< j /\ i =< Len(names) /\ j =< Len(names)
  BY <1>1
<1>3. n(i) \in 0..(i - 1) /\ n(j) \in 0..(j - 1)
  BY <1>2, CountBounds
<1>4. names[i] = names[j] => n(i) < n(j)
  BY <1>2, LaterCountsMore
<1>5. names[i] \in Seq(Parts) /\ names[j] \in Seq(Parts)
  OBVIOUS
<1>6. Uniquify(names)[i] = key(i) /\ Uniquify(names)[j] = key(j)
  BY DEF Uniquify, Earlier
<1>7. \A k, l \in DOMAIN names, m \in 2..Len(names) : names[k] # Append(names[l], m)
  BY DEF Suffixed
<1> HIDE DEF n
<1>a. Len(names) \in Nat
  BY <1>1
<1>8. CASE n(i) = 0 /\ n(j) = 0
  BY <1>4, <1>6, <1>8
<1>9. CASE n(i) = 0 /\ n(j) # 0
  <2>1. n(j) + 1 \in 2..Len(names)
    <3> DEFINE length == Len(names)
    <3>1. /\ j \in Nat /\ j =< length /\ length \in Nat
          /\ n(j) \in 0..(j - 1) /\ n(j) # 0
      BY <1>a, <1>2, <1>3, <1>9
    <3> HIDE DEF length
    <3>2. n(j) + 1 \in 2..length
      BY ONLY <3>1
    <3> QED BY <3>2 DEF length
  <2> QED
    BY <1>6, <1>7, <1>9, <2>1
<1>10. CASE n(i) # 0 /\ n(j) = 0
  <2>1. n(i) + 1 \in 2..Len(names)
    <3> DEFINE length == Len(names)
    <3>1. /\ i \in Nat /\ i =< length /\ length \in Nat
          /\ n(i) \in 0..(i - 1) /\ n(i) # 0
      BY <1>a, <1>2, <1>3, <1>10
    <3> HIDE DEF length
    <3>2. n(i) + 1 \in 2..length
      BY ONLY <3>1
    <3> QED BY <3>2 DEF length
  <2> QED
    BY <1>6, <1>7, <1>10, <2>1
<1>11. CASE n(i) # 0 /\ n(j) # 0
  <2>1. n(i) + 1 \in Parts /\ n(j) + 1 \in Parts /\ n(i) \in Nat /\ n(j) \in Nat
    BY <1>2, <1>3
  <2>2. \A s, t \in Seq(Parts), x, y \in Parts :
          Append(s, x) = Append(t, y) => s = t /\ x = y
    BY SuffixInjective
  <2> DEFINE x == n(i) + 1
             y == n(j) + 1
  <2>3. Append(names[i], x) = Append(names[j], y) => names[i] = names[j] /\ x = y
    <3>1. x \in Parts /\ y \in Parts
      BY <2>1
    <3> HIDE DEF x, y
    <3> QED
      BY <1>5, <2>2, <3>1, SMTT(30)
  <2> QED
    BY <1>4, <1>6, <1>11, <2>1, <2>3
<1> QED
  BY <1>8, <1>9, <1>10, <1>11

\* No value of a row overwrites another, for any columns whose names have no such
\* suffix.
THEOREM QueryKeysKeepApart ==
  ASSUME NEW CONSTANT Parts, Nat \subseteq Parts, Columns \subseteq Seq(Seq(Parts))
  PROVE  Spec => []KeysKeepApart
<1>1. QueryInv => KeysKeepApart
  <2> SUFFICES ASSUME QueryInv, ~Suffixed(answer.names),
                      NEW i \in DOMAIN answer.names, NEW j \in DOMAIN answer.names,
                      Keys[i] = Keys[j]
               PROVE  i = j
    BY DEF KeysKeepApart
  <2>1. answer.names \in Seq(Seq(Parts))
    <3>1. answer.names \in Columns \cup {<<>>}
      BY DEF QueryInv, TypeOK, Answers
    <3>2. <<>> \in Seq(Seq(Parts))
      OBVIOUS
    <3> QED
      BY <3>1, <3>2
  <2>2. i \in Nat /\ j \in Nat
    BY <2>1
  <2>3. ~(i < j)
    BY <2>1, <2>2, KeysApart DEF Keys
  <2>4. ~(j < i)
    BY <2>1, <2>2, KeysApart DEF Keys
  <2> QED
    BY <2>2, <2>3, <2>4
<1> QED
  BY <1>1, QueryInvariant, PTL

-----------------------------------------------------------------------------
\* The rows between two offsets.
Between(a, b) == {r \in 1..Total : a < r /\ r =< b}

\* The page asked for is the client's, or a query without a LIMIT got one.
Asks(page, limit) ==
  \/ page = walk.page
  \/ ~walk.page.hasLimit /\ page = [hasLimit |-> TRUE, limit |-> limit, offset |-> 0]

\* Until it stops the client has exactly the rows up to the page it asks for,
\* and an answer that is not marked truncated has the whole page.
WalkInv ==
  /\ QueryInv
  /\ walk.first.offset \in Nat /\ walk.page.offset \in Nat
  /\ walk.page.limit # 0 \/ ~walk.page.hasLimit
  /\ ~walk.page.hasLimit => walk.page = NoPage /\ walk.first.offset = 0
  /\ ~walk.ended => /\ walk.seen = Between(walk.first.offset, walk.page.offset)
                    /\ walk.first.offset =< walk.page.offset
  /\ walk.ended => call.pc = "idle" /\ WalkIsComplete
  /\ call.pc = "inspect" => call.page = walk.page
  /\ call.pc \in {"sent", "rows", "answered"} => Asks(call.page, call.rowLimit)
  /\ call.pc \in {"rows", "answered"} =>
       /\ call.page.limit >= 0
       /\ answer.nextOffset = NextOffset(call.page)
       /\ call.rows = FirstRows(RowsOf(call.page), call.rowLimit)
       /\ ~answer.truncated => call.rows = RowsOf(call.page)

\* The rows of a page, counted: a full page lies within the result.
LEMMA PageRows ==
  ASSUME NEW o \in Nat, NEW l \in Nat
  PROVE  /\ IsFiniteSet(Between(o, o + l))
         /\ Cardinality(Between(o, o + l)) \in Nat
         /\ Cardinality(Between(o, o + l)) =< l
         /\ Cardinality(Between(o, o + l)) = l => l = 0 \/ o + l =< Total
         /\ o + l =< Total => Cardinality(Between(o, o + l)) = l
<1>0. Total \in Nat
  BY QueryAssumption
<1>1. CASE o + l =< Total
  <2>1. Between(o, o + l) = (o + 1)..(o + l)
    BY <1>0, <1>1 DEF Between
  <2>2. IsFiniteSet((o + 1)..(o + l)) /\ Cardinality((o + 1)..(o + l)) = l
    BY FS_Interval
  <2> QED
    BY <1>1, <2>1, <2>2
<1>2. CASE o + l > Total /\ o < Total
  <2>1. Between(o, o + l) = (o + 1)..Total
    BY <1>0, <1>2 DEF Between
  <2>2. IsFiniteSet((o + 1)..Total) /\ Cardinality((o + 1)..Total) = Total - o
    BY <1>0, <1>2, FS_Interval
  <2> QED
    BY <1>0, <1>2, <2>1, <2>2
<1>3. CASE o + l > Total /\ o >= Total
  <2>1. Between(o, o + l) = {}
    BY <1>0, <1>3 DEF Between
  <2>2. IsFiniteSet({}) /\ Cardinality({}) = 0
    BY FS_EmptySet
  <2> QED
    BY <1>0, <1>3, <2>1, <2>2
<1> QED
  BY <1>0, <1>1, <1>2, <1>3

\* A step of the client: what it has afterwards.
LEMMA TakeWalks ==
  ASSUME Total =< MaxInt, WalkInv, call.pc = "answered", Take(call.rows)
  PROVE  /\ walk'.first = walk.first /\ walk'.page.offset \in Nat
         /\ walk'.page.limit # 0 \/ ~walk'.page.hasLimit
         /\ ~walk'.page.hasLimit => walk'.page = NoPage /\ walk.first.offset = 0
         /\ ~walk'.ended => /\ walk'.seen = Between(walk.first.offset, walk'.page.offset)
                            /\ walk.first.offset =< walk'.page.offset
         /\ walk'.ended /\ ~walk'.cut
              => walk'.seen = {r \in 1..Total : r > walk.first.offset}
<1> DEFINE page == call.page
           o == page.offset
           l == page.limit
           more == /\ page.hasLimit /\ Cardinality(call.rows) = l
                   /\ answer.nextOffset # {}
           next == CHOOSE n \in answer.nextOffset : TRUE
<1>1. walk' = [walk EXCEPT
        !.seen = @ \cup call.rows, !.cut = @ \/ answer.truncated, !.ended = ~more,
        !.page = IF more THEN [page EXCEPT !.offset = next] ELSE @]
  BY DEF Take
<1>2. walk \in Walks /\ page \in Pages /\ answer \in Answers /\ call \in Calls
  BY DEF WalkInv, QueryInv, TypeOK, Calls
<1>3. /\ ~walk.ended /\ walk.seen = Between(walk.first.offset, walk.page.offset)
      /\ walk.first.offset =< walk.page.offset
      /\ walk.first.offset \in Nat /\ walk.page.offset \in Nat
  BY DEF WalkInv
<1>4. /\ o \in Nat /\ l \in Nat /\ o = walk.page.offset
      /\ page.hasLimit => l # 0
      /\ ~page.hasLimit => o = 0 /\ page = walk.page
  <2>1. Asks(page, call.rowLimit) /\ l >= 0 /\ l \in Int
    BY <1>2 DEF WalkInv, Pages
  <2>2. call.rowLimit \in Nat /\ call.rowLimit # 0
    BY QueryAssumption DEF WalkInv, QueryInv, TypeOK, Calls
  <2>3. CASE page = walk.page
    BY <1>3, <2>1, <2>3 DEF WalkInv, NoPage
  <2>4. CASE ~walk.page.hasLimit
             /\ page = [hasLimit |-> TRUE, limit |-> call.rowLimit, offset |-> 0]
    BY <1>3, <2>1, <2>2, <2>4 DEF WalkInv, NoPage
  <2> QED
    BY <2>1, <2>3, <2>4 DEF Asks
<1>5. /\ page.hasLimit => RowsOf(page) = Between(o, o + l)
      /\ ~page.hasLimit => RowsOf(page) = 1..Total
  BY <1>4 DEF RowsOf, Between
<1>6. call.rows \subseteq RowsOf(page) /\ (~answer.truncated => call.rows = RowsOf(page))
  BY DEF WalkInv, FirstRows
<1>7. Total \in Nat /\ MaxInt \in Nat
  BY QueryAssumption
<1>8. page.hasLimit /\ Cardinality(call.rows) = l => call.rows = Between(o, o + l) /\ o + l =< Total
  <2> SUFFICES ASSUME page.hasLimit, Cardinality(call.rows) = l
               PROVE  call.rows = Between(o, o + l) /\ o + l =< Total
    OBVIOUS
  <2> DEFINE B == Between(o, o + l)
  <2>1. /\ IsFiniteSet(B) /\ Cardinality(B) \in Nat /\ Cardinality(B) =< l
        /\ Cardinality(B) = l => l = 0 \/ o + l =< Total
    BY <1>4, PageRows
  <2>2. call.rows \subseteq B
    BY <1>5, <1>6
  <2>3. l # 0
    BY <1>4
  <2> HIDE DEF B, o, l
  <2>4. call.rows = B /\ Cardinality(B) = l
    BY <1>4, <2>1, <2>2, FS_Subset
  <2> QED
    BY <2>1, <2>3, <2>4 DEF B
<1>9. NextOffset(page) = IF page.hasLimit /\ Literal(l) >= 0
                         THEN {Int64(Start(page) + l)} ELSE {}
  BY <1>4, <1>7 DEF NextOffset, Literal
<1>10. answer.nextOffset = NextOffset(page)
  BY DEF WalkInv
<1>11. page.hasLimit /\ Cardinality(call.rows) = l => more /\ next = o + l
  <2> SUFFICES ASSUME page.hasLimit, Cardinality(call.rows) = l
               PROVE  more /\ next = o + l
    OBVIOUS
  <2>1. o + l =< MaxInt
    BY <1>4, <1>7, <1>8
  <2>2. Literal(l) = l /\ Start(page) = o /\ Int64(o + l) = o + l
    BY <1>4, <1>7, <2>1 DEF Literal, Start, Int64
  <2>3. answer.nextOffset = {o + l}
    BY <1>4, <1>9, <1>10, <2>2
  <2> QED
    BY <2>3
<1>12. more <=> page.hasLimit /\ Cardinality(call.rows) = l
  BY <1>11
<1> HIDE DEF next
<1>13. CASE more
  <2>1. call.rows = Between(o, o + l) /\ next = o + l
    BY <1>8, <1>11, <1>13
  <2>2. /\ walk'.first = walk.first /\ walk'.ended = FALSE
        /\ walk'.page = [page EXCEPT !.offset = next]
        /\ walk'.seen = walk.seen \cup call.rows
    <3> HIDE DEF more, page
    <3> QED
      BY <1>1, <1>2, <1>13 DEF Walks
  <2>3. walk'.page.offset = next /\ walk'.page.limit = l /\ walk'.page.hasLimit
    BY <1>2, <1>13, <2>2 DEF Pages
  <2>4. walk'.seen = Between(walk.first.offset, o + l)
    BY <1>3, <1>4, <1>7, <2>1, <2>2 DEF Between
  <2> QED
    BY <1>3, <1>4, <1>13, <2>1, <2>2, <2>3, <2>4
<1>14. CASE ~more
  <2>1. /\ walk'.first = walk.first /\ walk'.ended = TRUE /\ walk'.page = walk.page
        /\ walk'.seen = walk.seen \cup call.rows
        /\ walk'.cut = (walk.cut \/ answer.truncated)
    <3> HIDE DEF more, page
    <3> QED
      BY <1>1, <1>2, <1>14 DEF Walks
  <2>2. ASSUME ~walk'.cut
        PROVE  walk'.seen = {r \in 1..Total : r > walk.first.offset}
    <3>1. call.rows = RowsOf(page)
      BY <1>6, <2>1, <2>2
    <3>2. CASE ~page.hasLimit
      <4>1. walk.first.offset = 0
        BY <1>4, <3>2 DEF WalkInv
      <4> QED
        BY <1>3, <1>4, <1>5, <1>7, <2>1, <3>1, <3>2, <4>1 DEF Between
    <3>3. CASE page.hasLimit
      <4>1. Cardinality(Between(o, o + l)) # l
        BY <1>5, <1>12, <1>14, <3>1, <3>3
      <4>2. o + l > Total
        <5>1. o + l =< Total => Cardinality(Between(o, o + l)) = l
          BY <1>4, PageRows
        <5> QED
          BY <1>4, <1>7, <4>1, <5>1
      <4>3. call.rows = Between(o, Total)
        BY <1>4, <1>5, <1>7, <3>1, <3>3, <4>2 DEF Between
      <4> QED
        BY <1>3, <1>4, <1>7, <2>1, <4>3 DEF Between
    <3> QED
      BY <3>2, <3>3
  <2> QED
    BY <1>3, <2>1, <2>2 DEF WalkInv
<1> QED
  BY <1>13, <1>14

\* It holds at the start.
LEMMA InitWalkInv == Init => WalkInv
<1> SUFFICES ASSUME Init PROVE WalkInv
  OBVIOUS
<1>1. PICK first \in {NoPage} \cup [hasLimit : {TRUE}, limit : Limits, offset : Offsets] :
        walk = [first |-> first, page |-> first, seen |-> {}, cut |-> FALSE, ended |-> FALSE]
  BY DEF Init
<1>2. /\ first.offset \in Nat
      /\ first.limit # 0 \/ ~first.hasLimit
      /\ ~first.hasLimit => first = NoPage /\ first.offset = 0
  <2>1. CASE first = NoPage
    BY <2>1 DEF NoPage
  <2>2. CASE first \in [hasLimit : {TRUE}, limit : Limits, offset : Offsets]
    BY <2>2, QueryAssumption
  <2> QED
    BY <1>1, <2>1, <2>2
<1>3. Between(first.offset, first.offset) = {}
  BY <1>2 DEF Between
<1>4. call.pc = "idle"
  BY DEF Init, Idle
<1> QED
  BY <1>1, <1>2, <1>3, <1>4, InitQueryInv DEF WalkInv

\* Every step keeps it.
LEMMA NextWalkInv ==
  ASSUME Total =< MaxInt, WalkInv, [Next]_vars PROVE WalkInv'
<1>0. QueryInv'
  BY NextQueryInv DEF WalkInv
<1>a. call \in Calls /\ answer \in Answers
  BY DEF WalkInv, QueryInv, TypeOK
<1> DEFINE Sent(page, limit) ==
             /\ call'.pc = "sent" /\ call'.page = page /\ call'.rowLimit = limit
             /\ UNCHANGED walk /\ call.pc = "inspect"
<1>b. ASSUME NEW page, NEW limit, call.pc = "inspect", Sends(page, limit), UNCHANGED walk
      PROVE  Sent(page, limit)
  <2> DEFINE text == <<>>
  <2>1. call' = [call EXCEPT !.pc = "sent", !.text = text, !.page = page, !.rowLimit = limit]
    BY <1>b DEF Sends
  <2> HIDE DEF text
  <2> QED
    BY <1>a, <1>b, <2>1 DEF Calls
<1>1. CASE Submit
  <2>1. /\ call'.pc = "inspect" /\ call'.page = walk.page /\ UNCHANGED walk
        /\ ~walk.ended
    BY <1>1 DEF Submit, Idle
  <2> QED
    BY <1>0, <2>1 DEF WalkInv
<1>2. CASE Refuse \/ QueryFails \/ ReadMisses
  <2>1. call'.pc = "idle" /\ UNCHANGED walk
    BY <1>2 DEF Refuse, QueryFails, ReadMisses, Idle
  <2> QED
    BY <1>0, <2>1 DEF WalkInv, WalkIsComplete
<1>3. ASSUME NEW page, NEW limit, Sent(page, limit), Asks(page, limit)
      PROVE  WalkInv'
  BY <1>0, <1>3 DEF WalkInv, Asks
<1>4. CASE SendAsIs
  <2>1. PICK n \in RowLimits : Sends(call.page, NormalizeLimit(n))
    BY <1>4 DEF SendAsIs
  <2> DEFINE limit == NormalizeLimit(n)
  <2>2. Sent(call.page, limit) /\ Asks(call.page, limit)
    BY <1>4, <1>b, <2>1 DEF SendAsIs, WalkInv, Asks
  <2> HIDE DEF Sent, limit
  <2> QED
    BY <1>3, <2>2
<1>5. CASE AppendLimit
  <2>1. PICK n \in RowLimits :
          \/ Sends([hasLimit |-> TRUE, limit |-> NormalizeLimit(n), offset |-> 0],
                   NormalizeLimit(n))
          \/ Sends(NoPage, NormalizeLimit(n))
    BY <1>5 DEF AppendLimit
  <2> DEFINE limit == NormalizeLimit(n)
             page == [hasLimit |-> TRUE, limit |-> limit, offset |-> 0]
  <2>2. Asks(page, limit) /\ Asks(NoPage, limit)
    BY <1>5 DEF AppendLimit, WalkInv, Asks
  <2>3. Sent(page, limit) \/ Sent(NoPage, limit)
    BY <1>5, <1>b, <2>1 DEF AppendLimit
  <2> HIDE DEF Sent, limit, page
  <2> QED
    BY <1>3, <2>2, <2>3
<1>6. CASE Rows
  <2> DEFINE rows == FirstRows(RowsOf(call.page), call.rowLimit)
  <2>1. PICK mark \in Marks(rows), names \in Columns :
          /\ call' = [call EXCEPT !.pc = "rows", !.rows = rows]
          /\ answer' = [answer EXCEPT
               !.nextOffset = NextOffset(call.page),
               !.truncated = Truncated(mark),
               !.warnings = IF Truncated(mark) THEN @ \cup {"truncated"} ELSE @,
               !.names = names]
    BY <1>6 DEF Rows
  <2>2. /\ call.pc = "sent" /\ call.page.limit >= 0 /\ UNCHANGED walk
    BY <1>6 DEF Rows
  <2>3. ~Truncated(mark) => rows = RowsOf(call.page)
    BY <2>1 DEF Marks, Truncated
  <2>4. /\ call'.pc = "rows" /\ call'.rows = rows /\ call'.page = call.page
        /\ call'.rowLimit = call.rowLimit
        /\ answer'.nextOffset = NextOffset(call.page)
        /\ answer'.truncated = Truncated(mark)
    <3> HIDE DEF rows
    <3> QED
      BY <1>a, <2>1 DEF Calls, Answers
  <2> QED
    BY <1>0, <2>2, <2>3, <2>4 DEF WalkInv, Asks
<1>7. ASSUME NEW d \in {"auto", "inline", "file"}, Deliver(d) \/ DeliverFallback(d)
      PROVE  WalkInv'
  <2>1. /\ call'.pc = "answered" /\ call.pc = "rows" /\ UNCHANGED walk
        /\ call'.rows = call.rows /\ call'.page = call.page /\ call'.rowLimit = call.rowLimit
    BY <1>a, <1>7 DEF Deliver, DeliverFallback, Calls
  <2>2. answer'.nextOffset = answer.nextOffset /\ answer'.truncated = answer.truncated
    BY <1>a, <1>7 DEF Deliver, DeliverFallback, Inline, Answers
  <2> QED
    BY <1>0, <2>1, <2>2 DEF WalkInv, Asks
<1>8. CASE Drop \/ UNCHANGED vars
  <2>1. UNCHANGED <<call, answer, walk>>
    BY <1>8 DEF Drop, vars
  <2> QED
    BY <1>0, <2>1 DEF WalkInv, Asks, WalkIsComplete
<1>9. CASE TakeInline \/ ReadResource
  <2>1. call.pc = "answered" /\ Take(call.rows)
    BY <1>9 DEF TakeInline, ReadResource, Take, WalkInv, QueryInv, AnswerIsWhole
  <2>2. call'.pc = "idle"
    BY <2>1 DEF Take, Idle
  <2> QED
    BY <1>0, <2>1, <2>2, TakeWalks DEF WalkInv, WalkIsComplete
<1> QED
  BY <1>1, <1>2, <1>4, <1>5, <1>6, <1>7, <1>8, <1>9 DEF Next

\* The inductive invariant of the client, as long as rows can be counted.
THEOREM WalkInvariant ==
  ASSUME Total =< MaxInt PROVE Spec => []WalkInv
<1>1. Init => WalkInv
  BY InitWalkInv
<1>2. WalkInv /\ [Next]_vars => WalkInv'
  BY NextWalkInv
<1> QED
  BY <1>1, <1>2, PTL DEF Spec

\* A client that follows next_offset while pages are full has every row when it
\* stops, unless an answer was marked truncated.
THEOREM QueryWalkIsComplete ==
  ASSUME Total =< MaxInt PROVE Spec => []WalkIsComplete
<1>1. WalkInv => WalkIsComplete
  BY DEF WalkInv, WalkIsComplete
<1> QED
  BY <1>1, WalkInvariant, PTL

\* And it is given no row twice, truncated or not.
THEOREM QueryPagesDisjoint ==
  ASSUME Total =< MaxInt PROVE Spec => PagesDisjoint
<1> DEFINE Disjoint == \A r \in walk.seen : ~(TakeInline /\ r \in answer.rows)
                                            /\ ~(ReadResource /\ r \in file)
<1>1. ASSUME WalkInv, NEW r \in walk.seen,
             \/ TakeInline /\ r \in answer.rows
             \/ ReadResource /\ r \in file
      PROVE  FALSE
  <2>1. call.pc = "answered"
    BY <1>1 DEF TakeInline, ReadResource, Take
  <2>2. /\ walk.seen = Between(walk.first.offset, walk.page.offset)
        /\ Asks(call.page, call.rowLimit)
        /\ ~walk.page.hasLimit => walk.page = NoPage
        /\ walk.page.offset \in Nat
    BY <1>1, <2>1 DEF WalkInv
  <2>3. r \in call.rows
    BY <1>1, <2>1 DEF TakeInline, ReadResource, WalkInv, QueryInv, AnswerIsWhole
  <2>4. r \in RowsOf(call.page)
    BY <1>1, <2>1, <2>3 DEF WalkInv, FirstRows
  <2>5. r =< walk.page.offset /\ r \in 1..Total
    BY <1>1, <2>2 DEF Between
  <2>6. CASE walk.page.hasLimit
    BY <2>2, <2>4, <2>5, <2>6 DEF Asks, RowsOf
  <2>7. CASE ~walk.page.hasLimit
    BY <2>2, <2>5, <2>7 DEF NoPage
  <2> QED
    BY <2>6, <2>7
<1>2. WalkInv => Disjoint
  BY <1>1
<1> QED
  BY <1>2, WalkInvariant, PTL DEF PagesDisjoint

-----------------------------------------------------------------------------
\* For texts of any length: where LIMIT is appended it is read as code, the last
\* of the query, and nothing else is read otherwise than before.
THEOREM QueryClauseGoesLast == Spec => []ClauseGoesLast
<1>1. TypeOK => ClauseGoesLast
  <2> SUFFICES ASSUME TypeOK, Parses(call.text) PROVE ClauseIsLastCode(call.text)
    BY DEF ClauseGoesLast
  <2> DEFINE q == call.text
  <2>1. q \in Seq(Characters)
    <3>1. "x" \in Characters
      BY DEF Characters
    <3>2. <<>> \in Seq(Characters) /\ <<"x">> \in Seq(Characters)
      BY <3>1
    <3>3. q \in Texts \cup {<<>>, <<"x">>}
      BY DEF TypeOK, Calls, Queries
    <3> QED
      BY <3>2, <3>3, QueryAssumption
  <2>2. Closed(q) /\ EndsInCode(q)
    BY DEF Parses, EndsInCode
  <2> HIDE DEF q
  <2>3. ClauseIsLastCode(q)
    BY <2>1, <2>2, ClauseLands
  <2> QED
    BY <2>3 DEF q
<1> QED
  BY <1>1, QueryTypeOK, PTL

=============================================================================
