---------------------------- MODULE SqlTextProofs ----------------------------
(***************************************************************************)
(* The scanner of rewrite.go against the lexer of the parser, for texts of *)
(* any length: where the scanner puts LIMIT it is read as code, the last   *)
(* of the query, and the rest is read as before.                           *)
(*                                                                         *)
(* Both sides are recursive functions over the indices of the text, so     *)
(* first each is shown to satisfy the equation that defines it.  What      *)
(* holds along a text is proved by looking at a least index for which it   *)
(* does not.                                                               *)
(***************************************************************************)
EXTENDS SqlText, SequenceTheorems, WellFoundedInduction, TLAPS

\* A set of naturals has a least one.
LEMMA LeastNat ==
  ASSUME NEW T \in SUBSET Nat, T # {}
  PROVE  \E n \in T : \A m \in T : n =< m
<1>1. PICK n \in T : \A m \in T : ~ (<<m, n>> \in OpToRel(<, Nat))
  BY NatLessThanWellFounded, WFMin
<1>2. \A m \in T : ~ (m < n)
  BY <1>1 DEF OpToRel
<1> QED BY <1>2

\* Where the loops of the comments stop.
LEMMA FirstOfFacts ==
  ASSUME NEW S \in SUBSET Nat, NEW otherwise
  PROVE  /\ S = {} => FirstOf(S, otherwise) = otherwise
         /\ S # {} => /\ FirstOf(S, otherwise) \in S
                      /\ \A k \in S : FirstOf(S, otherwise) =< k
<1>1. CASE S = {}
  BY <1>1 DEF FirstOf
<1>2. CASE S # {}
  <2>1. \E j \in S : \A k \in S : j =< k
    BY <1>2, LeastNat
  <2> QED BY <1>2, <2>1 DEF FirstOf
<1> QED BY <1>1, <1>2

\* Induction along a text, forwards and backwards, for a set of indices.
LEMMA Upward ==
  ASSUME NEW T, NEW a \in Int, NEW b \in Int,
         \A n \in a..b : (\A m \in a..(n - 1) : m \in T) => n \in T
  PROVE  a..b \subseteq T
<1> DEFINE Missed == {n \in Nat : a + n =< b /\ a + n \notin T}
<1>1. Missed = {}
  <2> SUFFICES ASSUME Missed # {} PROVE FALSE
    OBVIOUS
  <2>1. PICK n \in Missed : \A m \in Missed : n =< m
    BY LeastNat
  <2>2. a + n \in a..b /\ a + n \notin T
    BY <2>1
  <2>3. ASSUME NEW k \in a..(a + n - 1) PROVE k \in T
    <3>1. k - a \in Nat /\ a + (k - a) = k /\ k =< b /\ ~(n =< k - a)
      BY <2>1
    <3> QED BY <2>1, <3>1
  <2> QED BY <2>2, <2>3
<1>2. ASSUME NEW k \in a..b PROVE k \in T
  <2>1. k - a \in Nat /\ a + (k - a) = k
    OBVIOUS
  <2>2. k \notin T => k - a \in Missed
    BY <2>1
  <2> QED BY <1>1, <2>2
<1> QED BY <1>2

LEMMA Downward ==
  ASSUME NEW T, NEW a \in Int, NEW b \in Int,
         \A n \in a..b : (\A m \in (n + 1)..b : m \in T) => n \in T
  PROVE  a..b \subseteq T
<1> DEFINE Missed == {n \in Nat : b - n >= a /\ b - n \notin T}
<1>1. Missed = {}
  <2> SUFFICES ASSUME Missed # {} PROVE FALSE
    OBVIOUS
  <2>1. PICK n \in Missed : \A m \in Missed : n =< m
    BY LeastNat
  <2>2. b - n \in a..b /\ b - n \notin T
    BY <2>1
  <2>3. ASSUME NEW k \in (b - n + 1)..b PROVE k \in T
    <3>1. b - k \in Nat /\ b - (b - k) = k /\ k >= a /\ ~(n =< b - k)
      BY <2>1
    <3> QED BY <2>1, <3>1
  <2> QED BY <2>2, <2>3
<1>2. ASSUME NEW k \in a..b PROVE k \in T
  <2>1. b - k \in Nat /\ b - (b - k) = k
    OBVIOUS
  <2>2. k \notin T => b - k \in Missed
    BY <2>1
  <2> QED BY <1>1, <2>2
<1> QED BY <1>2

-----------------------------------------------------------------------------
States == {"code", "single", "escape", "back", "line", "slash", "block", "star"}
InLiteral == {"single", "escape", "back"}

\* s is what the automaton goes through on q.
Runs(q, s) == /\ s[0] = "code"
              /\ \A i \in 1..Len(q) : s[i] = LexerStep(q, i, s[i - 1])
              /\ \A i \in 0..Len(q) : s[i] \in States

\* The states of the automaton are defined by its steps.
LEMMA LexerRuns ==
  ASSUME NEW q, Len(q) \in Nat
  PROVE  Runs(q, LexerState(q))
<1> DEFINE Body(k, n) == IF n = 0 THEN "code" ELSE LexerStep(q, n, k[n - 1])
           UpTo(n) == \E k : \A m \in 0..n : k[m] = Body(k, m)
           Refuted == {n \in Nat : ~UpTo(n)}
<1>1. UpTo(0)
  <2> DEFINE k == [m \in 0..0 |-> "code"]
  <2>1. \A m \in 0..0 : m = 0 /\ k[m] = Body(k, m)
    OBVIOUS
  <2> QED BY <2>1
<1>2. ASSUME NEW n \in Nat, UpTo(n) PROVE UpTo(n + 1)
  <2>1. PICK k : \A m \in 0..n : k[m] = Body(k, m)
    BY <1>2
  <2> DEFINE j == [m \in 0..(n + 1) |-> IF m =< n THEN k[m] ELSE Body(k, m)]
  <2>2. ASSUME NEW m \in 0..(n + 1) PROVE j[m] = Body(j, m)
    <3>1. m # 0 => j[m - 1] = k[m - 1]
      OBVIOUS
    <3>2. j[m] = Body(k, m)
      BY <2>1
    <3> QED BY <3>1, <3>2
  <2> QED BY <2>2
<1>3. \A n \in Nat : UpTo(n)
  <2> HIDE DEF UpTo
  <2> SUFFICES ASSUME Refuted # {} PROVE FALSE
    OBVIOUS
  <2>1. PICK n \in Nat : ~UpTo(n) /\ \A m \in Nat : ~UpTo(m) => n =< m
    BY LeastNat
  <2>2. PICK m \in Nat : n = m + 1
    BY <1>1, <2>1
  <2> QED BY <1>2, <2>1, <2>2
<1>4. PICK k : \A m \in 0..Len(q) : k[m] = Body(k, m)
  BY <1>3
<1> DEFINE h == [m \in 0..Len(q) |-> k[m]]
<1>5. h = [m \in 0..Len(q) |-> Body(h, m)]
  <2>1. \A m \in 0..Len(q) : m # 0 => m - 1 \in 0..Len(q)
    OBVIOUS
  <2> QED BY <1>4, <2>1
<1>6. \E f : f = [m \in 0..Len(q) |-> Body(f, m)]
  BY <1>5
<1> DEFINE s == CHOOSE f : f = [m \in 0..Len(q) |-> Body(f, m)]
<1>7. s = [m \in 0..Len(q) |-> Body(s, m)]
  BY <1>6
<1>8. LexerState(q) = s
  BY DEF LexerState
<1> HIDE DEF s
<1>9. \A m \in 0..Len(q) : s[m] = Body(s, m)
  BY <1>7
<1>10. s[0] = "code" /\ \A i \in 1..Len(q) : s[i] = LexerStep(q, i, s[i - 1])
  BY <1>9
<1>11. \A i \in 0..Len(q) : s[i] \in States
  <2> SUFFICES ASSUME {i \in Nat : i =< Len(q) /\ s[i] \notin States} # {} PROVE FALSE
    OBVIOUS
  <2>1. PICK n \in Nat : /\ n =< Len(q) /\ s[n] \notin States
                         /\ \A m \in Nat : m =< Len(q) /\ s[m] \notin States => n =< m
    BY LeastNat
  <2>2. n # 0
    BY <1>10, <2>1 DEF States
  <2>3. s[n - 1] \in States /\ s[n] = LexerStep(q, n, s[n - 1])
    BY <1>10, <2>1, <2>2
  <2>4. s[n] \in States
    BY <2>3 DEF States, LexerStep, Opens
  <2> QED BY <2>1, <2>4
<1> QED BY <1>8, <1>10, <1>11 DEF Runs

-----------------------------------------------------------------------------
\* The loop of skipQuoted from index j on.
QuotedBody(q, i, backslash, f, j) ==
  CASE j > Len(q) -> Len(q) + 1
    [] backslash /\ Char(q, j) = "bs" -> f[j + 2]
    [] Char(q, j) = q[i] -> IF Char(q, j + 1) = q[i] THEN f[j + 2] ELSE j + 1
    [] OTHER -> f[j + 1]

\* Past the end there is no character.
LEMMA PastEnd ==
  ASSUME NEW q \in Seq(Characters)
  PROVE  /\ Len(q) \in Nat
         /\ \A j \in Int : j > Len(q) => Char(q, j) = ""
         /\ \A j \in 1..Len(q) : Char(q, j) = q[j] /\ q[j] \in Characters
<1>1. Len(q) \in Nat /\ DOMAIN q = 1..Len(q) /\ \A k \in 1..Len(q) : q[k] \in Characters
  BY LenProperties, ElementOfSeq
<1>2. \A j \in Int : j > Len(q) => j \notin DOMAIN q
  BY <1>1
<1> QED BY <1>1, <1>2 DEF Char

LEMMA QuotedPast ==
  ASSUME NEW q \in Seq(Characters), NEW j \in Int, j > Len(q),
         NEW i, q[i] \in {"'", "tick"}, NEW backslash, NEW f
  PROVE  QuotedBody(q, i, backslash, f, j) = Len(q) + 1
<1>1. Char(q, j) = ""
  BY PastEnd
<1> QED BY <1>1 DEF QuotedBody

\* It has a result for every place it can be in.
LEMMA QuotedRuns ==
  ASSUME NEW q \in Seq(Characters), NEW i \in 1..Len(q), q[i] \in {"'", "tick"},
         NEW backslash \in BOOLEAN
  PROVE  \E f : /\ \A j \in i..(Len(q) + 2) : f[j] = QuotedBody(q, i, backslash, f, j)
                /\ SkipQuoted(q, i, backslash) = f[i + 1]
<1> DEFINE N == Len(q) + 2
<1>0. Len(q) \in Nat /\ i \in Int /\ N \in Int
  OBVIOUS
<1> DEFINE Body(k, j) == QuotedBody(q, i, backslash, k, j)
           From(n) == \E k : \A j \in n..N : k[j] = Body(k, j)
           T == {n \in i..N : From(n)}
<1>1. ASSUME NEW n \in i..N, \A m \in (n + 1)..N : m \in T PROVE From(n)
  <2>1. PICK k : \A j \in (n + 1)..N : k[j] = Body(k, j)
    <3>1. CASE n = N
      BY <3>1
    <3>2. CASE n # N
      <4>1. From(n + 1)
        <5> HIDE DEF From
        <5> QED BY <1>1, <3>2
      <4> QED BY <4>1
    <3> QED BY <3>1, <3>2
  <2> DEFINE h == [j \in n..N |-> IF j = n THEN Body(k, n) ELSE k[j]]
  <2>2. ASSUME NEW j \in n..N PROVE h[j] = Body(h, j)
    <3>1. h[j] = Body(k, j)
      BY <2>1
    <3>2. Body(h, j) = Body(k, j)
      <4>1. CASE j > Len(q)
        <5>1. j \in Int
          BY <1>0
        <5> HIDE DEF h
        <5> QED BY <4>1, <5>1, QuotedPast
      <4>2. CASE j =< Len(q)
        <5>1. j + 1 \in n..N /\ j + 2 \in n..N /\ j + 1 # n /\ j + 2 # n
          BY <4>2
        <5>2. h[j + 1] = k[j + 1] /\ h[j + 2] = k[j + 2]
          BY <5>1
        <5> HIDE DEF h
        <5> QED BY <4>2, <5>2 DEF QuotedBody
      <4> QED BY <4>1, <4>2
    <3> QED BY <3>1, <3>2
  <2> QED BY <2>2
<1>2. From(i)
  <2> HIDE DEF From
  <2>1. i..N \subseteq T
    <3>1. \A n \in i..N : (\A m \in (n + 1)..N : m \in T) => n \in T
      BY <1>1
    <3> HIDE DEF T, N
    <3> QED BY <1>0, <3>1, Downward
  <2> QED BY <1>0, <2>1
<1>3. PICK k : \A j \in i..N : k[j] = Body(k, j)
  BY <1>2
<1> DEFINE h == [j \in i..N |-> k[j]]
<1>4. ASSUME NEW j \in i..N PROVE Body(h, j) = Body(k, j)
  <2>1. CASE j > Len(q)
    <3>1. j \in Int
      BY <1>0
    <3> HIDE DEF h
    <3> QED BY <2>1, <3>1, QuotedPast
  <2>2. CASE j =< Len(q)
    <3>1. h[j + 1] = k[j + 1] /\ h[j + 2] = k[j + 2]
      BY <2>2
    <3> HIDE DEF h
    <3> QED BY <2>2, <3>1 DEF QuotedBody
  <2> QED BY <2>1, <2>2
<1>5. h = [j \in i..N |-> Body(h, j)]
  BY <1>3, <1>4
<1>6. \E f : f = [j \in i..N |-> Body(f, j)]
  BY <1>5
<1> DEFINE g == CHOOSE f : f = [j \in i..N |-> Body(f, j)]
<1>7. g = [j \in i..N |-> Body(g, j)]
  BY <1>6
<1>8. SkipQuoted(q, i, backslash) = g[i + 1]
  BY DEF SkipQuoted, QuotedBody
<1> HIDE DEF g
<1>9. \A j \in i..N : g[j] = Body(g, j)
  BY <1>7
<1> QED BY <1>8, <1>9

\* A literal ends after it begins, within the text or at its end.
LEMMA QuotedBounds ==
  ASSUME NEW q \in Seq(Characters), NEW i \in 1..Len(q), q[i] \in {"'", "tick"},
         NEW backslash \in BOOLEAN
  PROVE  SkipQuoted(q, i, backslash) \in (i + 1)..(Len(q) + 1)
<1> DEFINE N == Len(q) + 2
<1>0. Len(q) \in Nat /\ i \in Int /\ N \in Int
  OBVIOUS
<1>1. PICK f : /\ \A j \in i..N : f[j] = QuotedBody(q, i, backslash, f, j)
               /\ SkipQuoted(q, i, backslash) = f[i + 1]
  BY QuotedRuns
<1> DEFINE Good(j) == IF j > Len(q) THEN f[j] = Len(q) + 1 ELSE f[j] \in (j + 1)..(Len(q) + 1)
           T == {j \in i..N : Good(j)}
<1>2. ASSUME NEW j \in i..N, \A m \in (j + 1)..N : m \in T PROVE j \in T
  <2>1. f[j] = QuotedBody(q, i, backslash, f, j)
    BY <1>1
  <2>2. CASE j > Len(q)
    <3>1. f[j] = Len(q) + 1
      <4>1. j \in Int
        BY <1>0
      <4> QED BY <2>1, <2>2, <4>1, QuotedPast
    <3> QED BY <2>2, <3>1
  <2>3. CASE j =< Len(q)
    <3>1. Good(j + 1) /\ Good(j + 2)
      BY <1>2, <2>3
    <3> QED BY <2>1, <2>3, <3>1 DEF QuotedBody
  <2> QED BY <2>2, <2>3
<1>3. i..N \subseteq T
  <2> HIDE DEF T, N
  <2> QED BY <1>0, <1>2, Downward
<1> QED BY <1>1, <1>3

\* What the automaton is in within a literal that starts with c.
Within(c) == IF c = "tick" THEN "back" ELSE "single"

\* A literal is one to the automaton too, or two that touch, and nothing of it is
\* outside them.
LEMMA QuotedScan ==
  ASSUME NEW q \in Seq(Characters), NEW s, Runs(q, s),
         NEW i \in 1..Len(q), q[i] \in {"'", "tick"}, s[i - 1] = "code"
  PROVE  LET after == SkipQuoted(q, i, q[i] = "'")
         IN  /\ \A k \in i..(after - 1) : s[k] \in InLiteral \/ s[k - 1] \in InLiteral
             /\ \/ s[after - 1] = "code"
                \/ after = Len(q) + 1 /\ s[Len(q)] \in InLiteral
<1> DEFINE N == Len(q) + 2
           L == Within(q[i])
           backslash == q[i] = "'"
<1>0. Len(q) \in Nat /\ i \in Int /\ N \in Int
  OBVIOUS
<1>1. PICK f : /\ \A j \in i..N : f[j] = QuotedBody(q, i, backslash, f, j)
               /\ SkipQuoted(q, i, backslash) = f[i + 1]
  BY QuotedRuns
<1> DEFINE Good(j) ==
             /\ j > Len(q) => f[j] = Len(q) + 1
             /\ j =< Len(q) + 1 /\ s[j - 1] = L =>
                  /\ f[j] \in j..(Len(q) + 1)
                  /\ \A k \in j..(f[j] - 1) : s[k] \in InLiteral \/ s[k - 1] \in InLiteral
                  /\ \/ s[f[j] - 1] = "code"
                     \/ f[j] = Len(q) + 1 /\ s[Len(q)] \in InLiteral
           T == {j \in (i + 1)..N : Good(j)}
<1>2. L \in InLiteral
  BY DEF Within, InLiteral
<1>3. ASSUME NEW j \in (i + 1)..N, \A m \in (j + 1)..N : m \in T PROVE Good(j)
  <2>1. f[j] = QuotedBody(q, i, backslash, f, j)
    BY <1>0, <1>1
  <2>2. CASE j > Len(q)
    <3>1. f[j] = Len(q) + 1
      <4>1. j \in Int
        BY <1>0
      <4> HIDE DEF backslash
      <4> QED BY <2>1, <2>2, <4>1, QuotedPast
    <3>2. j - 1 = Len(q) \/ j > Len(q) + 1
      BY <1>0, <2>2
    <3> HIDE DEF L
    <3> QED BY <1>0, <1>2, <2>2, <3>1, <3>2
  <2>3. CASE j =< Len(q) /\ s[j - 1] = L
    <3>0. j \in 1..Len(q) /\ j - 1 \in 0..Len(q)
      BY <1>0, <2>3
    <3>1. /\ j \in 1..Len(q) /\ j - 1 \in 0..Len(q) /\ Char(q, j) = q[j]
          /\ s[j] = LexerStep(q, j, L)
      <4> HIDE DEF L
      <4> QED BY <2>3, <3>0, PastEnd DEF Runs
    <3>2. Good(j + 1) /\ Good(j + 2)
      BY <1>0, <1>3, <2>3
    <3>3. CASE backslash /\ q[j] = "bs"
      <4>1. f[j] = f[j + 2]
        BY <1>0, <2>1, <3>1, <3>3 DEF QuotedBody
      <4>2. L = "single" /\ s[j] = "escape"
        BY <3>1, <3>3 DEF Within, LexerStep
      <4>3. j + 1 =< Len(q) => s[j + 1] = L
        <5>1. j + 1 =< Len(q) => s[j + 1] = LexerStep(q, j + 1, s[j])
          BY <1>0, <3>1 DEF Runs
        <5> QED BY <4>2, <5>1 DEF LexerStep
      <4>4. s[j] \in InLiteral /\ s[j - 1] \in InLiteral
        BY <1>2, <2>3, <4>2 DEF InLiteral
      <4> HIDE DEF L, backslash
      <4>5. CASE j = Len(q)
        BY <1>0, <3>1, <3>2, <4>1, <4>4, <4>5
      <4>6. CASE j < Len(q)
        <5>1. j + 2 =< Len(q) + 1 /\ s[(j + 2) - 1] = L
          BY <1>0, <3>1, <4>3, <4>6
        <5>2. \A k \in j..(f[j] - 1) : k = j \/ k = j + 1 \/ k \in (j + 2)..(f[j + 2] - 1)
          BY <1>0, <3>2, <4>1, <5>1
        <5>3. s[j + 1] \in InLiteral
          BY <1>0, <1>2, <3>1, <4>3, <4>6
        <5>4. \A k \in j..(f[j] - 1) : s[k] \in InLiteral \/ s[k - 1] \in InLiteral
          BY <3>2, <4>4, <5>1, <5>2, <5>3
        <5> QED BY <1>0, <3>1, <3>2, <4>1, <5>1, <5>4
      <4> QED BY <1>0, <3>1, <4>5, <4>6
    <3>4. CASE q[j] = q[i]
      <4>1. s[j] = "code"
        BY <3>1, <3>4 DEF Within, LexerStep
      <4>2. CASE Char(q, j + 1) = q[i]
        <5>1. f[j] = f[j + 2]
          BY <1>0, <2>1, <3>1, <3>4, <4>2 DEF QuotedBody
        <5>2. j + 1 \in 1..Len(q) /\ q[j + 1] = q[i]
          <6>1. j + 1 \in Int /\ Char(q, j + 1) # ""
            <7>1. j + 1 \in Int
              BY <1>0, <3>0
            <7>2. Char(q, j + 1) # ""
              BY <4>2
            <7> QED BY <7>1, <7>2
          <6>2. ~(j + 1 > Len(q))
            BY <6>1, PastEnd
          <6>3. j + 1 \in 1..Len(q)
            BY <1>0, <3>1, <6>2
          <6> QED BY <4>2, <6>3, PastEnd
        <5>3. s[j + 1] = LexerStep(q, j + 1, "code")
          BY <1>0, <3>1, <4>1, <5>2 DEF Runs
        <5>4. s[j + 1] = L
          BY <5>2, <5>3 DEF LexerStep, Opens, Within
        <5> HIDE DEF L, backslash
        <5>5. j + 2 =< Len(q) + 1 /\ s[(j + 2) - 1] = L
          BY <1>0, <3>1, <5>2, <5>4
        <5>6. \A k \in j..(f[j] - 1) : k = j \/ k = j + 1 \/ k \in (j + 2)..(f[j + 2] - 1)
          BY <1>0, <3>2, <5>1, <5>5
        <5>7. \A k \in j..(f[j] - 1) : s[k] \in InLiteral \/ s[k - 1] \in InLiteral
          BY <1>2, <2>3, <3>2, <5>4, <5>5, <5>6
        <5> QED BY <1>0, <3>1, <3>2, <5>1, <5>5, <5>7
      <4>3. CASE Char(q, j + 1) # q[i]
        <5>1. f[j] = j + 1
          BY <1>0, <2>1, <3>1, <3>4, <4>3 DEF QuotedBody
        <5> HIDE DEF L
        <5> QED BY <1>0, <1>2, <2>3, <3>1, <4>1, <5>1
      <4> QED BY <4>2, <4>3
    <3>5. CASE ~(backslash /\ q[j] = "bs") /\ q[j] # q[i]
      <4>1. f[j] = f[j + 1]
        BY <1>0, <2>1, <3>1, <3>5 DEF QuotedBody
      <4>2. s[j] = L
        BY <3>1, <3>5 DEF Within, LexerStep
      <4> HIDE DEF L
      <4> QED BY <1>0, <1>2, <2>3, <3>1, <3>2, <4>1, <4>2
    <3> QED BY <3>3, <3>4, <3>5
  <2> QED BY <2>2, <2>3
<1>4. Good(i + 1)
  <2>1. (i + 1)..N \subseteq T
    <3> HIDE DEF Good
    <3>0. i + 1 \in Int
      OBVIOUS
    <3>1. \A j \in (i + 1)..N : (\A m \in (j + 1)..N : m \in T) => j \in T
      BY <1>3
    <3> DEFINE first == i + 1
    <3>2. first \in Int /\ \A j \in first..N : (\A m \in (j + 1)..N : m \in T) => j \in T
      BY <3>0, <3>1
    <3> HIDE DEF T, N, first
    <3>3. first..N \subseteq T
      BY <1>0, <3>2, Downward
    <3> QED BY <3>3 DEF first
  <2> QED BY <1>0, <2>1
<1>5. s[i] = L
  <2>1. s[i] = LexerStep(q, i, "code")
    BY DEF Runs
  <2> QED BY <2>1 DEF LexerStep, Opens, Within
<1> HIDE DEF L
<1> QED BY <1>0, <1>1, <1>2, <1>4, <1>5

-----------------------------------------------------------------------------
\* The character at k is one the parser would not skip.
Marked(q, s, k) == \/ s[k] \in InLiteral \/ s[k - 1] \in InLiteral
                   \/ /\ s[k] = "code" /\ s[k - 1] = "code"
                      /\ q[k] \notin Blank \cup {";"}

StartsLine(q, i) == q[i] = "#" \/ IsLineCommentDash(q, i)
StartsBlock(q, i) == q[i] = "/" /\ Char(q, i + 1) = "*"

\* Where the comments end.
LEMMA LineBounds ==
  ASSUME NEW q \in Seq(Characters), NEW i \in 1..Len(q)
  PROVE  LET m == SkipLineComment(q, i) - 1
         IN  /\ SkipLineComment(q, i) \in Int /\ m \in i..Len(q)
             /\ \A k \in i..(m - 1) : q[k] # "nl"
             /\ q[m] = "nl" \/ m = Len(q)
<1> DEFINE S == {j \in i..Len(q) : q[j] = "nl"}
           m == FirstOf(S, Len(q))
<1>0. Len(q) \in Nat /\ S \in SUBSET Nat
  OBVIOUS
<1>1. /\ S = {} => m = Len(q)
      /\ S # {} => m \in S /\ \A k \in S : m =< k
  <2> HIDE DEF S
  <2> QED BY <1>0, FirstOfFacts
<1>2. m \in i..Len(q) /\ (q[m] = "nl" \/ m = Len(q))
  <2> HIDE DEF m
  <2> QED BY <1>0, <1>1
<1>3. ASSUME NEW k \in i..(m - 1) PROVE q[k] # "nl"
  <2> HIDE DEF m
  <2>1. k \in i..Len(q) /\ ~(m =< k)
    BY <1>0, <1>2
  <2>2. k \notin S
    <3> HIDE DEF S
    <3> QED BY <1>1, <2>1
  <2> QED BY <2>1, <2>2
<1>4. SkipLineComment(q, i) - 1 = m /\ SkipLineComment(q, i) \in Int
  <2>1. SkipLineComment(q, i) = m + 1
    BY DEF SkipLineComment
  <2> HIDE DEF m
  <2> QED BY <1>0, <1>2, <2>1
<1> HIDE DEF m
<1> QED BY <1>2, <1>3, <1>4

LEMMA BlockBounds ==
  ASSUME NEW q \in Seq(Characters), NEW i \in 1..Len(q), StartsBlock(q, i)
  PROVE  LET m == SkipBlockComment(q, i) - 2
         IN  /\ i + 1 \in 1..Len(q) /\ q[i + 1] = "*"
             /\ SkipBlockComment(q, i) \in Int /\ m \in i..(Len(q) - 1)
             /\ \A k \in (i + 2)..(m - 1) : ~(q[k] = "*" /\ q[k + 1] = "/")
             /\ \/ m >= i + 2 /\ q[m] = "*" /\ q[m + 1] = "/"
                \/ /\ m = Len(q) - 1
                   /\ \A k \in (i + 2)..(Len(q) - 1) : ~(q[k] = "*" /\ q[k + 1] = "/")
<1> DEFINE S == {j \in (i + 2)..(Len(q) - 1) : q[j] = "*" /\ q[j + 1] = "/"}
           m == FirstOf(S, Len(q) - 1)
<1>0. Len(q) \in Nat /\ S \in SUBSET Nat
  OBVIOUS
<1>1. i + 1 \in 1..Len(q) /\ q[i + 1] = "*"
  <2>1. i + 1 \in Int /\ Char(q, i + 1) # ""
    <3>1. i + 1 \in Int
      BY <1>0
    <3>2. Char(q, i + 1) = "*"
      BY DEF StartsBlock
    <3> QED BY <3>1, <3>2
  <2>2. ~(i + 1 > Len(q))
    BY <2>1, PastEnd
  <2>3. i + 1 \in 1..Len(q)
    BY <1>0, <2>2
  <2> QED BY <2>3, PastEnd DEF StartsBlock
<1>2. /\ S = {} => m = Len(q) - 1
      /\ S # {} => m \in S /\ \A k \in S : m =< k
  <2> HIDE DEF S
  <2> QED BY <1>0, FirstOfFacts
<1>3. m \in i..(Len(q) - 1)
  <2> HIDE DEF m
  <2> QED BY <1>0, <1>1, <1>2
<1>4. SkipBlockComment(q, i) - 2 = m /\ SkipBlockComment(q, i) \in Int
  <2>1. SkipBlockComment(q, i) = m + 2
    BY DEF SkipBlockComment
  <2> HIDE DEF m
  <2> QED BY <1>0, <1>3, <2>1
<1>5. ASSUME NEW k \in (i + 2)..(m - 1) PROVE ~(q[k] = "*" /\ q[k + 1] = "/")
  <2> HIDE DEF m
  <2>1. k \in (i + 2)..(Len(q) - 1) /\ ~(m =< k)
    BY <1>0, <1>3
  <2>2. k \notin S
    <3> HIDE DEF S
    <3> QED BY <1>2, <2>1
  <2> QED BY <2>1, <2>2
<1>6. \/ m >= i + 2 /\ q[m] = "*" /\ q[m + 1] = "/"
      \/ /\ m = Len(q) - 1
         /\ \A k \in (i + 2)..(Len(q) - 1) : ~(q[k] = "*" /\ q[k + 1] = "/")
  <2> HIDE DEF m
  <2>1. CASE S = {}
    BY <1>2, <2>1
  <2>2. CASE S # {}
    BY <1>0, <1>2, <2>2
  <2> QED BY <2>1, <2>2
<1> HIDE DEF m
<1> QED BY <1>1, <1>3, <1>4, <1>5, <1>6

\* Nothing of a comment is code, and code goes on behind it.
LEMMA LineScan ==
  ASSUME NEW q \in Seq(Characters), NEW s, Runs(q, s),
         NEW i \in 1..Len(q), StartsLine(q, i), s[i - 1] = "code"
  PROVE  LET after == SkipLineComment(q, i)
         IN  /\ \A k \in i..(after - 1) : ~Marked(q, s, k)
             /\ s[after - 1] = "code" \/ after = Len(q) + 1
<1>0. Len(q) \in Nat
  OBVIOUS
<1> DEFINE m == SkipLineComment(q, i) - 1
           T == {k \in i..(m - 1) : s[k] = "line"}
<1>1. /\ m \in i..Len(q)
      /\ \A k \in i..(m - 1) : q[k] # "nl"
      /\ q[m] = "nl" \/ m = Len(q)
  BY LineBounds
<1>a. SkipLineComment(q, i) - 1 = m /\ SkipLineComment(q, i) \in Int
  BY LineBounds
<1> HIDE DEF m
<1>2. \A k \in 1..Len(q) : s[k] = LexerStep(q, k, s[k - 1])
  BY DEF Runs
<1>3. s[i] = "line"
  <2>1. s[i] = Opens(q, i)
    BY <1>2 DEF LexerStep
  <2>2. CASE q[i] = "#"
    BY <2>1, <2>2 DEF Opens
  <2>3. CASE IsLineCommentDash(q, i)
    <3>1. q[i] = "-" /\ Char(q, i + 1) = "-" /\ Char(q, i + 2) \in {" ", "nl", ""}
      BY <2>3, PastEnd DEF IsLineCommentDash, Blank
    <3> QED BY <2>1, <3>1 DEF Opens
  <2> QED BY <2>2, <2>3 DEF StartsLine
<1>4. i..(m - 1) \subseteq T
  <2>1. ASSUME NEW n \in i..(m - 1), \A k \in i..(n - 1) : k \in T PROVE n \in T
    <3>1. CASE n = i
      BY <1>3, <3>1
    <3>2. CASE n # i
      <4>1. n - 1 \in T /\ n \in 1..Len(q)
        BY <1>0, <1>1, <2>1, <3>2
      <4>2. s[n] = LexerStep(q, n, "line") /\ q[n] # "nl"
        BY <1>1, <1>2, <4>1
      <4> QED BY <4>2 DEF LexerStep
    <3> QED BY <3>1, <3>2
  <2>2. i \in Int /\ m - 1 \in Int
    BY <1>0, <1>1
  <2> HIDE DEF T
  <2> QED BY <2>1, <2>2, Upward
<1>5. s[m] = "line" \/ (s[m] = "code" /\ m # i)
  <2>1. CASE m = i
    BY <1>3, <2>1
  <2>2. CASE m # i
    <3>1. m - 1 \in i..(m - 1) /\ m \in 1..Len(q)
      BY <1>0, <1>1, <2>2
    <3>2. s[m] = LexerStep(q, m, "line")
      BY <1>2, <1>4, <3>1
    <3> QED BY <2>2, <3>2 DEF LexerStep
  <2> QED BY <2>1, <2>2
<1>6. s[m] = "code" \/ m = Len(q)
  <2>1. CASE q[m] = "nl"
    <3>1. m # i
      BY <2>1 DEF StartsLine, IsLineCommentDash, Char
    <3>2. m - 1 \in i..(m - 1) /\ m \in 1..Len(q)
      BY <1>0, <1>1, <3>1
    <3>3. s[m] = LexerStep(q, m, "line")
      BY <1>2, <1>4, <3>2
    <3> QED BY <2>1, <3>3 DEF LexerStep
  <2> QED BY <1>1, <2>1
<1>7. ASSUME NEW k \in i..m PROVE ~Marked(q, s, k)
  <2>1. CASE k < m
    <3>1. s[k] = "line"
      BY <1>0, <1>1, <1>4, <2>1
    <3>2. s[k - 1] \in {"code", "line"}
      <4>1. k = i \/ k - 1 \in i..(m - 1)
        BY <1>0, <1>1, <2>1
      <4> QED BY <1>4, <4>1
    <3> QED BY <3>1, <3>2 DEF Marked, InLiteral
  <2>2. CASE k = m
    <3>1. k = i \/ k - 1 \in i..(m - 1)
      BY <1>0, <1>1, <2>2
    <3>2. (k = i /\ s[k - 1] = "code") \/ (k # i /\ s[k - 1] = "line")
      BY <1>4, <3>1
    <3> QED BY <1>3, <1>5, <2>2, <3>2 DEF Marked, InLiteral
  <2>3. k < m \/ k = m
    BY <1>0, <1>1
  <2> QED BY <2>1, <2>2, <2>3
<1> QED BY <1>0, <1>a, <1>6, <1>7

LEMMA BlockScan ==
  ASSUME NEW q \in Seq(Characters), NEW s, Runs(q, s),
         NEW i \in 1..Len(q), StartsBlock(q, i), s[i - 1] = "code"
  PROVE  LET after == SkipBlockComment(q, i)
         IN  /\ \A k \in i..(after - 1) : ~Marked(q, s, k)
             /\ \/ s[after - 1] = "code"
                \/ after = Len(q) + 1 /\ s[Len(q)] = "block"
<1>0. Len(q) \in Nat
  OBVIOUS
<1> DEFINE m == SkipBlockComment(q, i) - 2
           T == {k \in (i + 1)..(m - 1) : s[k] = "block"}
<1>1. /\ i + 1 \in 1..Len(q) /\ q[i + 1] = "*"
      /\ m \in i..(Len(q) - 1)
      /\ \A k \in (i + 2)..(m - 1) : ~(q[k] = "*" /\ q[k + 1] = "/")
      /\ \/ m >= i + 2 /\ q[m] = "*" /\ q[m + 1] = "/"
         \/ /\ m = Len(q) - 1
            /\ \A k \in (i + 2)..(Len(q) - 1) : ~(q[k] = "*" /\ q[k + 1] = "/")
  BY BlockBounds
<1>a. SkipBlockComment(q, i) - 1 = m + 1 /\ SkipBlockComment(q, i) \in Int
  BY BlockBounds
<1> HIDE DEF m
<1>2. \A k \in 1..Len(q) : s[k] = LexerStep(q, k, s[k - 1])
  BY DEF Runs
<1>3. s[i] = "slash"
  <2>1. s[i] = Opens(q, i)
    BY <1>2 DEF LexerStep
  <2> QED BY <2>1 DEF Opens, StartsBlock
<1>4. s[i + 1] = "block"
  <2>1. s[i + 1] = LexerStep(q, i + 1, "slash")
    BY <1>0, <1>1, <1>2, <1>3
  <2> QED BY <2>1 DEF LexerStep
\* A step within the comment.
<1>5. ASSUME NEW k \in (i + 2)..Len(q), s[k - 1] = "block",
             k =< Len(q) - 1 => ~(q[k] = "*" /\ q[k + 1] = "/")
      PROVE  s[k] = "block"
  <2>1. k \in 1..Len(q) /\ k + 1 \in Int
    BY <1>0
  <2>2. s[k] = LexerStep(q, k, "block")
    BY <1>2, <1>5, <2>1
  <2>3. ~(q[k] = "*" /\ Char(q, k + 1) = "/")
    <3>1. CASE k =< Len(q) - 1
      <4>1. k + 1 \in 1..Len(q)
        BY <1>0, <2>1, <3>1
      <4>2. Char(q, k + 1) = q[k + 1]
        BY <4>1, PastEnd
      <4> QED BY <1>5, <3>1, <4>2
    <3>2. CASE ~(k =< Len(q) - 1)
      <4>1. k + 1 > Len(q)
        BY <1>0, <2>1, <3>2
      <4>2. Char(q, k + 1) = ""
        BY <2>1, <4>1, PastEnd
      <4> QED BY <4>2
    <3> QED BY <3>1, <3>2
  <2> QED BY <2>2, <2>3 DEF LexerStep
<1>6. \A k \in (i + 1)..(m - 1) : s[k] = "block"
  <2>1. ASSUME NEW n \in (i + 1)..(m - 1), \A k \in (i + 1)..(n - 1) : k \in T PROVE n \in T
    <3>1. CASE n = i + 1
      BY <1>4, <3>1
    <3>2. CASE n # i + 1
      <4>1. n - 1 \in T /\ n \in (i + 2)..Len(q) /\ n \in (i + 2)..(m - 1)
        BY <1>0, <1>1, <2>1, <3>2
      <4> QED BY <1>1, <1>5, <4>1
    <3> QED BY <3>1, <3>2
  <2>2. i + 1 \in Int /\ m - 1 \in Int
    BY <1>0, <1>1
  <2>3. (i + 1)..(m - 1) \subseteq T
    <3> HIDE DEF T
    <3> QED BY <2>1, <2>2, Upward
  <2> QED BY <2>3
\* The last two characters.
<1>7. \/ m >= i + 2 /\ s[m] = "star" /\ s[m + 1] = "code"
      \/ m + 1 = Len(q) /\ m >= i + 1 /\ s[m] = "block" /\ s[m + 1] = "block"
      \/ m + 1 = Len(q) /\ m = i /\ s[m + 1] = "block"
  <2>1. CASE m >= i + 2 /\ q[m] = "*" /\ q[m + 1] = "/"
    <3>1. /\ m \in 1..Len(q) /\ m + 1 \in 1..Len(q) /\ (m + 1) - 1 = m
          /\ m - 1 \in (i + 1)..(m - 1)
      BY <1>0, <1>1, <2>1
    <3>2. s[m] = LexerStep(q, m, "block") /\ Char(q, m + 1) = "/"
      BY <1>2, <1>6, <2>1, <3>1, PastEnd
    <3>3. s[m] = "star"
      BY <2>1, <3>2 DEF LexerStep
    <3>4. s[m + 1] = LexerStep(q, m + 1, "star")
      BY <1>2, <3>1, <3>3
    <3>5. s[m + 1] = "code"
      BY <3>4 DEF LexerStep
    <3> QED BY <2>1, <3>3, <3>5
  <2>2. CASE /\ m = Len(q) - 1
             /\ \A k \in (i + 2)..(Len(q) - 1) : ~(q[k] = "*" /\ q[k + 1] = "/")
    <3>1. CASE m = i
      BY <1>0, <1>4, <2>2, <3>1
    <3>2. CASE m # i
      <4>1. s[m] = "block"
        <5>1. CASE m = i + 1
          BY <1>4, <5>1
        <5>2. CASE m # i + 1
          <6>1. m \in (i + 2)..Len(q) /\ m - 1 \in (i + 1)..(m - 1) /\ m \in (i + 2)..(Len(q) - 1)
            BY <1>0, <1>1, <2>2, <3>2, <5>2
          <6> QED BY <1>5, <1>6, <2>2, <6>1
        <5> QED BY <5>1, <5>2
      <4>2. m + 1 \in (i + 2)..Len(q) /\ (m + 1) - 1 = m /\ ~(m + 1 =< Len(q) - 1)
        BY <1>0, <1>1, <2>2, <3>2
      <4>3. s[m + 1] = "block"
        BY <1>5, <4>1, <4>2
      <4>4. m + 1 = Len(q) /\ m >= i + 1
        BY <1>0, <1>1, <2>2, <3>2
      <4> QED BY <4>1, <4>3, <4>4
    <3> QED BY <3>1, <3>2
  <2> QED BY <1>1, <2>1, <2>2
<1>8. ASSUME NEW k \in i..(m + 1) PROVE ~Marked(q, s, k)
  <2>1. s[k] \in {"slash", "block", "star", "code"} /\ s[k - 1] \in {"code", "slash", "block", "star"}
        /\ ~(s[k] = "code" /\ s[k - 1] = "code")
    <3>1. CASE k = i
      BY <1>3, <3>1
    <3>2. CASE k = i + 1
      <4>1. k - 1 = i
        BY <3>2
      <4> QED BY <1>3, <1>4, <3>2, <4>1
    <3>3. CASE k >= i + 2 /\ k =< m - 1
      <4>1. k \in (i + 1)..(m - 1) /\ k - 1 \in (i + 1)..(m - 1)
        BY <1>0, <1>1, <3>3
      <4> QED BY <1>6, <4>1
    <3>4. CASE k >= i + 2 /\ k = m
      <4>1. k - 1 \in (i + 1)..(m - 1)
        BY <1>0, <1>1, <3>4
      <4>2. s[m] \in {"star", "block"}
        BY <1>0, <1>1, <1>7, <3>4
      <4> QED BY <1>6, <3>4, <4>1, <4>2
    <3>5. CASE k >= i + 2 /\ k = m + 1
      <4>1. k - 1 = m /\ m # i
        BY <1>0, <1>1, <3>5
      <4> QED BY <1>7, <3>5, <4>1
    <3>6. \/ k = i
          \/ k = i + 1
          \/ k >= i + 2 /\ k =< m - 1
          \/ k >= i + 2 /\ k = m
          \/ k >= i + 2 /\ k = m + 1
      BY <1>0, <1>1
    <3> QED BY <3>1, <3>2, <3>3, <3>4, <3>5, <3>6
  <2> QED BY <2>1 DEF Marked, InLiteral
<1>9. \/ s[m + 1] = "code"
      \/ m + 1 = Len(q) /\ s[Len(q)] = "block"
  BY <1>7
<1>10. SkipBlockComment(q, i) = Len(q) + 1 <=> m + 1 = Len(q)
  BY <1>0, <1>1, <1>a
<1> QED BY <1>8, <1>9, <1>10, <1>a

-----------------------------------------------------------------------------
\* A round of the scanner moves on, and not past the end.
LEMMA LexemeBounds ==
  ASSUME NEW q \in Seq(Characters), NEW i \in 1..Len(q)
  PROVE  NextLexeme(q, i).after \in (i + 1)..(Len(q) + 1)
<1>0. Len(q) \in Nat
  OBVIOUS
<1>1. CASE q[i] \in {"'", "tick"}
  <2>1. SkipQuoted(q, i, q[i] = "'") \in (i + 1)..(Len(q) + 1)
    BY <1>1, QuotedBounds
  <2>2. NextLexeme(q, i) = [code |-> TRUE, after |-> SkipQuoted(q, i, q[i] = "'")]
    BY <1>1 DEF NextLexeme, IsLineCommentDash, Char
  <2> QED BY <2>1, <2>2
<1>2. CASE StartsLine(q, i)
  <2>1. SkipLineComment(q, i) \in (i + 1)..(Len(q) + 1)
    BY <1>0, LineBounds
  <2>2. NextLexeme(q, i) = [code |-> FALSE, after |-> SkipLineComment(q, i)]
    BY <1>2 DEF NextLexeme, StartsLine, IsLineCommentDash, Char
  <2> QED BY <2>1, <2>2
<1>3. CASE StartsBlock(q, i)
  <2>1. SkipBlockComment(q, i) \in (i + 1)..(Len(q) + 1)
    BY <1>0, <1>3, BlockBounds
  <2>2. NextLexeme(q, i) = [code |-> FALSE, after |-> SkipBlockComment(q, i)]
    BY <1>3 DEF NextLexeme, StartsBlock, IsLineCommentDash, Char
  <2> QED BY <2>1, <2>2
<1>4. CASE q[i] \notin {"'", "tick"} /\ ~StartsLine(q, i) /\ ~StartsBlock(q, i)
  <2> DEFINE c == q[i] \notin Blank \cup {";"}
  <2>1. NextLexeme(q, i) = [code |-> c, after |-> i + 1]
    BY <1>4 DEF NextLexeme, StartsLine, StartsBlock
  <2> HIDE DEF c
  <2>2. NextLexeme(q, i).after = i + 1
    BY <2>1
  <2> QED BY <1>0, <2>2
<1> QED BY <1>1, <1>2, <1>3, <1>4

\* In a text that is closed the scanner calls code what the parser does not skip,
\* and goes on where the parser is outside literals and comments.
LEMMA LexemeScan ==
  ASSUME NEW q \in Seq(Characters), NEW s, Runs(q, s), s[Len(q)] \in {"code", "line"},
         NEW i \in 1..Len(q), s[i - 1] = "code"
  PROVE  LET lexeme == NextLexeme(q, i)
         IN  /\ lexeme.code \in BOOLEAN
             /\ lexeme.code => /\ Marked(q, s, lexeme.after - 1)
                               /\ s[lexeme.after - 1] = "code"
             /\ ~lexeme.code => /\ \A k \in i..(lexeme.after - 1) : ~Marked(q, s, k)
                                /\ s[lexeme.after - 1] = "code" \/ lexeme.after = Len(q) + 1
<1>0. Len(q) \in Nat
  OBVIOUS
<1>1. CASE q[i] \in {"'", "tick"}
  <2> DEFINE a == SkipQuoted(q, i, q[i] = "'")
  <2>1. a \in (i + 1)..(Len(q) + 1)
    BY <1>1, QuotedBounds
  <2>2. NextLexeme(q, i) = [code |-> TRUE, after |-> a]
    BY <1>1 DEF NextLexeme, IsLineCommentDash, Char
  <2>3. /\ \A k \in i..(a - 1) : s[k] \in InLiteral \/ s[k - 1] \in InLiteral
        /\ \/ s[a - 1] = "code"
           \/ a = Len(q) + 1 /\ s[Len(q)] \in InLiteral
    BY <1>1, QuotedScan
  <2> HIDE DEF a
  <2>4. s[a - 1] = "code"
    BY <2>3 DEF InLiteral
  <2>5. a - 1 \in i..(a - 1)
    BY <1>0, <2>1
  <2>6. Marked(q, s, a - 1)
    BY <2>3, <2>5 DEF Marked
  <2> QED BY <2>2, <2>4, <2>6
<1>2. CASE StartsLine(q, i)
  <2> DEFINE a == SkipLineComment(q, i)
  <2>1. NextLexeme(q, i) = [code |-> FALSE, after |-> a]
    BY <1>2 DEF NextLexeme, StartsLine, IsLineCommentDash, Char
  <2>2. /\ \A k \in i..(a - 1) : ~Marked(q, s, k)
        /\ s[a - 1] = "code" \/ a = Len(q) + 1
    BY <1>2, LineScan
  <2> HIDE DEF a
  <2> QED BY <2>1, <2>2
<1>3. CASE StartsBlock(q, i)
  <2> DEFINE a == SkipBlockComment(q, i)
  <2>1. NextLexeme(q, i) = [code |-> FALSE, after |-> a]
    BY <1>3 DEF NextLexeme, StartsBlock, IsLineCommentDash, Char
  <2>2. /\ \A k \in i..(a - 1) : ~Marked(q, s, k)
        /\ s[a - 1] = "code" \/ (a = Len(q) + 1 /\ s[Len(q)] = "block")
    BY <1>3, BlockScan
  <2> HIDE DEF a
  <2> QED BY <2>1, <2>2
<1>4. CASE q[i] \notin {"'", "tick"} /\ ~StartsLine(q, i) /\ ~StartsBlock(q, i)
  <2> DEFINE c == q[i] \notin Blank \cup {";"}
  <2>1. NextLexeme(q, i) = [code |-> c, after |-> i + 1]
    BY <1>4 DEF NextLexeme, StartsLine, StartsBlock
  <2>2. s[i] = Opens(q, i)
    BY DEF Runs, LexerStep
  <2>3. s[i] = "code"
    <3>1. ~(q[i] = "-" /\ Char(q, i + 1) = "-" /\ Char(q, i + 2) \in {" ", "nl", ""})
      <4>1. Char(q, i) = q[i]
        BY PastEnd
      <4> QED BY <1>4, <4>1 DEF StartsLine, IsLineCommentDash, Blank
    <3>2. q[i] # "'" /\ q[i] # "tick" /\ q[i] # "#" /\ ~(q[i] = "/" /\ Char(q, i + 1) = "*")
      BY <1>4 DEF StartsLine, StartsBlock
    <3> QED BY <2>2, <3>1, <3>2 DEF Opens
  <2>4. (i + 1) - 1 = i
    BY <1>0
  <2>5. Marked(q, s, i) <=> q[i] \notin Blank \cup {";"}
    BY <2>3 DEF Marked, InLiteral
  <2>6. \A k \in i..((i + 1) - 1) : k = i
    BY <1>0
  <2>7. c \in BOOLEAN /\ (Marked(q, s, i) <=> c)
    BY <2>5, Zenon
  <2> HIDE DEF c
  <2>8. NextLexeme(q, i).code = c /\ NextLexeme(q, i).after = i + 1
    BY <2>1, <2>7
  <2> QED BY <2>3, <2>4, <2>6, <2>7, <2>8, Zenon
<1> QED BY <1>1, <1>2, <1>3, <1>4

-----------------------------------------------------------------------------
\* The loop of codeEnd from index i on.
EndBody(q, f, i) ==
  IF i > Len(q) THEN 0
  ELSE LET lexeme == NextLexeme(q, i)
           later == f[lexeme.after]
       IN  CASE later > 0 -> later
             [] later = 0 /\ lexeme.code -> lexeme.after - 1
             [] OTHER -> 0

\* Only what follows decides it.
LEMMA EndBodyLocal ==
  ASSUME NEW q \in Seq(Characters), NEW i \in 1..(Len(q) + 1), NEW f, NEW g,
         \A j \in (i + 1)..(Len(q) + 1) : f[j] = g[j]
  PROVE  EndBody(q, f, i) = EndBody(q, g, i)
<1>0. Len(q) \in Nat
  OBVIOUS
<1>1. CASE i > Len(q)
  BY <1>1 DEF EndBody
<1>2. CASE ~(i > Len(q))
  <2>1. NextLexeme(q, i).after \in (i + 1)..(Len(q) + 1)
    BY <1>0, <1>2, LexemeBounds
  <2>2. f[NextLexeme(q, i).after] = g[NextLexeme(q, i).after]
    BY <2>1
  <2> QED BY <2>2 DEF EndBody
<1> QED BY <1>1, <1>2

LEMMA EndRuns ==
  ASSUME NEW q \in Seq(Characters)
  PROVE  \E f : /\ \A i \in 1..(Len(q) + 1) : f[i] = EndBody(q, f, i)
                /\ CodeEnd(q) = f[1]
<1> DEFINE N == Len(q) + 1
<1>0. Len(q) \in Nat /\ 1 \in Int /\ N \in Int
  OBVIOUS
<1> DEFINE Body(k, j) == EndBody(q, k, j)
           From(n) == \E k : \A j \in n..N : k[j] = Body(k, j)
           T == {n \in 1..N : From(n)}
<1>1. ASSUME NEW n \in 1..N, \A m \in (n + 1)..N : m \in T PROVE From(n)
  <2>1. PICK k : \A j \in (n + 1)..N : k[j] = Body(k, j)
    <3>1. CASE n = N
      BY <3>1
    <3>2. CASE n # N
      <4>1. From(n + 1)
        <5> HIDE DEF From
        <5> QED BY <1>1, <3>2
      <4> QED BY <4>1
    <3> QED BY <3>1, <3>2
  <2> DEFINE h == [j \in n..N |-> IF j = n THEN Body(k, n) ELSE k[j]]
  <2>2. ASSUME NEW j \in n..N PROVE h[j] = Body(h, j)
    <3>1. h[j] = Body(k, j)
      BY <2>1
    <3>2. \A m \in (j + 1)..N : h[m] = k[m]
      BY <1>0
    <3>3. j \in 1..N
      BY <1>0
    <3> HIDE DEF h
    <3>4. Body(h, j) = Body(k, j)
      BY <3>2, <3>3, EndBodyLocal
    <3> QED BY <3>1, <3>4
  <2> QED BY <2>2
<1>2. From(1)
  <2> HIDE DEF From
  <2>1. 1..N \subseteq T
    <3>1. \A n \in 1..N : (\A m \in (n + 1)..N : m \in T) => n \in T
      BY <1>1
    <3> HIDE DEF T, N
    <3> QED BY <1>0, <3>1, Downward
  <2> QED BY <1>0, <2>1
<1>3. PICK k : \A j \in 1..N : k[j] = Body(k, j)
  BY <1>2
<1> DEFINE h == [j \in 1..N |-> k[j]]
<1>4. ASSUME NEW j \in 1..N PROVE Body(h, j) = Body(k, j)
  <2>1. \A m \in (j + 1)..N : h[m] = k[m]
    BY <1>0
  <2> HIDE DEF h
  <2> QED BY <2>1, EndBodyLocal
<1>5. h = [j \in 1..N |-> Body(h, j)]
  BY <1>3, <1>4
<1>6. \E f : f = [j \in 1..N |-> Body(f, j)]
  BY <1>5
<1> DEFINE g == CHOOSE f : f = [j \in 1..N |-> Body(f, j)]
<1>7. g = [j \in 1..N |-> Body(g, j)]
  BY <1>6
<1>8. CodeEnd(q) = g[1]
  BY DEF CodeEnd, EndBody
<1> HIDE DEF g
<1>9. \A j \in 1..N : g[j] = Body(g, j)
  BY <1>7
<1> QED BY <1>8, <1>9

\* codeEnd finds the last character that is code, if there is one.
LEMMA CodeEndFacts ==
  ASSUME NEW q \in Seq(Characters), NEW s, Runs(q, s), s[Len(q)] \in {"code", "line"}
  PROVE  /\ CodeEnd(q) \in 0..Len(q)
         /\ s[CodeEnd(q)] = "code"
         /\ CodeEnd(q) > 0 => Marked(q, s, CodeEnd(q))
         /\ \A k \in (CodeEnd(q) + 1)..Len(q) : ~Marked(q, s, k)
<1> DEFINE N == Len(q) + 1
<1>0. Len(q) \in Nat /\ 1 \in Int /\ N \in Int
  OBVIOUS
<1>1. PICK f : /\ \A i \in 1..N : f[i] = EndBody(q, f, i)
               /\ CodeEnd(q) = f[1]
  BY EndRuns
<1> DEFINE Found(i) == \/ /\ f[i] = 0
                          /\ \A k \in i..Len(q) : ~Marked(q, s, k)
                       \/ /\ f[i] \in i..Len(q)
                          /\ s[f[i]] = "code" /\ Marked(q, s, f[i])
                          /\ \A k \in (f[i] + 1)..Len(q) : ~Marked(q, s, k)
           T == {i \in 1..N : s[i - 1] = "code" \/ i = N => Found(i)}
<1>2. ASSUME NEW i \in 1..N, \A m \in (i + 1)..N : m \in T, s[i - 1] = "code" \/ i = N
      PROVE  Found(i)
  <2>1. f[i] = EndBody(q, f, i)
    BY <1>1
  <2>2. CASE i = N
    <3>1. f[i] = 0
      BY <1>0, <2>1, <2>2 DEF EndBody
    <3>2. i..Len(q) = {}
      BY <1>0, <2>2
    <3> QED BY <3>1, <3>2
  <2>3. CASE i # N
    <3> DEFINE lexeme == NextLexeme(q, i)
               a == lexeme.after
    <3>1. i \in 1..Len(q) /\ s[i - 1] = "code"
      BY <1>0, <1>2, <2>3
    <3>2. a \in (i + 1)..N
      BY <3>1, LexemeBounds
    <3>3. /\ lexeme.code \in BOOLEAN
          /\ lexeme.code => Marked(q, s, a - 1) /\ s[a - 1] = "code"
          /\ ~lexeme.code => /\ \A k \in i..(a - 1) : ~Marked(q, s, k)
                             /\ s[a - 1] = "code" \/ a = N
      BY <3>1, LexemeScan
    <3>4. f[i] = CASE f[a] > 0 -> f[a]
                   [] f[a] = 0 /\ lexeme.code -> a - 1
                   [] OTHER -> 0
      BY <1>0, <2>1, <3>1 DEF EndBody
    <3> HIDE DEF lexeme, a, Found
    <3>5. Found(a)
      BY <1>2, <3>2, <3>3
    <3> USE DEF Found
    <3>6. CASE f[a] \in a..Len(q)
      <4>1. f[i] = f[a] /\ f[i] \in i..Len(q) /\ f[a] # 0
        BY <1>0, <3>2, <3>4, <3>6
      <4> QED BY <3>5, <4>1
    <3>7. CASE f[a] = 0
      <4>1. \A k \in a..Len(q) : ~Marked(q, s, k)
        BY <1>0, <3>2, <3>5, <3>7
      <4>2. CASE lexeme.code
        <5>1. f[i] = a - 1
          BY <3>4, <3>7, <4>2
        <5>2. a - 1 \in i..Len(q) /\ (a - 1) + 1 = a
          BY <1>0, <3>2
        <5> QED BY <3>3, <4>1, <4>2, <5>1, <5>2
      <4>3. CASE ~lexeme.code
        <5>1. f[i] = 0
          BY <3>4, <3>7, <4>3
        <5>2. \A k \in i..Len(q) : k \in i..(a - 1) \/ k \in a..Len(q)
          BY <1>0, <3>2
        <5> QED BY <3>3, <4>1, <4>3, <5>1, <5>2
      <4> QED BY <3>3, <4>2, <4>3
    <3> QED BY <3>5, <3>6, <3>7
  <2> QED BY <2>2, <2>3
<1>3. Found(1)
  <2> HIDE DEF Found
  <2>1. 1..N \subseteq T
    <3>1. \A i \in 1..N : (\A m \in (i + 1)..N : m \in T) => i \in T
      BY <1>2
    <3> HIDE DEF T, N
    <3> QED BY <1>0, <3>1, Downward
  <2>2. 1 \in 1..N /\ s[1 - 1] = "code"
    BY <1>0 DEF Runs
  <2> QED BY <2>1, <2>2
<1>4. CASE f[1] = 0
  <2>1. \A k \in 1..Len(q) : ~Marked(q, s, k)
    BY <1>0, <1>3, <1>4
  <2> QED BY <1>0, <1>1, <1>4, <2>1 DEF Runs
<1>5. CASE f[1] # 0
  BY <1>0, <1>1, <1>3, <1>5
<1> QED BY <1>4, <1>5

-----------------------------------------------------------------------------
LEMMA PairIsSeq ==
  ASSUME NEW S, NEW a \in S, NEW b \in S
  PROVE  /\ <<a, b>> \in Seq(S) /\ Len(<<a, b>>) = 2
         /\ <<a, b>>[1] = a /\ <<a, b>>[2] = b
OBVIOUS

\* Where the characters are after the clause is put in.
LEMMA WithClause ==
  ASSUME NEW q \in Seq(Characters), CodeEnd(q) \in 0..Len(q)
  PROVE  LET at == CodeEnd(q)
             r == WithLimitOffset(q)
         IN  /\ r \in Seq(Characters) /\ Len(r) = Len(q) + 2
             /\ \A k \in 1..at : r[k] = q[k]
             /\ r[at + 1] = " " /\ r[at + 2] = "x"
             /\ \A k \in (at + 1)..Len(q) : r[k + 2] = q[k]
<1> DEFINE at == CodeEnd(q)
           u == SubSeq(q, 1, at)
           v == SubSeq(q, at + 1, Len(q))
<1>0. Len(q) \in Nat /\ at \in 0..Len(q)
  OBVIOUS
<1>1. u \in Seq(Characters) /\ Len(u) = at /\ \A k \in 1..at : u[k] = q[k]
  <2> HIDE DEF at
  <2> QED BY <1>0, SubSeqProperties
<1>2. /\ v \in Seq(Characters) /\ Len(v) = Len(q) - at
      /\ \A k \in 1..(Len(q) - at) : v[k] = q[at + k]
  <2> HIDE DEF at
  <2> QED BY <1>0, SubSeqProperties
<1>3. /\ Clause \in Seq(Characters) /\ Len(Clause) = 2
      /\ Clause[1] = " " /\ Clause[2] = "x"
  <2>1. " " \in Characters /\ "x" \in Characters
    BY DEF Characters
  <2> QED BY <2>1, PairIsSeq DEF Clause
<1> HIDE DEF u, v, at
<1> DEFINE w == u \o Clause
<1>4. /\ w \in Seq(Characters) /\ Len(w) = at + 2
      /\ \A k \in 1..at : w[k] = q[k]
      /\ w[at + 1] = " " /\ w[at + 2] = "x"
  <2>1. /\ w \in Seq(Characters) /\ Len(w) = Len(u) + Len(Clause)
        /\ \A k \in 1..(Len(u) + Len(Clause)) :
             w[k] = IF k <= Len(u) THEN u[k] ELSE Clause[k - Len(u)]
    BY <1>1, <1>3, ConcatProperties
  <2> HIDE DEF w
  <2>2. /\ at + 1 \in 1..(at + 2) /\ at + 2 \in 1..(at + 2)
        /\ (at + 1) - at = 1 /\ (at + 2) - at = 2
        /\ ~(at + 1 <= at) /\ ~(at + 2 <= at)
        /\ \A k \in 1..at : k \in 1..(at + 2) /\ k <= at
    BY <1>0
  <2>4. Len(u) = at /\ Len(Clause) = 2
    BY <1>1, <1>3
  <2>3. w[at + 1] = Clause[1] /\ w[at + 2] = Clause[2]
    BY <2>1, <2>2, <2>4
  <2> QED BY <1>1, <1>3, <2>1, <2>2, <2>3
<1> HIDE DEF w
<1> DEFINE r == w \o v
<1>5. /\ r \in Seq(Characters) /\ Len(r) = Len(q) + 2
      /\ \A k \in 1..(at + 2) : r[k] = w[k]
      /\ \A k \in (at + 1)..Len(q) : r[k + 2] = q[k]
  <2>0. w \in Seq(Characters) /\ Len(w) = at + 2
    BY <1>4
  <2>a. v \in Seq(Characters) /\ Len(v) = Len(q) - at
    BY <1>2
  <2>b. /\ r \in Seq(Characters) /\ Len(r) = Len(w) + Len(v)
        /\ \A k \in 1..(Len(w) + Len(v)) :
             r[k] = IF k <= Len(w) THEN w[k] ELSE v[k - Len(w)]
    BY <2>0, <2>a, ConcatProperties
  <2> HIDE DEF r
  <2>1. r \in Seq(Characters) /\ Len(r) = Len(q) + 2
    BY <1>0, <2>0, <2>a, <2>b
  <2>2. \A k \in 1..(at + 2) : r[k] = w[k]
    <3> TAKE k \in 1..(at + 2)
    <3>1. k \in 1..(Len(w) + Len(v)) /\ k <= Len(w)
      BY <1>0, <2>0, <2>a
    <3> QED BY <2>b, <3>1
  <2>3. ASSUME NEW k \in (at + 1)..Len(q) PROVE r[k + 2] = q[k]
    <3>1. k - at \in 1..(Len(q) - at) /\ at + (k - at) = k
      BY <1>0
    <3>2. /\ k + 2 \in 1..(Len(w) + Len(v)) /\ ~(k + 2 <= Len(w))
          /\ (k + 2) - Len(w) = k - at
      BY <1>0, <2>0, <2>a
    <3>3. r[k + 2] = v[(k + 2) - Len(w)]
      BY <2>b, <3>2
    <3> QED BY <1>2, <3>1, <3>2, <3>3
  <2> QED BY <2>1, <2>2, <2>3
<1>6. WithLimitOffset(q) = r
  BY DEF WithLimitOffset, at, u, v, w
<1> HIDE DEF r
<1>9. at + 1 \in 1..(at + 2) /\ at + 2 \in 1..(at + 2) /\ \A k \in 1..at : k \in 1..(at + 2)
  BY <1>0
<1>7. \A k \in 1..at : r[k] = q[k]
  BY <1>4, <1>5, <1>9
<1>8. r[at + 1] = " " /\ r[at + 2] = "x"
  BY <1>4, <1>5, <1>9
<1> QED BY <1>5, <1>6, <1>7, <1>8 DEF at

\* The automaton looks at a character and the two behind it.
LEMMA StepLocal ==
  ASSUME NEW q, NEW r, NEW i, NEW j, NEW state, r[j] = q[i],
         Char(r, j + 1) = Char(q, i + 1), Char(r, j + 2) = Char(q, i + 2)
  PROVE  LexerStep(r, j, state) = LexerStep(q, i, state)
BY DEF LexerStep, Opens

\* A text that parses does not end in "-" behind which the clause would make a
\* comment.
EndsInCode(q) ==
  \E i \in Significant(q) : q[i] # "-" /\ \A j \in Significant(q) : j =< i

\* The clause is read as code, the last of the query, and all else as before.
THEOREM ClauseLands ==
  ASSUME NEW q \in Seq(Characters), Closed(q), EndsInCode(q)
  PROVE  ClauseIsLastCode(q)
<1> DEFINE at == CodeEnd(q)
           r == WithLimitOffset(q)
           s == LexerState(q)
           R == LexerState(r)
<1>0. Len(q) \in Nat
  OBVIOUS
<1>1. Runs(q, s) /\ s[Len(q)] \in {"code", "line"}
  BY <1>0, LexerRuns DEF Closed
<1>2. Significant(q) = {i \in 1..Len(q) : Marked(q, s, i)}
  <2>1. DOMAIN q = 1..Len(q)
    BY LenProperties
  <2> QED BY <2>1 DEF Significant, Marked, InLiteral
<1> HIDE DEF s
<1>3. /\ at \in 0..Len(q) /\ s[at] = "code"
      /\ at > 0 => Marked(q, s, at)
      /\ \A k \in (at + 1)..Len(q) : ~Marked(q, s, k)
  BY <1>1, CodeEndFacts
<1>4. /\ r \in Seq(Characters) /\ Len(r) = Len(q) + 2
      /\ \A k \in 1..at : r[k] = q[k]
      /\ r[at + 1] = " " /\ r[at + 2] = "x"
      /\ \A k \in (at + 1)..Len(q) : r[k + 2] = q[k]
  BY <1>3, WithClause
<1> HIDE DEF at, r
<1>a. Len(q) \in Nat /\ at \in 0..Len(q) /\ Len(r) = Len(q) + 2
  BY <1>0, <1>3, <1>4
<1>b. r \in Seq(Characters)
  BY <1>4
<1>5. Runs(r, R)
  <2>1. Len(r) \in Nat
    BY <1>a
  <2> QED BY <2>1, LexerRuns
<1>6. Significant(r) = {i \in 1..Len(r) : Marked(r, R, i)}
  <2>1. DOMAIN r = 1..Len(r)
    BY <1>4, LenProperties
  <2> QED BY <2>1 DEF Significant, Marked, InLiteral
<1> HIDE DEF R
<1>7. at \in 1..Len(q) /\ q[at] # "-"
  <2>1. PICK i \in Significant(q) : q[i] # "-" /\ \A j \in Significant(q) : j =< i
    BY DEF EndsInCode
  <2>2. i \in 1..Len(q) /\ Marked(q, s, i)
    BY <1>2, <2>1
  <2>3. i =< at
    <3>1. i \notin (at + 1)..Len(q)
      BY <1>3, <2>2
    <3> QED BY <1>a, <2>2, <3>1
  <2>4. at \in 1..Len(q)
    BY <1>a, <2>2, <2>3
  <2>5. at \in Significant(q)
    <3>1. at > 0
      BY <1>a, <2>4
    <3> QED BY <1>2, <1>3, <2>4, <3>1
  <2>6. i = at
    BY <1>0, <2>1, <2>2, <2>3, <2>4, <2>5
  <2> QED BY <2>1, <2>4, <2>6
\* Up to the clause the automaton does what it did.
<1>8. \A k \in 0..at : R[k] = s[k]
  <2> DEFINE T == {k \in 0..at : R[k] = s[k]}
  <2>1. ASSUME NEW k \in 0..at, \A m \in 0..(k - 1) : m \in T PROVE k \in T
    <3>1. CASE k = 0
      BY <1>1, <1>5, <3>1 DEF Runs
    <3>2. CASE k # 0
      <4>1. /\ k \in 1..Len(q) /\ k \in 1..Len(r) /\ k - 1 \in 0..(k - 1) /\ k \in 1..at
            /\ k + 1 \in Int /\ k + 2 \in Int
        BY <1>a, <3>2
      <4>2. /\ s[k] = LexerStep(q, k, s[k - 1]) /\ s[k - 1] \in States
            /\ R[k] = LexerStep(r, k, s[k - 1]) /\ r[k] = q[k]
        <5>1. R[k - 1] = s[k - 1]
          BY <2>1, <4>1
        <5>2. k - 1 \in 0..Len(q)
          BY <1>0, <4>1
        <5> QED BY <1>1, <1>4, <1>5, <4>1, <5>1, <5>2 DEF Runs
      <4>3. CASE k + 2 =< at
        <5>1. /\ k + 1 \in 1..Len(q) /\ k + 2 \in 1..Len(q) /\ k + 1 \in 1..at /\ k + 2 \in 1..at
              /\ k + 1 \in 1..Len(r) /\ k + 2 \in 1..Len(r)
          BY <1>a, <4>1, <4>3
        <5>2. Char(r, k + 1) = Char(q, k + 1) /\ Char(r, k + 2) = Char(q, k + 2)
          <6>1. Char(r, k + 1) = r[k + 1] /\ Char(r, k + 2) = r[k + 2]
            BY <1>b, <5>1, PastEnd
          <6>2. Char(q, k + 1) = q[k + 1] /\ Char(q, k + 2) = q[k + 2]
            BY <5>1, PastEnd
          <6> QED BY <1>4, <5>1, <6>1, <6>2
        <5> QED BY <4>2, <5>2, StepLocal
      <4>4. CASE k + 1 = at
        <5>1. k + 1 \in 1..Len(q) /\ k + 1 \in 1..at /\ k + 1 \in 1..Len(r)
          BY <1>a, <4>1, <4>4
        <5>2. Char(r, k + 1) = Char(q, k + 1) /\ Char(q, k + 1) # "-"
          <6>1. Char(r, k + 1) = r[k + 1] /\ Char(q, k + 1) = q[k + 1]
            BY <1>4, <5>1, PastEnd
          <6> QED BY <1>4, <1>7, <4>4, <5>1, <6>1
        <5> QED BY <4>2, <5>2 DEF LexerStep, Opens
      <4>5. CASE k = at
        <5>1. Char(r, k + 1) = " "
          <6>1. k + 1 \in 1..Len(r)
            BY <1>a, <4>5
          <6> QED BY <1>4, <4>5, <6>1, PastEnd
        <5>2. s[k] = "code" /\ q[k] # "-"
          BY <1>3, <1>7, <4>5
        <5>3. LexerStep(q, k, s[k - 1]) = "code"
          BY <4>2, <5>2
        <5>4. LexerStep(r, k, s[k - 1]) = "code"
          <6>1. CASE s[k - 1] = "code"
            <7>1. Opens(q, k) = "code"
              BY <5>3, <6>1 DEF LexerStep
            <7>2. q[k] # "'" /\ q[k] # "tick" /\ q[k] # "#"
              BY <7>1 DEF Opens
            <7>3. Opens(r, k) = "code"
              BY <4>2, <5>1, <5>2, <7>2 DEF Opens
            <7> QED BY <6>1, <7>3 DEF LexerStep
          <6>2. CASE s[k - 1] = "block"
            BY <5>3, <6>2 DEF LexerStep
          <6>3. CASE s[k - 1] \notin {"code", "block"}
            BY <4>2, <5>3, <6>3 DEF LexerStep, States
          <6> QED BY <6>1, <6>2, <6>3
        <5> QED BY <4>2, <5>2, <5>4
      <4>6. k + 2 =< at \/ k + 1 = at \/ k = at
        BY <1>a, <4>1
      <4> QED BY <4>3, <4>4, <4>5, <4>6
    <3> QED BY <3>1, <3>2
  <2>2. 0 \in Int /\ at \in Int
    BY <1>a
  <2>3. 0..at \subseteq T
    <3> HIDE DEF T
    <3> QED BY <2>1, <2>2, Upward
  <2> QED BY <2>3
\* The clause is code.
<1>9. R[at + 1] = "code" /\ R[at + 2] = "code"
  <2>1. /\ at + 1 \in 1..Len(r) /\ at + 2 \in 1..Len(r) /\ at \in 0..at
        /\ (at + 1) - 1 = at /\ (at + 2) - 1 = at + 1
    BY <1>a
  <2>2. R[at] = "code"
    BY <1>3, <1>8, <2>1
  <2>3. R[at + 1] = LexerStep(r, at + 1, "code")
    BY <1>5, <2>1, <2>2 DEF Runs
  <2>4. R[at + 1] = "code"
    BY <1>4, <2>3 DEF LexerStep, Opens
  <2>5. R[at + 2] = LexerStep(r, at + 2, "code")
    BY <1>5, <2>1, <2>4 DEF Runs
  <2>6. R[at + 2] = "code"
    BY <1>4, <2>5 DEF LexerStep, Opens
  <2> QED BY <2>4, <2>6
\* And behind it the automaton is where it was.
<1>10. \A k \in at..Len(q) : R[k + 2] = s[k]
  <2> DEFINE T == {k \in at..Len(q) : R[k + 2] = s[k]}
  <2>1. ASSUME NEW k \in at..Len(q), \A m \in at..(k - 1) : m \in T PROVE k \in T
    <3>1. CASE k = at
      BY <1>3, <1>9, <3>1
    <3>2. CASE k # at
      <4>1. /\ k \in 1..Len(q) /\ k + 2 \in 1..Len(r) /\ k - 1 \in at..(k - 1)
            /\ (k - 1) + 2 = (k + 2) - 1 /\ k \in (at + 1)..Len(q)
        BY <1>a, <3>2
      <4>2. s[k] = LexerStep(q, k, s[k - 1])
        BY <1>1, <4>1 DEF Runs
      <4>3. R[k + 2] = LexerStep(r, k + 2, R[(k + 2) - 1])
        BY <1>5, <4>1 DEF Runs
      <4>4. R[(k + 2) - 1] = s[k - 1]
        BY <2>1, <4>1
      <4>5. ASSUME NEW m \in {1, 2} PROVE Char(r, (k + 2) + m) = Char(q, k + m)
        <5>1. CASE k + m =< Len(q)
          <6>1. /\ k + m \in (at + 1)..Len(q) /\ k + m \in 1..Len(q)
                /\ (k + 2) + m \in 1..Len(r) /\ (k + 2) + m = (k + m) + 2
            BY <1>a, <4>1, <5>1
          <6>2. Char(r, (k + 2) + m) = r[(k + 2) + m]
            BY <1>b, <6>1, PastEnd
          <6>3. Char(q, k + m) = q[k + m]
            BY <6>1, PastEnd
          <6> QED BY <1>4, <6>1, <6>2, <6>3
        <5>2. CASE ~(k + m =< Len(q))
          <6>1. /\ k + m \in Int /\ k + m > Len(q)
                /\ (k + 2) + m \in Int /\ (k + 2) + m > Len(r)
            BY <1>a, <4>1, <5>2
          <6> QED BY <1>4, <1>b, <6>1, PastEnd
        <5> QED BY <5>1, <5>2
      <4>6. r[k + 2] = q[k]
        BY <1>4, <4>1
      <4>7. LexerStep(r, k + 2, s[k - 1]) = LexerStep(q, k, s[k - 1])
        BY <4>5, <4>6, StepLocal
      <4> QED BY <4>2, <4>3, <4>4, <4>7
    <3> QED BY <3>1, <3>2
  <2>2. at \in Int /\ Len(q) \in Int
    BY <1>a
  <2>3. at..Len(q) \subseteq T
    <3> HIDE DEF T
    <3> QED BY <2>1, <2>2, Upward
  <2> QED BY <2>3
\* So the same characters are code, and the clause.
<1>11. \A k \in 1..at : Marked(r, R, k) <=> Marked(q, s, k)
  <2>1. ASSUME NEW k \in 1..at PROVE R[k] = s[k] /\ R[k - 1] = s[k - 1] /\ r[k] = q[k]
    <3>1. k \in 0..at /\ k - 1 \in 0..at
      BY <1>a
    <3> QED BY <1>4, <1>8, <3>1
  <2> QED BY <2>1 DEF Marked
<1>12. ~Marked(r, R, at + 1)
  <2>1. R[(at + 1) - 1] = "code"
    <3>1. (at + 1) - 1 = at /\ at \in 0..at
      BY <1>a
    <3> QED BY <1>3, <1>8, <3>1
  <2> QED BY <1>4, <1>9, <2>1 DEF Marked, InLiteral, Blank
<1>13. Marked(r, R, at + 2)
  <2>1. (at + 2) - 1 = at + 1
    BY <1>a
  <2> QED BY <1>4, <1>9, <2>1 DEF Marked, InLiteral, Blank
<1>14. ASSUME NEW k \in (at + 3)..Len(r) PROVE ~Marked(r, R, k)
  <2>1. /\ k - 2 \in (at + 1)..Len(q) /\ (k - 2) + 2 = k /\ k - 2 \in at..Len(q)
        /\ (k - 2) - 1 \in at..Len(q) /\ ((k - 2) - 1) + 2 = k - 1
    BY <1>a
  <2>2. R[k] = s[k - 2] /\ R[k - 1] = s[(k - 2) - 1] /\ r[k] = q[k - 2]
    BY <1>4, <1>10, <2>1
  <2>3. ~Marked(q, s, k - 2)
    BY <1>3, <2>1
  <2> QED BY <2>2, <2>3 DEF Marked
<1>15. Significant(q) \subseteq 1..at
  <2>1. ASSUME NEW i \in 1..Len(q), Marked(q, s, i) PROVE i \in 1..at
    <3>1. i \notin (at + 1)..Len(q)
      BY <1>3, <2>1
    <3> QED BY <1>a, <3>1
  <2> QED BY <1>2, <2>1
<1>16. Significant(r) = Significant(q) \cup {at + 2}
  <2>1. ASSUME NEW k \in Significant(r) PROVE k \in Significant(q) \cup {at + 2}
    <3>1. k \in 1..Len(r) /\ Marked(r, R, k)
      BY <1>6
    <3>2. k \in 1..at \/ k = at + 2
      <4>1. k # at + 1 /\ k \notin (at + 3)..Len(r)
        BY <1>12, <1>14, <3>1
      <4> QED BY <1>a, <3>1, <4>1
    <3>3. k \in 1..at => k \in 1..Len(q)
      BY <1>a
    <3> QED BY <1>2, <1>11, <3>1, <3>2, <3>3
  <2>2. ASSUME NEW k \in Significant(q) PROVE k \in Significant(r)
    <3>1. k \in 1..at /\ Marked(q, s, k)
      BY <1>2, <1>15
    <3>2. k \in 1..Len(r)
      BY <1>a, <3>1
    <3> QED BY <1>6, <1>11, <3>1, <3>2
  <2>3. at + 2 \in Significant(r)
    <3>1. at + 2 \in 1..Len(r)
      BY <1>a
    <3> QED BY <1>6, <1>13, <3>1
  <2> QED BY <2>1, <2>2, <2>3
<1>17. Len(Clause) = 2
  BY DEF Clause
<1>18. \A i \in Significant(q) : i =< at /\ ~(i > at)
  BY <1>a, <1>15
<1>19. {IF i > at THEN i + Len(Clause) ELSE i : i \in Significant(q)} = Significant(q)
  BY <1>18
<1> QED BY <1>16, <1>17, <1>18, <1>19 DEF ClauseIsLastCode, at, r

=============================================================================
