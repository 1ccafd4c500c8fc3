------------------------------ MODULE SqlText ------------------------------
(***************************************************************************)
(* Where the code of a query ends (internal/sqlguard/rewrite.go): codeEnd, *)
(* a lexer of its own next to the parser's, decides where LIMIT goes.      *)
(*                                                                         *)
(* A text is a sequence of characters.  "x" stands for every character     *)
(* without a meaning to the lexer, " " for the blanks, "nl" for newline,   *)
(* "tick" for the backquote, "bs" for the backslash; a double quote is     *)
(* treated like "'".  Indices start at 1, so an offset of the code, the    *)
(* number of characters before it, is the index of the last of these.      *)
(***************************************************************************)
EXTENDS Integers, Sequences

Characters == {"x", " ", "nl", ";", "'", "tick", "bs", "-", "#", "/", "*"}
Blank == {" ", "nl"}

\* The character at index i, or "" past the end.
Char(q, i) == IF i \in DOMAIN q THEN q[i] ELSE ""

\* "--" opens a comment only before a blank or the end.
IsLineCommentDash(q, i) ==
  /\ Char(q, i) = "-" /\ Char(q, i + 1) = "-"
  /\ Char(q, i + 2) \in Blank \cup {""}

\* Where a loop that looks for one of S stops.
FirstOf(S, otherwise) == IF S = {} THEN otherwise
                         ELSE CHOOSE j \in S : \A k \in S : j =< k

\* The index after a comment or literal that starts at i.
SkipLineComment(q, i) ==
  FirstOf({j \in i..Len(q) : q[j] = "nl"}, Len(q)) + 1

SkipBlockComment(q, i) ==
  FirstOf({j \in (i + 2)..(Len(q) - 1) : q[j] = "*" /\ q[j + 1] = "/"}, Len(q) - 1) + 2

\* A doubled quote and, in '...', an escaped character do not close the literal.
SkipQuoted(q, i, backslash) ==
  LET f[j \in i..(Len(q) + 2)] ==
        CASE j > Len(q) -> Len(q) + 1
          [] backslash /\ Char(q, j) = "bs" -> f[j + 2]
          [] Char(q, j) = q[i] -> IF Char(q, j + 1) = q[i] THEN f[j + 2] ELSE j + 1
          [] OTHER -> f[j + 1]
  IN  f[i + 1]

\* Fault: a backslash does not escape the quote.
NextLexemeUnescaped(q, i) ==
  CASE q[i] \in {"'", "tick"} -> [code |-> TRUE, after |-> SkipQuoted(q, i, FALSE)]
    [] q[i] = "#" \/ IsLineCommentDash(q, i)
         -> [code |-> FALSE, after |-> SkipLineComment(q, i)]
    [] q[i] = "/" /\ Char(q, i + 1) = "*"
         -> [code |-> FALSE, after |-> SkipBlockComment(q, i)]
    [] OTHER -> [code |-> q[i] \notin Blank \cup {";"}, after |-> i + 1]

\* One round of the loop: is what starts at i code, and where does it end.
NextLexeme(q, i) ==
  CASE q[i] \in {"'", "tick"} -> [code |-> TRUE, after |-> SkipQuoted(q, i, q[i] = "'")]
    [] q[i] = "#" \/ IsLineCommentDash(q, i)
         -> [code |-> FALSE, after |-> SkipLineComment(q, i)]
    [] q[i] = "/" /\ Char(q, i + 1) = "*"
         -> [code |-> FALSE, after |-> SkipBlockComment(q, i)]
    [] OTHER -> [code |-> q[i] \notin Blank \cup {";"}, after |-> i + 1]

\* The loop from i on: end is set by the last lexeme that is code.
CodeEnd(q) ==
  LET end[i \in 1..(Len(q) + 1)] ==
        IF i > Len(q) THEN 0
        ELSE LET lexeme == NextLexeme(q, i)
                 later == end[lexeme.after]
             IN  CASE later > 0 -> later
                   [] later = 0 /\ lexeme.code -> lexeme.after - 1
                   [] OTHER -> 0
  IN  end[1]

\* The clause is one character of code after a blank.
Clause == <<" ", "x">>

WithLimitOffset(q) ==
  LET at == CodeEnd(q)
  IN  SubSeq(q, 1, at) \o Clause \o SubSeq(q, at + 1, Len(q))

-----------------------------------------------------------------------------
\* The lexer of the parser, as an automaton that reads one character at a time:
\* what it is in after each prefix of q.  A doubled quote closes a literal and
\* opens the next.  Of the definitions above only Char is used.
Opens(q, i) ==
  CASE q[i] = "'" -> "single"
    [] q[i] = "tick" -> "back"
    [] q[i] = "#" -> "line"
    [] q[i] = "-" /\ Char(q, i + 1) = "-" /\ Char(q, i + 2) \in {" ", "nl", ""} -> "line"
    [] q[i] = "/" /\ Char(q, i + 1) = "*" -> "slash"
    [] OTHER -> "code"

LexerStep(q, i, state) ==
  CASE state = "code" -> Opens(q, i)
    [] state = "single" ->
         CASE q[i] = "'" -> "code" [] q[i] = "bs" -> "escape" [] OTHER -> "single"
    [] state = "escape" -> "single"
    [] state = "back" -> IF q[i] = "tick" THEN "code" ELSE "back"
    [] state = "line" -> IF q[i] = "nl" THEN "code" ELSE "line"
    [] state = "slash" -> "block"
    [] state = "block" -> IF q[i] = "*" /\ Char(q, i + 1) = "/" THEN "star" ELSE "block"
    [] state = "star" -> "code"

LexerState(q) ==
  LET state[i \in 0..Len(q)] ==
        IF i = 0 THEN "code" ELSE LexerStep(q, i, state[i - 1])
  IN  state

\* The text ends outside literals and block comments: no other one parses.
Closed(q) == LexerState(q)[Len(q)] \in {"code", "line"}

\* Characters the parser would not skip.
Significant(q) ==
  LET state == LexerState(q)
      literal == {"single", "escape", "back"}
  IN  {i \in DOMAIN q : \/ state[i] \in literal \/ state[i - 1] \in literal
                        \/ /\ state[i] = "code" /\ state[i - 1] = "code"
                           /\ q[i] \notin Blank \cup {";"}}

\* The clause is read as code, the last of the query, and nothing else is read
\* otherwise than before.
ClauseIsLastCode(q) ==
  LET at == CodeEnd(q)
      r == WithLimitOffset(q)
      Moved(i) == IF i > at THEN i + Len(Clause) ELSE i
  IN  Significant(r) = {Moved(i) : i \in Significant(q)} \cup {at + Len(Clause)}
      /\ \A i \in Significant(q) : i =< at

=============================================================================
