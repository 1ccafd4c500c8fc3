----------------------------- MODULE ExecuteSql -----------------------------
(***************************************************************************)
(* The tool execute_sql (internal/tools/execute_sql.go): one call from the *)
(* query to the answer, and a client that walks a result page by page the  *)
(* way the README tells it to.                                             *)
(*                                                                         *)
(* The client's query would return the rows 1..Total.  Metabase applies    *)
(* the query's LIMIT and OFFSET and then the limit of the call.  A result  *)
(* is returned inline or put into the spool, which may fail, and whose     *)
(* files may go at any time (Spool says when).                             *)
(***************************************************************************)
EXTENDS SqlText, FiniteSets

CONSTANTS
  Texts,        \* texts of queries without a LIMIT
  Limits,       \* numbers a query may have after LIMIT; -1 for a parameter
  Offsets,      \* numbers a query may have after OFFSET
  RowLimits,    \* values of the argument row_limit; 0 if it is missing
  Columns,      \* column names a result may have
  Total,
  DefaultRowLimit, MaxRowLimit,
  InlineMaxBytes,   \* in rows; 0: results go inline unless asked otherwise
  MaxInt        \* the largest int64

ASSUME QueryAssumption ==
  /\ Texts \subseteq Seq(Characters)
  /\ Limits \subseteq Int \ {0} /\ Offsets \subseteq Nat /\ RowLimits \subseteq Int
  /\ Total \in Nat /\ InlineMaxBytes \in Nat /\ MaxInt \in Nat
  /\ DefaultRowLimit \in 1..MaxRowLimit /\ MaxRowLimit \in 1..MaxInt

VARIABLES
  autoLimit, spool,     \* configuration; spool: is there one
  call,                 \* the call that is handled
  answer,               \* what it returns
  file,                 \* the rows in the file of the last spooled result
  walk                  \* the client

vars == <<autoLimit, spool, call, answer, file, walk>>

\* No rows field, as opposed to no rows.
None == {0}
\* The LIMIT and OFFSET a query ends with.
NoPage == [hasLimit |-> FALSE, limit |-> 0, offset |-> 0]
Idle == [pc |-> "idle", text |-> <<>>, page |-> NoPage, rowLimit |-> 0,
         rows |-> {}]
NoAnswer == [rows |-> None, resource |-> FALSE, nextOffset |-> {},
             truncated |-> FALSE, warnings |-> {}, names |-> <<>>]

\* first: the page to begin with; page: the page to ask for; seen: rows received;
\* cut: an answer was marked truncated.
Init == /\ autoLimit \in BOOLEAN /\ spool \in BOOLEAN
        /\ call = Idle /\ answer = NoAnswer /\ file = None
        /\ \E first \in {NoPage} \cup [hasLimit : {TRUE}, limit : Limits, offset : Offsets] :
             walk = [first |-> first, page |-> first, seen |-> {}, cut |-> FALSE, ended |-> FALSE]

-----------------------------------------------------------------------------
\* Arithmetic on int64 wraps.
Int64(n) == IF n > MaxInt THEN n - 2 * (MaxInt + 1) ELSE n

\* literalInt64: parameters, and literals beyond int64, have no value.
Literal(n) == IF n < 0 \/ n > MaxInt THEN -1 ELSE n

\* Fault: no upper bound.
NormalizeLimitUncapped(n) == IF n =< 0 THEN DefaultRowLimit ELSE n

NormalizeLimit(n) == CASE n =< 0 -> DefaultRowLimit
                       [] n > MaxRowLimit -> MaxRowLimit
                       [] OTHER -> n

Start(page) == IF Literal(page.offset) < 0 THEN 0 ELSE Literal(page.offset)

\* Fault: one row is skipped.
NextOffsetLate(page) ==
  IF ~page.hasLimit \/ Literal(page.limit) < 0 THEN {}
  ELSE {Int64(Start(page) + page.limit + 1)}

\* Fault: the next page is counted from the start of the result.
NextOffsetAbsolute(page) ==
  IF ~page.hasLimit \/ Literal(page.limit) < 0 THEN {} ELSE {page.limit}

\* At most one number.
NextOffset(page) ==
  IF ~page.hasLimit \/ Literal(page.limit) < 0 THEN {}
  ELSE {Int64(Start(page) + page.limit)}

\* Fault: the first column of a name is the only one counted.
UniquifySecond(names) ==
  [i \in DOMAIN names |->
     IF \E j \in 1..(i - 1) : names[j] = names[i] THEN Append(names[i], 2) ELSE names[i]]

\* uniquify: the n-th column of a name gets the suffix _n.  A name is the
\* sequence of its parts between underscores.
Uniquify(names) ==
  [i \in DOMAIN names |->
     LET count == Cardinality({j \in 1..(i - 1) : names[j] = names[i]})
     IN  IF count = 0 THEN names[i] ELSE Append(names[i], count + 1)]

\* The rows Metabase has for a page, before the limit of the call.
RowsOf(page) ==
  LET past == IF page.hasLimit THEN page.offset ELSE 0
  IN  {r \in 1..Total : /\ r > past
                        /\ page.hasLimit => r =< past + page.limit}

\* The keys of the values in a row of the answer.
Keys == Uniquify(answer.names)

FirstRows(S, n) == {r \in S : Cardinality({s \in S : s =< r}) =< n}

-----------------------------------------------------------------------------
\* The client sends a query.  A LIMIT that is there is never touched, so the text
\* matters only without one.  Arguments are drawn where they are first looked at.
Submit ==
  /\ call.pc = "idle" /\ ~walk.ended
  /\ \E t \in IF walk.page.hasLimit THEN {<<"x">>} ELSE Texts :
       call' = [Idle EXCEPT !.pc = "inspect", !.text = t, !.page = walk.page]
  /\ answer' = NoAnswer
  /\ UNCHANGED <<autoLimit, spool, file, walk>>

\* The arguments are refused, or the guard refuses the query.
Refuse ==
  /\ call.pc = "inspect"
  /\ call' = Idle
  /\ UNCHANGED <<autoLimit, spool, answer, file, walk>>

\* The parser: no query ends within a literal or a block comment, or in "-".
Parses(q) ==
  /\ Closed(q)
  /\ \E i \in Significant(q) : q[i] # "-" /\ \A j \in Significant(q) : j =< i

\* The request carries the query, and limit as its constraint.
Sends(page, limit) ==
  call' = [call EXCEPT !.pc = "sent", !.text = <<>>, !.page = page, !.rowLimit = limit]

SendAsIs ==
  /\ call.pc = "inspect" /\ Parses(call.text)
  /\ call.page.hasLimit \/ ~autoLimit
  /\ \E n \in RowLimits : Sends(call.page, NormalizeLimit(n))
  /\ answer' = [NoAnswer EXCEPT !.warnings = IF call.page.hasLimit THEN {} ELSE {"limit"}]
  /\ UNCHANGED <<autoLimit, spool, file, walk>>

\* maybeAppendLimit: the original is sent if the rewritten query does not parse.
AppendLimit ==
  /\ call.pc = "inspect" /\ Parses(call.text)
  /\ ~call.page.hasLimit /\ autoLimit
  /\ \E n \in RowLimits :
       LET limit == NormalizeLimit(n) IN
       \/ Sends([hasLimit |-> TRUE, limit |-> limit, offset |-> 0], limit)
       \/ Sends(NoPage, limit)
  /\ answer' = [NoAnswer EXCEPT !.warnings = {"limit"}]
  /\ UNCHANGED <<autoLimit, spool, file, walk>>

QueryFails ==
  /\ call.pc = "sent"
  /\ call' = Idle /\ answer' = NoAnswer
  /\ UNCHANGED <<autoLimit, spool, file, walk>>

\* data.rows_truncated: a number, true, or nothing.  A result of exactly the limit
\* of the call may be marked although nothing is missing.
Marks(rows) ==
  {m \in {"nothing", "number", "true"} :
     IF m = "nothing" THEN rows = RowsOf(call.page)
     ELSE rows # RowsOf(call.page) \/ Cardinality(rows) = call.rowLimit}

\* Fault: only a number counts as a mark.
TruncatedNumber(mark) == mark = "number"

Truncated(mark) == mark \in {"number", "true"}

\* Metabase answers, and Rows and the handler fill in the meta data.  Nothing has
\* bound the values of parameters, so a query with one does not run.
Rows ==
  LET rows == FirstRows(RowsOf(call.page), call.rowLimit) IN
  /\ call.pc = "sent"
  /\ call.page.limit >= 0
  /\ \E mark \in Marks(rows), names \in Columns :
       /\ call' = [call EXCEPT !.pc = "rows", !.rows = rows]
       /\ answer' = [answer EXCEPT
            !.nextOffset = NextOffset(call.page),
            !.truncated = Truncated(mark),
            !.warnings = IF Truncated(mark) THEN @ \cup {"truncated"} ELSE @,
            !.names = names]
  /\ UNCHANGED <<autoLimit, spool, file, walk>>

WantFile(delivery) ==
  \/ delivery = "file"
  \/ /\ delivery = "auto" /\ InlineMaxBytes > 0
     /\ Cardinality(call.rows) > InlineMaxBytes

Inline(warnings) ==
  /\ answer' = [answer EXCEPT !.rows = call.rows, !.warnings = @ \cup warnings]
  /\ UNCHANGED file

\* Without a spool only an explicit "file" is answered with a warning.
Deliver(delivery) ==
  /\ call.pc = "rows"
  /\ \/ /\ ~WantFile(delivery)
        /\ Inline({})
     \/ /\ WantFile(delivery) /\ ~spool
        /\ Inline(IF delivery = "file" THEN {"spool"} ELSE {})
     \/ /\ WantFile(delivery) /\ spool
        /\ file' = call.rows
        /\ answer' = [answer EXCEPT !.resource = TRUE]
  /\ call' = [call EXCEPT !.pc = "answered"]
  /\ UNCHANGED <<autoLimit, spool, walk>>

\* Fault: a result that could not be spooled is answered like one that was.
DeliverFallbackEmpty(delivery) ==
  /\ call.pc = "rows"
  /\ WantFile(delivery) /\ spool
  /\ answer' = [answer EXCEPT !.resource = TRUE]
  /\ call' = [call EXCEPT !.pc = "answered"]
  /\ UNCHANGED <<autoLimit, spool, file, walk>>

\* Put fails: the rows go inline.
DeliverFallback(delivery) ==
  /\ call.pc = "rows"
  /\ WantFile(delivery) /\ spool
  /\ Inline({"spool"})
  /\ call' = [call EXCEPT !.pc = "answered"]
  /\ UNCHANGED <<autoLimit, spool, walk>>

\* The spool removes the file.
Drop ==
  /\ file # None
  /\ file' = None
  /\ UNCHANGED <<autoLimit, spool, call, answer, walk>>

-----------------------------------------------------------------------------
\* The client adds a page to what it has.  It goes on at next_offset if the page
\* was full (README.md:31).
Take(rows) ==
  LET page == call.page
      full == page.hasLimit /\ Cardinality(rows) = page.limit
      more == full /\ answer.nextOffset # {}
  IN
  /\ call.pc = "answered"
  /\ walk' = [walk EXCEPT
       !.seen = @ \cup rows,
       !.cut = @ \/ answer.truncated,
       !.ended = ~more,
       !.page = IF more THEN [page EXCEPT !.offset = CHOOSE n \in answer.nextOffset : TRUE] ELSE @]
  /\ call' = Idle
  /\ UNCHANGED <<autoLimit, spool, answer, file>>

TakeInline == answer.rows # None /\ Take(answer.rows)

ReadResource == answer.resource /\ file # None /\ Take(file)

\* The resource is not found: the client asks for the page again.
ReadMisses ==
  /\ call.pc = "answered" /\ answer.resource /\ file = None
  /\ call' = Idle
  /\ UNCHANGED <<autoLimit, spool, answer, file, walk>>

Next == \/ Submit \/ Refuse \/ SendAsIs \/ AppendLimit
        \/ QueryFails \/ Rows
        \/ \E d \in {"auto", "inline", "file"} : Deliver(d) \/ DeliverFallback(d)
        \/ Drop
        \/ TakeInline \/ ReadResource \/ ReadMisses

Spec == Init /\ [][Next]_vars

-----------------------------------------------------------------------------
Pages == [hasLimit : BOOLEAN, limit : Int, offset : Int]
Queries == Texts \cup {<<>>, <<"x">>}
Calls == [pc : {"idle", "inspect", "sent", "rows", "answered"},
          text : Queries, page : Pages,
          rowLimit : 0..MaxRowLimit, rows : SUBSET (1..Total)]
Answers == [rows : {None} \cup SUBSET (1..Total), resource : BOOLEAN,
            nextOffset : SUBSET Int, truncated : BOOLEAN,
            warnings : SUBSET {"limit", "truncated", "spool"},
            names : Columns \cup {<<>>}]
Walks == [first : Pages, page : Pages, seen : SUBSET (1..Total),
          cut : BOOLEAN, ended : BOOLEAN]

\* Metabase is always given a limit, and at most MaxRowLimit.
TypeOK ==
  /\ autoLimit \in BOOLEAN /\ spool \in BOOLEAN
  /\ call \in Calls /\ answer \in Answers /\ walk \in Walks
  /\ call.pc \in {"sent", "rows", "answered"} => call.rowLimit # 0
  /\ file \in {None} \cup SUBSET (1..Total)

\* Where LIMIT is appended it is read as code, the last of the query, and changes
\* the reading of nothing else: not swallowed by a comment or a literal, not
\* behind a ';'.  The server's lexer agrees with the parser's.
ClauseGoesLast ==
  call.pc = "inspect" /\ Parses(call.text) => ClauseIsLastCode(call.text)

\* What Metabase returned reaches the client once: inline or in the file, never
\* both, never neither, whether or not the spool works; and the file is the one
\* of this result.
AnswerIsWhole ==
  call.pc = "answered" =>
    \/ answer.rows = call.rows /\ ~answer.resource
    \/ answer.rows = None /\ answer.resource /\ file \in {call.rows, None}

\* A client that follows next_offset while pages are full has every row when it
\* stops, unless an answer was marked truncated: through appended limits, limits
\* of its own above the limit of the call, changing limits, and failing spools.
WalkIsComplete ==
  walk.ended /\ ~walk.cut => walk.seen = {r \in 1..Total : r > walk.first.offset}

\* And it is given no row twice.
PagesDisjoint ==
  [][\A r \in walk.seen : ~(TakeInline /\ r \in answer.rows)
                          /\ ~(ReadResource /\ r \in file)]_vars

\* A column is called like the key of another, up to the number in it.
Suffixed(names) ==
  \E i, j \in DOMAIN names : \E n \in 2..Len(names) : names[i] = Append(names[j], n)

\* Columns that share a name keep apart in a row, as long as no column already
\* has such a suffix: no value overwrites another.
KeysKeepApart ==
  ~Suffixed(answer.names) =>
    \A i, j \in DOMAIN answer.names : Keys[i] = Keys[j] => i = j

=============================================================================
