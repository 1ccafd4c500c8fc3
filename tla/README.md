# A TLA+ model of metabase-mcp

metabase-mcp is an MCP server: a model's tool calls arrive over stdio, and the
server runs them as REST requests against a Metabase instance. Every tool call
is a goroutine. What they share, and what this project is about, is

- one **credential** for Metabase, obtained and replaced behind a mutex by one
  of two providers (a password session, or OAuth tokens that also live in a
  file), while requests that carry the old one are still under way;
- one **start**, in which configuration, saved record, authorization server,
  browser and user decide whether the server serves at all, and as whom;
- one **spool** of result files with a size limit and a lifetime, written, read,
  evicted and closed concurrently;
- one **metadata cache**, which concurrent list tools read and fill.

What each call does by itself, and what is hard to get right in it, is the way of
a **query** from the text to the answer, page after page, and of a database
**schema** from Metabase's metadata to what the model is shown.

The modules translate the Go code under `internal/`. Comments in the modules name
the function an action stands for; `PROJECT.json` maps each definition to its
lines.

## Inventory

| Component | State | Operations | Interacts with | What is hard | What makes it correct |
|---|---|---|---|---|---|
| Request loop (`metabase/client.go`, `authprovider.go`) | none of its own; per call: attempt, credential | `doJSON`, `roundTrip`, `classify401` | asks a provider (`apply`), complains to it (`invalidate`), sends to Metabase | late 401s, retry, cancellation | the retry never carries the refused credential; a 401 that is not about expiry costs nothing |
| Password provider (`metabase/session.go`) | `cached`, `gen`, `negCacheUntil`, `mu` | `apply`, `ensureSessionLocked`, `doLogin`, `invalidate` | the loop; Metabase `/api/session` | mutex held over network and sleep; burst of calls; ban | one login at a time, no login under the ban, only refused sessions dropped, every call returns |
| OAuth provider (`oauth_provider.go`, `oauth/source.go`, `oauth/store.go`) | `tok`, `gen`, `mu`, the token file; the server's current refresh token | `Token`, `ForceRefresh`, `doRefreshLocked`, `saveLocked`, `SaveRecord`, `LoadRecord` | the loop; the authorization server; the file system | one-time refresh tokens; lost answers; failed saves; restarts | memory, file and server agree unless something outside went wrong; no refresh without reason |
| OAuth start and login (`oauth/source.go`, `discovery.go`, `register.go`, `login.go`) | the stage of the start, the callback port, its handlers, `resCh`; the saved record; the browser's open pages | `NewTokenSource`, `Discover`, `recordMatches`, `BindCallback`, `Register`, `InteractiveLogin`, `buildClientAuth` | authorization server, browser, user, operator; hands over to the OAuth provider | kills and restarts anywhere, configuration and metadata changed in between, redirects of an earlier login, repeated and late | the tokens a server works with are issued for what it is configured to do; a restart needs no login; every start ends |
| Configuration (`config/config.go`) | read once | `Load`, `loadOAuth`, `loadResults`, the parsers | environment; the start | what is refused in which mode; zero and negative values | a start is refused for a variable that matters |
| Result spool (`spool/spool.go`) | `entries`, `order`, `total`, `closed`; the directory | `New`, `Put`, `Get`, `ReadAll`, `Sweep`, `Close` | query tool (Put), resource handler (ReadAll), shutdown (Close), other instances in the directory | file operations outside the mutex, Close against Put, crashes, neighbours | index and files agree, the limit holds, no file is forgotten, readers see whole files |
| Metadata cache (`cache/ttl.go`, `tools/list_*.go`) | key, value, expiry | `Get`, `Set`, fetch on a miss | list tools, Metabase | check-then-act between `Get` and `Set`, and between the two locks of `Get` | no answer is older than the TTL and one fetch; a fresh entry is never removed |
| Query tool (`tools/execute_sql.go`, `metabase/dataset.go`, `tools/resources.go`) | none | normalise, guard, append LIMIT, run, deliver by value or file, read the file | guard, loop, spool, rows | boundaries of limit and offset, fallback when the spool fails | a client that pages gets every row once, or is told that rows are missing; a result is delivered once |
| SQL guard (`sqlguard/`) | none | `Check`, `Inspect`, `WithLimitOffset` | query tool, the SQL parser (a library) | scanner against parser | the clause is code, the last of the query |
| Rows and schema (`schema/`) | none | `Rows`, `uniquify`, `Flatten` | query and list tools | duplicate column names; references to fields of other tables, later ones, hidden ones | no value of a row overwrites another; the joins of the database can be read off the answer |
| Wiring, logging (`server/`, `main.go`, `logging/`) | none | `New`, `Run`, `Close` | everything | order of start and shutdown | the start is modelled in OAuthStart, shutdown in Spool |

`PROJECT.json` lists the hazards of this code line by line, with the properties
that would catch each of them, or the reason why none does.

## Modules

| Module | What it is |
|---|---|
| `CredentialContract` | abstract: what the loop may rely on from a provider |
| `RequestLoop` | the loop, without a provider; extended by both |
| `SessionClient` | the loop with the password provider; implements `CredentialContract` |
| `SessionBurst` | `SessionClient` with a history of who waited for whose login |
| `TokenManager` | the loop with the OAuth provider, the token file and the authorization server; implements `CredentialContract` |
| `Config` | what `Load` makes of an environment; operators only |
| `OAuthStart` | a server in OAuth mode over any number of starts: configuration, discovery, saved record, interactive login; composes `Config` and `TokenManager`, whose steps are the serving |
| `ResultStore` | abstract: what the tools may rely on from the spool |
| `Spool` | the spool, its directory and its process; implements `ResultStore` |
| `TtlCache` | the metadata cache and the list tools on it |
| `ListTables` | `list_tables`: `TtlCache` with the schema it caches, flattened |
| `SqlText` | where the code of a query ends: the scanner of `rewrite.go`, and a reference for it |
| `ExecuteSql` | the query tool, the resource handler and a client that pages; uses `SqlText` |
| `RequestLoopMC`, `SessionClientMC`, `TokenManagerMC`, `OAuthStartMC`, `SpoolMC`, `ListTablesMC`, `ExecuteSqlMC` | values for the constants, symmetry, and what the documentation says of the spool and of row keys |
| `CredentialContractProofs`, `SessionClientProofs`, `TokenManagerProofs`, `OAuthStartProofs`, `SpoolProofs`, `ListTablesProofs`, `SqlTextProofs`, `ExecuteSqlProofs` | theorems; `ListTablesProofs` includes those of the cache |

Definitions introduced by a comment "Fault:" are deliberate variants of the action
below them, each wrong the way a plausible change of the code would be. No
specification uses them; with an action replaced by its variant TLC finds the
property listed with it in `PROJECT.json` ("mutants") violated.

### The contract

`authProvider` promises that `apply` hands out one snapshot of credential and
generation, and that `invalidate(gen)` touches the credential only if `gen` is
still current. `CredentialContract` says this with four variables: where each
caller is (`phase`), the generation it was last given (`using`), the newest
generation (`gen`), and whether that is still handed out (`live`). A provider may
answer a request with the credential on hand (`Grant`), a new one (`Renew`) or
not at all (`Decline`); it may answer a complaint by noting it (`Retire`), by
getting a new credential at once (`Replace`), or with an error (`Abandon`).
Credentials may lapse. `doJSON` relies on `RetryIsFresh`, and on getting an
answer (`Fairness`, which the providers imply: `KeepsAnswering`). That a late
complaint harms nothing is the comparison of generations in `Retire` and `Replace`;
what carries it is that the providers implement these actions.

Both providers are shown to implement it, with `phase` read off the program
counters, `live` as "a session is cached" and "`Valid()`". In `TokenManager` the
contract's `Renew` is the arrival of the grant, before it is saved: the mutex is
held from there to the return of `Token`, so the snapshot is already decided.

### Request loop and password provider

`call[c]` is the state of one `doJSON` call; `pc` names the places where the
goroutine can be overtaken: waiting for `mu` (`lock`), in a login request
(`login`), in a backoff sleep (`backoff`), with the request sent (`sent`), with
a retryable 401 in hand (`refused`). `ensureSessionLocked` keeps `mu` through
login and sleep, so `holder` is a variable; sections without a blocking call are
single actions that need the mutex free. Metabase accepts or refuses anything at
any time. The headers of a 401 are sequences of challenges; `Retryable` is
`classify401` over them, and the instance has one header for each of its cases.
What Metabase means by a header is read independently (`CallsExpired`: one of its
Bearer challenges speaks of expiry, or there is none), and the properties about
needless logins and refreshes go by that. `classify401` is the stricter, as only the
first Bearer challenge counts for it; one of the headers tells the two apart.
Cancelling a call can happen anywhere and is seen only where the code looks at
the context: requests and the backoff `select`, not the mutex.

History variables: `rejected` (secrets that Metabase called expired), `dropped`
(sessions thrown away).

### OAuth provider

Tokens are numbered by the grant that made them. The server accepts one refresh
token (`current`) and rotates it or not at each grant. Under `mu` a caller goes
through the exchange (`refresh` for `Token`, `renew` for `ForceRefresh`) and the
save (`save`, `resave`). The exchange runs under the context of the tool call, so
`GrantLost` (the server has rotated, the client does not read the answer) is
possible in any exchange. `Save` may fail with the old record in the file, or,
from the `chmod` after the rename, with the new one; either way the call goes on,
as in the code. `mishaps` records what has gone wrong outside the client since
tokens were last saved successfully.

### Start and login

`OAuthStart` begins before the first start. `stage` is how far `main` and
`NewTokenSource` have come:

| `stage` | What is under way | What may come |
|---|---|---|
| `off` | no process | `Boot` with any environment; `DeleteFile` |
| `discover` | `Discover` | `load`; exit |
| `load` | `LoadRecord`, `recordMatches` | `serve` (`Resume`); `register` (`Bind`); exit |
| `register` | `Register`, or the operator's client | `wait` (`OpenLogin`); exit |
| `wait` | the `select` of `InteractiveLogin` | `exchange` (`Take`); exit (`Take`, `Timeout`) |
| `exchange` | the code is exchanged | `store`; exit |
| `store` | `saveLocked` | `serve` |
| `serve` | the server serves | a step of `TokenManager` (`Serve`) |

`Down` is what every exit has in common: memory is gone, the token file and the
browser stay. `Stop` can come at any stage.

Logins are numbered. One number stands for a login's state parameter, its PKCE
verifier, the client registered for it and the code that answers it, since the
code makes each of these anew for every login. `pages` are the authorization
requests and redirects open in the browser. A redirect reaches whichever process
listens on its port: with the port fixed by `METABASE_OAUTH_REDIRECT_ADDR` that
may be a later login's, and the state parameter has to tell (`Verdict`); a free
port is another each time. The handlers of the callback server are goroutines:
between reading a redirect (`Deliver`) and the send to `resCh` (`Post`) anything
can happen, and the login may be over.

`record` is what the token file holds beside the tokens: what they were issued
for. `issued` is the authorization server's own list of what each grant was made
for, a history against which `TokenIsOurs` compares. The metadata published may
change between two starts (`Published`), and the operator may start the next
server in another environment (`Envs`); `Load` of `Config` is applied to it.
`mishaps` gains `killed` (stopped during a save).

In `Config` an environment is a record with one field per variable that holds what
the parsers tell apart. `Load` gives what the start reads, `Refusals` which of
the three parsers refuse.

### Spool

One action is one critical section or one file operation. `disk` holds for every
id no file, `<id>.tmp` or `<id>.ndjson`, with its modification time. `Put` is
create, rename, register, sweep, remove the dropped files, return; `Sweep`'s two
loops are one action because they run under the mutex (`Kept` is what the first
leaves, `Evictions` how many the second takes). `ReadAll` is two actions, `Close`
three. `Stop` ends the process with or without `Close`; `Boot` sweeps old
leftovers; `NeighbourSweeps` is another instance's start. `Faults` lets every
write, rename and removal fail.

`ResultStore` is what is left of this for a tool. A result is `new` until its Put
takes effect, then `kept`, then `gone`, and never comes back; `lost` is one that
another instance removed and the index still lists. A reader let in for a kept
result finds it `whole`, or, once it is forgotten and its file erased, `nothing`.
In `Spool` a Put takes effect in `PutRegister`, a result is forgotten in
`PutWriteFails`, `PutRenameFails`, `PutSweep`, `Close` and `Stop`, and erased in
`PutRemove`, `CloseRemove` and `NeighbourSweeps`; the other steps, among them the
creation and the renaming of files and all of a restart, are stutters. What a
reader sees is read off the file itself (`Finds`), so a file under construction
would show as a third answer that `ResultStore` does not have.

### Metadata cache

A value is represented by the time at which Metabase read it, so that its age can
be told. `Get` is a snapshot under the read lock (`GetMiss`, `GetEntry`), a look
at the clock (`GetHit`, `GetExpired`), and the removal under the write lock
(`Drop`), which compares expiries as the code does. A fetch takes at most
`MaxFetch` from the miss to `Set`; `HTTP_TIMEOUT` and the bounded retries of the
client are what bounds it. The last `Set` wins, whichever answer is older, so an
entry can be older than its lifetime says: `AnswersAreRecent` is by how much.

`ListTables` puts a schema behind each time of reading (`Metadata`) and flattens
it as `Flatten` does: an index of all fields by id first (`WithId`, `LastPlace`),
then every table with those of its references that the index resolves. The list of
a table's foreign keys is written as a function from the indices of the fields they
belong to, with gaps, which keeps their order and their number. `JoinsSurvive` compares what a
reader can make out of the answer with the references in the database. It is
stated for answers without two tables of one name and without two columns of one
name in a table, because a foreign key names its target by the table's name without
the schema, and by the column's; in the run one state of the database has two such
tables, and there the reader would be misled.

### Query tool

One call goes from `Submit` through the guard (`Refuse`), the decision about LIMIT
(`SendAsIs`, `AppendLimit`), Metabase (`QueryFails`, `Rows`) to the delivery
(`Deliver`, `DeliverFallback`). The client's query would return the rows
1..`Total`; Metabase applies LIMIT and OFFSET of the query, and then the limit of
the call, which it may report in three ways (`Marks`). The spool is its promise
only: it stores the rows or fails, and the file may go at any time (`Drop`) and does
not come back; `ResultStore` says so for any number of results, and `Spool`
implements it. `walk` is the client: it pages with `next_offset` while
pages are full, with any `row_limit` and `delivery` on each page, and asks again
for a page whose file is gone.

`SqlText` has texts as sequences of a dozen characters, one for each way the
scanner of `rewrite.go` treats a byte. `CodeEnd` follows the scanner's functions,
written as recursive functions over indices. `LexerState` is the reference: an
automaton that reads one character at a time and follows the parser's lexer.
`ClauseIsLastCode` compares what is significant before and after the insertion.
Double quotes behave like single quotes and are left out, and so are the comments
that MySQL executes (`/*! */`): the scanner skips them, and the second parse in
`maybeAppendLimit` decides. That parse is the disjunction in `AppendLimit`.

The keys of a row are sequences of the parts of a name between underscores, so
that the suffix `_2` of `uniquify` is an `Append`.

## Runs

| Run | Instance | Distinct states | Shows |
|---|---|---|---|
| `contract` | 3 callers, 3 generations | 3 117 | what the loop relies on follows from the contract |
| `session_client` | 2 callers, 2 attempts, 3 sessions, ban of 2 ticks, clock to 3, fairness | 21 406 | safety, implementation of the contract with its fairness, every call returns |
| `session_burst` | 2 callers, 1 session | violation | waiters repeat a login that failed for a transient reason |
| `token_manager` | 2 callers, 2 grants, fairness | 29 125 | safety, implementation of the contract with its fairness, every call returns |
| `oauth_start` | 1 caller, 1 callback handler, 2 grants, 2 logins, 5 environments, 2 versions of the metadata, restarts anywhere, fairness | 311 883 | tokens are the server's own, a login exchanges its own code only, a restart resumes, every start ends |
| `password_env` | 7 environments of password mode | violation | an OAuth variable ends a start in password mode |
| `spool_index` | 3 ids, 2 writers, sizes 1 and 3, limit 2, TTL 1, clock to 2 | 126 650 | accounting, limit, newest entry, nothing evicted without need |
| `spool_files` | 2 ids, 2 writers, 1 reader, faults, neighbours, clock to 3 | 130 493 | index and files agree, nothing is forgotten, results are whole (`ResultStore`) |
| `spool_close` | 2 ids, 2 writers | violation | a Put outlives Close |
| `list_tools` | 2 callers, 2 keys, TTL 2, fetches up to 2, clock to 6, 7 states of the database | 656 028 | answers are recent, fresh entries stay, joins survive |
| `execute_sql` | 4 rows, limits up to the largest integer and beyond, 2 configurations each of auto-limit and spool, 2 400 short texts | 20 272 | the clause goes last; every row once; delivered once |
| `row_keys` | columns id, id, id_2 | violation | two columns, one key |

Bounds. Two callers are the least with which one can complain about what the
other has replaced, or wait for an exchange that the other loses. Three sessions
let a replacement be replaced while the other caller holds the first; for tokens
two grants, the login and one refresh, keep the fairness run small, and the
theorems have any number. `Attempts = 2` has a first, a last and a backoff
between. For the spool three ids and two writers give two Puts at once and a
third after either; the sizes 1 and 3 against a limit of 2 give an eviction with
something left, and a result over the limit by itself. One TTL tick and a clock
of two or three reach before, at and after an expiry. `MaxSessions`, `MaxGrants`
and `MaxTime` are bounds of the model only; when they are reached logins and
exchanges still fail, so no call is stuck because of them.

In `oauth_start` two logins are the least for a redirect of one to reach the other,
and two grants for a login after a login or a refresh after one. The environments
differ where the start looks: a registered client and one of the operator's with a
secret (and without an HTTP timeout), a fixed port and free ones, scopes and the
same scopes in another order without a user, and a secret that belongs to no
client. The two versions of the metadata differ in issuer, endpoint,
registration and methods. One caller suffices, as concurrent callers are
`token_manager`'s subject; one handler is enough to have its send pending when a
second redirect, or the timeout, has decided the login.

In `execute_sql` four rows against pages of one to three give up to four pages,
full and not, cut by the limit of the call and not; `MaxInt` is 7 so that offsets
near and beyond it can be asked for. The texts are all those of up to three
characters after the first, and longer ones over the characters that have to do
with each other (quotes with backslashes, the parts of a block comment, dashes
with blanks). The client may stop, so that run does not check deadlock.

Symmetry is used only where a run has no liveness property.

Fairness. Logins, exchanges and replies are weakly fair because the HTTP client
carries `HTTP_TIMEOUT`. That is a precondition: the configuration accepts 0, which
means no limit, and then a hanging login of a session or a hanging refresh holds
the mutex for good, and `CallsReturn` does not speak of it. In a start requests of
discovery and registration are fair only with a limit; the login context bounds the
wait for the browser and the exchange of the code whatever `HTTP_TIMEOUT` is, and
handlers of the callback server run. `StartEnds` therefore promises an end from the
moment the request is shown to the user, and before that under the precondition
(`bounded`); one environment of the run has no limit. Backoffs end
by a timer, writes to the token file by the operating system. Taking the mutex is
strongly fair: Go's mutex hands itself over in arrival order once a waiter has
starved. Nothing makes a caller start or cancel a call.

### Disagreements between code and text

- `session_burst`: the comments of `sessionManager` say that of many parallel
  calls exactly one logs in and the rest read its result. That holds for success
  and for a wrong password. After a transient failure each waiter logs in again.
- `password_env`: `README.md:87` of the server lists OAuth variables as "ignored in
  password mode". `Load` parses them in either mode, and a malformed one ends the
  start.
- `spool_close`: `Put` checks `closed` before it writes and not when it registers,
  so its file can outlive `Close` and the process.
- `row_keys`: `uniquify` counts the original names and not the keys it makes, so
  the columns id, id, id_2 (a join will do) give the key id_2 twice and one value
  is lost. `KeysKeepApart` is what does hold.

More of the same kind have no run of their own. Results are not removed "when the
TTL expires" (`README.md:59`) but by the next `Put` after that, or by `Close`. A
failed write leaves its `.tmp` behind (`NoLeak` excepts it). A start sweeps only
leftovers older than the TTL (`Boot`). Eviction goes by the order of registration,
not of `CreatedAt`. When the spool could not be set up, a large result with
`delivery=auto` goes inline without the warning `README.md:57` announces
(`Deliver`).

## Proofs

The theorems hold for every value of the constants that satisfies the named
assumptions (`ContractAssumption`, `HeadersAssumption`, `SessionAssumption`, `TokenAssumption`,
`StartAssumption`, `RecordAssumption`, `SpoolAssumption`, `CacheAssumption`,
`MetadataAssumption`, `QueryAssumption`). Two theorems of the query tool need one
more, in their statements. `MetadataAssumption` says that the ids of the fields in
one answer are distinct, being the primary key of Metabase's own table of fields,
and `QueryAssumption` that texts are sequences of the characters of `SqlText`.

- **Contract.** `ContractInv` adds to `RefusedIsGone` that a caller outside a call
  holds nothing and that a live credential has a generation. From it
  `RefusedIsGone` and `RetryIsFresh`.
- **Password provider.** `SessionInv` joins the invariants the run checks with
  `Numbering` (session and generation are numbered alike, and each caller holds
  both halves of one snapshot), `CallerFacts` (a complaining caller's session was
  refused; a caller that asks again was given an older generation than the one on
  hand) and `DroppedFacts`. Without `CallerFacts` `OnlyRefusedDropped` is not
  inductive: `Invalidate` compares generations, and only the
  snapshot ties these to sessions. That a complaining caller's session was refused
  needs that `classify401` calls nothing expired that Metabase does not
  (`RetryableIsExpiry`): of the Bearer challenges there is a first. `SessionRefines` maps every step to a step of
  the contract or a stutter.
- **OAuth provider.** `TokenInv` joins `TypeOK`, `InStep` and `FileKeepsUp` with
  `Locking` (the holder of the mutex is the caller in an exchange or a save),
  `CallerFacts` (a caller given the current generation holds the token on hand, so
  a complaint that matches the generation is about that token) and `SavedInStep`
  (during a save only a revocation can have put the refresh token out of step).
  `RefreshIsWarranted` and the contract follow.
- **OAuth start.** `StartInv` says what is known at each stage (`Knows`), that a
  record names what its refresh token was issued for (`FileIsTrue`), that memory
  holds a token with the same property (`Holds`), and that memory, file and server
  agree but for the mishaps (`Agree`). The premise of `RestartResumes` alone is
  not inductive, for it says nothing of a file written two starts ago by another
  configuration. A step of the manager inside `Serve` is one of five things to the
  start: nothing, a grant that arrives, a grant that is lost, a write to the file,
  a revocation (`ServeCases`); each has one lemma. From `StartInv` `TokenIsOurs`,
  `RestartResumes` and `NeverPresentsReplaced`, for any environments, metadata,
  callers and number of logins. `ConsentIsOwn` has an invariant of its own,
  `CallbackInv`: before a login is opened no result is on its way, and every result
  in a handler or in the channel is an error or the code of the current login, which
  its user has consented to. Neither `OpenLogin`, which makes the number of the login
  a new one, nor the handlers that outlive a login could be dealt with otherwise.
- **Spool, files.** `SpoolInv` says for every stage of a Put where its file is,
  that ids are not shared between Puts, the index and the lists of files to remove,
  and that readers hold only ids whose files were renamed. From it
  `RegisteredIsComplete`.
- **Spool, store.** `StoreInv` adds that nobody reads what is not registered yet, and
  that without other instances no file is lost. Under it every step is a step of
  `ResultStore` or a stutter (`StoreStep`, one case per action). `Claims` carries the
  weight: a file that a sweep or Close is about to remove belongs to no Put and no
  entry, so its result is gone already; and the id of a Put under way is nobody
  else's, so only that Put decides what becomes of it.
- **Spool, accounts.** `AccountInv` adds `Books` (order, entries and total agree,
  and the limit holds between sweeps) and `Housekeeping` (whose file it is). The
  total is a fold over a set and the sweep's first loop a recursive function, so
  the lemmas on both come first; where induction would be the argument they look
  at a least counterexample (`LeastNat`, `LeastSet`). From it `TypeOK`,
  `Accounting`, `SizeBound`, `NoLeak` and `NewestSurvives`. `EvictionIsNeeded` takes
  three facts more: what the first loop keeps is what is alive, in the order of the
  registrations (`KeptInOrder`); the second loop stops at the first number of
  evictions that will do, so one fewer would not have done; and what was left then is
  among the unexpired entries from the evicted one on, whose sum is no smaller.
- **Metadata cache.** The invariant adds to the types that an entry expires within
  a fetch and a lifetime of its value being read, and that a snapshot is of an
  entry that was there; from it `TypeOK`, `AnswersAreRecent` and
  `FreshNeverDropped`.
- **Schema.** The invariant of `JoinsSurvive` is that a call that is done holds an
  answer read at a time the clock has had (`ReadInPast`); the rest is about
  `Flatten`. Ids being distinct, the index gives for an id the field that has it and
  nothing else (`PlaceFacts`, `LinkFacts`); names being distinct, a reader gets back
  from a key to that field (`ReadableIsJoins`). The keys of a table and its joins
  correspond one to one, so none is listed twice (`KeysAreJoins`).
- **End of a query's code.** `ClauseLands`, for texts of any length: if a text ends
  outside literals and block comments (`Closed`) and its last significant character
  is no dash (`EndsInCode`), then the clause inserted at `CodeEnd` is the last code
  that is read, and nothing else is read differently. The scanner
  goes over a text by jumps, the reference one character at a time; that they agree is the
  induction. Since induction over an operator is out of reach it goes over sets of
  indices (`Upward`, `Downward`, from `LeastNat`), and each recursive function is
  first shown to satisfy its equations (`LexerRuns`, `QuotedRuns`, `EndRuns`). Each
  lexeme the scanner skips takes the automaton from "code" back to "code"
  (`QuotedScan`, `LineScan`, `BlockScan`, `LexemeScan`), so where the scanner stands
  the automaton is in code; after the end there is nothing significant
  (`CodeEndFacts`), and since the clause begins and ends with a blank, the automaton goes through
  it and on as it did without it (`WithClause`). `QueryClauseGoesLast` is this for every query
  the tool sends.
- **Query tool.** `QueryInv` adds that an answer under construction has neither
  rows nor a file, without which the fallback could deliver twice; from it
  `TypeOK` and `AnswerIsWhole`. `WalkInv` follows the client: until it stops it has
  exactly the rows up to the page it asks for, and an answer that is not marked
  truncated has the whole page; from it `WalkIsComplete` and `PagesDisjoint`,
  assuming `Total =< MaxInt`: offsets do not run out before rows do. `KeysKeepApart` follows from the type of
  the names alone: two columns of a name have different counts before them
  (`LaterCountsMore`), and a suffix can be told from its name (`SuffixInjective`).

Only model-checked: liveness (`KeepsAnswering`, `CallsReturn`, `StartEnds`,
`HandlersReturn`), which the prover does not reach. Every safety
property of a passing run is a theorem.

## Not modelled

- JSON, HTTP and header formatting, and the shape of the requests to the
  authorization server; logging; the MCP library. `HTTP_TIMEOUT` as a duration:
  only whether there is one.
- The SQL parser, a library. `sqlguard.Check` decides by the parser's statement
  types, so which statements are let through would be a model of the library.
- Types and descriptions of columns, texts of warnings, the preview of a result:
  copied or worded, and no property is about them.
- Permissions of files and directories. Two processes on one token file, which the
  README of the server rules out (`store.go:76`). Sharing of a spool directory
  beyond the sweep at start.
- Four hazards have no property: two processes on one token file (`store.go:76`); a
  save that reports an error after the rename (`store.go:82`), which `Save` and
  `Store` model and after which either outcome is excepted; that expired results stay
  until somebody sweeps (`spool.go:303`); and that an `auto` delivery without a spool
  goes inline without a warning (`execute_sql.go:102`). The last two are read off one
  condition each, which the model has (`Boot` and `PutSweep`, `Deliver`).
- Some hazards are what the code does, and no property forbids them: a refresh
  whose answer is lost, a save that fails or is cut short, a leftover file that could
  not be removed, a login without a time limit. The properties except them by name
  (`mishaps`, `failed`, `swept`, `bounded`) and say how the system goes on from there;
  the notes under "hazards" in `PROJECT.json` say which part is which.

## What remains

1. `oauth_start` with two callers, for which the proofs stand in now.
2. `Flatten` with duplicate table names, once the code qualifies foreign keys.
