----------------------------- MODULE OAuthStart -----------------------------
(***************************************************************************)
(* The life of a server in OAuth mode, over any number of starts on one    *)
(* token file: main and NewTokenSource (internal/metabase/oauth) up to the *)
(* token manager, which TokenManager models, and the process stopped or    *)
(* killed at any moment.  The operator may change the configuration        *)
(* between two starts, and so may the authorization server (AS) what it    *)
(* publishes.                                                              *)
(*                                                                         *)
(* An interactive login runs in three places: the process, the handlers of *)
(* its callback server, and the browser, which outlives the process and    *)
(* can send the same redirect again.  Logins are numbered; a login's number*)
(* stands for its state parameter, its PKCE verifier and its code.         *)
(***************************************************************************)
EXTENDS TokenManager, Config, FiniteSets

CONSTANTS
  Envs,          \* environments the operator starts the server in
  Published,     \* metadata the AS may publish
  Handlers,      \* goroutines of the callback server
  MaxLogins,     \* bound on the logins that reach the browser
  None

ASSUME StartAssumption ==
  /\ MaxLogins \in Nat
  /\ \A e \in Envs : None # Load(e) /\ e.secret \in BOOLEAN
  /\ None \notin Nat /\ None \notin {"code", "error"}

VARIABLES
  stage,         \* how far main has come; "off" without a process
  cfg,           \* the configuration loaded
  meta,          \* what Discover returned
  auth,          \* m.clientAuth: client id and whether it has a secret
  inbox,         \* resCh: a result, or None
  handler,       \* the result each handler has yet to send, or None
  code,          \* the login whose code is to be exchanged
  record,        \* the token file beside the tokens, or None
  login,         \* the number of the latest login
  pages,         \* authorization requests and redirects that the browser has open
  issued         \* the AS: what each grant was made for

process == <<stage, cfg, meta, auth>>
callback == <<inbox, handler, code>>
disk == <<file, record>>
browser == <<login, pages>>
authServer == <<server, issued>>
startVars == <<vars, process, callback, record, browser, issued>>

NoTokens == Pair(0, NoRefresh)
FixedPort == 0
NoHandlers == [h \in Handlers |-> None]

\* Nothing has ever been started.
StartInit == /\ LoopInit
             /\ holder = NoCaller /\ gen = 0 /\ tok = NoTokens /\ expired = {}
             /\ granted = 0 /\ current = NoRefresh /\ mishaps = {}
             /\ file = NoTokens /\ record = None
             /\ stage = "off" /\ cfg = None /\ meta = None /\ auth = None
             /\ inbox = None /\ handler = NoHandlers /\ code = 0
             /\ login = 0 /\ pages = {} /\ issued = <<>>

-----------------------------------------------------------------------------
\* The process is gone, with all it had in memory.  Pages for a port of its own
\* find nobody any more and are left out.
Down == /\ stage' = "off" /\ cfg' = None /\ meta' = None /\ auth' = None
        /\ inbox' = None /\ handler' = NoHandlers /\ code' = 0
        /\ call' = [c \in Callers |-> Idle]
        /\ holder' = NoCaller /\ gen' = 0 /\ tok' = NoTokens
        /\ rejected' = {} /\ expired' = expired \cap {file.access}
        /\ pages' = {p \in pages : p.port = FixedPort}
        /\ UNCHANGED <<disk, login>>

\* run returns the error of server.New.
Fail == Down /\ UNCHANGED <<authServer, mishaps>>

Enter(s) == stage' = s
ManagerIdle == UNCHANGED <<call, rejected, holder, gen, mishaps>>

Boot(e) == /\ stage = "off"
           /\ cfg' = Load(e)
           /\ Enter(IF Refusals(e) # {} THEN "off"
                    ELSE IF AuthMode(e) = "password" THEN "serve" ELSE "discover")
           /\ ManagerIdle
           /\ UNCHANGED <<meta, auth, tok, expired, callback, disk, browser, authServer>>

\* Discover insists on the resource it was configured with, on both endpoints and
\* on PKCE with S256.
Acceptable(p) == /\ p.resource = cfg.resource
                 /\ p.issuer # "" /\ p.token # "" /\ p.authorize # ""
                 /\ p.s256

Discover == /\ stage = "discover"
            /\ \/ \E p \in Published : /\ Acceptable(p)
                                       /\ meta' = p
                                       /\ Enter("load")
                                       /\ ManagerIdle
                                       /\ UNCHANGED <<cfg, auth, tok, expired, callback,
                                                      disk, browser, authServer>>
               \/ Fail

-----------------------------------------------------------------------------
\* scopesEqual: the order does not matter, the number does.
ScopeBag(s) == [x \in {s[i] : i \in DOMAIN s} |-> Cardinality({i \in DOMAIN s : s[i] = x})]
SameScopes(s, t) == ScopeBag(s) = ScopeBag(t)

Mode(secret) == IF secret THEN "confidential" ELSE "public"

\* Fault: the client mode is not compared.
RecordMatchesAnyMode(r, c, m) ==
  /\ r.issuer = m.issuer /\ r.resource = m.resource /\ r.token = m.token
  /\ SameScopes(r.scopes, c.scopes)
  /\ c.client # NoClient => r.client = c.client

RecordMatches(r, c, m) ==
  /\ r.issuer = m.issuer /\ r.resource = m.resource /\ r.token = m.token
  /\ SameScopes(r.scopes, c.scopes)
  /\ r.mode = Mode(c.secret)
  /\ c.client # NoClient => r.client = c.client

\* A file that is missing or does not decode is no record.
LoadRecord == record # None

\* Whether the AS still accepts the refresh token is not asked.
Usable(c, m) == /\ LoadRecord
                /\ RecordMatches(record, c, m)
                /\ file.refresh # NoRefresh

\* buildClientAuth, with the id to take when the operator has given none; a
\* secret needs a method that pickConfidentialStyle knows.
ClientAuth(c, id) == [client |-> IF c.client = NoClient THEN id ELSE c.client,
                      secret |-> c.secret /\ c.client # NoClient]
HasAuth(c, m) == c.secret /\ c.client # NoClient => m.methods # {}

\* The saved token is taken up, alive or expired.
Resume == /\ stage = "load" /\ Usable(cfg, meta) /\ HasAuth(cfg, meta)
          /\ auth' = ClientAuth(cfg, record.client)
          /\ tok' = file
          /\ expired' \in {expired, expired \cup {file.access}}
          /\ Enter("serve")
          /\ ManagerIdle
          /\ UNCHANGED <<cfg, meta, callback, disk, browser, authServer>>

\* There is no usable token: BindCallback takes the callback port.
Bind == /\ stage = "load" /\ ~Usable(cfg, meta) /\ ~cfg.noninteractive
        /\ Enter("register")
        /\ ManagerIdle
        /\ UNCHANGED <<cfg, meta, auth, tok, expired, callback, disk, browser, authServer>>

\* Usable, but the AS knows no way to send the secret; or not usable, and a login
\* is not allowed or the port is taken.
LoadFails == /\ stage = "load"
             /\ Usable(cfg, meta) => ~HasAuth(cfg, meta)
             /\ Fail

-----------------------------------------------------------------------------
\* A free port is another one every time.
Port(n) == IF cfg.fixedPort THEN FixedPort ELSE n

\* The client is registered if it has to be, the callback server started, and the
\* request shown to the user.
OpenLogin ==
  /\ stage = "register" /\ login < MaxLogins
  /\ \/ cfg.client = NoClient /\ meta.register
     \/ cfg.client # NoClient /\ HasAuth(cfg, meta)
  /\ login' = login + 1
  /\ auth' = ClientAuth(cfg, DcrClient(login'))
  /\ pages' = pages \cup {[login |-> login', port |-> Port(login'), answer |-> None]}
  /\ Enter("wait")
  /\ ManagerIdle
  /\ UNCHANGED <<cfg, meta, tok, expired, callback, disk, authServer>>

\* The AS registers no clients or refuses this one, or has no use for a secret.
RegisterFails == /\ stage = "register"
                 /\ Fail

\* The callback server runs until the login returns.
Listening(port) == stage \in {"wait", "exchange"} /\ port = Port(login)

\* The user answers a request, of this login or an earlier one: the AS redirects
\* the browser with a code or an error.
Answer(p, answer) == /\ p.answer = None /\ Listening(p.port)
                     /\ pages' = (pages \ {p}) \cup {[p EXCEPT !.answer = answer]}
                     /\ ManagerIdle
                     /\ UNCHANGED <<process, callback, tok, expired, disk, login, authServer>>

\* Fault: the state parameter is not compared.
VerdictAnyState(p) == IF p.answer = "error" THEN 0 ELSE p.login

\* What a handler makes of a redirect: the login whose code it brings, or 0 for an
\* error, which the state parameter is not asked about.
Verdict(p) == IF p.answer = "error" \/ p.login # login THEN 0 ELSE p.login

\* The browser calls, for the first time or again.
Deliver(h, p) == /\ p.answer # None /\ Listening(p.port)
                 /\ handler[h] = None
                 /\ handler' = [handler EXCEPT ![h] = Verdict(p)]
                 /\ ManagerIdle
                 /\ UNCHANGED <<process, inbox, code, tok, expired, disk, browser, authServer>>

\* Fault: the send waits for room.
PostBlocking(h) == /\ handler[h] # None /\ inbox = None
                   /\ handler' = [handler EXCEPT ![h] = None]
                   /\ inbox' = handler[h]
                   /\ ManagerIdle
                   /\ UNCHANGED <<process, code, tok, expired, disk, browser, authServer>>

\* send: a result that finds the channel full is dropped.
Post(h) == /\ handler[h] # None
           /\ handler' = [handler EXCEPT ![h] = None]
           /\ inbox' = IF inbox = None THEN handler[h] ELSE inbox
           /\ ManagerIdle
           /\ UNCHANGED <<process, code, tok, expired, disk, browser, authServer>>

\* The first result decides the login.
Take == /\ stage = "wait" /\ inbox # None
        /\ \/ /\ inbox = 0
              /\ Fail
           \/ /\ inbox # 0
              /\ code' = inbox /\ inbox' = None
              /\ Enter("exchange")
              /\ ManagerIdle
              /\ UNCHANGED <<cfg, meta, auth, handler, tok, expired, disk, browser, authServer>>

Timeout == stage = "wait" /\ Fail

\* Fault: the login has no deadline.
LoginEndsOnlyByAnswer == Take

\* The select, which may take either when both are ready.
LoginEnds == Take \/ Timeout

-----------------------------------------------------------------------------
\* The AS accepts a code with the verifier of the login it was issued to.
AsGrantsCode == /\ code = login
                /\ granted < MaxGrants
                /\ granted' = granted + 1
                /\ issued' = Append(issued, [issuer |-> meta.issuer, resource |-> meta.resource,
                                             client |-> auth.client, scopes |-> cfg.scopes,
                                             mode |-> Mode(auth.secret)])

CodeExchanged == /\ stage = "exchange"
                 /\ AsGrantsCode
                 /\ current' = granted'
                 /\ tok' = Pair(granted', granted')
                 /\ expired' \in {expired, expired \cup {granted'}}
                 /\ code' = 0
                 /\ Enter("store")
                 /\ ManagerIdle
                 /\ UNCHANGED <<cfg, meta, auth, inbox, handler, disk, browser>>

\* The grant brings no refresh token, or its answer does not arrive in time.
CodeWasted == /\ stage = "exchange"
              /\ AsGrantsCode
              /\ Down
              /\ UNCHANGED <<current, mishaps>>

ExchangeFails == stage = "exchange" /\ Fail

\* saveLocked: the tokens and what they were issued for.
RecordFor(m, c, a) == [issuer |-> m.issuer, resource |-> m.resource, token |-> m.token,
                       client |-> a.client, scopes |-> c.scopes, mode |-> Mode(a.secret)]
Written == record' = RecordFor(meta, cfg, auth)

Clients == {DcrClient(n) : n \in 1..MaxLogins} \cup {e.client : e \in Envs}

ASSUME RecordAssumption ==
  \A m \in Published, e \in Envs, a \in [client : Clients, secret : BOOLEAN] :
    None # RecordFor(m, Load(e), a)

\* A failed save is only logged; it may come from the chmod after the rename.
Store == /\ stage = "store"
         /\ \/ file' = tok /\ Written /\ mishaps' \in {{}, {"unsaved"}}
            \/ UNCHANGED disk /\ mishaps' = {"unsaved"}
         /\ Enter("serve")
         /\ UNCHANGED <<cfg, meta, auth, callback, call, rejected, holder, gen, tok,
                        expired, browser, authServer>>

-----------------------------------------------------------------------------
\* The server serves: a step of TokenManager.  A new token is for what the one
\* presented was issued for; a save writes the whole record.
Serve == /\ stage = "serve" /\ cfg.mode = "oauth"
         /\ Next
         /\ issued' = IF granted' # granted THEN Append(issued, issued[tok.refresh]) ELSE issued
         /\ IF file' # file THEN Written ELSE UNCHANGED record
         /\ UNCHANGED <<process, callback, browser>>

\* The client disconnects, or the process is interrupted or killed.
Stop == /\ stage # "off"
        /\ Down
        /\ mishaps' = mishaps \cup
             {"killed" : x \in {y \in {stage} : y = "store"} \cup {c \in Callers : Saving(c)}}
        /\ UNCHANGED authServer

\* The operator deletes the token file, as README.md advises when its refresh
\* token is dead.
DeleteFile == /\ stage = "off" /\ record # None
              /\ file' = NoTokens /\ record' = None
              /\ mishaps' = {}
              /\ UNCHANGED <<process, callback, call, rejected, holder, gen, tok, expired,
                             browser, authServer>>

Starting == Discover \/ Resume \/ Bind \/ LoadFails \/ RegisterFails \/ OpenLogin
LoginStep == \/ LoginEnds
             \/ CodeExchanged \/ CodeWasted \/ ExchangeFails \/ Store
Browser == \E p \in pages : \/ \E answer \in {"code", "error"} : Answer(p, answer)
                            \/ \E h \in Handlers : Deliver(h, p)

StartNext == \/ \E e \in Envs : Boot(e)
             \/ Starting \/ LoginStep \/ Browser
             \/ \E h \in Handlers : Post(h)
             \/ Serve \/ Stop \/ DeleteFile

\* The login context bounds the wait and the exchange, handlers run, a save ends;
\* requests of discovery and registration end only under an HTTP timeout.
StartFairness == /\ WF_startVars(cfg # None /\ cfg.bounded /\ Starting)
                 /\ WF_startVars(LoginStep)
                 /\ \A h \in Handlers : WF_startVars(Post(h))

StartSpec == StartInit /\ [][StartNext]_startVars
FairStartSpec == StartSpec /\ StartFairness

-----------------------------------------------------------------------------
\* The tokens a server works with were issued for what it is configured to do:
\* by this AS, to this client in this mode, for this resource and these scopes,
\* whatever the operator and the AS changed between the starts before.
TokenIsOurs ==
  (stage \in {"store", "serve"} /\ cfg.mode = "oauth") =>
    LET i == issued[tok.refresh] IN
    /\ i.issuer = meta.issuer /\ i.resource = meta.resource
    /\ i.client = auth.client /\ i.mode = Mode(auth.secret)
    /\ SameScopes(i.scopes, cfg.scopes)

\* A login exchanges the code that the user's consent to its own request brought,
\* and no other: not that of a tab which an earlier start has left in the browser,
\* and which finds a new server on the same port.
ConsentIsOwn ==
  stage = "exchange" => code = login /\ \E p \in pages : p.login = login /\ p.answer = "code"

\* A server can be stopped and started again without a new login, at any moment but
\* in a save: the token file holds the refresh token the AS accepts, and a start
\* with this configuration and metadata takes it up; as long as no answer of the AS
\* was lost, no save failed or was cut short and nothing was revoked.
RestartResumes ==
  (stage = "serve" /\ cfg.mode = "oauth" /\ mishaps = {} /\ \A c \in Callers : ~Saving(c)) =>
    /\ file.refresh = current
    /\ Usable(cfg, meta) /\ HasAuth(cfg, meta)

\* The process presents no refresh token that the AS has replaced, whichever
\* record it was started from, except after one of those mishaps.
NeverPresentsReplaced ==
  \A c \in Callers : Exchanging(c) => tok.refresh = current \/ mishaps # {}

\* A start does not hang: it ends in a server or in an exit, whatever the user and
\* the browser do, if the HTTP timeout is not switched off; and even if it is, once
\* the request has been shown to the user.
StartEnds ==
  (stage # "off" /\ (cfg.bounded \/ stage \in {"wait", "exchange", "store"}))
    ~> stage \in {"off", "serve"}

\* No handler of the callback server is left hanging by a repeated redirect.
HandlersReturn == \A h \in Handlers : handler[h] # None ~> handler[h] = None

\* OAuth variables are ignored in password mode (README.md:87): they cannot be all
\* that a start is refused for.
PasswordModeIgnoresOAuth ==
  (stage = "off" /\ cfg # None /\ cfg.mode = "password") => cfg.refusals # {"oauth"}

=============================================================================
