-------------------------- MODULE OAuthStartProofs --------------------------
(***************************************************************************)
(* Over any number of starts, environments and versions of the metadata:   *)
(* the tokens a server works with are its own, a restart can take them up, *)
(* and no refresh token is presented that the AS has replaced.             *)
(***************************************************************************)
EXTENDS OAuthStart, TokenManagerProofs, SequenceTheorems

Modes == {"public", "confidential"}
Deeds == [issuer : {p.issuer : p \in Published}, resource : {p.resource : p \in Published},
          client : Clients, scopes : {e.scopes : e \in {Load(f) : f \in Envs}}, mode : Modes]

Serving == stage = "serve" /\ cfg.mode = "oauth"
NoSaver == \A c \in Callers : ~Saving(c)
Critical(c) == call[c].pc \in {"refresh", "renew", "save", "resave"}

\* mu admits one call at a time.
Calling == /\ call \in [Callers -> Calls]
           /\ \A c \in Callers : Critical(c) => holder = c

\* Tokens that the AS has issued.
Issued == [access : 1..granted, refresh : 1..granted]

StartTypes ==
  /\ stage \in {"off", "discover", "load", "register", "wait", "exchange", "store", "serve"}
  /\ gen \in Nat /\ granted \in Nat /\ current \in 0..granted /\ login \in 0..MaxLogins
  /\ issued \in Seq(Deeds) /\ Len(issued) = granted
  /\ Calling
  /\ ~Serving => \A c \in Callers : call[c] = Idle

\* What the process knows by the time it has come so far.  An accepted environment
\* has no secret without a client.
Knows ==
  /\ stage # "off" => \E e \in Envs : cfg = Load(e) /\ ~SecretAlone(e)
  /\ stage \notin {"off", "serve"} => cfg.mode = "oauth"
  /\ stage \in {"load", "register", "wait", "exchange", "store"} \/ Serving
       => meta \in Published
  /\ stage \in {"wait", "exchange", "store"} \/ Serving =>
       /\ auth \in [client : Clients, secret : BOOLEAN] /\ auth.secret = cfg.secret
       /\ cfg.client # NoClient => auth.client = cfg.client
       /\ HasAuth(cfg, meta)

\* Grant i was made for what the record says.
MadeFor(i, r) == /\ i.issuer = r.issuer /\ i.resource = r.resource
                 /\ i.client = r.client /\ i.mode = r.mode
                 /\ SameScopes(i.scopes, r.scopes)

\* The token file says what its refresh token is for, and for a client.
FileIsTrue ==
  /\ record = None => file = NoTokens
  /\ record # None => /\ file \in Issued /\ record.client \in Clients
                      /\ MadeFor(issued[file.refresh], record)

\* The tokens in memory; those of a login that is not stored yet are the latest.
Holds ==
  /\ stage = "store" => tok = Pair(granted, granted) /\ current = granted /\ file.access < granted
  /\ stage = "store" \/ Serving => tok \in Issued
  /\ TokenIsOurs

\* What is wrong when memory, file and AS disagree.
Agree ==
  /\ Serving /\ tok.refresh # current => mishaps # {}
  /\ Serving => \A c \in Callers : Saving(c) => tok.refresh = current \/ "revoked" \in mishaps
  /\ Serving /\ NoSaver /\ mishaps = {} => file = tok
  /\ Serving /\ file = tok => record # None /\ RecordMatches(record, cfg, meta)
  /\ ~Serving /\ stage # "store" /\ mishaps = {} /\ record # None => file.refresh = current

StartInv == StartTypes /\ Knows /\ FileIsTrue /\ Holds /\ Agree

-----------------------------------------------------------------------------
\* What a step of the token manager does to the tokens, in five cases.
Quiet == /\ UNCHANGED <<tok, file, server, mishaps>>
         /\ \A c \in Callers : Saving(c)' => Saving(c)
         /\ NoSaver' => NoSaver

Granting == /\ tok.refresh = current /\ current # 0
            /\ granted' = granted + 1
            /\ current' \in {current, granted'}
            /\ tok' = Pair(granted', current')
            /\ UNCHANGED <<file, mishaps>>
            /\ ~NoSaver'

Losing == /\ tok.refresh = current /\ current # 0
          /\ granted' = granted + 1
          /\ current' \in {current, granted'}
          /\ UNCHANGED <<tok, file>>
          /\ mishaps' = mishaps \cup {"lost"}
          /\ NoSaver'

Writing == /\ ~NoSaver /\ NoSaver'
           /\ UNCHANGED <<tok, server>>
           /\ \/ file' = tok /\ mishaps' = mishaps \cap {"revoked"}
              \/ file' \in {file, tok} /\ mishaps' = mishaps \cup {"unsaved"}

Revoking == /\ current' = 0 /\ mishaps' = mishaps \cup {"revoked"}
            /\ UNCHANGED <<tok, file, granted, call>>

ServeStep == Quiet \/ Granting \/ Losing \/ Writing \/ Revoking

LEMMA ServeCases ==
  ASSUME Calling, tok.access \in Nat, gen \in Nat, granted \in Nat, Next
  PROVE  Calling' /\ gen' \in Nat /\ ServeStep
<1> USE TokenAssumption
    DEF At, Idle, NoSecret, NoRefresh, manager, server, LockFree, Unlock,
        Return, Send, Retry, Frame, Valid, Saving, NextRefresh, NextGen, Saved
<1> DEFINE Goal == Calling' /\ gen' \in Nat /\ ServeStep
<1>0. call \in [Callers -> Calls]
  BY DEF Calling
<1>1. ASSUME NEW c \in Callers, LoopStep(c), Frame PROVE Goal
  <2>1. call' \in [Callers -> Calls]
    <3>1. \/ call' = [call EXCEPT ![c].pc = "lock"]
          \/ call' = [call EXCEPT ![c].cancelled = TRUE]
          \/ call' = [call EXCEPT ![c] = Idle]
          \/ call' = [call EXCEPT ![c].pc = "refused"]
      BY <1>1 DEF LoopStep, Start, Cancel, Reply, ReplyFinal, Reply401
    <3>2. /\ [call EXCEPT ![c].pc = "lock"] \in [Callers -> Calls]
          /\ [call EXCEPT ![c].cancelled = TRUE] \in [Callers -> Calls]
          /\ [call EXCEPT ![c] = Idle] \in [Callers -> Calls]
          /\ [call EXCEPT ![c].pc = "refused"] \in [Callers -> Calls]
      BY <1>0, CallChanges
    <3> QED BY <3>1, <3>2, Zenon
  <2>2. \A d \in Callers : /\ Critical(d)' => Critical(d)
                           /\ Saving(d)' <=> Saving(d)
    BY <1>0, <1>1
    DEF LoopStep, Start, Cancel, Reply, ReplyFinal, Reply401, Critical, Calls
  <2> QED BY <1>1, <2>1, <2>2 DEF Calling, ServeStep, Quiet, NoSaver, Critical
<1>2. ASSUME NEW c \in Callers, Token(c) \/ Complain(c) PROVE Goal
  <2>1. call' \in [Callers -> Calls]
    <3>1. \/ call' = [call EXCEPT ![c].pc = "refresh"]
          \/ call' = [call EXCEPT ![c].pc = "renew"]
          \/ call' = [call EXCEPT ![c].pc = "lock", ![c].attempt = 1]
          \/ call' = [call EXCEPT ![c].pc = "sent", ![c].secret = tok.access, ![c].cred = gen]
      BY <1>2 DEF Token, Complain, TokenValid, TokenExpired, ForceRefresh, ForceRefreshLate,
                  Refresh
    <3>2. /\ [call EXCEPT ![c].pc = "refresh"] \in [Callers -> Calls]
          /\ [call EXCEPT ![c].pc = "renew"] \in [Callers -> Calls]
          /\ [call EXCEPT ![c].pc = "lock", ![c].attempt = 1] \in [Callers -> Calls]
          /\ [call EXCEPT ![c].pc = "sent", ![c].secret = tok.access, ![c].cred = gen]
               \in [Callers -> Calls]
      BY <1>0, CallChanges, CallGiven
    <3> QED BY <3>1, <3>2, Zenon
  <2>2. \A d \in Callers : ~Critical(d)
    BY <1>2 DEF Token, Complain, TokenValid, TokenExpired, ForceRefresh, ForceRefreshLate,
                Calling
  <2>3. \A d \in Callers : /\ Critical(d)' => holder' = d
                           /\ ~Saving(d)'
    BY <1>0, <1>2, <2>2
    DEF Token, Complain, TokenValid, TokenExpired, ForceRefresh, ForceRefreshLate, Refresh,
        Critical, Calls
  <2>4. UNCHANGED <<tok, file, server, mishaps, gen>>
    BY <1>2 DEF Token, Complain, TokenValid, TokenExpired, ForceRefresh, ForceRefreshLate,
                Refresh
  <2> QED BY <2>1, <2>2, <2>3, <2>4 DEF Calling, ServeStep, Quiet, NoSaver, Critical
<1>3. ASSUME NEW c \in Callers, NEW r \in BOOLEAN, GrantArrives(c, r) PROVE Goal
  <2>1. gen' \in Nat /\ granted' \in Nat
    BY <1>3 DEF GrantArrives, AsGrants
  <2>2. call' \in [Callers -> Calls]
    <3>1. \/ call' = [call EXCEPT ![c].pc = "resave"]
          \/ call' = [call EXCEPT ![c].pc = "save", ![c].secret = granted', ![c].cred = gen']
      BY <1>3 DEF GrantArrives
    <3>2. /\ [call EXCEPT ![c].pc = "resave"] \in [Callers -> Calls]
          /\ [call EXCEPT ![c].pc = "save", ![c].secret = granted', ![c].cred = gen']
               \in [Callers -> Calls]
      BY <1>0, <2>1, CallChanges, CallGiven
    <3> QED BY <3>1, <3>2, Zenon
  <2>3. /\ \A d \in Callers : Critical(d)' => Critical(d)
        /\ Saving(c)'
    BY <1>0, <1>3 DEF GrantArrives, Exchanging, Critical, Calls
  <2>4. Granting
    BY <1>3, <2>3 DEF GrantArrives, AsGrants, Granting, NoSaver, Pair
  <2> QED BY <1>3, <2>1, <2>2, <2>3, <2>4 DEF GrantArrives, Calling, ServeStep, Critical
<1>4. ASSUME NEW c \in Callers, NEW r \in BOOLEAN, GrantLost(c, r) PROVE Goal
  <2>1. call' \in [Callers -> Calls]
    BY <1>0, <1>4, CallChanges DEF GrantLost
  <2>2. \A d \in Callers : ~Critical(d)'
    BY <1>0, <1>4 DEF GrantLost, Exchanging, Critical, Calls, Calling
  <2>3. Losing
    BY <1>4, <2>2 DEF GrantLost, AsGrants, Losing, NoSaver, Critical
  <2> QED BY <1>4, <2>1, <2>2, <2>3 DEF GrantLost, Calling, ServeStep, Critical
<1>5. ASSUME NEW c \in Callers, RefreshFails(c) PROVE Goal
  <2>1. call' \in [Callers -> Calls]
    BY <1>0, <1>5, CallChanges DEF RefreshFails
  <2>2. \A d \in Callers : ~Critical(d)'
    BY <1>0, <1>5 DEF RefreshFails, Exchanging, Critical, Calls, Calling
  <2>3. NoSaver
    BY <1>5, TokenAssumption DEF RefreshFails, Exchanging, Critical, Calling, NoSaver
  <2> QED BY <1>5, <2>1, <2>2, <2>3
          DEF RefreshFails, Calling, ServeStep, Quiet, NoSaver, Critical
<1>6. ASSUME NEW c \in Callers, Save(c) PROVE Goal
  <2>1. call' \in [Callers -> Calls]
    <3>1. \/ call' = [call EXCEPT ![c].pc = "sent"]
          \/ call' = [call EXCEPT ![c].pc = "lock", ![c].attempt = 1]
      BY <1>6 DEF Save
    <3>2. /\ [call EXCEPT ![c].pc = "sent"] \in [Callers -> Calls]
          /\ [call EXCEPT ![c].pc = "lock", ![c].attempt = 1] \in [Callers -> Calls]
      BY <1>0, CallChanges
    <3> QED BY <3>1, <3>2, Zenon
  <2>2. \A d \in Callers : ~Critical(d)'
    BY <1>0, <1>6 DEF Save, Critical, Calls, Calling
  <2>3. Writing
    BY <1>6, <2>2 DEF Save, Writing, NoSaver, Critical
  <2> QED BY <1>6, <2>1, <2>2, <2>3 DEF Save, Calling, ServeStep, Critical
<1>7. CASE Expire
  BY <1>7 DEF Expire, Calling, ServeStep, Quiet, NoSaver, Critical
<1>8. CASE Revoke
  BY <1>8 DEF Revoke, Calling, ServeStep, Revoking, Critical
<1>9. CASE \E c \in Callers : Loop(c) \/ Token(c) \/ Complain(c) \/ Exchange(c) \/ Save(c)
  <2>1. PICK c \in Callers : Loop(c) \/ Token(c) \/ Complain(c) \/ Exchange(c) \/ Save(c)
    BY <1>9
  <2> QED BY <2>1, <1>1, <1>2, <1>3, <1>4, <1>5, <1>6, Zenon DEF Loop, Exchange, Frame
<1> QED BY <1>7, <1>8, <1>9 DEF Next

-----------------------------------------------------------------------------
\* Grants are only added.
History == /\ granted' \in Nat /\ granted =< granted'
           /\ issued' \in Seq(Deeds) /\ Len(issued') = granted'
           /\ \A i \in 1..granted : issued'[i] = issued[i]

\* A step that adds no grant.
LEMMA NoGrant == ASSUME StartTypes, UNCHANGED <<granted, issued>> PROVE History
  BY DEF StartTypes, History

\* The token file stays true while it is left alone.
LEMMA FileKept ==
  ASSUME StartTypes, FileIsTrue, History, UNCHANGED disk PROVE FileIsTrue'
  BY DEF StartTypes, FileIsTrue, History, disk, Issued, MadeFor

LEMMA CallsIdle == ASSUME StartTypes, ~Serving PROVE NoSaver
<1>1. \A c \in Callers : call[c] = Idle
  BY DEF StartTypes
<1>2. Idle.pc = "idle"
  BY DEF Idle
<1> QED BY <1>1, <1>2, Zenon DEF NoSaver, Saving

\* What a save writes beside the tokens is what they are for and what a start with
\* this configuration looks for.
LEMMA WrittenIsOurs ==
  ASSUME Knows, meta \in Published, stage = "store" \/ Serving, cfg.mode = "oauth",
         TokenIsOurs, Written
  PROVE  /\ record' # None /\ record'.client \in Clients
         /\ MadeFor(issued[tok.refresh], record')
         /\ RecordMatches(record', cfg, meta)
<1>1. PICK e \in Envs : cfg = Load(e)
  BY DEF Knows, Serving
<1>2. /\ auth \in [client : Clients, secret : BOOLEAN] /\ auth.secret = cfg.secret
      /\ cfg.client # NoClient => auth.client = cfg.client
  BY DEF Knows
<1>3. record' = RecordFor(meta, cfg, auth)
  BY DEF Written
<1>4. record' # None
  BY <1>1, <1>2, <1>3, RecordAssumption
<1>5. MadeFor(issued[tok.refresh], record')
  BY <1>3 DEF MadeFor, RecordFor, TokenIsOurs, Serving
<1>6. RecordMatches(record', cfg, meta)
  BY <1>2, <1>3 DEF RecordMatches, RecordFor, SameScopes
<1> QED BY <1>2, <1>3, <1>4, <1>5, <1>6 DEF RecordFor

\* What StartInv does not mention may change.
LEMMA Unmoved ==
  ASSUME StartInv, UNCHANGED <<stage, cfg, meta, auth, call, holder, gen, tok, file, record,
                               granted, current, mishaps, issued, login>>
  PROVE  StartInv'
  BY DEF StartInv, StartTypes, Knows, FileIsTrue, Holds, Agree, Serving, NoSaver, Critical,
         Calling, Issued, TokenIsOurs, Saving, At

\* The end of a process: its memory is gone, and file and AS agree unless it ended
\* in a save.
LEMMA Ended ==
  ASSUME StartInv, Down, History, current' = current,
         mishaps' = {} => mishaps = {} /\ stage # "store" /\ NoSaver
  PROVE  StartInv'
<1> USE DEF StartInv
<1>1. call' = [c \in Callers |-> Idle] /\ stage' = "off" /\ ~Serving' /\ UNCHANGED disk
  BY DEF Down, Serving
<1>2. StartTypes'
  <2>1. Idle \in Calls /\ \A c \in Callers : ~Critical(c)'
    <3>1. 0 \in 0..1 /\ 0 \in Nat
      OBVIOUS
    <3> QED BY <1>1, <3>1 DEF Idle, Calls, NoSecret, Critical
  <2>2. Calling'
    BY <1>1, <2>1 DEF Calling
  <2> QED BY <1>1, <2>2 DEF Down, StartTypes, History
<1>3. FileIsTrue'
  BY <1>1, FileKept
<1>4. Knows' /\ Holds'
  BY <1>1 DEF Knows, Holds, TokenIsOurs, Serving
<1>5. Agree'
  <2>1. ASSUME mishaps' = {}, record' # None PROVE file'.refresh = current'
    BY <1>1, <2>1 DEF Agree, FileIsTrue, disk
  <2> QED BY <1>1, <2>1 DEF Agree
<1> QED BY <1>2, <1>3, <1>4, <1>5

\* A step of main that leaves tokens, file and AS alone.
LEMMA Moved ==
  ASSUME StartInv, Knows', stage # "store", ~Serving, ~Serving',
         stage' \in {"off", "discover", "load", "register", "wait", "exchange", "serve"},
         login' \in 0..MaxLogins,
         UNCHANGED <<call, holder, gen, file, record, granted, current, mishaps, issued>>
  PROVE  StartInv'
<1> USE DEF StartInv
<1>1. ~Serving' /\ stage' # "store"
  OBVIOUS
<1>2. StartTypes'
  BY <1>1 DEF StartTypes, Calling, Critical
<1>3. FileIsTrue'
  BY FileKept, NoGrant DEF disk
<1>4. Holds' /\ Agree'
  BY <1>1 DEF Holds, Agree, TokenIsOurs, Serving
<1> QED BY <1>2, <1>3, <1>4

-----------------------------------------------------------------------------
LEMMA StartInitInv == StartInit => StartInv
<1> SUFFICES ASSUME StartInit PROVE StartInv
  OBVIOUS
<1> USE DEF StartInit, LoopInit
<1>1. Idle \in Calls /\ \A c \in Callers : ~Critical(c)
  <2>1. 0 \in 0..1 /\ 0 \in Nat
    OBVIOUS
  <2> QED BY <2>1 DEF Idle, Calls, NoSecret, Critical
<1>2. <<>> \in Seq(Deeds) /\ Len(<<>>) = 0
  OBVIOUS
<1>3. StartTypes
  BY <1>1, <1>2, StartAssumption DEF StartTypes, Calling, Serving, NoRefresh
<1> QED BY <1>3 DEF StartInv, Knows, FileIsTrue, Holds, Agree, TokenIsOurs, Serving

\* An accepted environment starts a server in password mode or a discovery.
LEMMA BootInv == ASSUME StartInv, NEW e \in Envs, Boot(e) PROVE StartInv'
<1> USE DEF Boot, Enter, ManagerIdle, StartInv
<1>1. cfg'.mode = AuthMode(e) /\ cfg' = Load(e)
  BY DEF Load
<1>2. stage' # "off" => ~SecretAlone(e)
  <2>1. ASSUME stage' # "off" PROVE ~OAuthRefuses(e)
    <3>1. "oauth" \notin Refusals(e)
      BY <2>1, Zenon
    <3> QED BY <3>1 DEF Refusals
  <2> QED BY <2>1 DEF OAuthRefuses
<1>3. ~Serving' /\ ~Serving /\ stage # "store"
  BY <1>1 DEF Serving
<1>4. stage' \in {"off", "discover", "serve"}
  OBVIOUS
<1>5. stage' = "discover" => cfg'.mode = "oauth"
  BY <1>1 DEF AuthMode
<1>6. Knows'
  BY <1>1, <1>2, <1>3, <1>4, <1>5 DEF Knows
<1> QED BY <1>3, <1>4, <1>6, Moved DEF StartTypes, disk, browser, authServer, server

\* Every way out of a start but the one that the AS has made a grant in.
LEMMA FailInv == ASSUME StartInv, Fail, stage # "store", ~Serving PROVE StartInv'
  BY CallsIdle, Ended, NoGrant DEF Fail, StartInv, authServer, server

LEMMA DiscoverInv == ASSUME StartInv, Discover PROVE StartInv'
<1> USE DEF Discover, Enter, ManagerIdle
<1>1. CASE Fail
  BY <1>1, FailInv DEF Serving
<1>2. CASE ~Fail
  <2>1. Knows'
    BY <1>2 DEF StartInv, Knows, Serving
  <2> QED BY <1>2, <2>1, Moved DEF StartInv, StartTypes, Serving, disk, browser, authServer, server
<1> QED BY <1>1, <1>2

LEMMA BindInv == ASSUME StartInv, Bind PROVE StartInv'
<1> USE DEF Bind, Enter, ManagerIdle
<1>1. Knows'
  BY DEF StartInv, Knows, Serving
<1> QED BY <1>1, Moved DEF StartInv, StartTypes, Serving, disk, browser, authServer, server

\* The client that a start works as, for an accepted environment.
LEMMA AuthOf ==
  ASSUME NEW e \in Envs, ~SecretAlone(e), NEW id \in Clients
  PROVE  LET a == ClientAuth(Load(e), id) IN
         /\ a \in [client : Clients, secret : BOOLEAN]
         /\ a.secret = Load(e).secret
         /\ Load(e).client # NoClient => a.client = Load(e).client
         /\ Load(e).client = NoClient => a.client = id
  BY StartAssumption DEF ClientAuth, Load, SecretAlone, Clients

LEMMA OpenLoginInv == ASSUME StartInv, OpenLogin PROVE StartInv'
<1> USE DEF OpenLogin, Enter, ManagerIdle
<1>1. login' \in 1..MaxLogins
  BY StartAssumption DEF StartInv, StartTypes
<1>2. DcrClient(login') \in Clients
  BY <1>1 DEF Clients
<1>3. Knows'
  BY <1>2, AuthOf DEF StartInv, Knows, Serving, HasAuth
<1> QED BY <1>1, <1>3, Moved DEF StartInv, StartTypes, Serving, disk, authServer, server

\* A saved token is taken up by whom it was issued to, or by nobody.
LEMMA ResumeInv == ASSUME StartInv, Resume PROVE StartInv'
<1> USE DEF Resume, Enter, ManagerIdle, StartInv, disk, browser, authServer, server
<1>1. PICK e \in Envs : cfg = Load(e) /\ ~SecretAlone(e)
  BY DEF Knows
<1>2. Serving' /\ ~Serving /\ record # None /\ meta \in Published
  BY DEF Serving, Knows, Usable, LoadRecord
<1>3. /\ file \in Issued /\ record.client \in Clients /\ MadeFor(issued[file.refresh], record)
      /\ RecordMatches(record, cfg, meta)
  BY <1>2 DEF FileIsTrue, Usable
<1>4. /\ auth' \in [client : Clients, secret : BOOLEAN] /\ auth'.secret = cfg.secret
      /\ cfg.client # NoClient => auth'.client = cfg.client
      /\ auth'.client = record.client
  BY <1>1, <1>3, AuthOf DEF RecordMatches
<1>5. StartTypes'
  BY <1>2 DEF StartTypes, Calling, Critical
<1>6. Knows'
  BY <1>1, <1>2, <1>4 DEF Knows
<1>7. FileIsTrue'
  BY FileKept, NoGrant
<1>8. Holds'
  BY <1>2, <1>3, <1>4 DEF Holds, TokenIsOurs, Issued, MadeFor, RecordMatches, SameScopes
<1>9. Agree'
  <2>1. NoSaver'
    BY <1>2 DEF StartTypes, NoSaver, Saving, Idle
  <2>2. mishaps = {} => file.refresh = current
    BY <1>2 DEF Agree
  <2> QED BY <1>2, <1>3, <2>1, <2>2 DEF Agree, NoSaver
<1> QED BY <1>5, <1>6, <1>7, <1>8, <1>9

LEMMA TakeInv == ASSUME StartInv, Take PROVE StartInv'
<1> USE DEF Take, Enter, ManagerIdle
<1>1. CASE Fail
  BY <1>1, FailInv DEF Serving
<1>2. CASE ~Fail
  <2>1. Knows'
    BY <1>2 DEF StartInv, Knows, Serving
  <2> QED BY <1>2, <2>1, Moved DEF StartInv, StartTypes, Serving, disk, browser, authServer, server
<1> QED BY <1>1, <1>2

\* A grant made for the start that asks for it.
DeedOf == [issuer |-> meta.issuer, resource |-> meta.resource, client |-> auth.client,
           scopes |-> cfg.scopes, mode |-> Mode(auth.secret)]

LEMMA Granted ==
  ASSUME StartTypes, Knows, stage = "exchange", AsGrantsCode
  PROVE  History /\ granted' = granted + 1 /\ issued'[granted'] = DeedOf
<1>1. DeedOf \in Deeds
  BY DEF Knows, DeedOf, Deeds, Modes, Mode
<1>2. issued' = Append(issued, DeedOf) /\ granted' = granted + 1
  BY DEF AsGrantsCode, DeedOf
<1> HIDE DEF DeedOf
<1> QED BY <1>1, <1>2 DEF StartTypes, History

LEMMA CodeExchangedInv == ASSUME StartInv, CodeExchanged PROVE StartInv'
<1> USE DEF CodeExchanged, Enter, ManagerIdle, StartInv, disk, browser
<1>1. History /\ granted' = granted + 1 /\ issued'[granted'] = DeedOf
  BY Granted
<1>2. ~Serving /\ ~Serving'
  BY DEF Serving
<1>3. StartTypes'
  BY <1>1, <1>2 DEF StartTypes, History, Calling, Critical
<1>4. Knows'
  BY <1>2 DEF Knows
<1>5. FileIsTrue'
  BY <1>1, FileKept
<1>6. Holds'
  <2>1. file.access < granted' /\ tok' \in Issued'
    BY <1>1 DEF FileIsTrue, StartTypes, Issued, NoTokens, Pair, NoRefresh
  <2>2. TokenIsOurs'
    BY <1>1 DEF TokenIsOurs, DeedOf, Pair, SameScopes
  <2> QED BY <1>2, <2>1, <2>2 DEF Holds
<1>7. Agree'
  BY <1>2 DEF Agree
<1> QED BY <1>3, <1>4, <1>5, <1>6, <1>7

LEMMA CodeWastedInv == ASSUME StartInv, CodeWasted PROVE StartInv'
<1>1. NoSaver
  BY CallsIdle DEF CodeWasted, Serving, StartInv, StartTypes
<1> QED BY <1>1, Granted, Ended DEF CodeWasted, StartInv

LEMMA StoreInv == ASSUME StartInv, Store PROVE StartInv'
<1> USE DEF Store, Enter, StartInv, disk, browser, authServer, server
<1>1. ~Serving /\ meta \in Published /\ cfg.mode = "oauth" /\ Serving'
  BY DEF Serving, Knows
<1>2. StartTypes'
  BY <1>1 DEF StartTypes, Calling, Critical
<1>3. Knows'
  BY <1>1 DEF Knows
<1>4. /\ tok = Pair(granted, granted) /\ current = granted /\ file.access < granted
      /\ tok \in Issued /\ TokenIsOurs
  BY DEF Holds
<1>5. Holds'
  BY <1>1, <1>4 DEF Holds, TokenIsOurs, Issued
<1>6. ASSUME Written
      PROVE  /\ record' # None /\ record'.client \in Clients
             /\ MadeFor(issued[tok.refresh], record')
             /\ RecordMatches(record', cfg, meta)
  BY <1>1, <1>4, <1>6, WrittenIsOurs
<1>7. FileIsTrue'
  <2>1. CASE UNCHANGED disk
    BY <2>1, FileKept, NoGrant
  <2>2. CASE file' = tok /\ Written
    BY <1>4, <1>6, <2>2 DEF FileIsTrue, Issued
  <2> QED BY <2>1, <2>2
<1>8. Agree'
  <2>1. tok.refresh = current
    BY <1>4 DEF Pair
  <2>2. file # tok
    <3>1. tok.access = granted /\ granted \in Nat /\ file.access \in Nat
      BY <1>4 DEF Pair, StartTypes, FileIsTrue, Issued, NoTokens, NoRefresh
    <3> QED BY <1>4, <3>1
  <2>3. file' = tok => Written
    BY <2>2
  <2>4. file' # tok => mishaps' # {}
    OBVIOUS
  <2>5. NoSaver'
    <3>1. NoSaver
      BY <1>1, CallsIdle
    <3> QED BY <3>1 DEF NoSaver, Saving
  <2> QED BY <1>1, <1>6, <2>1, <2>3, <2>4, <2>5 DEF Agree, NoSaver
<1> QED BY <1>2, <1>3, <1>5, <1>7, <1>8

LEMMA ServeInv == ASSUME StartInv, Serve PROVE StartInv'
<1> USE DEF Serve, StartInv, process, browser, server
<1>1. Serving /\ Serving'
  BY DEF Serving
<1>2. tok \in Issued /\ granted \in Nat /\ TokenIsOurs /\ current \in 0..granted
  BY <1>1 DEF Holds, StartTypes
<1>3. Calling' /\ gen' \in Nat /\ ServeStep
  BY <1>2, ServeCases DEF StartTypes, Issued
<1>4. /\ granted' \in {granted, granted + 1}
      /\ current' \in 0..granted'
      /\ tok' \in Issued'
  BY <1>2, <1>3 DEF ServeStep, Quiet, Granting, Losing, Writing, Revoking, Issued, Pair
<1>5. /\ History
      /\ granted' = granted + 1 => issued'[granted'] = issued[tok.refresh]
  <2>1. issued[tok.refresh] \in Deeds
    BY <1>2 DEF StartTypes, Issued
  <2>2. CASE granted' = granted
    <3>1. issued' = issued
      BY <2>2
    <3>2. granted' # granted + 1
      BY <1>2, <2>2
    <3> QED BY <2>2, <3>1, <3>2, NoGrant
  <2>3. CASE granted' = granted + 1
    BY <1>2, <2>1, <2>3 DEF StartTypes, History
  <2> QED BY <1>2, <1>4, <2>2, <2>3
<1>6. StartTypes'
  BY <1>1, <1>3, <1>4, <1>5 DEF StartTypes, History
<1>7. Knows'
  BY <1>1 DEF Knows
<1>8. issued'[tok'.refresh] = issued[tok.refresh]
  <2>1. tok.refresh \in 1..granted
    BY <1>2 DEF Issued
  <2>2. issued'[tok.refresh] = issued[tok.refresh]
    BY <1>5, <2>1 DEF History
  <2>3. \/ tok'.refresh = tok.refresh
        \/ granted' = granted + 1 /\ tok'.refresh = granted'
    BY <1>3 DEF ServeStep, Quiet, Granting, Losing, Writing, Revoking, Pair
  <2> QED BY <1>5, <2>2, <2>3
<1>9. Holds'
  BY <1>1, <1>2, <1>4, <1>8 DEF Holds, TokenIsOurs, Serving
<1>10. ASSUME Written
       PROVE  /\ record' # None /\ record'.client \in Clients
              /\ MadeFor(issued[tok.refresh], record')
              /\ RecordMatches(record', cfg, meta)
  <2>1. cfg.mode = "oauth" /\ meta \in Published
    BY <1>1 DEF Serving, Knows
  <2> QED BY <1>1, <1>2, <1>10, <2>1, WrittenIsOurs
<1>11. FileIsTrue'
  <2>1. CASE file' = file
    BY <1>5, <2>1, FileKept DEF disk
  <2>2. CASE file' # file
    <3>1. file' = tok /\ tok' = tok /\ Written
      BY <1>3, <2>2 DEF ServeStep, Quiet, Granting, Losing, Writing, Revoking
    <3> QED BY <1>4, <1>8, <1>10, <3>1 DEF FileIsTrue
  <2> QED BY <2>1, <2>2
<1>12. file.access \in 0..granted
  BY <1>2 DEF FileIsTrue, Issued, NoTokens, Pair, NoRefresh
<1>13. Agree'
  <2>1. CASE Quiet
    BY <1>1, <2>1 DEF Agree, Quiet, NoSaver
  <2>2. CASE Granting
    BY <1>1, <1>12, <1>2, <2>2 DEF Agree, Granting, NoSaver, Pair
  <2>3. CASE Losing
    BY <1>1, <2>3 DEF Agree, Losing, NoSaver
  <2>4. CASE Writing
    <3>1. tok.refresh # current => mishaps' # {}
      BY <1>1, <2>4 DEF Agree, Writing, NoSaver
    <3>2. file' = tok => record' # None /\ RecordMatches(record', cfg, meta)
      BY <1>1, <1>10 DEF Agree
    <3>3. file' # tok => mishaps' # {}
      BY <2>4 DEF Writing
    <3> QED BY <1>1, <2>4, <3>1, <3>2, <3>3 DEF Agree, Writing, NoSaver
  <2>5. CASE Revoking
    BY <1>1, <2>5 DEF Agree, Revoking, NoSaver
  <2> QED BY <1>3, <2>1, <2>2, <2>3, <2>4, <2>5 DEF ServeStep
<1> QED BY <1>6, <1>7, <1>9, <1>11, <1>13

LEMMA StopInv == ASSUME StartInv, Stop PROVE StartInv'
<1> DEFINE cut == {y \in {stage} : y = "store"} \cup {c \in Callers : Saving(c)}
<1>1. mishaps' = mishaps \cup {"killed" : x \in cut}
  BY DEF Stop
<1>2. ASSUME mishaps' = {} PROVE mishaps = {} /\ cut = {}
  BY <1>1, <1>2
<1>3. cut = {} => stage # "store" /\ NoSaver
  BY DEF NoSaver
<1> QED BY <1>2, <1>3, Ended, NoGrant DEF Stop, StartInv, authServer, server

LEMMA DeleteFileInv == ASSUME StartInv, DeleteFile PROVE StartInv'
<1> USE DEF DeleteFile, StartInv, process, callback, browser, authServer, server
<1>1. ~Serving /\ ~Serving'
  BY DEF Serving
<1>2. StartTypes' /\ Knows'
  BY <1>1 DEF StartTypes, Calling, Critical, Knows
<1>3. FileIsTrue' /\ Holds' /\ Agree'
  BY <1>1 DEF FileIsTrue, Holds, Agree, TokenIsOurs
<1> QED BY <1>2, <1>3

\* Every step keeps the invariant.
LEMMA StartStep == StartInv /\ [StartNext]_startVars => StartInv'
<1> SUFFICES ASSUME StartInv, [StartNext]_startVars PROVE StartInv'
  OBVIOUS
<1>1. ASSUME NEW e \in Envs, Boot(e) PROVE StartInv'
  BY <1>1, BootInv
<1>2. CASE LoadFails \/ RegisterFails \/ Timeout \/ ExchangeFails
  BY <1>2, FailInv DEF LoadFails, RegisterFails, Timeout, ExchangeFails, Serving
<1>3. CASE Starting
  BY <1>2, <1>3, DiscoverInv, ResumeInv, BindInv, OpenLoginInv DEF Starting
<1>4. CASE LoginStep
  BY <1>2, <1>4, TakeInv, CodeExchangedInv, CodeWastedInv, StoreInv DEF LoginStep, LoginEnds
<1>5. ASSUME NEW p \in pages, NEW answer, Answer(p, answer) PROVE StartInv'
  BY <1>5, Unmoved DEF Answer, ManagerIdle, process, callback, disk, authServer, server
<1>6. ASSUME NEW p \in pages, NEW h \in Handlers, Deliver(h, p) PROVE StartInv'
  BY <1>6, Unmoved DEF Deliver, ManagerIdle, process, disk, browser, authServer, server
<1>7. ASSUME NEW h \in Handlers, Post(h) PROVE StartInv'
  BY <1>7, Unmoved DEF Post, ManagerIdle, process, disk, browser, authServer, server
<1>8. CASE UNCHANGED startVars
  BY <1>8, Unmoved DEF startVars, vars, manager, process, browser, server
<1> QED BY <1>1, <1>3, <1>4, <1>5, <1>6, <1>7, <1>8, ServeInv, StopInv, DeleteFileInv
        DEF StartNext, Browser

THEOREM StartInvariant == StartSpec => []StartInv
  BY StartInitInv, StartStep, PTL DEF StartSpec

\* Whatever changed between the starts before, a server works with tokens that were
\* issued for what it is configured to do.
THEOREM StartTokenIsOurs == StartSpec => []TokenIsOurs
<1>1. StartInv => TokenIsOurs
  BY DEF StartInv, Holds
<1> QED BY <1>1, StartInvariant, PTL

\* A server can be started again without a login at any moment but in a save, unless
\* an answer of the AS was lost, a save failed or was cut short or the refresh token
\* was revoked.
THEOREM StartRestartResumes == StartSpec => []RestartResumes
<1>1. StartInv => RestartResumes
  <2> SUFFICES ASSUME StartInv, Serving, mishaps = {}, NoSaver
               PROVE  file.refresh = current /\ Usable(cfg, meta) /\ HasAuth(cfg, meta)
    BY DEF RestartResumes, Serving, NoSaver
  <2> USE DEF StartInv
  <2>1. file = tok /\ tok.refresh = current /\ record # None /\ RecordMatches(record, cfg, meta)
    BY DEF Agree
  <2>2. file.refresh # NoRefresh
    BY <2>1 DEF FileIsTrue, Issued, StartTypes, NoRefresh
  <2> QED BY <2>1, <2>2 DEF Knows, Usable, LoadRecord
<1> QED BY <1>1, StartInvariant, PTL

\* No refresh token that the AS has replaced is presented, except after one of
\* those mishaps.
THEOREM StartNeverPresentsReplaced == StartSpec => []NeverPresentsReplaced
<1>1. StartInv => NeverPresentsReplaced
  <2> SUFFICES ASSUME StartInv, NEW c \in Callers, Exchanging(c), tok.refresh # current
               PROVE  mishaps # {}
    BY DEF NeverPresentsReplaced
  <2>1. Serving
    <3>1. Idle.pc = "idle"
      BY DEF Idle
    <3>2. call[c].pc # "idle"
      BY DEF Exchanging
    <3> QED BY <3>1, <3>2 DEF StartInv, StartTypes
  <2> QED BY <2>1 DEF StartInv, Agree
<1> QED BY <1>1, StartInvariant, PTL

-----------------------------------------------------------------------------
\* The user has consented to the request of this login.
Consented == \E p \in pages : p.login = login /\ p.answer = "code"

\* A result is None, an error, or the code of this login.
Honest(r) == r \in {None, 0} \/ (r = login /\ Consented)

\* Until a login is opened there is no result on its way; and none that is brings the
\* code of another.
CallbackInv ==
  /\ login \in Nat
  /\ pages \subseteq [login : Nat, port : Nat, answer : {None, "code", "error"}]
  /\ handler = [h \in Handlers |-> handler[h]]
  /\ stage \in {"off", "discover", "load", "register"} => inbox = None /\ handler = NoHandlers
  /\ Honest(inbox) /\ \A h \in Handlers : Honest(handler[h])
  /\ ConsentIsOwn

LEMMA CallbackInit == StartInit => CallbackInv
  BY DEF StartInit, CallbackInv, Honest, ConsentIsOwn, NoHandlers

\* A step of main that has nothing to do with the callback.
LEMMA CallbackLeftAlone ==
  ASSUME CallbackInv, UNCHANGED <<callback, browser>>,
         stage' \in {"off", "discover", "load", "register"}
           => stage \in {"off", "discover", "load", "register"},
         stage' = "exchange" => stage = "exchange"
  PROVE  CallbackInv'
  BY DEF CallbackInv, Honest, Consented, ConsentIsOwn, callback, browser

\* The end of a process takes the results and the pages of free ports along.
LEMMA CallbackDown == ASSUME CallbackInv, Down PROVE CallbackInv'
<1>1. stage' = "off" /\ inbox' = None /\ handler' = NoHandlers /\ pages' \subseteq pages
      /\ login' = login
  BY DEF Down
<1>2. (\A h \in Handlers : handler'[h] = None) /\ handler' = [h \in Handlers |-> handler'[h]]
  BY <1>1 DEF NoHandlers
<1> QED BY <1>1, <1>2 DEF CallbackInv, Honest, ConsentIsOwn

\* A new request is shown when nothing is left of an earlier one but its page.
LEMMA CallbackOpens == ASSUME CallbackInv, OpenLogin PROVE CallbackInv'
<1>1. /\ login' = login + 1 /\ stage' = "wait" /\ UNCHANGED <<inbox, handler>>
      /\ pages' = pages \cup {[login |-> login', port |-> Port(login'), answer |-> None]}
      /\ inbox = None /\ handler = NoHandlers
  BY DEF OpenLogin, Enter, callback, CallbackInv
<1>2. login' \in Nat /\ Port(login') \in Nat
  BY <1>1 DEF CallbackInv, Port, FixedPort
<1>3. pages' \subseteq [login : Nat, port : Nat, answer : {None, "code", "error"}]
  BY <1>1, <1>2 DEF CallbackInv
<1>4. (\A h \in Handlers : handler'[h] = None) /\ handler' = [h \in Handlers |-> handler'[h]]
  BY <1>1 DEF NoHandlers
<1> QED BY <1>1, <1>2, <1>3, <1>4 DEF CallbackInv, Honest, ConsentIsOwn

\* An answer to a request does not take back an earlier one.
LEMMA CallbackAnswered ==
  ASSUME CallbackInv, NEW p \in pages, NEW answer \in {"code", "error"}, Answer(p, answer)
  PROVE  CallbackInv'
<1> DEFINE q == [p EXCEPT !.answer = answer]
<1>1. /\ p.answer = None /\ pages' = (pages \ {p}) \cup {q}
      /\ UNCHANGED <<login, stage, inbox, handler, code>>
  BY DEF Answer, process, callback
<1>2. pages' \subseteq [login : Nat, port : Nat, answer : {None, "code", "error"}]
  BY <1>1 DEF CallbackInv
<1>3. Consented => Consented'
  BY <1>1, StartAssumption DEF Consented
<1> QED BY <1>1, <1>2, <1>3 DEF CallbackInv, Honest, Consented, ConsentIsOwn

\* A handler lets a code through only if the page is this login's.
LEMMA CallbackDelivered ==
  ASSUME CallbackInv, NEW h \in Handlers, NEW p \in pages, Deliver(h, p)
  PROVE  CallbackInv'
<1>1. /\ p.answer # None /\ stage \in {"wait", "exchange"}
      /\ handler' = [handler EXCEPT ![h] = Verdict(p)]
      /\ UNCHANGED <<login, pages, stage, inbox, code>>
  BY DEF Deliver, Listening, process, browser
<1>2. Honest(Verdict(p))
  <2>1. p.answer \in {"code", "error"}
    BY <1>1 DEF CallbackInv
  <2> QED BY <2>1 DEF Verdict, Honest, Consented
<1>3. handler' = [g \in Handlers |-> IF g = h THEN Verdict(p) ELSE handler[g]]
  BY <1>1 DEF CallbackInv
<1>4. \A g \in Handlers : Honest(handler'[g])
  BY <1>2, <1>3 DEF CallbackInv
<1> QED BY <1>1, <1>3, <1>4 DEF CallbackInv, Honest, Consented, ConsentIsOwn

\* A handler's result is in the channel or dropped.
LEMMA CallbackPosted == ASSUME CallbackInv, NEW h \in Handlers, Post(h) PROVE CallbackInv'
<1>1. /\ handler[h] # None /\ handler' = [handler EXCEPT ![h] = None]
      /\ inbox' = IF inbox = None THEN handler[h] ELSE inbox
      /\ UNCHANGED <<login, pages, stage, code>>
  BY DEF Post, process, browser
<1>2. stage \notin {"off", "discover", "load", "register"}
  BY <1>1 DEF CallbackInv, NoHandlers
<1>3. handler' = [g \in Handlers |-> IF g = h THEN None ELSE handler[g]]
  BY <1>1 DEF CallbackInv
<1>4. Honest(inbox') /\ \A g \in Handlers : Honest(handler'[g])
  BY <1>1, <1>3 DEF CallbackInv, Honest
<1> QED BY <1>1, <1>2, <1>3, <1>4 DEF CallbackInv, Honest, Consented, ConsentIsOwn

\* Main takes the first result.
LEMMA CallbackTaken == ASSUME CallbackInv, Take PROVE CallbackInv'
<1>1. CASE Fail
  BY <1>1, CallbackDown DEF Fail
<1>2. CASE ~Fail
  <2>1. /\ inbox \notin {None, 0} /\ code' = inbox /\ inbox' = None /\ stage' = "exchange"
        /\ UNCHANGED <<login, pages, handler>>
    BY <1>2 DEF Take, Enter, browser
  <2>2. code' = login /\ Consented
    BY <2>1 DEF CallbackInv, Honest
  <2> QED BY <2>1, <2>2 DEF CallbackInv, Honest, Consented, ConsentIsOwn
<1> QED BY <1>1, <1>2

LEMMA CallbackStep == CallbackInv /\ [StartNext]_startVars => CallbackInv'
<1> SUFFICES ASSUME CallbackInv, [StartNext]_startVars PROVE CallbackInv'
  OBVIOUS
<1>1. ASSUME NEW e \in Envs, Boot(e) PROVE CallbackInv'
  BY <1>1, CallbackLeftAlone DEF Boot, Enter
<1>2. CASE \/ Fail \/ LoadFails \/ RegisterFails \/ Timeout \/ ExchangeFails \/ CodeWasted
           \/ Stop
  BY <1>2, CallbackDown DEF Fail, LoadFails, RegisterFails, Timeout, ExchangeFails, CodeWasted,
                            Stop
<1>3. CASE ~Fail /\ (Discover \/ Resume \/ Bind)
  BY <1>3, CallbackLeftAlone DEF Discover, Resume, Bind, Enter
<1>4. CASE CodeExchanged
  <2>1. stage' = "store" /\ UNCHANGED <<inbox, handler, login, pages>>
    BY <1>4 DEF CodeExchanged, Enter, browser
  <2> QED BY <2>1 DEF CallbackInv, Honest, Consented, ConsentIsOwn
<1>5. CASE Store \/ Serve \/ DeleteFile \/ UNCHANGED startVars
  BY <1>5, CallbackLeftAlone DEF Store, Serve, DeleteFile, startVars, process, Enter
<1>6. CASE Starting
  BY <1>2, <1>3, <1>6, CallbackOpens DEF Starting
<1>7. CASE LoginStep
  BY <1>2, <1>4, <1>5, <1>7, CallbackTaken DEF LoginStep, LoginEnds
<1>8. CASE Browser
  BY <1>8, CallbackAnswered, CallbackDelivered DEF Browser
<1> QED BY <1>1, <1>2, <1>5, <1>6, <1>7, <1>8, CallbackPosted DEF StartNext

\* A login exchanges the code of its own request only, whatever pages earlier starts
\* have left in the browser and however often they call.
THEOREM StartConsentIsOwn == StartSpec => []ConsentIsOwn
<1>1. CallbackInv => ConsentIsOwn
  BY DEF CallbackInv
<1> QED BY <1>1, CallbackInit, CallbackStep, PTL DEF StartSpec

=============================================================================
