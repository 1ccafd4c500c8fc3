---------------------------- MODULE TokenManager ----------------------------
(***************************************************************************)
(* OAuth authentication: Manager (internal/metabase/oauth/source.go)       *)
(* behind oauthProvider, as the provider of the request loop, together     *)
(* with the token file and the authorization server (AS).                  *)
(*                                                                         *)
(* The mutex mu is held through the exchange with the AS and through the   *)
(* writing of the file.  The exchange runs under the context of the tool   *)
(* call that needs it, so a cancelled call can lose the answer of an AS    *)
(* that has already rotated the refresh token.                             *)
(*                                                                         *)
(* Tokens are numbered by the grant that created them.  The AS accepts one *)
(* refresh token at a time; it may keep it, or rotate it at every grant.   *)
(***************************************************************************)
EXTENDS RequestLoop

CONSTANTS
  NoCaller,      \* mu is free
  MaxGrants      \* bound on the grants of the AS, the login included

ASSUME TokenAssumption ==
  /\ NoCaller \notin Callers
  /\ MaxGrants \in Nat \ {0}

VARIABLES
  holder,        \* who holds mu
  tok,           \* m.tok: its access token and its refresh token
  gen,           \* m.gen
  expired,       \* access tokens that Valid() calls expired
  file,          \* the pair of tokens in the token file
  granted,       \* the AS: grants made
  current,       \* the AS: the refresh token it accepts, or NoRefresh
  mishaps        \* history: what went wrong since a token was last saved: an answer
                 \* of the AS lost, a save failed, the refresh token revoked

manager == <<holder, tok, gen>>
server == <<granted, current>>
vars == <<call, rejected, manager, expired, file, server, mishaps>>

NoRefresh == 0
Pair(a, r) == [access |-> a, refresh |-> r]

\* A login has just been made (grant 1), or its record reloaded.  Both bring a
\* refresh token: InteractiveLogin and NewTokenSource insist on one.
Init == /\ LoopInit
        /\ holder = NoCaller
        /\ tok = Pair(1, 1) /\ current = 1
        /\ file = tok
        /\ gen = 0
        /\ expired \in SUBSET {1}
        /\ granted = 1
        /\ mishaps = {}

Valid == tok.access \notin expired
LockFree == holder = NoCaller

-----------------------------------------------------------------------------
\* Token, the token on hand being valid: one snapshot of (tok, gen).
TokenValid(c) ==
  /\ At(c, "lock") /\ LockFree /\ Valid
  /\ Send(c, tok.access, gen)
  /\ UNCHANGED <<rejected, manager, expired, file, server, mishaps>>

\* doRefreshLocked takes up the exchange.  Its early return for want of a refresh
\* token is never taken: TypeOK says that tok has one.
Refresh(c, exchange) ==
  /\ call' = [call EXCEPT ![c].pc = exchange]
  /\ holder' = c
  /\ UNCHANGED <<rejected, tok, gen, expired, file, server, mishaps>>

TokenExpired(c) == /\ At(c, "lock") /\ LockFree /\ ~Valid
                   /\ Refresh(c, "refresh")

\* ForceRefresh after a 401: somebody else has replaced the token.
ForceRefreshLate(c) ==
  /\ At(c, "refused") /\ LockFree
  /\ gen # call[c].cred
  /\ Retry(c)
  /\ UNCHANGED <<rejected, manager, expired, file, server, mishaps>>

ForceRefresh(c) == /\ At(c, "refused") /\ LockFree
                   /\ gen = call[c].cred
                   /\ Refresh(c, "renew")

-----------------------------------------------------------------------------
Exchanging(c) == call[c].pc \in {"refresh", "renew"}

\* The AS takes the refresh token it is sent if that is the current one.
AsGrants(rotates) ==
  /\ tok.refresh = current /\ current # NoRefresh
  /\ granted < MaxGrants
  /\ granted' = granted + 1
  /\ current' = IF rotates THEN granted' ELSE current

\* Fault: an answer without a refresh token erases the old one.
NextRefreshErased(rotates) == IF rotates THEN granted' ELSE NoRefresh

\* Fault: the refresh token in the answer is overlooked.
NextRefreshOld(rotates) == tok.refresh

\* Without a new refresh token in the answer the old one stays.
NextRefresh(rotates) == IF rotates THEN granted' ELSE tok.refresh

\* Fault: the generation stays what it was.
GenKept == gen

NextGen == gen + 1

\* The answer arrives.  Token returns this snapshot, still under mu, when it has
\* been saved.  A lifetime of ten seconds or less is expired on arrival.
GrantArrives(c, rotates) ==
  /\ Exchanging(c) /\ ~call[c].cancelled
  /\ AsGrants(rotates)
  /\ tok' = Pair(granted', NextRefresh(rotates))
  /\ gen' = NextGen
  /\ expired' \in {expired, expired \cup {granted'}}
  /\ \/ /\ At(c, "refresh")
        /\ call' = [call EXCEPT ![c].pc = "save",
                                ![c].secret = granted', ![c].cred = gen']
     \/ /\ At(c, "renew")
        /\ call' = [call EXCEPT ![c].pc = "resave"]
  /\ UNCHANGED <<rejected, holder, file, mishaps>>

\* Fault: no deferred Unlock.
UnlockForgotten == UNCHANGED holder

Unlock == holder' = NoCaller

\* The AS has made the grant, the client does not get to read it: its call was
\* cancelled, the connection broke, or the exchange timed out.
GrantLost(c, rotates) ==
  /\ Exchanging(c)
  /\ AsGrants(rotates)
  /\ Return(c) /\ Unlock
  /\ mishaps' = mishaps \cup {"lost"}
  /\ UNCHANGED <<rejected, tok, gen, expired, file>>

\* Fault: an error answer is taken for a token.
RefreshFailsIntoToken(c) ==
  /\ Exchanging(c)
  /\ Return(c) /\ Unlock
  /\ tok' = Pair(0, tok.refresh)
  /\ gen' = gen + 1
  /\ UNCHANGED <<rejected, expired, file, server, mishaps>>

\* Fault: the early return for a failed exchange keeps mu.
RefreshFailsLocked(c) ==
  /\ Exchanging(c)
  /\ Return(c)
  /\ UNCHANGED <<rejected, manager, expired, file, server, mishaps>>

\* Any other failure: the AS refuses, or is not reached.
RefreshFails(c) ==
  /\ Exchanging(c)
  /\ Return(c) /\ Unlock
  /\ UNCHANGED <<rejected, tok, gen, expired, file, server, mishaps>>

\* Fault: only Token saves what it has refreshed.
SavedBy(c) == IF At(c, "save") THEN tok ELSE file

\* What saveLocked writes.
Saved(c) == tok

\* saveLocked is the end of doRefreshLocked.  A failure is only logged; it may
\* come from the chmod after the rename, with the new record in place.
Save(c) ==
  /\ \/ file' = Saved(c) /\ mishaps' = mishaps \cap {"revoked"}
     \/ file' \in {file, Saved(c)} /\ mishaps' = mishaps \cup {"unsaved"}
  /\ Unlock
  /\ \/ /\ At(c, "save")
        /\ call' = [call EXCEPT ![c].pc = "sent"]
     \/ /\ At(c, "resave")
        /\ Retry(c)
  /\ UNCHANGED <<rejected, tok, gen, expired, server>>

-----------------------------------------------------------------------------
\* Time passes: the token on hand reaches its expiry.
Expire == /\ Valid
          /\ expired' = expired \cup {tok.access}
          /\ UNCHANGED <<call, rejected, manager, file, server, mishaps>>

\* The AS drops the refresh token: revoked, or expired.
Revoke == /\ current # NoRefresh
          /\ current' = NoRefresh
          /\ mishaps' = mishaps \cup {"revoked"}
          /\ UNCHANGED <<call, rejected, manager, expired, file, granted>>

Token(c) == TokenValid(c) \/ TokenExpired(c)
Complain(c) == ForceRefreshLate(c) \/ ForceRefresh(c)
Exchange(c) == \/ \E rotates \in BOOLEAN : GrantArrives(c, rotates) \/ GrantLost(c, rotates)
               \/ RefreshFails(c)
Loop(c) == LoopStep(c) /\ UNCHANGED <<manager, expired, file, server, mishaps>>

Next == \/ \E c \in Callers : Loop(c) \/ Token(c) \/ Complain(c) \/ Exchange(c) \/ Save(c)
        \/ Expire \/ Revoke

\* The HTTP client bounds every exchange, a write to the file ends, and a
\* goroutine that waits for a Go mutex gets it however often others pass.
Fairness == \A c \in Callers : /\ WF_vars(Exchange(c))
                               /\ WF_vars(Save(c))
                               /\ WF_vars(Loop(c) /\ Reply(c))
                               /\ SF_vars(Token(c))
                               /\ SF_vars(Complain(c))

Spec == Init /\ [][Next]_vars
FairSpec == Spec /\ Fairness

-----------------------------------------------------------------------------
\* The provider contract, read off this state: the login is credential 1, and a
\* caller that was given none in its call has no secret.
PhaseOf(c) == CASE call[c].pc \in {"lock", "refresh", "resave"} -> "asking"
                [] call[c].pc \in {"save", "sent"} -> "using"
                [] call[c].pc \in {"refused", "renew"} -> "refused"
                [] OTHER -> "idle"

Contract == INSTANCE CredentialContract WITH
  MaxGen <- MaxGrants,
  phase <- [c \in Callers |-> PhaseOf(c)],
  using <- [c \in Callers |-> IF call[c].secret = NoSecret THEN 0 ELSE call[c].cred + 1],
  gen <- gen + 1,
  live <- Valid

\* Manager under doJSON keeps what the comments of authProvider promise, in
\* particular that a late 401 does not refresh a token already refreshed.
ImplementsContract == Contract!Safety

\* It keeps answering under the fairness above: no exchange, save or wait for mu
\* leaves a caller without an answer.
KeepsAnswering == Contract!Fairness

Calls == [pc : {"idle", "lock", "refresh", "save", "sent", "refused", "renew", "resave"},
          attempt : 0..1, secret : Nat, cred : Nat, cancelled : BOOLEAN]
Pairs == [access : Nat \ {0}, refresh : Nat \ {0}]

\* In particular the manager always has a refresh token, which no step checks.
TypeOK == /\ call \in [Callers -> Calls]
          /\ rejected \subseteq Nat
          /\ holder \in Callers \cup {NoCaller}
          /\ tok \in Pairs
          /\ gen \in Nat
          /\ expired \subseteq Nat
          /\ file \in Pairs
          /\ granted \in Nat
          /\ current \in Nat
          /\ mishaps \subseteq {"lost", "unsaved", "revoked"}

\* Whatever callers refresh, wait, complain or give up in whatever order, the
\* manager holds the refresh token the AS accepts, unless an answer of the AS
\* was lost or the token revoked: no two exchanges ever present the same
\* one-time token, and an answer that brings no new one does not erase it.
InStep == tok.refresh # current => mishaps \cap {"lost", "revoked"} # {}

Saving(c) == call[c].pc \in {"save", "resave"}

\* What callers are given a restart could take up too: when nobody is in the
\* middle of a save the file holds the pair in memory, unless the last save
\* has failed.
FileKeepsUp == (\A c \in Callers : ~Saving(c))
                 => file = tok \/ "unsaved" \in mishaps

\* A token is replaced only when it has expired or Metabase itself has refused
\* it: a 401 about scopes, or one earned by an older token, costs no refresh.
RefreshIsWarranted == [][gen' # gen => tok.access \in expired \cup rejected]_vars

\* Every call returns.
CallsReturn == \A c \in Callers : ~At(c, "idle") ~> At(c, "idle")

=============================================================================
