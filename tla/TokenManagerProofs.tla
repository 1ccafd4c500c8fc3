------------------------- MODULE TokenManagerProofs -------------------------
(***************************************************************************)
(* For any number of callers and grants: the manager stays in step with    *)
(* the authorization server and with its file, replaces no token without   *)
(* reason, and implements the safety part of the provider contract.        *)
(***************************************************************************)
EXTENDS TokenManager, WellFoundedInduction, TLAPS

\* The mutex is held by exactly the caller in an exchange or a save.
Locking == \A c \in Callers :
  holder = c <=> call[c].pc \in {"refresh", "renew", "save", "resave"}

\* The manager's generation and the AS's numbering stay in the bounds.
Numbering == /\ gen + 1 =< granted
             /\ granted =< MaxGrants

\* What each caller knows: a caller that was given the current generation was
\* given the token on hand; a caller that complains was refused.
CallerFacts ==
  \A c \in Callers :
    /\ call[c].secret = NoSecret => call[c].cred = 0
    /\ At(c, "idle") => call[c].secret = NoSecret
    /\ call[c].pc \in {"save", "sent", "refused", "renew", "resave"} =>
         call[c].secret # NoSecret
    /\ call[c].cred =< gen
    /\ (call[c].secret # NoSecret /\ call[c].cred = gen) => call[c].secret = tok.access
    /\ call[c].pc \in {"refused", "renew"} => call[c].secret \in rejected
    /\ At(c, "renew") => call[c].cred = gen
    /\ At(c, "refresh") => ~Valid

\* During a save nothing can have gone wrong with the refresh token but its
\* revocation: this is what lets Save forget an earlier lost answer.
SavedInStep == \A c \in Callers :
  Saving(c) => tok.refresh = current \/ "revoked" \in mishaps

TokenInv == /\ TypeOK
            /\ Locking
            /\ Numbering
            /\ CallerFacts
            /\ InStep
            /\ SavedInStep
            /\ FileKeepsUp

\* classify401 calls a credential expired only where Metabase does: if there is a
\* Bearer challenge there is a first one, and that one decides.
LEMMA RetryableIsExpiry ==
  ASSUME NEW h \in Headers, Retryable(h)
  PROVE  CallsExpired(h)
<1> SUFFICES ASSUME Bearers(h) # {} PROVE \E i \in Bearers(h) : h[i].error \in Expiry
  BY DEF CallsExpired
<1>1. h \in Seq([scheme : STRING, error : STRING])
  BY HeadersAssumption
<1>2. Bearers(h) \subseteq Nat
  BY <1>1 DEF Bearers
<1>3. PICK i \in Bearers(h) : \A j \in Bearers(h) : ~(j < i)
  <2>1. IsWellFoundedOn(OpToRel(<, Nat), Nat)
    BY NatLessThanWellFounded
  <2>2. PICK i \in Bearers(h) : \A j \in Bearers(h) : ~(<<j, i>> \in OpToRel(<, Nat))
    BY <1>2, <2>1, WFMin, Zenon
  <2> QED BY <1>2, <2>2 DEF OpToRel
<1>4. \A j \in Bearers(h) : i =< j
  BY <1>2, <1>3
<1> QED BY <1>4 DEF Retryable

\* Replacing one caller's call by a well-formed one keeps the table well-formed.
LEMMA CallUpdate ==
  ASSUME NEW f \in [Callers -> Calls], NEW c \in Callers, NEW r \in Calls
  PROVE  [f EXCEPT ![c] = r] \in [Callers -> Calls]
  OBVIOUS

\* The changes that the steps make to one call keep it well-formed.
LEMMA CallChanges ==
  ASSUME NEW f \in [Callers -> Calls], NEW c \in Callers
  PROVE  /\ [f EXCEPT ![c] = Idle] \in [Callers -> Calls]
         /\ [f EXCEPT ![c].cancelled = TRUE] \in [Callers -> Calls]
         /\ [f EXCEPT ![c].pc = "lock"] \in [Callers -> Calls]
         /\ [f EXCEPT ![c].pc = "refused"] \in [Callers -> Calls]
         /\ [f EXCEPT ![c].pc = "refresh"] \in [Callers -> Calls]
         /\ [f EXCEPT ![c].pc = "renew"] \in [Callers -> Calls]
         /\ [f EXCEPT ![c].pc = "sent"] \in [Callers -> Calls]
         /\ [f EXCEPT ![c].pc = "resave"] \in [Callers -> Calls]
         /\ [f EXCEPT ![c].pc = "lock", ![c].attempt = 1] \in [Callers -> Calls]
<1>0. f[c] \in Calls
  OBVIOUS
<1>1. [f[c] EXCEPT !.cancelled = TRUE] \in Calls
  BY <1>0, Zenon DEF Calls
<1>2. Idle \in Calls
  <2>1. 0 \in 0..1 /\ 0 \in Nat
    OBVIOUS
  <2> QED BY <2>1 DEF Idle, Calls, NoSecret
<1>3. \A p \in {"lock", "refused", "refresh", "renew", "sent", "resave"} :
        [f[c] EXCEPT !.pc = p] \in Calls
  BY <1>0, Zenon DEF Calls
<1>4. [f[c] EXCEPT !.pc = "lock", !.attempt = 1] \in Calls
  <2>1. 1 \in 0..1
    OBVIOUS
  <2> QED BY <1>0, <2>1, Zenon DEF Calls
<1> QED BY <1>1, <1>2, <1>3, <1>4, CallUpdate

\* So do those that hand a credential over.
LEMMA CallGiven ==
  ASSUME NEW f \in [Callers -> Calls], NEW c \in Callers,
         NEW a \in Nat, NEW g \in Nat, NEW p \in {"sent", "save"}
  PROVE  [f EXCEPT ![c].pc = p, ![c].secret = a, ![c].cred = g] \in [Callers -> Calls]
<1>1. f[c] \in Calls
  OBVIOUS
<1>2. [f[c] EXCEPT !.pc = p, !.secret = a, !.cred = g] \in Calls
  BY <1>1, Zenon DEF Calls
<1> QED BY <1>2, CallUpdate

\* The initial states satisfy the invariant.
LEMMA TokenInit == Init => TokenInv
<1> SUFFICES ASSUME Init PROVE TokenInv
  OBVIOUS
<1> USE TokenAssumption DEF Init, LoopInit, NoRefresh, NoSecret, Idle, Pair
<1>1. TypeOK
  BY DEF TypeOK, Calls, Pairs
<1>2. Locking /\ Numbering /\ CallerFacts
  BY DEF Locking, Numbering, CallerFacts, At, Valid
<1>3. InStep /\ SavedInStep /\ FileKeepsUp
  BY DEF InStep, SavedInStep, FileKeepsUp, Saving
<1> QED BY <1>1, <1>2, <1>3 DEF TokenInv

\* What a step of the request loop leaves to the provider.
Frame == UNCHANGED <<manager, expired, file, server, mishaps>>

\* Every step of the manager, of the AS and of time preserves it.
LEMMA TokenStep == TokenInv /\ [Next]_vars => TokenInv'
<1> SUFFICES ASSUME TokenInv, [Next]_vars PROVE TokenInv'
  OBVIOUS
<1> USE TokenAssumption
    DEF TokenInv, At, Idle, NoSecret, NoRefresh, manager, server, LockFree, Unlock,
        Return, Send, Retry, Frame, Valid, Saving, NextRefresh, NextGen, Saved
<1>1. ASSUME NEW c \in Callers, Start(c), Frame PROVE TokenInv'
  <2>1. call' \in [Callers -> Calls]
    BY <1>1, CallChanges DEF Start, TypeOK, Pairs
  <2>2. TypeOK'
    BY <1>1, <2>1 DEF Start, TypeOK, Pairs
  <2>3. Locking'
    BY <1>1 DEF Start, Locking, TypeOK, Calls
  <2>4. Numbering'
    BY <1>1 DEF Start, Numbering, TypeOK
  <2>5. CallerFacts'
    BY <1>1 DEF Start, CallerFacts, Numbering, Locking, TypeOK, Calls, Pairs
  <2>6. InStep' /\ SavedInStep'
    BY <1>1 DEF Start, InStep, SavedInStep, Locking, TypeOK, Calls, Pairs
  <2>7. FileKeepsUp'
    BY <1>1 DEF Start, FileKeepsUp, Locking, TypeOK, Calls, Pairs
  <2> QED BY <2>2, <2>3, <2>4, <2>5, <2>6, <2>7
<1>2. ASSUME NEW c \in Callers, Cancel(c), Frame PROVE TokenInv'
  <2>1. call' \in [Callers -> Calls]
    BY <1>2, CallChanges DEF Cancel, TypeOK, Pairs
  <2>2. TypeOK'
    BY <1>2, <2>1 DEF Cancel, TypeOK, Pairs
  <2>3. Locking'
    BY <1>2 DEF Cancel, Locking, TypeOK, Calls
  <2>4. Numbering'
    BY <1>2 DEF Cancel, Numbering, TypeOK
  <2>5. CallerFacts'
    BY <1>2 DEF Cancel, CallerFacts, Numbering, Locking, TypeOK, Calls, Pairs
  <2>6. InStep' /\ SavedInStep'
    BY <1>2 DEF Cancel, InStep, SavedInStep, Locking, TypeOK, Calls, Pairs
  <2>7. FileKeepsUp'
    BY <1>2 DEF Cancel, FileKeepsUp, Locking, TypeOK, Calls, Pairs
  <2> QED BY <2>2, <2>3, <2>4, <2>5, <2>6, <2>7
<1>3. ASSUME NEW c \in Callers, ReplyFinal(c), Frame PROVE TokenInv'
  <2>1. call' \in [Callers -> Calls]
    BY <1>3, CallChanges DEF ReplyFinal, TypeOK, Pairs
  <2>2. TypeOK'
    BY <1>3, <2>1 DEF ReplyFinal, TypeOK, Pairs
  <2>3. Locking'
    BY <1>3 DEF ReplyFinal, Locking, TypeOK, Calls
  <2>4. Numbering'
    BY <1>3 DEF ReplyFinal, Numbering, TypeOK
  <2>5. CallerFacts'
    BY <1>3 DEF ReplyFinal, CallerFacts, Numbering, Locking, TypeOK, Calls, Pairs
  <2>6. InStep' /\ SavedInStep'
    BY <1>3 DEF ReplyFinal, InStep, SavedInStep, Locking, TypeOK, Calls, Pairs
  <2>7. FileKeepsUp'
    BY <1>3 DEF ReplyFinal, FileKeepsUp, Locking, TypeOK, Calls, Pairs
  <2> QED BY <2>2, <2>3, <2>4, <2>5, <2>6, <2>7
<1>4. ASSUME NEW c \in Callers, NEW h \in Headers, Reply401(c, h), Frame PROVE TokenInv'
  <2>1. call' \in [Callers -> Calls]
    <3>1. \/ call' = [call EXCEPT ![c].pc = "refused"]
            \/ call' = [call EXCEPT ![c] = Idle]
      BY <1>4 DEF Reply401
    <3>2. call \in [Callers -> Calls]
      BY <1>4 DEF TypeOK
    <3>3. /\ [call EXCEPT ![c].pc = "refused"] \in [Callers -> Calls]
          /\ [call EXCEPT ![c] = Idle] \in [Callers -> Calls]
      BY <3>2, CallChanges
    <3> QED BY <3>1, <3>3, Zenon
  <2>2. TypeOK'
    <3>1. call[c].secret \in Nat
      BY DEF TypeOK, Calls
    <3>2. rejected' \subseteq Nat
      BY <1>4, <3>1 DEF Reply401, TypeOK
    <3> QED BY <1>4, <2>1, <3>2 DEF Reply401, TypeOK
  <2>3. Locking'
    BY <1>4 DEF Reply401, Locking, TypeOK, Calls
  <2>4. Numbering'
    BY <1>4 DEF Reply401, Numbering, TypeOK
  <2>5. CallerFacts'
    BY <1>4, RetryableIsExpiry DEF Reply401, CallerFacts, Numbering, Locking, TypeOK, Calls, Pairs
  <2>6. InStep' /\ SavedInStep'
    BY <1>4 DEF Reply401, InStep, SavedInStep, Locking, TypeOK, Calls, Pairs
  <2>7. FileKeepsUp'
    BY <1>4 DEF Reply401, FileKeepsUp, Locking, TypeOK, Calls, Pairs
  <2> QED BY <2>2, <2>3, <2>4, <2>5, <2>6, <2>7
<1>5. ASSUME NEW c \in Callers, TokenValid(c) PROVE TokenInv'
  <2>1. call' \in [Callers -> Calls]
    BY <1>5, CallGiven DEF TokenValid, TypeOK, Pairs
  <2>2. TypeOK'
    BY <1>5, <2>1 DEF TokenValid, TypeOK, Pairs
  <2>3. Locking'
    BY <1>5 DEF TokenValid, Locking, TypeOK, Calls
  <2>4. Numbering'
    BY <1>5 DEF TokenValid, Numbering, TypeOK
  <2>5. CallerFacts'
    BY <1>5 DEF TokenValid, CallerFacts, Numbering, Locking, TypeOK, Calls, Pairs
  <2>6. InStep' /\ SavedInStep'
    BY <1>5 DEF TokenValid, InStep, SavedInStep, Locking, TypeOK, Calls, Pairs
  <2>7. FileKeepsUp'
    BY <1>5 DEF TokenValid, FileKeepsUp, Locking, TypeOK, Calls, Pairs
  <2> QED BY <2>2, <2>3, <2>4, <2>5, <2>6, <2>7
<1>6. ASSUME NEW c \in Callers, TokenExpired(c) PROVE TokenInv'
  <2>1. call' \in [Callers -> Calls]
    BY <1>6, CallChanges DEF TokenExpired, Refresh, TypeOK
  <2>2. TypeOK'
    BY <1>6, <2>1 DEF TokenExpired, Refresh, TypeOK, Pairs
  <2>3. Locking'
    BY <1>6 DEF TokenExpired, Refresh, Locking, TypeOK, Calls
  <2>4. Numbering'
    BY <1>6 DEF TokenExpired, Refresh, Numbering, TypeOK
  <2>5. CallerFacts'
    BY <1>6 DEF TokenExpired, Refresh, CallerFacts, Numbering, Locking, TypeOK, Calls, Pairs
  <2>6. InStep' /\ SavedInStep'
    BY <1>6 DEF TokenExpired, Refresh, InStep, SavedInStep, Locking, TypeOK, Calls, Pairs
  <2>7. FileKeepsUp'
    BY <1>6 DEF TokenExpired, Refresh, FileKeepsUp, Locking, TypeOK, Calls, Pairs
  <2> QED BY <2>2, <2>3, <2>4, <2>5, <2>6, <2>7
<1>7. ASSUME NEW c \in Callers, ForceRefreshLate(c) PROVE TokenInv'
  <2>1. call' \in [Callers -> Calls]
    BY <1>7, CallChanges DEF ForceRefreshLate, TypeOK, Pairs
  <2>2. TypeOK'
    BY <1>7, <2>1 DEF ForceRefreshLate, TypeOK, Pairs
  <2>3. Locking'
    BY <1>7 DEF ForceRefreshLate, Locking, TypeOK, Calls
  <2>4. Numbering'
    BY <1>7 DEF ForceRefreshLate, Numbering, TypeOK
  <2>5. CallerFacts'
    BY <1>7 DEF ForceRefreshLate, CallerFacts, Numbering, Locking, TypeOK, Calls, Pairs
  <2>6. InStep' /\ SavedInStep'
    BY <1>7 DEF ForceRefreshLate, InStep, SavedInStep, Locking, TypeOK, Calls, Pairs
  <2>7. FileKeepsUp'
    BY <1>7 DEF ForceRefreshLate, FileKeepsUp, Locking, TypeOK, Calls, Pairs
  <2> QED BY <2>2, <2>3, <2>4, <2>5, <2>6, <2>7
<1>8. ASSUME NEW c \in Callers, ForceRefresh(c) PROVE TokenInv'
  <2>1. call' \in [Callers -> Calls]
    BY <1>8, CallChanges DEF ForceRefresh, Refresh, TypeOK
  <2>2. TypeOK'
    BY <1>8, <2>1 DEF ForceRefresh, Refresh, TypeOK, Pairs
  <2>3. Locking'
    BY <1>8 DEF ForceRefresh, Refresh, Locking, TypeOK, Calls
  <2>4. Numbering'
    BY <1>8 DEF ForceRefresh, Refresh, Numbering, TypeOK
  <2>5. CallerFacts'
    BY <1>8 DEF ForceRefresh, Refresh, CallerFacts, Numbering, Locking, TypeOK, Calls, Pairs
  <2>6. InStep' /\ SavedInStep'
    BY <1>8 DEF ForceRefresh, Refresh, InStep, SavedInStep, Locking, TypeOK, Calls, Pairs
  <2>7. FileKeepsUp'
    BY <1>8 DEF ForceRefresh, Refresh, FileKeepsUp, Locking, TypeOK, Calls, Pairs
  <2> QED BY <2>2, <2>3, <2>4, <2>5, <2>6, <2>7
<1>9. ASSUME NEW c \in Callers, NEW r \in BOOLEAN, GrantArrives(c, r) PROVE TokenInv'
  <2>1. call' \in [Callers -> Calls]
    <3>1. \/ call' = [call EXCEPT ![c].pc = "save", ![c].secret = granted', ![c].cred = gen']
            \/ call' = [call EXCEPT ![c].pc = "resave"]
      BY <1>9 DEF GrantArrives, NextGen
    <3>2. call \in [Callers -> Calls] /\ granted' \in Nat /\ gen' \in Nat
      BY <1>9 DEF TypeOK, GrantArrives, NextGen, AsGrants
    <3>3. /\ [call EXCEPT ![c].pc = "save", ![c].secret = granted', ![c].cred = gen'] \in [Callers -> Calls]
          /\ [call EXCEPT ![c].pc = "resave"] \in [Callers -> Calls]
      BY <3>2, CallChanges, CallGiven
    <3> QED BY <3>1, <3>3, Zenon
  <2>2. TypeOK'
    BY <1>9, <2>1 DEF GrantArrives, NextGen, AsGrants, Exchanging, Pair, TypeOK, Pairs
  <2>3. Locking'
    BY <1>9 DEF GrantArrives, NextGen, AsGrants, Exchanging, Pair, Locking, TypeOK, Calls
  <2>4. Numbering'
    BY <1>9 DEF GrantArrives, NextGen, AsGrants, Exchanging, Pair, Numbering, TypeOK
  <2>5. CallerFacts'
    BY <1>9 DEF GrantArrives, NextGen, AsGrants, Exchanging, Pair, CallerFacts, Numbering, Locking, TypeOK, Calls, Pairs
  <2>6. InStep' /\ SavedInStep'
    BY <1>9 DEF GrantArrives, NextGen, AsGrants, Exchanging, Pair, InStep, SavedInStep, Locking, TypeOK, Calls, Pairs
  <2>7. FileKeepsUp'
    BY <1>9 DEF GrantArrives, NextGen, AsGrants, Exchanging, Pair, FileKeepsUp, Locking, TypeOK, Calls, Pairs
  <2> QED BY <2>2, <2>3, <2>4, <2>5, <2>6, <2>7
<1>10. ASSUME NEW c \in Callers, NEW r \in BOOLEAN, GrantLost(c, r) PROVE TokenInv'
  <2>1. call' \in [Callers -> Calls]
    BY <1>10, CallChanges DEF GrantLost, AsGrants, Exchanging, TypeOK, Pairs
  <2>2. TypeOK'
    BY <1>10, <2>1 DEF GrantLost, AsGrants, Exchanging, TypeOK, Pairs
  <2>3. Locking'
    BY <1>10 DEF GrantLost, AsGrants, Exchanging, Locking, TypeOK, Calls
  <2>4. Numbering'
    BY <1>10 DEF GrantLost, AsGrants, Exchanging, Numbering, TypeOK
  <2>5. CallerFacts'
    BY <1>10 DEF GrantLost, AsGrants, Exchanging, CallerFacts, Numbering, Locking, TypeOK, Calls, Pairs
  <2>6. InStep' /\ SavedInStep'
    BY <1>10 DEF GrantLost, AsGrants, Exchanging, InStep, SavedInStep, Locking, TypeOK, Calls, Pairs
  <2>7. FileKeepsUp'
    BY <1>10 DEF GrantLost, AsGrants, Exchanging, FileKeepsUp, Locking, TypeOK, Calls, Pairs
  <2> QED BY <2>2, <2>3, <2>4, <2>5, <2>6, <2>7
<1>11. ASSUME NEW c \in Callers, RefreshFails(c) PROVE TokenInv'
  <2>1. call' \in [Callers -> Calls]
    BY <1>11, CallChanges DEF RefreshFails, Exchanging, TypeOK, Pairs
  <2>2. TypeOK'
    BY <1>11, <2>1 DEF RefreshFails, Exchanging, TypeOK, Pairs
  <2>3. Locking'
    BY <1>11 DEF RefreshFails, Exchanging, Locking, TypeOK, Calls
  <2>4. Numbering'
    BY <1>11 DEF RefreshFails, Exchanging, Numbering, TypeOK
  <2>5. CallerFacts'
    BY <1>11 DEF RefreshFails, Exchanging, CallerFacts, Numbering, Locking, TypeOK, Calls, Pairs
  <2>6. InStep' /\ SavedInStep'
    BY <1>11 DEF RefreshFails, Exchanging, InStep, SavedInStep, Locking, TypeOK, Calls, Pairs
  <2>7. FileKeepsUp'
    BY <1>11 DEF RefreshFails, Exchanging, FileKeepsUp, Locking, TypeOK, Calls, Pairs
  <2> QED BY <2>2, <2>3, <2>4, <2>5, <2>6, <2>7
<1>12. ASSUME NEW c \in Callers, Save(c) PROVE TokenInv'
  <2>1. call' \in [Callers -> Calls]
    <3>1. \/ call' = [call EXCEPT ![c].pc = "sent"]
            \/ call' = [call EXCEPT ![c].pc = "lock", ![c].attempt = 1]
      BY <1>12 DEF Save
    <3>2. call \in [Callers -> Calls]
      BY <1>12 DEF TypeOK
    <3>3. /\ [call EXCEPT ![c].pc = "sent"] \in [Callers -> Calls]
          /\ [call EXCEPT ![c].pc = "lock", ![c].attempt = 1] \in [Callers -> Calls]
      BY <3>2, CallChanges
    <3> QED BY <3>1, <3>3, Zenon
  <2>2. TypeOK'
    BY <1>12, <2>1 DEF Save, TypeOK, Pairs
  <2>3. Locking'
    BY <1>12 DEF Save, Locking, TypeOK, Calls
  <2>4. Numbering'
    BY <1>12 DEF Save, Numbering, TypeOK
  <2>5. CallerFacts'
    BY <1>12 DEF Save, CallerFacts, Numbering, Locking, TypeOK, Calls, Pairs
  <2>6. InStep' /\ SavedInStep'
    BY <1>12 DEF Save, InStep, SavedInStep, Locking, TypeOK, Calls, Pairs
  <2>7. FileKeepsUp'
    BY <1>12 DEF Save, FileKeepsUp, Locking, TypeOK, Calls, Pairs
  <2> QED BY <2>2, <2>3, <2>4, <2>5, <2>6, <2>7
<1>13. CASE Expire
  BY <1>13 DEF Expire, TypeOK, Calls, Pairs, Locking, Numbering, CallerFacts, InStep,
             SavedInStep, FileKeepsUp
<1>14. CASE Revoke
  BY <1>14 DEF Revoke, TypeOK, Calls, Pairs, Locking, Numbering, CallerFacts, InStep,
             SavedInStep, FileKeepsUp
<1>15. CASE UNCHANGED vars
  BY <1>15 DEF vars, TypeOK, Calls, Pairs, Locking, Numbering, CallerFacts, InStep,
             SavedInStep, FileKeepsUp
<1> QED
  BY <1>1, <1>2, <1>3, <1>4, <1>5, <1>6, <1>7, <1>8, <1>9, <1>10, <1>11, <1>12, <1>13, <1>14, <1>15
  DEF Next, Loop, LoopStep, Reply, Token, Complain, Exchange

\* Every variable of the manager keeps its type; in particular it never holds a
\* token without an access token.
THEOREM TokenTypeOK == Spec => []TypeOK
<1>1. TokenInv => TypeOK
  BY DEF TokenInv
<1> QED BY <1>1, TokenInit, TokenStep, PTL DEF Spec

\* The manager stays in step with the authorization server.
THEOREM TokenInStep == Spec => []InStep
<1>1. TokenInv => InStep
  BY DEF TokenInv
<1> QED BY <1>1, TokenInit, TokenStep, PTL DEF Spec

\* The token file keeps up with the manager.
THEOREM TokenFileKeepsUp == Spec => []FileKeepsUp
<1>1. TokenInv => FileKeepsUp
  BY DEF TokenInv
<1> QED BY <1>1, TokenInit, TokenStep, PTL DEF Spec

\* Only the arrival of a grant changes the generation.
LEMMA GenChanges ==
  ASSUME Next, gen' # gen
  PROVE  \E c \in Callers, r \in BOOLEAN : GrantArrives(c, r)
<1>1. ~Expire /\ ~Revoke
  BY DEF Expire, Revoke, manager
<1>2. PICK c \in Callers : Loop(c) \/ Token(c) \/ Complain(c) \/ Exchange(c) \/ Save(c)
  BY <1>1 DEF Next
<1>3. ~Loop(c) /\ ~Save(c)
  BY DEF Loop, Save, manager
<1>4. ~Token(c)
  BY DEF Token, TokenValid, TokenExpired, Refresh, manager
<1>5. ~Complain(c)
  BY DEF Complain, ForceRefreshLate, ForceRefresh, Refresh, manager
<1>6. ~RefreshFails(c) /\ \A r \in BOOLEAN : ~GrantLost(c, r)
  BY DEF RefreshFails, GrantLost
<1> QED BY <1>2, <1>3, <1>4, <1>5, <1>6 DEF Exchange

\* No refresh without reason: only an expired token, or one that Metabase refused,
\* is ever replaced.
THEOREM TokenRefreshIsWarranted == Spec => RefreshIsWarranted
<1> DEFINE Warranted == gen' # gen => tok.access \in expired \cup rejected
<1>1. TokenInv /\ [Next]_vars => [Warranted]_vars
  <2> SUFFICES ASSUME TokenInv, Next, gen' # gen
               PROVE  tok.access \in expired \cup rejected
    BY DEF vars
  <2>1. PICK c \in Callers, r \in BOOLEAN : GrantArrives(c, r)
    BY GenChanges
  <2>2. CASE At(c, "refresh")
    BY <2>2 DEF TokenInv, CallerFacts, Valid
  <2>3. CASE At(c, "renew")
    BY <2>3 DEF TokenInv, CallerFacts, At
  <2> QED BY <2>1, <2>2, <2>3 DEF GrantArrives, NextGen
<1> QED BY <1>1, TokenInit, TokenStep, PTL DEF Spec, RefreshIsWarranted

-----------------------------------------------------------------------------
\* The contract's state as the refinement mapping reads it.
UsingOf(c) == IF call[c].secret = NoSecret THEN 0 ELSE call[c].cred + 1
AbsPhase == [c \in Callers |-> PhaseOf(c)]
AbsUsing == [c \in Callers |-> UsingOf(c)]

\* A step that changes one caller's call changes one entry of the mapped tables.
LEMMA PhaseMove ==
  ASSUME NEW c \in Callers, \A d \in Callers \ {c} : call'[d] = call[d]
  PROVE  /\ AbsPhase' = [AbsPhase EXCEPT ![c] = PhaseOf(c)']
         /\ AbsUsing' = [AbsUsing EXCEPT ![c] = UsingOf(c)']
         /\ AbsPhase[c] = PhaseOf(c)
         /\ AbsUsing[c] = UsingOf(c)
  BY DEF PhaseOf, UsingOf, At, AbsPhase, AbsUsing

\* Where that call keeps its generation the table of generations stays.
LEMMA UsingStays ==
  ASSUME NEW c \in Callers, \A d \in Callers \ {c} : call'[d] = call[d],
         UsingOf(c)' = UsingOf(c)
  PROVE  AbsUsing' = AbsUsing
<1>1. ASSUME NEW d \in Callers PROVE UsingOf(d)' = UsingOf(d)
  <2>1. CASE d = c
    BY <2>1
  <2>2. CASE d # c
    BY <2>2 DEF UsingOf
  <2> QED BY <2>1, <2>2
<1> QED BY <1>1 DEF AbsUsing

\* A step that changes no caller's phase or generation is a stutter of the
\* contract, if the token on hand stays as it is.
LEMMA PhaseStay ==
  ASSUME \A d \in Callers : PhaseOf(d)' = PhaseOf(d) /\ UsingOf(d)' = UsingOf(d),
         UNCHANGED <<gen, Valid>>
  PROVE  UNCHANGED Contract!vars
  BY DEF Contract!vars, UsingOf

\* Different generations have different contract numbers.
LEMMA Successors == \A m, n \in Nat : m # n => m + 1 # n + 1
  OBVIOUS

\* Every step of the manager is a step of the contract or a stutter.
LEMMA TokenRefines ==
  TokenInv /\ TokenInv' /\ [Next]_vars => [Contract!Next]_(Contract!vars)
<1> SUFFICES ASSUME TokenInv, TokenInv', [Next]_vars
             PROVE  Contract!Next \/ UNCHANGED Contract!vars
  OBVIOUS
<1> USE DEF TokenInv, TypeOK, Calls, Pairs, At, Return, Idle, NoSecret, manager,
            server, Send, Retry, Unlock, Frame
<1>1. ASSUME NEW c \in Callers, Start(c), Frame
      PROVE  Contract!Ask(c)
  <2>1. PhaseOf(c) = "idle" /\ PhaseOf(c)' = "asking" /\ UsingOf(c)' = UsingOf(c)
    BY <1>1 DEF Start, PhaseOf, UsingOf, CallerFacts
  <2>2. \A e \in Callers \ {c} : call'[e] = call[e]
    BY <1>1 DEF Start
  <2>3. UNCHANGED <<gen, Valid>>
    BY <1>1 DEF Start, Valid, UsingOf, CallerFacts, Numbering
  <2>4. AbsUsing' = AbsUsing
    BY <2>1, <2>2, UsingStays
  <2> QED BY <2>1, <2>2, <2>3, <2>4, PhaseMove
          DEF Contract!Ask, Contract!Move, AbsPhase, AbsUsing, UsingOf
<1>2. ASSUME NEW c \in Callers, Cancel(c), Frame
      PROVE  UNCHANGED Contract!vars
  <2>1. \A e \in Callers : PhaseOf(e)' = PhaseOf(e) /\ UsingOf(e)' = UsingOf(e)
    BY <1>2 DEF Cancel, PhaseOf, UsingOf
  <2>2. UNCHANGED <<gen, Valid>>
    BY <1>2 DEF Cancel, Valid
  <2> QED BY <2>1, <2>2, PhaseStay
<1>3. ASSUME NEW c \in Callers, ReplyFinal(c), Frame
      PROVE  Contract!Finish(c)
  <2>1. PhaseOf(c) = "using" /\ PhaseOf(c)' = "idle" /\ UsingOf(c)' = 0
    BY <1>3 DEF ReplyFinal, PhaseOf, UsingOf, CallerFacts
  <2>2. \A e \in Callers \ {c} : call'[e] = call[e]
    BY <1>3 DEF ReplyFinal
  <2>3. UNCHANGED <<gen, Valid>>
    BY <1>3 DEF ReplyFinal, Valid, UsingOf, CallerFacts, Numbering
  <2> QED BY <2>1, <2>2, <2>3, PhaseMove
          DEF Contract!Finish, Contract!Leave, Contract!Move, AbsPhase, AbsUsing, UsingOf
<1>4. ASSUME NEW c \in Callers, NEW h \in Headers, Reply401(c, h), Frame,
              Retryable(h), call[c].attempt = 0
      PROVE  Contract!Refuse(c)
  <2>1. PhaseOf(c) = "using" /\ PhaseOf(c)' = "refused" /\ UsingOf(c)' = UsingOf(c)
    BY <1>4 DEF Reply401, PhaseOf, UsingOf, CallerFacts
  <2>2. \A e \in Callers \ {c} : call'[e] = call[e]
    BY <1>4 DEF Reply401
  <2>3. UNCHANGED <<gen, Valid>>
    BY <1>4 DEF Reply401, Valid, UsingOf, CallerFacts, Numbering
  <2>4. AbsUsing' = AbsUsing
    BY <2>1, <2>2, UsingStays
  <2> QED BY <2>1, <2>2, <2>3, <2>4, PhaseMove
          DEF Contract!Refuse, Contract!Move, AbsPhase, AbsUsing, UsingOf
<1>5. ASSUME NEW c \in Callers, NEW h \in Headers, Reply401(c, h), Frame,
              ~Retryable(h) \/ call[c].attempt # 0
      PROVE  Contract!Finish(c)
  <2>1. PhaseOf(c) = "using" /\ PhaseOf(c)' = "idle" /\ UsingOf(c)' = 0
    BY <1>5 DEF Reply401, PhaseOf, UsingOf, CallerFacts
  <2>2. \A e \in Callers \ {c} : call'[e] = call[e]
    BY <1>5 DEF Reply401
  <2>3. UNCHANGED <<gen, Valid>>
    BY <1>5 DEF Reply401, Valid, UsingOf, CallerFacts, Numbering
  <2> QED BY <2>1, <2>2, <2>3, PhaseMove
          DEF Contract!Finish, Contract!Leave, Contract!Move, AbsPhase, AbsUsing, UsingOf
<1>6. ASSUME NEW c \in Callers, TokenValid(c)
      PROVE  Contract!Grant(c)
  <2>1. PhaseOf(c) = "asking" /\ PhaseOf(c)' = "using" /\ UsingOf(c)' = gen + 1
    <3>1. PhaseOf(c) = "asking"
      BY <1>6 DEF TokenValid, PhaseOf
    <3>2. PhaseOf(c)' = "using"
      BY <1>6 DEF TokenValid, PhaseOf
    <3>3. UsingOf(c)' = gen + 1
      BY <1>6 DEF TokenValid, UsingOf, CallerFacts
    <3> QED BY <3>1, <3>2, <3>3
  <2>2. \A e \in Callers \ {c} : call'[e] = call[e]
    BY <1>6 DEF TokenValid
  <2>3. UNCHANGED <<gen, Valid>> /\ Valid
    BY <1>6 DEF TokenValid, Valid, UsingOf, CallerFacts, Numbering
  <2> QED BY <2>1, <2>2, <2>3, PhaseMove
          DEF Contract!Grant, Contract!Give, Contract!Move, AbsPhase, AbsUsing, UsingOf
<1>7. ASSUME NEW c \in Callers, TokenExpired(c)
      PROVE  UNCHANGED Contract!vars
  <2>1. \A e \in Callers : PhaseOf(e)' = PhaseOf(e) /\ UsingOf(e)' = UsingOf(e)
    BY <1>7 DEF TokenExpired, Refresh, PhaseOf, UsingOf
  <2>2. UNCHANGED <<gen, Valid>>
    BY <1>7 DEF TokenExpired, Refresh, Valid
  <2> QED BY <2>1, <2>2, PhaseStay
<1>9. ASSUME NEW c \in Callers, ForceRefreshLate(c)
      PROVE  Contract!Retire(c)
  <2>1. PhaseOf(c) = "refused" /\ PhaseOf(c)' = "asking" /\ UsingOf(c)' = UsingOf(c)
    BY <1>9 DEF ForceRefreshLate, PhaseOf, UsingOf, CallerFacts
  <2>2. \A e \in Callers \ {c} : call'[e] = call[e]
    BY <1>9 DEF ForceRefreshLate
  <2>3. UNCHANGED <<gen, Valid>> /\ call[c].secret # NoSecret /\ call[c].cred # gen
    BY <1>9 DEF ForceRefreshLate, Valid, UsingOf, CallerFacts, Numbering
  <2>4. AbsUsing' = AbsUsing
    BY <2>1, <2>2, UsingStays
  <2>5. AbsUsing[c] = call[c].cred + 1 /\ AbsUsing[c] # gen + 1
    <3>1. AbsUsing[c] = call[c].cred + 1
      BY <2>3 DEF AbsUsing, UsingOf
    <3>2. call[c].cred \in Nat /\ gen \in Nat /\ call[c].cred # gen
      BY <2>3
    <3>3. call[c].cred + 1 # gen + 1
      BY <3>2, Successors, Zenon
    <3> QED BY <3>1, <3>3
  <2>6. Valid' = (Valid /\ AbsUsing[c] # gen + 1)
    BY <2>3, <2>5, Zenon DEF Valid
  <2>7. AbsPhase[c] = "refused" /\ AbsPhase' = [AbsPhase EXCEPT ![c] = "asking"]
    BY <2>1, <2>2, PhaseMove
  <2> QED BY <2>3, <2>4, <2>6, <2>7
          DEF Contract!Retire, Contract!Move, AbsPhase, AbsUsing, UsingOf
<1>10. ASSUME NEW c \in Callers, ForceRefresh(c)
      PROVE  UNCHANGED Contract!vars
  <2>1. \A e \in Callers : PhaseOf(e)' = PhaseOf(e) /\ UsingOf(e)' = UsingOf(e)
    BY <1>10 DEF ForceRefresh, Refresh, PhaseOf, UsingOf
  <2>2. UNCHANGED <<gen, Valid>>
    BY <1>10 DEF ForceRefresh, Refresh, Valid
  <2> QED BY <2>1, <2>2, PhaseStay
<1>12. ASSUME NEW c \in Callers, NEW r \in BOOLEAN, GrantArrives(c, r), At(c, "refresh")
      PROVE  Contract!Renew(c)
  <2>1. PhaseOf(c) = "asking" /\ PhaseOf(c)' = "using" /\ UsingOf(c)' = gen + 1 + 1
    BY <1>12 DEF GrantArrives, NextGen, AsGrants, PhaseOf, UsingOf, CallerFacts
  <2>2. \A e \in Callers \ {c} : call'[e] = call[e]
    BY <1>12 DEF GrantArrives, NextGen, AsGrants
  <2>3. gen' = gen + 1 /\ ~Valid /\ gen + 1 < MaxGrants
    BY <1>12 DEF GrantArrives, NextGen, AsGrants, Valid, UsingOf, CallerFacts, Numbering
  <2>4. (gen + 1)' = gen + 1 + 1 /\ Valid' \in BOOLEAN
    BY <2>3 DEF Valid
  <2> QED BY <2>1, <2>2, <2>3, <2>4, PhaseMove
          DEF Contract!Renew, Contract!Give, Contract!Move, AbsPhase, AbsUsing, UsingOf
<1>13. ASSUME NEW c \in Callers, NEW r \in BOOLEAN, GrantArrives(c, r), At(c, "renew")
      PROVE  Contract!Replace(c)
  <2>1. PhaseOf(c) = "refused" /\ PhaseOf(c)' = "asking" /\ UsingOf(c)' = UsingOf(c)
    BY <1>13 DEF GrantArrives, NextGen, AsGrants, PhaseOf, UsingOf, CallerFacts
  <2>2. \A e \in Callers \ {c} : call'[e] = call[e]
    BY <1>13 DEF GrantArrives, NextGen, AsGrants
  <2>3. /\ gen' = gen + 1
        /\ call[c].secret # NoSecret /\ call[c].cred = gen
        /\ gen + 1 < MaxGrants
    <3>1. gen' = gen + 1 /\ granted < MaxGrants
      BY <1>13 DEF GrantArrives, NextGen, AsGrants
    <3>2. call[c].secret # NoSecret /\ call[c].cred = gen
      BY <1>13 DEF CallerFacts
    <3>3. gen + 1 < MaxGrants
      BY <3>1, TokenAssumption DEF Numbering
    <3> QED BY <3>1, <3>2, <3>3
  <2>4. AbsUsing' = AbsUsing
    BY <2>1, <2>2, UsingStays
  <2>5. AbsUsing[c] = gen + 1 /\ (gen + 1)' = gen + 1 + 1 /\ Valid' \in BOOLEAN
    BY <2>3 DEF AbsUsing, UsingOf, Valid
  <2>6. AbsPhase[c] = "refused" /\ AbsPhase' = [AbsPhase EXCEPT ![c] = "asking"]
    BY <2>1, <2>2, PhaseMove
  <2> QED BY <2>3, <2>4, <2>5, <2>6
          DEF Contract!Replace, Contract!Move, AbsPhase, AbsUsing, UsingOf
<1>14. ASSUME NEW c \in Callers, NEW r \in BOOLEAN, GrantLost(c, r), At(c, "refresh")
      PROVE  Contract!Decline(c)
  <2>1. PhaseOf(c) = "asking" /\ PhaseOf(c)' = "idle" /\ UsingOf(c)' = 0
    BY <1>14 DEF GrantLost, PhaseOf, UsingOf, CallerFacts
  <2>2. \A e \in Callers \ {c} : call'[e] = call[e]
    BY <1>14 DEF GrantLost
  <2>3. UNCHANGED <<gen, Valid>>
    BY <1>14 DEF GrantLost, Valid, UsingOf, CallerFacts, Numbering
  <2> QED BY <2>1, <2>2, <2>3, PhaseMove
          DEF Contract!Decline, Contract!Leave, Contract!Move, AbsPhase, AbsUsing, UsingOf
<1>15. ASSUME NEW c \in Callers, NEW r \in BOOLEAN, GrantLost(c, r), At(c, "renew")
      PROVE  Contract!Abandon(c)
  <2>1. PhaseOf(c) = "refused" /\ PhaseOf(c)' = "idle" /\ UsingOf(c)' = 0
    BY <1>15 DEF GrantLost, PhaseOf, UsingOf, CallerFacts
  <2>2. \A e \in Callers \ {c} : call'[e] = call[e]
    BY <1>15 DEF GrantLost
  <2>3. UNCHANGED <<gen, Valid>>
    BY <1>15 DEF GrantLost, Valid, UsingOf, CallerFacts, Numbering
  <2> QED BY <2>1, <2>2, <2>3, PhaseMove
          DEF Contract!Abandon, Contract!Leave, Contract!Move, AbsPhase, AbsUsing, UsingOf
<1>16. ASSUME NEW c \in Callers, RefreshFails(c), At(c, "refresh")
      PROVE  Contract!Decline(c)
  <2>1. PhaseOf(c) = "asking" /\ PhaseOf(c)' = "idle" /\ UsingOf(c)' = 0
    BY <1>16 DEF RefreshFails, PhaseOf, UsingOf, CallerFacts
  <2>2. \A e \in Callers \ {c} : call'[e] = call[e]
    BY <1>16 DEF RefreshFails
  <2>3. UNCHANGED <<gen, Valid>>
    BY <1>16 DEF RefreshFails, Valid, UsingOf, CallerFacts, Numbering
  <2> QED BY <2>1, <2>2, <2>3, PhaseMove
          DEF Contract!Decline, Contract!Leave, Contract!Move, AbsPhase, AbsUsing, UsingOf
<1>17. ASSUME NEW c \in Callers, RefreshFails(c), At(c, "renew")
      PROVE  Contract!Abandon(c)
  <2>1. PhaseOf(c) = "refused" /\ PhaseOf(c)' = "idle" /\ UsingOf(c)' = 0
    BY <1>17 DEF RefreshFails, PhaseOf, UsingOf, CallerFacts
  <2>2. \A e \in Callers \ {c} : call'[e] = call[e]
    BY <1>17 DEF RefreshFails
  <2>3. UNCHANGED <<gen, Valid>>
    BY <1>17 DEF RefreshFails, Valid, UsingOf, CallerFacts, Numbering
  <2> QED BY <2>1, <2>2, <2>3, PhaseMove
          DEF Contract!Abandon, Contract!Leave, Contract!Move, AbsPhase, AbsUsing, UsingOf
<1>18. ASSUME NEW c \in Callers, Save(c)
      PROVE  UNCHANGED Contract!vars
  <2>1. \A e \in Callers : PhaseOf(e)' = PhaseOf(e) /\ UsingOf(e)' = UsingOf(e)
    BY <1>18 DEF Save, PhaseOf, UsingOf
  <2>2. UNCHANGED <<gen, Valid>>
    BY <1>18 DEF Save, Valid
  <2> QED BY <2>1, <2>2, PhaseStay
<1>19. CASE Expire
  <2>1. Valid /\ ~Valid' /\ UNCHANGED <<call, gen>>
    BY <1>19 DEF Expire, Valid
  <2>2. AbsPhase' = AbsPhase /\ AbsUsing' = AbsUsing
    BY <2>1 DEF AbsPhase, AbsUsing, PhaseOf, UsingOf
  <2> QED BY <2>1, <2>2 DEF Contract!Next, Contract!Lapse, AbsPhase, AbsUsing, UsingOf
<1>20. CASE Revoke \/ UNCHANGED vars
  <2>1. UNCHANGED <<call, gen, Valid>>
    BY <1>20 DEF Revoke, vars, Valid
  <2> QED BY <2>1, PhaseStay DEF PhaseOf, UsingOf
<1>21. CASE \E c \in Callers : \/ Loop(c) \/ Token(c) \/ Complain(c)
                              \/ Exchange(c) \/ Save(c)
  <2>1. PICK c \in Callers : \/ Loop(c) \/ Token(c) \/ Complain(c)
                             \/ Exchange(c) \/ Save(c)
    BY <1>21
  <2> DEFINE Simulated == \/ UNCHANGED Contract!vars
                          \/ Contract!Ask(c) \/ Contract!Answer(c) \/ Contract!Finish(c)
                          \/ Contract!Refuse(c) \/ Contract!Resolve(c)
  <2> SUFFICES Simulated
    BY DEF Contract!Next
  <2>2. CASE Loop(c)
    BY <2>2, <1>1, <1>2, <1>3, <1>4, <1>5 DEF Loop, LoopStep, Reply
  <2>3. CASE Token(c)
    <3>1. TokenValid(c) => Contract!Answer(c)
      BY <1>6 DEF Contract!Answer
    <3>2. TokenExpired(c) => Simulated
      BY <1>7
    <3> QED BY <2>3, <3>1, <3>2 DEF Token
  <2>4. CASE Complain(c)
    <3>1. ForceRefreshLate(c) => Contract!Resolve(c)
      BY <1>9 DEF Contract!Resolve
    <3>2. ForceRefresh(c) => Simulated
      BY <1>10
    <3> QED BY <2>4, <3>1, <3>2 DEF Complain
  <2>5. CASE Exchange(c)
    <3>1. At(c, "refresh") \/ At(c, "renew")
      BY <2>5 DEF Exchange, GrantArrives, NextGen, GrantLost, RefreshFails, Exchanging
    <3>2. CASE At(c, "refresh")
      BY <2>5, <3>2, <1>12, <1>14, <1>16 DEF Exchange, Contract!Answer
    <3>3. CASE At(c, "renew")
      BY <2>5, <3>3, <1>13, <1>15, <1>17 DEF Exchange, Contract!Resolve
    <3> QED BY <3>1, <3>2, <3>3
  <2>6. CASE Save(c)
    BY <2>6, <1>18
  <2> QED BY <2>1, <2>2, <2>3, <2>4, <2>5, <2>6
<1> QED BY <1>19, <1>20, <1>21 DEF Next

\* For any number of callers and grants the manager implements the provider
\* contract.
THEOREM TokenImplementsContract == Spec => ImplementsContract
<1>1. Init => Contract!Init
  <2> SUFFICES ASSUME Init PROVE Contract!Init
    OBVIOUS
  <2>1. AbsPhase = [c \in Callers |-> "idle"] /\ AbsUsing = [c \in Callers |-> 0]
    BY DEF Init, LoopInit, AbsPhase, AbsUsing, PhaseOf, UsingOf, At, Idle, NoSecret
  <2>2. gen + 1 = 1 /\ Valid \in BOOLEAN
    BY DEF Init, Valid
  <2> QED BY <2>1, <2>2 DEF Contract!Init, AbsPhase, AbsUsing, UsingOf
<1> QED BY <1>1, TokenInit, TokenStep, TokenRefines, PTL
        DEF Spec, ImplementsContract, Contract!Safety

=============================================================================
