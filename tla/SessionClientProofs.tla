------------------------ MODULE SessionClientProofs ------------------------
(***************************************************************************)
(* For any number of callers, attempts and sessions and any clock: the     *)
(* client never throws away a session Metabase did not refuse, and it      *)
(* implements the safety part of the provider contract.                    *)
(***************************************************************************)
EXTENDS SessionClient, WellFoundedInduction, TLAPS

\* The n-th login yields session n and generation n, and each caller holds
\* both halves of one snapshot.
Numbering == /\ gen = issued
             /\ cached \in {NoSession, gen}
             /\ \A c \in Callers : call[c].secret = call[c].cred /\ call[c].cred =< gen

\* What each caller knows.  A caller asking again knows that the session it was
\* refused with is no longer the one on hand.
CallerFacts ==
  \A c \in Callers :
    /\ At(c, "idle") => call[c].cred = 0
    /\ call[c].pc \in {"sent", "refused"} => call[c].cred > 0
    /\ At(c, "refused") => call[c].secret \in rejected
    /\ (Asking(c) /\ cached # NoSession) => call[c].cred < gen

\* A dropped session is an old one.
DroppedFacts == \A s \in dropped : s =< gen /\ s # cached /\ s # NoSession

SessionInv == /\ TypeOK
              /\ SingleLogin
              /\ NoLoginUnderBan
              /\ OnlyRefusedDropped
              /\ Numbering
              /\ CallerFacts
              /\ DroppedFacts

\* Replacing one caller's call by a well-formed one keeps the table well-formed.
LEMMA CallUpdate ==
  ASSUME NEW f \in [Callers -> Calls], NEW c \in Callers, NEW r \in Calls
  PROVE  [f EXCEPT ![c] = r] \in [Callers -> Calls]
  OBVIOUS

\* The changes that the steps below make to one call keep it well-formed.
LEMMA CallChanges ==
  ASSUME NEW f \in [Callers -> Calls], NEW c \in Callers
  PROVE  /\ [f EXCEPT ![c].cancelled = TRUE] \in [Callers -> Calls]
         /\ [f EXCEPT ![c].pc = "lock", ![c].attempt = 1] \in [Callers -> Calls]
<1>0. f[c] \in Calls
  OBVIOUS
<1>1. [f[c] EXCEPT !.cancelled = TRUE] \in Calls
  BY <1>0, Zenon DEF Calls
<1>2. [f[c] EXCEPT !.pc = "lock", !.attempt = 1] \in Calls
  <2>1. 1 \in 0..1
    OBVIOUS
  <2> QED BY <1>0, <2>1, Zenon DEF Calls
<1> QED BY <1>1, <1>2, CallUpdate

\* classify401 calls a credential expired only where Metabase does: if there is a
\* Bearer challenge there is a first one, and that one decides.
LEMMA RetryableIsExpiry ==
  ASSUME NEW h \in Headers, Retryable(h)
  PROVE  CallsExpired(h)
<1> SUFFICES ASSUME Bearers(h) # {} PROVE \E i \in Bearers(h) : h[i].error \in Expiry
  BY DEF CallsExpired
<1>1. h \in Seq([scheme : STRING, error : STRING])
  BY HeadersAssumption
<1>2. Bearers(h) \subseteq Nat
  BY <1>1 DEF Bearers
<1>3. PICK i \in Bearers(h) : \A j \in Bearers(h) : ~(j < i)
  <2>1. IsWellFoundedOn(OpToRel(<, Nat), Nat)
    BY NatLessThanWellFounded
  <2>2. PICK i \in Bearers(h) : \A j \in Bearers(h) : ~(<<j, i>> \in OpToRel(<, Nat))
    BY <1>2, <2>1, WFMin, Zenon
  <2> QED BY <1>2, <2>2 DEF OpToRel
<1>4. \A j \in Bearers(h) : i =< j
  BY <1>2, <1>3
<1> QED BY <1>4 DEF Retryable

\* The initial state satisfies the invariant.
LEMMA SessionInit == Init => SessionInv
  BY SessionAssumption
     DEF Init, LoopInit, NoSecret, SessionInv, TypeOK, Calls, SingleLogin, NoLoginUnderBan, Banned,
         OnlyRefusedDropped, Numbering, CallerFacts, DroppedFacts, Idle, At,
         Asking, NoSession

\* What a step of the request loop leaves to the provider.
Frame == UNCHANGED <<manager, now, issued, dropped>>

\* Every step of the client, of Metabase and of the clock preserves it.
LEMMA SessionStep == SessionInv /\ [Next]_vars => SessionInv'
<1> SUFFICES ASSUME SessionInv, [Next]_vars PROVE SessionInv'
  OBVIOUS
<1> USE SessionAssumption
    DEF SessionInv, TypeOK, Calls, SingleLogin, NoLoginUnderBan, Banned,
        OnlyRefusedDropped, Numbering, CallerFacts, DroppedFacts, Idle, At,
        Asking, NoSession, NoSecret, mutex, manager, LockFree, Lock, Unlock,
        Return, Send, Retry, Frame
<1>1. ASSUME NEW c \in Callers, Start(c), Frame PROVE SessionInv'
  BY <1>1 DEF Start
<1>2. ASSUME NEW c \in Callers, Cancel(c), Frame PROVE SessionInv'
  <2>1. call' \in [Callers -> Calls]
    BY <1>2, CallChanges DEF Cancel
  <2>2. TypeOK'
    BY <1>2, <2>1 DEF Cancel
  <2>3. SingleLogin' /\ NoLoginUnderBan' /\ OnlyRefusedDropped'
    BY <1>2 DEF Cancel
  <2>4. Numbering'
    BY <1>2 DEF Cancel
  <2>5. CallerFacts'
    BY <1>2 DEF Cancel
  <2>6. DroppedFacts'
    BY <1>2 DEF Cancel
  <2> QED BY <2>2, <2>3, <2>4, <2>5, <2>6
<1>3. ASSUME NEW c \in Callers, ApplyCached(c) PROVE SessionInv'
  BY <1>3 DEF ApplyCached
<1>4. ASSUME NEW c \in Callers, ApplyBanned(c) PROVE SessionInv'
  BY <1>4 DEF ApplyBanned
<1>5. ASSUME NEW c \in Callers, ApplyLogin(c) PROVE SessionInv'
  <2>1. call' \in [Callers -> Calls]
    BY <1>5, CallChanges DEF ApplyLogin
  <2>2. TypeOK'
    BY <1>5, <2>1 DEF ApplyLogin
  <2>3. SingleLogin' /\ NoLoginUnderBan' /\ OnlyRefusedDropped'
    BY <1>5 DEF ApplyLogin
  <2>4. Numbering'
    BY <1>5 DEF ApplyLogin
  <2>5. CallerFacts'
    BY <1>5 DEF ApplyLogin
  <2>6. DroppedFacts'
    BY <1>5 DEF ApplyLogin
  <2> QED BY <2>2, <2>3, <2>4, <2>5, <2>6
<1>6. ASSUME NEW c \in Callers, LoginOk(c) PROVE SessionInv'
  BY <1>6 DEF LoginOk
<1>7. ASSUME NEW c \in Callers, LoginRefused(c) PROVE SessionInv'
  BY <1>7 DEF LoginRefused
<1>8. ASSUME NEW c \in Callers, LoginFails(c) PROVE SessionInv'
  <2> DEFINE r == [call[c] EXCEPT !.pc = "backoff"]
  <2>1. call' \in [Callers -> Calls]
    <3>1. call' = [call EXCEPT ![c] = r] \/ call' = [call EXCEPT ![c] = Idle]
      BY <1>8 DEF LoginFails
    <3>2. CASE call' = [call EXCEPT ![c] = r]
      <4>1. r \in Calls
        BY <1>8, <3>2 DEF LoginFails
      <4> QED BY <3>2, <4>1, CallUpdate
    <3>3. CASE call' = [call EXCEPT ![c] = Idle]
      <4>1. Idle \in Calls
        OBVIOUS
      <4> QED BY <3>3, <4>1, CallUpdate
    <3> QED BY <3>1, <3>2, <3>3
  <2>2. TypeOK'
    BY <1>8, <2>1 DEF LoginFails
  <2>3. SingleLogin' /\ NoLoginUnderBan' /\ OnlyRefusedDropped'
    BY <1>8 DEF LoginFails
  <2>4. Numbering'
    BY <1>8 DEF LoginFails
  <2>5. CallerFacts'
    BY <1>8 DEF LoginFails
  <2>6. DroppedFacts'
    BY <1>8 DEF LoginFails
  <2> QED BY <2>2, <2>3, <2>4, <2>5, <2>6
<1>9. ASSUME NEW c \in Callers, BackoffElapsed(c) PROVE SessionInv'
  BY <1>9 DEF BackoffElapsed
<1>10. ASSUME NEW c \in Callers, BackoffCancelled(c) PROVE SessionInv'
  BY <1>10 DEF BackoffCancelled
<1>11. ASSUME NEW c \in Callers, ReplyFinal(c), Frame PROVE SessionInv'
  BY <1>11 DEF ReplyFinal
<1>12. ASSUME NEW c \in Callers, NEW h \in Headers, Reply401(c, h), Frame
       PROVE  SessionInv'
  <2> DEFINE r == [call[c] EXCEPT !.pc = "refused"]
  <2>1. call' \in [Callers -> Calls]
    <3>1. call' = [call EXCEPT ![c] = r] \/ call' = [call EXCEPT ![c] = Idle]
      BY <1>12 DEF Reply401
    <3>2. CASE call' = [call EXCEPT ![c] = r]
      <4>1. r \in Calls
        BY <1>12, <3>2 DEF Reply401
      <4> QED BY <3>2, <4>1, CallUpdate
    <3>3. CASE call' = [call EXCEPT ![c] = Idle]
      <4>1. Idle \in Calls
        OBVIOUS
      <4> QED BY <3>3, <4>1, CallUpdate
    <3> QED BY <3>1, <3>2, <3>3
  <2>2. TypeOK'
    BY <1>12, <2>1 DEF Reply401
  <2>3. SingleLogin' /\ NoLoginUnderBan' /\ OnlyRefusedDropped'
    BY <1>12 DEF Reply401
  <2>4. Numbering'
    BY <1>12 DEF Reply401
  <2>5. CallerFacts'
    BY <1>12, RetryableIsExpiry DEF Reply401
  <2>6. DroppedFacts'
    BY <1>12 DEF Reply401
  <2> QED BY <2>2, <2>3, <2>4, <2>5, <2>6
<1>13. ASSUME NEW c \in Callers, Invalidate(c) PROVE SessionInv'
  <2>1. call' \in [Callers -> Calls]
    BY <1>13, CallChanges DEF Invalidate
  <2>2. TypeOK'
    BY <1>13, <2>1 DEF Invalidate
  <2>3. SingleLogin' /\ NoLoginUnderBan' /\ OnlyRefusedDropped'
    BY <1>13 DEF Invalidate
  <2>4. Numbering'
    BY <1>13 DEF Invalidate
  <2>5. CallerFacts'
    BY <1>13 DEF Invalidate
  <2>6. DroppedFacts'
    <3>1. CASE cached' = NoSession /\ dropped' = dropped \cup {cached} /\ cached # NoSession
      <4>1. gen' = gen /\ cached = gen
        BY <1>13, <3>1 DEF Invalidate
      <4>2. ASSUME NEW s \in dropped' PROVE s =< gen /\ s # NoSession
        <5>1. s \in dropped \/ s = cached
          BY <3>1, <4>2
        <5> QED BY <3>1, <4>1, <5>1
      <4> QED BY <3>1, <4>1, <4>2
    <3>2. CASE UNCHANGED <<cached, dropped>>
      BY <1>13, <3>2 DEF Invalidate
    <3> QED BY <1>13, <3>1, <3>2 DEF Invalidate
  <2> QED BY <2>2, <2>3, <2>4, <2>5, <2>6
<1>14. CASE Tick
  BY <1>14 DEF Tick
<1>15. CASE UNCHANGED vars
  BY <1>15 DEF vars
<1> QED BY <1>1, <1>2, <1>3, <1>4, <1>5, <1>6, <1>7, <1>8, <1>9, <1>10, <1>11,
           <1>12, <1>13, <1>14, <1>15 DEF Next, Loop, LoopStep, Apply, Login, Backoff, Reply

\* Every variable of the client keeps its type: no login attempt beyond Attempts,
\* no generation or session number outside the naturals.
THEOREM SessionTypeOK == Spec => []TypeOK
<1>1. SessionInv => TypeOK
  BY DEF SessionInv
<1> QED BY <1>1, SessionInit, SessionStep, PTL DEF Spec

\* Sessions thrown away are sessions Metabase refused, whatever the interleaving
\* of requests, late answers, logins and invalidations.
THEOREM SessionOnlyRefusedDropped == Spec => []OnlyRefusedDropped
<1>1. SessionInv => OnlyRefusedDropped
  BY DEF SessionInv
<1> QED BY <1>1, SessionInit, SessionStep, PTL DEF Spec


\* No two logins at once, none over a session on hand, and no path that keeps
\* the mutex.
THEOREM SessionSingleLogin == Spec => []SingleLogin
<1>1. SessionInv => SingleLogin
  BY DEF SessionInv
<1> QED BY <1>1, SessionInit, SessionStep, PTL DEF Spec

\* While the password is known to be bad no login is in flight.
THEOREM SessionNoLoginUnderBan == Spec => []NoLoginUnderBan
<1>1. SessionInv => NoLoginUnderBan
  BY DEF SessionInv
<1> QED BY <1>1, SessionInit, SessionStep, PTL DEF Spec

\* The retry of a call carries a session that is neither the refused one nor any
\* other the client has thrown away.
THEOREM SessionRetryIsFresh == Spec => RetryIsFresh
<1> DEFINE Fresh == \A c \in Callers : (Asking(c) /\ call'[c].pc = "sent")
                      => call'[c].secret \notin {call[c].secret} \cup dropped
<1>1. SessionInv /\ [Next]_vars => [Fresh]_vars
  <2> SUFFICES ASSUME SessionInv, Next, NEW c \in Callers,
                      Asking(c), call'[c].pc = "sent"
               PROVE  call'[c].secret \notin {call[c].secret} \cup dropped
    BY DEF vars
  <2> USE DEF SessionInv, TypeOK, Calls, At, Asking, Return, Send, Retry, Idle
  <2>1. ApplyCached(c) \/ LoginOk(c)
    <3>1. call'[c].pc # call[c].pc
      OBVIOUS
    <3>2. ~Tick
      BY <3>1 DEF Tick
    <3>3. PICK d \in Callers : \/ Start(d) \/ Cancel(d) \/ Apply(d) \/ Login(d)
                               \/ Backoff(d) \/ Reply(d) \/ Invalidate(d)
      BY <3>2 DEF Next, Loop, LoopStep
    <3>4. CASE Start(d) \/ Cancel(d) \/ Backoff(d) \/ Invalidate(d)
      BY <3>1, <3>4 DEF Start, Cancel, Backoff, BackoffElapsed,
                        BackoffCancelled, Invalidate
    <3>5. CASE Reply(d)
      BY <3>1, <3>5 DEF Reply, ReplyFinal, Reply401
    <3>6. CASE Apply(d)
      <4>1. ~ApplyBanned(d) /\ ~ApplyLogin(d)
        BY <3>1 DEF ApplyBanned, ApplyLogin
      <4>2. ApplyCached(d)
        BY <3>6, <4>1 DEF Apply
      <4>3. c = d
        BY <3>1, <4>2 DEF ApplyCached
      <4> QED BY <4>2, <4>3
    <3>7. CASE Login(d)
      <4>1. ~LoginRefused(d) /\ ~LoginFails(d)
        BY <3>1 DEF LoginRefused, LoginFails
      <4>2. LoginOk(d)
        BY <3>7, <4>1 DEF Login
      <4>3. c = d
        BY <3>1, <4>2 DEF LoginOk
      <4> QED BY <4>2, <4>3
    <3> QED BY <3>3, <3>4, <3>5, <3>6, <3>7
  <2> USE DEF Numbering, CallerFacts, DroppedFacts, NoSession
  <2>2. CASE ApplyCached(c)
    BY <2>2 DEF ApplyCached
  <2>3. CASE LoginOk(c)
    BY <2>3 DEF LoginOk
  <2> QED BY <2>1, <2>2, <2>3
<1> QED BY <1>1, SessionInit, SessionStep, PTL DEF Spec, RetryIsFresh

-----------------------------------------------------------------------------
\* The contract's state as the refinement mapping reads it.
AbsPhase == [c \in Callers |-> PhaseOf(c)]
AbsUsing == [c \in Callers |-> call[c].cred]

\* A step that changes one caller's call changes one entry of the mapped tables.
LEMMA PhaseMove ==
  ASSUME NEW c \in Callers, \A d \in Callers \ {c} : call'[d] = call[d]
  PROVE  /\ AbsPhase' = [AbsPhase EXCEPT ![c] = PhaseOf(c)']
         /\ AbsUsing' = [AbsUsing EXCEPT ![c] = call'[c].cred]
         /\ AbsPhase[c] = PhaseOf(c)
  BY DEF PhaseOf, Asking, At, AbsPhase, AbsUsing

\* A step that changes neither a caller's phase nor its generation is a stutter
\* of the contract, if the session on hand stays.
LEMMA PhaseStay ==
  ASSUME \A d \in Callers : PhaseOf(d)' = PhaseOf(d) /\ call'[d].cred = call[d].cred,
         UNCHANGED <<gen, cached>>
  PROVE  UNCHANGED Contract!vars
  BY DEF Contract!vars

\* Every step of the client is a step of the contract or a stutter.
LEMMA SessionRefines ==
  SessionInv /\ SessionInv' /\ [Next]_vars => [Contract!Next]_(Contract!vars)
<1> SUFFICES ASSUME SessionInv, SessionInv', [Next]_vars
             PROVE  Contract!Next \/ UNCHANGED Contract!vars
  OBVIOUS
<1> USE DEF SessionInv, TypeOK, Calls, At, Return, Idle, NoSession, NoSecret, mutex,
           manager, LockFree, Lock, Unlock, Send, Retry, Frame
<1>1. ASSUME NEW c \in Callers, Start(c), Frame PROVE Contract!Ask(c)
  <2>1. PhaseOf(c) = "idle" /\ PhaseOf(c)' = "asking" /\ call'[c].cred = call[c].cred
    BY <1>1 DEF Start, PhaseOf, Asking
  <2>2. \A d \in Callers \ {c} : call'[d] = call[d]
    BY <1>1 DEF Start
  <2>3. UNCHANGED <<gen, cached>>
    BY <1>1 DEF Start, SingleLogin, Numbering, CallerFacts
  <2> QED BY <2>1, <2>2, <2>3, PhaseMove
          DEF Contract!Ask, Contract!Move, AbsPhase, AbsUsing
<1>2. ASSUME NEW c \in Callers, Cancel(c), Frame PROVE UNCHANGED Contract!vars
  <2>1. \A d \in Callers : PhaseOf(d)' = PhaseOf(d) /\ call'[d].cred = call[d].cred
    BY <1>2 DEF Cancel, PhaseOf, Asking
  <2>2. UNCHANGED <<gen, cached>>
    BY <1>2 DEF Cancel
  <2> QED BY <2>1, <2>2, PhaseStay
<1>3. ASSUME NEW c \in Callers, ApplyCached(c) PROVE Contract!Grant(c)
  <2>1. PhaseOf(c) = "asking" /\ PhaseOf(c)' = "using" /\ call'[c].cred = gen
    BY <1>3 DEF ApplyCached, PhaseOf, Asking
  <2>2. \A d \in Callers \ {c} : call'[d] = call[d]
    BY <1>3 DEF ApplyCached
  <2>3. UNCHANGED <<gen, cached>> /\ cached # NoSession
    BY <1>3 DEF ApplyCached, SingleLogin, Numbering, CallerFacts
  <2> QED BY <2>1, <2>2, <2>3, PhaseMove
          DEF Contract!Grant, Contract!Give, Contract!Move, AbsPhase, AbsUsing
<1>4. ASSUME NEW c \in Callers, ApplyBanned(c) PROVE Contract!Decline(c)
  <2>1. PhaseOf(c) = "asking" /\ PhaseOf(c)' = "idle" /\ call'[c].cred = 0
    BY <1>4 DEF ApplyBanned, PhaseOf, Asking
  <2>2. \A d \in Callers \ {c} : call'[d] = call[d]
    BY <1>4 DEF ApplyBanned
  <2>3. UNCHANGED <<gen, cached>>
    BY <1>4 DEF ApplyBanned, SingleLogin, Numbering, CallerFacts
  <2> QED BY <2>1, <2>2, <2>3, PhaseMove
          DEF Contract!Decline, Contract!Leave, Contract!Move, AbsPhase, AbsUsing
<1>5. ASSUME NEW c \in Callers, ApplyLogin(c) PROVE UNCHANGED Contract!vars
  <2>1. \A d \in Callers : PhaseOf(d)' = PhaseOf(d) /\ call'[d].cred = call[d].cred
    BY <1>5 DEF ApplyLogin, PhaseOf, Asking
  <2>2. UNCHANGED <<gen, cached>>
    BY <1>5 DEF ApplyLogin
  <2> QED BY <2>1, <2>2, PhaseStay
<1>6. ASSUME NEW c \in Callers, LoginOk(c) PROVE Contract!Renew(c)
  <2>1. PhaseOf(c) = "asking" /\ PhaseOf(c)' = "using" /\ call'[c].cred = gen + 1
    BY <1>6 DEF LoginOk, PhaseOf, Asking
  <2>2. \A d \in Callers \ {c} : call'[d] = call[d]
    BY <1>6 DEF LoginOk
  <2>3. gen' = gen + 1 /\ cached = NoSession /\ cached' # NoSession /\ gen < MaxSessions
    BY <1>6 DEF LoginOk, SingleLogin, Numbering, CallerFacts
  <2> QED BY <2>1, <2>2, <2>3, PhaseMove
          DEF Contract!Renew, Contract!Give, Contract!Move, AbsPhase, AbsUsing
<1>7. ASSUME NEW c \in Callers, LoginRefused(c) PROVE Contract!Decline(c)
  <2>1. PhaseOf(c) = "asking" /\ PhaseOf(c)' = "idle" /\ call'[c].cred = 0
    BY <1>7 DEF LoginRefused, PhaseOf, Asking
  <2>2. \A d \in Callers \ {c} : call'[d] = call[d]
    BY <1>7 DEF LoginRefused
  <2>3. UNCHANGED <<gen, cached>>
    BY <1>7 DEF LoginRefused, SingleLogin, Numbering, CallerFacts
  <2> QED BY <2>1, <2>2, <2>3, PhaseMove
          DEF Contract!Decline, Contract!Leave, Contract!Move, AbsPhase, AbsUsing
<1>8. ASSUME NEW c \in Callers, LoginFails(c), try = Attempts PROVE Contract!Decline(c)
  <2>1. PhaseOf(c) = "asking" /\ PhaseOf(c)' = "idle" /\ call'[c].cred = 0
    BY <1>8 DEF LoginFails, PhaseOf, Asking
  <2>2. \A d \in Callers \ {c} : call'[d] = call[d]
    BY <1>8 DEF LoginFails
  <2>3. UNCHANGED <<gen, cached>>
    BY <1>8 DEF LoginFails, SingleLogin, Numbering, CallerFacts
  <2> QED BY <2>1, <2>2, <2>3, PhaseMove
          DEF Contract!Decline, Contract!Leave, Contract!Move, AbsPhase, AbsUsing
<1>9. ASSUME NEW c \in Callers, LoginFails(c), try # Attempts PROVE UNCHANGED Contract!vars
  <2>1. \A d \in Callers : PhaseOf(d)' = PhaseOf(d) /\ call'[d].cred = call[d].cred
    BY <1>9 DEF LoginFails, PhaseOf, Asking
  <2>2. UNCHANGED <<gen, cached>>
    BY <1>9 DEF LoginFails
  <2> QED BY <2>1, <2>2, PhaseStay
<1>10. ASSUME NEW c \in Callers, BackoffElapsed(c) PROVE UNCHANGED Contract!vars
  <2>1. \A d \in Callers : PhaseOf(d)' = PhaseOf(d) /\ call'[d].cred = call[d].cred
    BY <1>10 DEF BackoffElapsed, PhaseOf, Asking
  <2>2. UNCHANGED <<gen, cached>>
    BY <1>10 DEF BackoffElapsed
  <2> QED BY <2>1, <2>2, PhaseStay
<1>11. ASSUME NEW c \in Callers, BackoffCancelled(c) PROVE Contract!Decline(c)
  <2>1. PhaseOf(c) = "asking" /\ PhaseOf(c)' = "idle" /\ call'[c].cred = 0
    BY <1>11 DEF BackoffCancelled, PhaseOf, Asking
  <2>2. \A d \in Callers \ {c} : call'[d] = call[d]
    BY <1>11 DEF BackoffCancelled
  <2>3. UNCHANGED <<gen, cached>>
    BY <1>11 DEF BackoffCancelled, SingleLogin, Numbering, CallerFacts
  <2> QED BY <2>1, <2>2, <2>3, PhaseMove
          DEF Contract!Decline, Contract!Leave, Contract!Move, AbsPhase, AbsUsing
<1>12. ASSUME NEW c \in Callers, ReplyFinal(c), Frame PROVE Contract!Finish(c)
  <2>1. PhaseOf(c) = "using" /\ PhaseOf(c)' = "idle" /\ call'[c].cred = 0
    BY <1>12 DEF ReplyFinal, PhaseOf, Asking
  <2>2. \A d \in Callers \ {c} : call'[d] = call[d]
    BY <1>12 DEF ReplyFinal
  <2>3. UNCHANGED <<gen, cached>>
    BY <1>12 DEF ReplyFinal, SingleLogin, Numbering, CallerFacts
  <2> QED BY <2>1, <2>2, <2>3, PhaseMove
          DEF Contract!Finish, Contract!Leave, Contract!Move, AbsPhase, AbsUsing
<1>13. ASSUME NEW c \in Callers, NEW h \in Headers, Reply401(c, h), Frame,
              Retryable(h), call[c].attempt = 0 PROVE Contract!Refuse(c)
  <2>1. PhaseOf(c) = "using" /\ PhaseOf(c)' = "refused" /\ call'[c].cred = call[c].cred
    BY <1>13 DEF Reply401, PhaseOf, Asking
  <2>2. \A d \in Callers \ {c} : call'[d] = call[d]
    BY <1>13 DEF Reply401
  <2>3. UNCHANGED <<gen, cached>>
    BY <1>13 DEF Reply401, SingleLogin, Numbering, CallerFacts
  <2> QED BY <2>1, <2>2, <2>3, PhaseMove
          DEF Contract!Refuse, Contract!Move, AbsPhase, AbsUsing
<1>14. ASSUME NEW c \in Callers, NEW h \in Headers, Reply401(c, h), Frame,
              ~Retryable(h) \/ call[c].attempt # 0 PROVE Contract!Finish(c)
  <2>1. PhaseOf(c) = "using" /\ PhaseOf(c)' = "idle" /\ call'[c].cred = 0
    BY <1>14 DEF Reply401, PhaseOf, Asking
  <2>2. \A d \in Callers \ {c} : call'[d] = call[d]
    BY <1>14 DEF Reply401
  <2>3. UNCHANGED <<gen, cached>>
    BY <1>14 DEF Reply401, SingleLogin, Numbering, CallerFacts
  <2> QED BY <2>1, <2>2, <2>3, PhaseMove
          DEF Contract!Finish, Contract!Leave, Contract!Move, AbsPhase, AbsUsing
<1>15. ASSUME NEW c \in Callers, Invalidate(c) PROVE Contract!Retire(c)
  <2>1. PhaseOf(c) = "refused" /\ PhaseOf(c)' = "asking" /\ call'[c].cred = call[c].cred
    BY <1>15 DEF Invalidate, PhaseOf, Asking
  <2>2. \A d \in Callers \ {c} : call'[d] = call[d]
    BY <1>15 DEF Invalidate
  <2>3. gen' = gen /\ (cached' # NoSession <=> cached # NoSession /\ call[c].cred # gen)
    BY <1>15 DEF Invalidate, SingleLogin, Numbering, CallerFacts
  <2> QED BY <2>1, <2>2, <2>3, PhaseMove
          DEF Contract!Retire, Contract!Move, AbsPhase, AbsUsing
<1>16. CASE Tick \/ UNCHANGED vars
  <2>1. UNCHANGED <<call, gen, cached>>
    BY <1>16 DEF Tick, vars
  <2> QED BY <2>1, PhaseStay DEF PhaseOf, Asking
<1>17. CASE \E c \in Callers : \/ Loop(c) \/ Apply(c) \/ Login(c)
                              \/ Backoff(c) \/ Invalidate(c)
  <2>1. PICK c \in Callers : \/ Loop(c) \/ Apply(c) \/ Login(c)
                             \/ Backoff(c) \/ Invalidate(c)
    BY <1>17
  <2>2. \/ UNCHANGED Contract!vars
        \/ Contract!Ask(c) \/ Contract!Grant(c) \/ Contract!Renew(c)
        \/ Contract!Decline(c) \/ Contract!Finish(c) \/ Contract!Refuse(c)
        \/ Contract!Retire(c)
    BY <2>1, <1>1, <1>2, <1>3, <1>4, <1>5, <1>6, <1>7, <1>8, <1>9, <1>10, <1>11,
       <1>12, <1>13, <1>14, <1>15 DEF Loop, LoopStep, Frame, Apply, Login, Backoff, Reply
  <2> QED BY <2>2 DEF Contract!Next, Contract!Answer, Contract!Resolve
<1> QED BY <1>16, <1>17 DEF Next

\* For any number of callers the client implements the provider contract.
THEOREM SessionImplementsContract == Spec => ImplementsContract
<1>1. Init => Contract!Init
  BY DEF Init, LoopInit, Contract!Init, PhaseOf, Asking, At, Idle, NoSession,
         NoSecret
<1>2. QED
  BY <1>1, SessionInit, SessionStep, SessionRefines, PTL
     DEF Spec, ImplementsContract, Contract!Safety

=============================================================================
