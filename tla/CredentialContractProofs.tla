---------------------- MODULE CredentialContractProofs ----------------------
(***************************************************************************)
(* The provider contract delivers what doJSON relies on, for any set of    *)
(* callers and any number of credentials.                                  *)
(***************************************************************************)
EXTENDS CredentialContract, TLAPS

\* Inductive strengthening of RefusedIsGone: a caller outside a call holds
\* nothing, and a credential on hand has a generation.
ContractInv ==
  /\ TypeOK
  /\ RefusedIsGone
  /\ \A c \in Callers : phase[c] = "idle" => using[c] = 0
  /\ live => gen > 0

\* The contract's initial state satisfies the strengthened invariant.
LEMMA ContractInit == Init => ContractInv
<1> SUFFICES ASSUME Init PROVE ContractInv
  OBVIOUS
<1>1. live => gen > 0
  BY DEF Init
<1>2. TypeOK
  BY DEF Init, TypeOK, Phases
<1>3. gen \in Nat /\ \A c \in Callers : using[c] = 0
  BY DEF Init
<1> QED BY <1>1, <1>2, <1>3 DEF ContractInv, RefusedIsGone

\* Every step of the contract, and every stutter, preserves it.
LEMMA ContractStep == ContractInv /\ [Next]_vars => ContractInv'
<1> SUFFICES ASSUME ContractInv, [Next]_vars PROVE ContractInv'
  OBVIOUS
<1> USE DEF ContractInv, TypeOK, RefusedIsGone, Phases, Move
<1>1. ASSUME NEW c \in Callers, Ask(c) PROVE ContractInv'
  BY <1>1 DEF Ask
<1>2. ASSUME NEW c \in Callers, Grant(c) PROVE ContractInv'
  BY <1>2 DEF Grant, Give
<1>3. ASSUME NEW c \in Callers, Renew(c) PROVE ContractInv'
  BY <1>3 DEF Renew, Give
<1>4. ASSUME NEW c \in Callers, Decline(c) PROVE ContractInv'
  BY <1>4 DEF Decline, Leave
<1>5. ASSUME NEW c \in Callers, Finish(c) PROVE ContractInv'
  BY <1>5 DEF Finish, Leave
<1>6. ASSUME NEW c \in Callers, Refuse(c) PROVE ContractInv'
  BY <1>6 DEF Refuse
<1>7. ASSUME NEW c \in Callers, Retire(c) PROVE ContractInv'
  <2>1. live' => live /\ using[c] # gen
    BY <1>7 DEF Retire
  <2>2. live' \in BOOLEAN /\ UNCHANGED <<using, gen>>
    BY <1>7 DEF Retire
  <2>3. Move(c, "refused", "asking")
    BY <1>7 DEF Retire
  <2> QED BY <2>1, <2>2, <2>3
<1>8. ASSUME NEW c \in Callers, Replace(c) PROVE ContractInv'
  BY <1>8 DEF Replace
<1>9. ASSUME NEW c \in Callers, Abandon(c) PROVE ContractInv'
  BY <1>9 DEF Abandon, Leave
<1>10. CASE Lapse
  <2>1. ~live' /\ live' \in BOOLEAN /\ UNCHANGED <<phase, using, gen>>
    BY <1>10 DEF Lapse
  <2> QED BY <2>1
<1>11. CASE UNCHANGED vars
  BY <1>11 DEF vars
<1> QED BY <1>1, <1>2, <1>3, <1>4, <1>5, <1>6, <1>7, <1>8, <1>9, <1>10, <1>11
        DEF Next, Answer, Resolve

\* No caller that asks again can be answered with the credential it was
\* refused with.
THEOREM ContractRefusedIsGone == Safety => []RefusedIsGone
<1>1. ContractInv => RefusedIsGone
  BY DEF ContractInv
<1> QED BY <1>1, ContractInit, ContractStep, PTL DEF Safety

\* Every credential given during a call is newer than the one given before it
\* in that call.
THEOREM ContractRetryIsFresh == Safety => RetryIsFresh
<1> DEFINE Fresh == \A c \in Callers :
             (phase[c] = "asking" /\ phase'[c] = "using") => using'[c] > using[c]
<1>1. ContractInv /\ [Next]_vars => [Fresh]_vars
  <2> SUFFICES ASSUME ContractInv, Next, NEW d \in Callers,
                      phase[d] = "asking", phase'[d] = "using"
               PROVE  using'[d] > using[d]
    BY DEF vars
  <2> USE DEF ContractInv, TypeOK, RefusedIsGone
  <2>1. PICK c \in Callers : \/ Ask(c) \/ Answer(c) \/ Finish(c)
                             \/ Refuse(c) \/ Resolve(c)
    BY DEF Next, Lapse
  <2>2. Grant(c) \/ Renew(c)
    BY <2>1 DEF Ask, Answer, Decline, Finish, Leave, Refuse, Resolve, Retire,
                Replace, Abandon, Move
  <2>3. c = d
    BY <2>2 DEF Grant, Renew, Give, Move
  <2>4. CASE Grant(c)
    BY <2>3, <2>4 DEF Grant, Give
  <2>5. CASE Renew(c)
    BY <2>3, <2>5 DEF Renew, Give
  <2> QED BY <2>2, <2>4, <2>5
<1> QED BY <1>1, ContractInit, ContractStep, PTL DEF Safety, RetryIsFresh

=============================================================================
