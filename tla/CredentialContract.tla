------------------------- MODULE CredentialContract -------------------------
(***************************************************************************)
(* What the client of Metabase may rely on from an authentication          *)
(* provider, whichever one is configured: the interface authProvider of    *)
(* internal/metabase/authprovider.go together with the way doJSON uses it. *)
(*                                                                         *)
(* A provider owns one credential at a time.  It never shows the secret,   *)
(* only its generation.  A caller asks for the credential, uses it, and,   *)
(* if Metabase refuses it, complains about the generation it was given.    *)
(* The provider replaces the credential only when the complaint is about   *)
(* the generation that is still current.                                   *)
(*                                                                         *)
(* It may do so at once (an OAuth refresh), or when the next caller asks   *)
(* (a session login).  A complaining caller comes back through the same    *)
(* door (apply), so an asking caller with using[c] > 0 is on its retry.    *)
(***************************************************************************)
EXTENDS Naturals

CONSTANTS
  Callers,   \* goroutines that run doJSON
  MaxGen     \* bound on the number of credentials ever obtained

ASSUME ContractAssumption == MaxGen \in Nat

VARIABLES
  phase,     \* where each caller is in its call
  using,     \* the generation each caller was last given in its call; 0: none
  gen,       \* generation of the newest credential
  live       \* the newest credential is still handed out

vars == <<phase, using, gen, live>>

Phases == {"idle", "asking", "using", "refused"}

Init == /\ phase = [c \in Callers |-> "idle"]
        /\ using = [c \in Callers |-> 0]
        /\ gen \in 0..1
        /\ live \in BOOLEAN /\ (live => gen = 1)

Move(c, from, to) == /\ phase[c] = from
                     /\ phase' = [phase EXCEPT ![c] = to]

Leave(c, from) == /\ Move(c, from, "idle")
                  /\ using' = [using EXCEPT ![c] = 0]
                  /\ UNCHANGED <<gen, live>>

Give(c, g) == /\ Move(c, "asking", "using")
              /\ using' = [using EXCEPT ![c] = g]

Ask(c) == Move(c, "idle", "asking") /\ UNCHANGED <<using, gen, live>>

Grant(c) == live /\ Give(c, gen) /\ UNCHANGED <<gen, live>>

\* Fault: the new credential is announced under the old generation.
RenewUnnumbered(c) == /\ ~live
                      /\ gen < MaxGen
                      /\ Give(c, gen)
                      /\ live' \in BOOLEAN
                      /\ UNCHANGED gen

Renew(c) == /\ ~live
            /\ gen < MaxGen
            /\ Give(c, gen + 1)
            /\ gen' = gen + 1
            /\ live' \in BOOLEAN

Decline(c) == Leave(c, "asking")

Finish(c) == Leave(c, "using")

Refuse(c) == Move(c, "using", "refused") /\ UNCHANGED <<using, gen, live>>

\* Fault: the complaint is not acted upon.
RetireNothing(c) == Move(c, "refused", "asking") /\ UNCHANGED <<using, gen, live>>

\* The complaint is noted.  About a credential replaced meanwhile it is void.
Retire(c) == /\ Move(c, "refused", "asking")
             /\ live' = (live /\ using[c] # gen)
             /\ UNCHANGED <<using, gen>>

\* The complaint has the current credential replaced at once, or fails to.
Replace(c) == /\ Move(c, "refused", "asking")
              /\ using[c] = gen /\ gen < MaxGen
              /\ gen' = gen + 1
              /\ live' \in BOOLEAN
              /\ UNCHANGED using

Abandon(c) == Leave(c, "refused")

\* A credential expires by itself.
Lapse == live /\ live' = FALSE /\ UNCHANGED <<phase, using, gen>>

Answer(c) == Grant(c) \/ Renew(c) \/ Decline(c)
Resolve(c) == Retire(c) \/ Replace(c) \/ Abandon(c)

Next == \/ \E c \in Callers :
             \/ Ask(c)
             \/ Answer(c)
             \/ Finish(c)
             \/ Refuse(c)
             \/ Resolve(c)
        \/ Lapse

Safety == Init /\ [][Next]_vars

\* A provider always answers, and always takes a complaint.
Fairness == \A c \in Callers : WF_vars(Answer(c)) /\ WF_vars(Resolve(c))

Spec == Safety /\ Fairness

-----------------------------------------------------------------------------

TypeOK == /\ phase \in [Callers -> Phases]
          /\ using \in [Callers -> Nat]
          /\ gen \in Nat
          /\ live \in BOOLEAN

\* A caller that asks again after a refusal cannot be given what it was
\* refused with: either a newer credential exists, or none is on hand.
RefusedIsGone ==
  \A c \in Callers :
    /\ using[c] =< gen
    /\ (phase[c] = "asking" /\ live) => using[c] < gen

\* Every credential a caller is given during one call is newer than the one
\* before it: the retry in doJSON never repeats the request with the very
\* credential that was refused.
RetryIsFresh ==
  [][\A c \in Callers :
       (phase[c] = "asking" /\ phase'[c] = "using") => using'[c] > using[c]]_vars

=============================================================================
