--------------------------- MODULE SessionClient ---------------------------
(***************************************************************************)
(* Password authentication: sessionManager (internal/metabase/session.go)  *)
(* as the provider of the request loop.                                    *)
(*                                                                         *)
(* The mutex mu is held from the moment an empty cache is seen until the   *)
(* login has succeeded or given up, through network requests and backoff   *)
(* sleeps, so it is a variable, holder; critical sections without a        *)
(* blocking call are single actions that need the mutex free.              *)
(*                                                                         *)
(* Metabase may accept or refuse any login.  A session id is the number of *)
(* the login that created it.                                              *)
(***************************************************************************)
EXTENDS RequestLoop

CONSTANTS
  NoCaller,      \* mu is free
  Attempts,      \* len(backoffs): logins tried before a call gives up
  NegTTL,        \* negCacheTTL
  MaxSessions,   \* bound on successful logins
  MaxTime        \* bound on the clock

ASSUME SessionAssumption ==
  /\ NoCaller \notin Callers
  /\ Attempts \in Nat \ {0}
  /\ NegTTL \in Nat
  /\ MaxSessions \in Nat \ {0}
  /\ MaxTime \in Nat

VARIABLES
  holder,        \* who holds mu
  try,           \* the login attempt the holder is at; 0: no login
  cached,        \* the session id on hand, or NoSession
  gen,           \* generation of the last session obtained
  negUntil,      \* negCacheUntil
  now,
  issued,        \* sessions Metabase has created for this client
  dropped        \* history: sessions the client threw away

mutex == <<holder, try>>
manager == <<mutex, cached, gen, negUntil>>
vars == <<call, manager, now, issued, rejected, dropped>>

NoSession == NoSecret

\* A caller asks for a session at "lock", "login" and "backoff".
Init == /\ LoopInit
        /\ holder = NoCaller /\ try = 0
        /\ cached = NoSession
        /\ gen = 0
        /\ negUntil = 0
        /\ now = 0
        /\ issued = 0
        /\ dropped = {}

LockFree == holder = NoCaller
Lock(c) == holder' = c /\ try' = 1
Unlock == holder' = NoCaller /\ try' = 0

-----------------------------------------------------------------------------
Banned == now < negUntil

\* apply with a session on hand: one snapshot of (cached, gen).
ApplyCached(c) ==
  /\ At(c, "lock") /\ LockFree
  /\ cached # NoSession
  /\ Send(c, cached, gen)
  /\ UNCHANGED <<manager, now, issued, rejected, dropped>>

ApplyBanned(c) ==
  /\ At(c, "lock") /\ LockFree
  /\ cached = NoSession /\ Banned
  /\ Return(c)
  /\ UNCHANGED <<manager, now, issued, rejected, dropped>>

\* Fault: the cache is looked at without the lock (double-checked locking).
ApplyLoginUnlocked(c) ==
  /\ At(c, "lock")
  /\ cached = NoSession /\ ~Banned
  /\ Lock(c)
  /\ call' = [call EXCEPT ![c].pc = "login"]
  /\ UNCHANGED <<cached, gen, negUntil, now, issued, rejected, dropped>>

\* Fault: the ban is not looked at.
ApplyLoginBanned(c) ==
  /\ At(c, "lock") /\ LockFree
  /\ cached = NoSession
  /\ Lock(c)
  /\ call' = [call EXCEPT ![c].pc = "login"]
  /\ UNCHANGED <<cached, gen, negUntil, now, issued, rejected, dropped>>

ApplyLogin(c) ==
  /\ At(c, "lock") /\ LockFree
  /\ cached = NoSession /\ ~Banned
  /\ Lock(c)
  /\ call' = [call EXCEPT ![c].pc = "login"]
  /\ UNCHANGED <<cached, gen, negUntil, now, issued, rejected, dropped>>

\* Fault: a new session keeps the old generation.
LoginOkUnnumbered(c) ==
  /\ At(c, "login") /\ ~call[c].cancelled
  /\ issued < MaxSessions
  /\ issued' = issued + 1
  /\ cached' = issued + 1
  /\ Unlock
  /\ Send(c, cached', gen)
  /\ UNCHANGED <<gen, negUntil, now, rejected, dropped>>

\* A cancelled context fails the request: cancelling after the reply has been
\* read is cancelling after this step.
LoginOk(c) ==
  /\ At(c, "login") /\ ~call[c].cancelled
  /\ issued < MaxSessions
  /\ issued' = issued + 1
  /\ cached' = issued + 1
  /\ gen' = gen + 1
  /\ Unlock
  /\ Send(c, cached', gen')
  /\ UNCHANGED <<negUntil, now, rejected, dropped>>

\* Fault: the early return for a wrong password keeps mu.
LoginRefusedLocked(c) ==
  /\ At(c, "login") /\ ~call[c].cancelled
  /\ negUntil' = now + NegTTL
  /\ Return(c)
  /\ UNCHANGED <<mutex, cached, gen, now, issued, rejected, dropped>>

\* 401 or 400: the password is wrong, nobody tries again for NegTTL.
LoginRefused(c) ==
  /\ At(c, "login") /\ ~call[c].cancelled
  /\ negUntil' = now + NegTTL
  /\ Unlock
  /\ Return(c)
  /\ UNCHANGED <<cached, gen, now, issued, rejected, dropped>>

\* Fault: one attempt too many.
LoginFailsTooOften(c) ==
  /\ At(c, "login")
  /\ \/ /\ try =< Attempts
        /\ try' = try + 1
        /\ call' = [call EXCEPT ![c].pc = "backoff"]
        /\ UNCHANGED holder
     \/ /\ try > Attempts
        /\ Return(c)
        /\ Unlock
  /\ UNCHANGED <<cached, gen, negUntil, now, issued, rejected, dropped>>

\* Anything else: transport, timeout, status, body.
LoginFails(c) ==
  /\ At(c, "login")
  /\ \/ /\ try < Attempts
        /\ try' = try + 1
        /\ call' = [call EXCEPT ![c].pc = "backoff"]
        /\ UNCHANGED holder
     \/ /\ try = Attempts
        /\ Return(c)
        /\ Unlock
  /\ UNCHANGED <<cached, gen, negUntil, now, issued, rejected, dropped>>

\* When both are ready, select takes the timer or the context at random.
BackoffElapsed(c) ==
  /\ At(c, "backoff")
  /\ call' = [call EXCEPT ![c].pc = "login"]
  /\ UNCHANGED <<manager, now, issued, rejected, dropped>>

\* Fault: the early return from the sleep keeps mu.
BackoffCancelledLocked(c) ==
  /\ At(c, "backoff") /\ call[c].cancelled
  /\ Return(c)
  /\ UNCHANGED <<manager, now, issued, rejected, dropped>>

BackoffCancelled(c) ==
  /\ At(c, "backoff") /\ call[c].cancelled
  /\ Return(c)
  /\ Unlock
  /\ UNCHANGED <<cached, gen, negUntil, now, issued, rejected, dropped>>

\* Fault: whatever session is on hand goes.
InvalidateAny(c) ==
  /\ At(c, "refused") /\ LockFree
  /\ Retry(c)
  /\ cached' = NoSession
  /\ dropped' = dropped \cup ({cached} \ {NoSession})
  /\ UNCHANGED <<mutex, gen, negUntil, now, issued, rejected>>

\* invalidate: the session goes only if it is still the one complained about.
Invalidate(c) ==
  /\ At(c, "refused") /\ LockFree
  /\ Retry(c)
  /\ \/ /\ gen = call[c].cred /\ cached # NoSession
        /\ cached' = NoSession
        /\ dropped' = dropped \cup {cached}
     \/ /\ gen # call[c].cred \/ cached = NoSession
        /\ UNCHANGED <<cached, dropped>>
  /\ UNCHANGED <<mutex, gen, negUntil, now, issued, rejected>>

Tick == /\ now < MaxTime
        /\ now' = now + 1
        /\ UNCHANGED <<call, manager, issued, rejected, dropped>>

Apply(c) == ApplyCached(c) \/ ApplyBanned(c) \/ ApplyLogin(c)
Login(c) == LoginOk(c) \/ LoginRefused(c) \/ LoginFails(c)
Backoff(c) == BackoffElapsed(c) \/ BackoffCancelled(c)
Loop(c) == LoopStep(c) /\ UNCHANGED <<manager, now, issued, dropped>>

Next == \/ \E c \in Callers : Loop(c) \/ Apply(c) \/ Login(c) \/ Backoff(c) \/ Invalidate(c)
        \/ Tick

\* HTTP_TIMEOUT bounds every exchange with Metabase and a timer bounds every
\* sleep.  A goroutine that waits for a Go mutex gets it (starvation mode hands
\* it over in arrival order), however often others pass in between.
Fairness == \A c \in Callers : /\ WF_vars(Login(c))
                               /\ WF_vars(Backoff(c))
                               /\ WF_vars(Loop(c) /\ Reply(c))
                               /\ SF_vars(Apply(c))
                               /\ SF_vars(Invalidate(c))

Spec == Init /\ [][Next]_vars
FairSpec == Spec /\ Fairness

-----------------------------------------------------------------------------
\* The provider contract, read off this state.
Asking(c) == call[c].pc \in {"lock", "login", "backoff"}

PhaseOf(c) == CASE Asking(c) -> "asking"
                [] At(c, "sent") -> "using"
                [] At(c, "refused") -> "refused"
                [] OTHER -> "idle"

Contract == INSTANCE CredentialContract WITH
  MaxGen <- MaxSessions,
  phase <- [c \in Callers |-> PhaseOf(c)],
  using <- [c \in Callers |-> call[c].cred],
  live <- (cached # NoSession)

\* sessionManager under doJSON keeps what the comments of authProvider promise.
ImplementsContract == Contract!Safety

\* It keeps answering, too, under the fairness above: waiting for mu, a login and
\* its backoffs never leave a caller without an answer.
KeepsAnswering == Contract!Fairness

Calls == [pc : {"idle", "lock", "login", "backoff", "sent", "refused"},
          attempt : 0..1, secret : Nat, cred : Nat, cancelled : BOOLEAN]

TypeOK == /\ call \in [Callers -> Calls]
          /\ holder \in Callers \cup {NoCaller}
          /\ try \in 0..Attempts
          /\ cached \in Nat
          /\ gen \in Nat
          /\ negUntil \in Nat
          /\ now \in Nat
          /\ issued \in Nat
          /\ rejected \subseteq Nat
          /\ dropped \subseteq Nat

\* The mutex is held by exactly the caller that is logging in, and never over a
\* session another caller already obtained: no two logins run at once, none is
\* made while a session is on hand, and no path out of the login keeps the lock.
SingleLogin == /\ \A c \in Callers : holder = c <=> call[c].pc \in {"login", "backoff"}
               /\ holder # NoCaller => cached = NoSession

\* After Metabase refused the password no login is in flight, and no session is
\* on hand, until the ban is over.
NoLoginUnderBan == Banned => holder = NoCaller /\ cached = NoSession

\* The client throws away only sessions that Metabase itself refused as
\* expired: a 401 that arrives late, earned by an older session, or one that is
\* about permissions, never costs a working session.
OnlyRefusedDropped == dropped \subseteq rejected

\* The second attempt of a call never carries the session its first attempt was
\* refused with.
RetryIsFresh ==
  [][\A c \in Callers : (Asking(c) /\ call'[c].pc = "sent")
       => call'[c].secret \notin {call[c].secret} \cup dropped]_vars

\* Every call returns: at most Attempts logins for each of two attempts, and
\* a lock that is always given back.
CallsReturn == \A c \in Callers : ~At(c, "idle") ~> At(c, "idle")

=============================================================================
