---------------------------- MODULE RequestLoop ----------------------------
(***************************************************************************)
(* The request loop doJSON (internal/metabase/client.go), without the      *)
(* provider that gives it credentials.  Every tool call runs in a          *)
(* goroutine of its own, a caller.  A caller asks the provider for a       *)
(* credential, sends the request with it, and may be refused once before   *)
(* it gives up.                                                            *)
(*                                                                         *)
(* Metabase is nondeterministic: it may accept or refuse any request.      *)
(* The steps between "asking" and "sent", and from "refused" on, belong to *)
(* the provider: SessionClient and TokenManager extend this module, name   *)
(* their own places in a call, and say what of their state each step keeps.*)
(***************************************************************************)
EXTENDS Naturals, Sequences

CONSTANTS
  Callers,
  Headers      \* WWW-Authenticate headers of 401 replies, as challenge lists

ASSUME HeadersAssumption == Headers \subseteq Seq([scheme : STRING, error : STRING])

VARIABLES
  call,        \* the doJSON call of each caller
  rejected     \* history: secrets that a 401 of Metabase called expired

NoSecret == 0

\* attempt counts the turns of the loop; secret and cred are what apply put into
\* the request and returned.
Idle == [pc |-> "idle", attempt |-> 0, secret |-> NoSecret, cred |-> 0,
         cancelled |-> FALSE]

LoopInit == /\ call = [c \in Callers |-> Idle]
            /\ rejected = {}

At(c, p) == call[c].pc = p
Return(c) == call' = [call EXCEPT ![c] = Idle]

Bearers(header) == {i \in DOMAIN header : header[i].scheme = "bearer"}
Expiry == {"", "invalid_token"}

\* What a 401 says of the credential it was sent with: that it has expired, in one
\* of its Bearer challenges, or, having none, as a classic session is refused.
\* Metabase means this, whatever classify401 makes of it.
CallsExpired(header) ==
  Bearers(header) = {} \/ \E i \in Bearers(header) : header[i].error \in Expiry

\* Fault: only the first challenge is looked at, whatever its scheme.
RetryableByFirst(header) ==
  (header # <<>> /\ header[1].scheme = "bearer") => header[1].error \in Expiry

\* classify401: the first Bearer challenge decides, if there is one.
Retryable(header) ==
  \A i \in Bearers(header) :
    (\A j \in Bearers(header) : i =< j) => header[i].error \in Expiry

\* One call of doJSON begins.
Start(c) == /\ At(c, "idle")
            /\ call' = [call EXCEPT ![c].pc = "lock"]
            /\ UNCHANGED rejected

\* The tool call's context is cancelled.  Whoever waits for a mutex does not
\* notice; a request that has not been answered fails.
Cancel(c) == /\ ~At(c, "idle") /\ ~call[c].cancelled
             /\ call' = [call EXCEPT ![c].cancelled = TRUE]
             /\ UNCHANGED rejected

\* The call is over: success, a status other than 401, a transport or decode
\* error.
ReplyFinal(c) == /\ At(c, "sent")
                 /\ Return(c)
                 /\ UNCHANGED rejected

\* A first retryable 401 has the credential invalidated; any other ends the call.
Reply401(c, header) ==
  /\ At(c, "sent") /\ ~call[c].cancelled
  /\ \/ /\ Retryable(header) /\ call[c].attempt = 0
        /\ call' = [call EXCEPT ![c].pc = "refused"]
     \/ /\ ~Retryable(header) \/ call[c].attempt > 0
        /\ Return(c)
  /\ rejected' = IF CallsExpired(header) THEN rejected \cup {call[c].secret}
                                         ELSE rejected

\* The provider hands over a credential: the request is sent.
Send(c, secret, cred) ==
  call' = [call EXCEPT ![c].pc = "sent", ![c].secret = secret, ![c].cred = cred]

\* invalidate returned nil: the second turn of the loop.
Retry(c) == call' = [call EXCEPT ![c].pc = "lock", ![c].attempt = 1]

Reply(c) == ReplyFinal(c) \/ \E h \in Headers : Reply401(c, h)

LoopStep(c) == Start(c) \/ Cancel(c) \/ Reply(c)

=============================================================================
