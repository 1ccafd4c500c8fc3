---------------------------- MODULE SessionBurst ----------------------------
(***************************************************************************)
(* A burst of calls that find no session: what the comments of             *)
(* internal/metabase/session.go promise to those that wait.                *)
(***************************************************************************)
EXTENDS SessionClientMC

\* History for the burst: the callers that were waiting for mu while another
\* one's login came to its end.
VARIABLE waited

LoginEnds == holder # NoCaller /\ holder' = NoCaller

BurstInit == Init /\ waited = {}

BurstNext ==
  /\ Next
  /\ waited' = {c \in Callers : call'[c].pc \in {"lock", "login", "backoff"}} \cap
               (waited \cup {c \in Callers : LoginEnds /\ At(c, "lock")})

BurstSpec == BurstInit /\ [][BurstNext]_<<vars, waited>>

\* session.go:33: "under parallel calls exactly one goroutine logs in, the rest
\* wait for the result and read it from the cache": who waited through another
\* caller's login does not log in.
WaitersReadTheResult == \A c \in waited : ~At(c, "login")

=============================================================================
