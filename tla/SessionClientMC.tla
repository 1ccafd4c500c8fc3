-------------------------- MODULE SessionClientMC --------------------------
(***************************************************************************)
(* SessionClient on small instances.                                       *)
(***************************************************************************)
EXTENDS SessionClient, RequestLoopMC

=============================================================================
