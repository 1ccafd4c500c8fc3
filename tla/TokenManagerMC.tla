--------------------------- MODULE TokenManagerMC ---------------------------
(***************************************************************************)
(* TokenManager on small instances.                                        *)
(***************************************************************************)
EXTENDS TokenManager, RequestLoopMC

=============================================================================
