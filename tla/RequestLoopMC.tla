--------------------------- MODULE RequestLoopMC ---------------------------
(***************************************************************************)
(* Values for the request loop's constants on small instances, for every   *)
(* provider.                                                               *)
(***************************************************************************)
EXTENDS RequestLoop, TLC

\* One header of each class that classify401 tells apart: none, a missing scope
\* behind another scheme, an expired token in front of a missing scope, and the
\* other way round.
MCHeaders == { <<>>,
               <<[scheme |-> "basic", error |-> ""],
                 [scheme |-> "bearer", error |-> "insufficient_scope"]>>,
               <<[scheme |-> "bearer", error |-> "invalid_token"],
                 [scheme |-> "bearer", error |-> "insufficient_scope"]>>,
               <<[scheme |-> "bearer", error |-> "insufficient_scope"],
                 [scheme |-> "bearer", error |-> "invalid_token"]>> }

CallerSymmetry == Permutations(Callers)

=============================================================================
