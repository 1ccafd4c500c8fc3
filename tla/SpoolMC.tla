------------------------------ MODULE SpoolMC ------------------------------
(***************************************************************************)
(* Spool on small instances, and what the documentation says of it.        *)
(***************************************************************************)
EXTENDS Spool, TLC

\* File names, writers and readers are interchangeable.
Symmetry == Permutations(Ids) \cup Permutations(Writers) \cup Permutations(Readers)

Quiet == closer = "closed" /\ \A w \in Writers : At(w, "idle")

\* spool.go:241: "Close removes the files created by THIS process"; README.md:59:
\* "removed ... on process shutdown".  After Close, and the Puts that were under
\* way, no result is left.
CloseRemovesResults == Quiet => \A i \in mine \ failed : Kind(i) # "result"

=============================================================================
