--------------------------- MODULE MCPublicationAccess ---------------------------
(* Small instances of PublicationAccess for TLC. *)
EXTENDS PublicationAccess, TLC

Symmetry == Permutations(Procs) \cup Permutations(Grants)
=============================================================================
