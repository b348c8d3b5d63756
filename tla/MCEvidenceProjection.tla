-------------------------- MODULE MCEvidenceProjection --------------------------
(* Small instances of EvidenceProjection for TLC. *)
EXTENDS EvidenceProjection, TLC

Symmetry == Permutations(Scopes) \cup Permutations(Regs)
=============================================================================
