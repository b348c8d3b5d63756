---------------------------- MODULE MCGradeOverrides ----------------------------
(* Small instances of GradeOverrides for TLC. *)
EXTENDS GradeOverrides, TLC

CONSTANTS p1, p2

\* One teacher overrides and another withdraws; both select.
MCCallsOf ==
  p1 :> {"preview author", "author", "preview select", "select"} @@
  p2 :> {"preview withdraw", "withdraw", "preview select", "select"}

Symmetry == Permutations(Results)
=============================================================================
