--------------------------- MODULE MCGradeItemStorage ---------------------------
(* Small instances of GradeItemStorage for TLC. *)
EXTENDS GradeItemStorage, TLC

CONSTANTS a, b   \* two contents

\* b may follow a or b, a may follow nothing: the transition rule rejects some
\* candidate (a revision dated before its predecessor).
MCContents == {a, b}
MCTransition == {<<a, b>>, <<b, b>>}

Symmetry == Permutations(Procs)
=============================================================================
