---------------------------- MODULE MCTeacherAction ----------------------------
(* Small instances of TeacherAction for TLC. *)
EXTENDS TeacherAction, TLC

Symmetry == Permutations(Procs)
=============================================================================
