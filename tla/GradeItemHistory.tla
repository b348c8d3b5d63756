---------------------------- MODULE GradeItemHistory ----------------------------
(***************************************************************************)
(* What the Grade Item store promises its callers, without files, locks or *)
(* processes: one logical item owns an append-only history of immutable    *)
(* revisions and, separately, one explicitly selected revision that moves  *)
(* only by compare-and-swap.  GradeItemStorage implements this module.     *)
(***************************************************************************)
EXTENDS Naturals

CONSTANTS MaxRev,      \* bound on the revision numbers of one item
          Contents,    \* the byte contents a revision can have
          Transition,  \* pairs <<previous, candidate>> the domain rule accepts
          Absent       \* no revision of that number

Revs == 1 .. MaxRev

VARIABLES revision,    \* revision number -> content, or Absent
          selected     \* the selected revision number, 0 for none

vars == <<revision, selected>>

Init == /\ revision = [r \in Revs |-> Absent]
        /\ selected = 0

Append(r, c) ==
  /\ \A q \in Revs : revision[q] = Absent <=> q >= r
  /\ r > 1 => <<revision[r - 1], c>> \in Transition
  /\ revision' = [revision EXCEPT ![r] = c]
  /\ UNCHANGED selected

Select(r, expected) ==
  /\ revision[r] # Absent
  /\ selected = expected
  /\ selected' = r
  /\ UNCHANGED revision

Next == \/ \E r \in Revs, c \in Contents : Append(r, c)
        \/ \E r \in Revs, expected \in 0 .. MaxRev : Select(r, expected)

Spec == Init /\ [][Next]_vars
=============================================================================
