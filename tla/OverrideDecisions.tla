--------------------------- MODULE OverrideDecisions ---------------------------
(***************************************************************************)
(* What the override family of one Grade promises its readers: decisions   *)
(* are never rewritten, a withdrawal is about the override selected when   *)
(* it was authored, and a selection only moves forward.                    *)
(***************************************************************************)
EXTENDS Naturals, Sequences

CONSTANTS Procs, Results, MaxRev

VARIABLES history, pointer

Decisions == [kind : {"override", "withdraw"}, source : Results, by : Procs,
              withdraws : 0 .. MaxRev]

Init == history = <<>> /\ pointer = 0

Author(d) ==
  /\ d.kind = "withdraw" => d.withdraws = pointer /\ pointer # 0 /\ d.source = history[pointer].source
  /\ history' = Append(history, d) /\ UNCHANGED pointer

Select(r) == r > pointer /\ pointer' = r /\ UNCHANGED history

Next == (\E d \in Decisions : Author(d)) \/ (\E r \in 1 .. Len(history) : Select(r))

Spec == Init /\ [][Next]_<<history, pointer>>
=============================================================================
