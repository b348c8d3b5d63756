-------------------------- MODULE MCReportingSnapshots --------------------------
(* Small instances of ReportingSnapshots for TLC. *)
EXTENDS ReportingSnapshots, TLC

CONSTANTS g1, g2, a1, a2, e1, e2

\* g1 comes from the first activation, g2 from the second, and both from the same evidence.
MCBasisOf == g1 :> <<a1, e1>> @@ g2 :> <<a2, e1>>

\* The Grade of the first student is selected, that of the others is not.
MCStart == [base |-> [r \in Rows |-> IF r = 1 THEN g1 ELSE Absent], activation |-> a1,
            evidence |-> [r \in Rows |-> e1], override |-> [r \in Rows |-> NoOverride],
            moved |-> FALSE]
=============================================================================
