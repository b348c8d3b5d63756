--------------------------- MODULE ProjectionSnapshots ---------------------------
(***************************************************************************)
(* What the projection cache promises: under every exact identity there is *)
(* at most one snapshot, it is written once, and it never changes or goes  *)
(* away.  EvidenceProjection implements this module.                       *)
(***************************************************************************)
CONSTANTS Keys,         \* exact cache identities
          Inventories,  \* evidence an adapter can produce
          Absent        \* no snapshot

VARIABLE snapshot

Init == snapshot = [k \in Keys |-> Absent]

Capture(k, v) == /\ snapshot[k] = Absent
                 /\ snapshot' = [snapshot EXCEPT ![k] = v]

Next == \E k \in Keys, v \in Inventories : Capture(k, v)

Spec == Init /\ [][Next]_snapshot
=============================================================================
