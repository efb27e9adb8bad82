--------------------------- MODULE MCLaneRotation ---------------------------
(* Finite instances of LaneRotation for TLC.                               *)
EXTENDS LaneRotation

CONSTANTS w1, l1, l2, l3

OneWorker == {w1}
Lanes == {l1, l2, l3}
=============================================================================
