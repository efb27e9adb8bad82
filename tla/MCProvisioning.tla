--------------------------- MODULE MCProvisioning ---------------------------
(* Finite instances of Provisioning for TLC.                               *)
EXTENDS Provisioning, TLC

CONSTANTS r1, r2, d1, d2, d3, d4, e1, e2, c1, c2

Runs == {r1, r2}
OneRun == {r1}
Symmetry == Permutations(Runs)

\* The same document but for the destination; other tables; another epoch.
Documents == {d1, d2, d3, d4}
Epochs == {e1, e2}
Captures == {c1, c2}
EpochOfDocument == [d \in Documents |-> IF d = d4 THEN e2 ELSE e1]
CaptureOfDocument == [d \in Documents |-> IF d = d3 THEN c2 ELSE c1]
=============================================================================
