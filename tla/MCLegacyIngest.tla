--------------------------- MODULE MCLegacyIngest --------------------------
(* A finite instance of LegacyIngest for TLC.                              *)
EXTENDS LegacyIngest

CONSTANTS p1, p2, x, y

TwoPartitions == {p1, p2}
TwoChanges == {x, y}
=============================================================================
