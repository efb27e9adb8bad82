--------------------------- MODULE MCLaneLeases ---------------------------
(* Finite instances of LaneLeases for TLC.                                 *)
EXTENDS LaneLeases, TLC

CONSTANTS w1, w2, l1, l2

Workers == {w1, w2}
Symmetry == Permutations(Workers)

Two == {1, 2}

\* One lane; the id order is the reverse of the offset order.
OneLane == {l1}
OneLaneOf == [d \in Two |-> l1]
OneOffsetOf == [d \in Two |-> 2 - d]
NoQuarantine == {}

\* Two lanes; the first has a discontinuity between its two deliveries.
Three == {1, 2, 3}
TwoLanes == {l1, l2}
TwoLanesOf == [d \in Three |-> IF d = 3 THEN l2 ELSE l1]
GapOffsetOf == [d \in Three |-> IF d = 2 THEN 2 ELSE 0]
GapQuarantine == {<<l1, 1>>}
=============================================================================
