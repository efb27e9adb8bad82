-------------------------- MODULE MCNormalization --------------------------
(* Finite instances of Normalization for TLC.                              *)
EXTENDS Normalization

Id == [type |-> "integer", nullable |-> FALSE, ordinal |-> 1, key |-> 1]
Data(type) == [type |-> type, nullable |-> TRUE, ordinal |-> 2, key |-> 0]

\* A key column and one column of every type.
EveryType == {<<Id, Data(type)>> : type \in DOMAIN Accepted}

\* A composite key whose order is not that of its columns.
Composite == <<[Id EXCEPT !.key = 2], [Data("floating") EXCEPT !.key = 1]>>

\* A table that has lost its second column.
Dropped == <<Id, [Data("text") EXCEPT !.ordinal = 3]>>

AllManifests == EveryType \cup {Composite, Dropped}
DroppedColumn == {Dropped}
=============================================================================
