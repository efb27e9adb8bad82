-------------------------- MODULE MCDurableIntake --------------------------
(* Finite instances of DurableIntake for TLC.                              *)
EXTENDS DurableIntake

CONSTANTS w1, w2, p1, p2

OneWorker == {w1}
TwoWorkers == {w1, w2}
OnePartition == {p1}
TwoPartitions == {p1, p2}
AllClasses == {"event", "quarantine", "unclassifiable"}
FailingClasses == {"event", "unclassifiable"}
=============================================================================
