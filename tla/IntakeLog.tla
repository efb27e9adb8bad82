----------------------------- MODULE IntakeLog -----------------------------
(***************************************************************************)
(* What durable intake promises of every partition: the durable stream     *)
(* begins once, grows by the record of exactly the next offset, and is     *)
(* never rewritten; the consumer group is told of durable offsets only,    *)
(* and never told to go back.                                              *)
(***************************************************************************)
EXTENDS Integers

CONSTANTS Partition, Record

VARIABLES
  stream,        \* of each partition: the set of durable [offset, record]
  next,          \* the offset to append at, -1 before the stream begins
  acknowledged   \* the group's offset, -1 while it has none

vars == <<stream, next, acknowledged>>

Init ==
  /\ stream = [p \in Partition |-> {}]
  /\ next = [p \in Partition |-> -1]
  /\ acknowledged = [p \in Partition |-> -1]

Begin(p, offset) ==
  /\ next[p] = -1
  /\ next' = [next EXCEPT ![p] = offset]
  /\ UNCHANGED <<stream, acknowledged>>

Append(p, record) ==
  /\ next[p] # -1
  /\ stream' = [stream EXCEPT ![p] = @ \cup {[offset |-> next[p], record |-> record]}]
  /\ next' = [next EXCEPT ![p] = @ + 1]
  /\ UNCHANGED acknowledged

Acknowledge(p, offset) ==
  /\ acknowledged[p] <= offset
  /\ offset <= next[p]
  /\ acknowledged' = [acknowledged EXCEPT ![p] = offset]
  /\ UNCHANGED <<stream, next>>

Next == \E p \in Partition :
  \/ next'[p] \in Nat /\ Begin(p, next'[p])
  \/ \E record \in Record : Append(p, record)
  \/ acknowledged'[p] \in Nat /\ Acknowledge(p, acknowledged'[p])

Spec == Init /\ [][Next]_vars
=============================================================================
