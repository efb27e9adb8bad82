------------------------- MODULE LegacyIngestProofs -------------------------
(***************************************************************************)
(* What the legacy consumer commits has left a row or failed itself, for   *)
(* any number of partitions, records, changes and faults.                  *)
(*                                                                         *)
(* OnlyFailedRecordsAreLost is about committed offsets.  They come from    *)
(* the positions of a running process, so that the invariant says the same *)
(* of those (Taken), but for the record in hand; a process that is down or *)
(* joining has positions that mean nothing, until Join replaces them.      *)
(***************************************************************************)
EXTENDS LegacyIngest, TLAPS

TypeInv ==
  /\ log \in [Partition -> Seq(Record)]
  /\ committed \in [Partition -> Nat]
  /\ position \in [Partition -> Nat]
  /\ pc \in {"down", "joining", "polling", "processing", "committing"}
  /\ pc \in {"processing", "committing"} => current \in Partition /\ position[current] > 0

\* Offsets are those of records.
WithinLog ==
  \A p \in Partition : committed[p] <= Len(log[p]) /\ position[p] <= Len(log[p])

Done(p, n) == Accounted(p, n) \/ <<p, n>> \in failed

InHand(p, n) == pc = "processing" /\ p = current /\ n = position[p] - 1

Taken ==
  pc \in {"polling", "processing", "committing"} =>
    \A p \in Partition : \A n \in 0..position[p] - 1 : Done(p, n) \/ InHand(p, n)

Inv == TypeInv /\ WithinLog /\ Taken /\ OnlyFailedRecordsAreLost

-----------------------------------------------------------------------------
\* Nothing that is stored is lost again, and the log is only appended to.
Grows ==
  /\ events \subseteq events' /\ deadLetters \subseteq deadLetters' /\ failed \subseteq failed'
  /\ \A p \in Partition : \A n \in 1..Len(log[p]) :
       n <= Len(log'[p]) /\ log'[p][n] = log[p][n]

\* What is done stays done.
LEMMA DoneStays ==
  ASSUME Inv, Grows, NEW p \in Partition, NEW n \in Nat, n < Len(log[p]), Done(p, n)
  PROVE  Done(p, n)'
<1>1. n + 1 \in 1..Len(log[p])
  BY DEF Inv, TypeInv
<1>2. log'[p][n + 1] = log[p][n + 1]
  BY <1>1 DEF Grows
<1> QED
  BY <1>2 DEF Done, Accounted, Grows

\* A step that commits nothing, or the positions of a process whose record in hand
\* is done, keeps OnlyFailedRecordsAreLost.
LEMMA CommittedStay ==
  ASSUME Inv, Grows,
         committed' = committed \/ (pc = "committing" /\ committed' = position)
  PROVE  OnlyFailedRecordsAreLost'
<1> SUFFICES ASSUME NEW p \in Partition, NEW n \in 0..committed'[p] - 1
             PROVE  Done(p, n)'
  BY DEF OnlyFailedRecordsAreLost, Done
<1>1. committed'[p] \in Nat /\ committed'[p] <= Len(log[p])
  BY DEF Inv, TypeInv, WithinLog
<1>2. n \in Nat /\ n < Len(log[p])
  BY <1>1 DEF Inv, TypeInv
<1>3. Done(p, n)
  <2>1. CASE committed' = committed
    BY <2>1 DEF Inv, OnlyFailedRecordsAreLost, Done
  <2>2. CASE pc = "committing" /\ committed' = position
    BY <2>2 DEF Inv, Taken, InHand
  <2> QED
    BY <2>1, <2>2
<1> QED
  BY <1>2, <1>3, DoneStays

\* A step that moves no position keeps Taken if the record in hand, once it leaves
\* the hand, is done.
LEMMA TakenStays ==
  ASSUME Inv, Grows, position' = position, current' = current \/ pc' # "processing",
         pc' \in {"polling", "processing", "committing"} =>
           pc \in {"polling", "processing", "committing"},
         \A p \in Partition : \A n \in Nat : InHand(p, n) =>
           \/ pc' \in {"down", "joining", "processing"}
           \/ Done(p, n)'
  PROVE  Taken'
<1> SUFFICES ASSUME pc' \in {"polling", "processing", "committing"},
                    NEW p \in Partition, NEW n \in 0..position[p] - 1
             PROVE  Done(p, n)' \/ InHand(p, n)'
  BY DEF Taken
<1>1. n \in Nat /\ n < Len(log[p])
  BY DEF Inv, TypeInv, WithinLog
<1>2. Done(p, n) \/ InHand(p, n)
  BY DEF Inv, Taken
<1>3. CASE Done(p, n)
  BY <1>1, <1>3, DoneStays
<1>4. CASE InHand(p, n)
  <2>1. pc' = "processing" \/ Done(p, n)'
    BY <1>1, <1>4
  <2>2. pc' = "processing" => InHand(p, n)'
    BY <1>4 DEF InHand
  <2> QED
    BY <2>1, <2>2
<1> QED
  BY <1>2, <1>3, <1>4

-----------------------------------------------------------------------------
LEMMA InitHasInv ==
  Init => Inv
<1> SUFFICES ASSUME Init PROVE Inv
  OBVIOUS
<1>1. TypeInv /\ WithinLog
  BY DEF Init, TypeInv, WithinLog
<1>2. Taken /\ OnlyFailedRecordsAreLost
  BY DEF Init, Taken, OnlyFailedRecordsAreLost
<1> QED
  BY <1>1, <1>2 DEF Inv

LEMMA ProduceKeepsInv ==
  ASSUME Inv, NEW p \in Partition, NEW record \in Record, Produce(p, record)
  PROVE  Inv'
<1> USE DEF Produce, tables
<1>1. TypeInv'
  BY DEF Inv, TypeInv
<1>2. \A q \in Partition : Len(log[q]) <= Len(log'[q])
  BY DEF Inv, TypeInv
<1>3. WithinLog'
  BY <1>2 DEF Inv, TypeInv, WithinLog
<1>4. Grows
  BY <1>2 DEF Inv, TypeInv, Grows
<1>5. Taken'
  <2> SUFFICES ASSUME pc \in {"polling", "processing", "committing"},
                      NEW q \in Partition, NEW n \in 0..position[q] - 1
               PROVE  Done(q, n)' \/ InHand(q, n)'
    BY DEF Taken
  <2>1. n \in Nat /\ n < Len(log[q])
    BY DEF Inv, TypeInv, WithinLog
  <2>2. Done(q, n) \/ InHand(q, n)
    BY DEF Inv, Taken
  <2> QED
    BY <2>1, <2>2, <1>4, DoneStays DEF InHand
<1>6. OnlyFailedRecordsAreLost'
  BY <1>4, CommittedStay
<1> QED
  BY <1>1, <1>3, <1>5, <1>6 DEF Inv

LEMMA JoinKeepsInv ==
  ASSUME Inv, Join
  PROVE  Inv'
<1> USE DEF Join, ResumePositions, tables
<1>1. TypeInv' /\ WithinLog'
  BY DEF Inv, TypeInv, WithinLog
<1>2. Grows
  BY DEF Inv, TypeInv, Grows
<1>3. OnlyFailedRecordsAreLost'
  BY <1>2, CommittedStay
<1>4. Taken'
  BY <1>3 DEF Taken, OnlyFailedRecordsAreLost, Done
<1> QED
  BY <1>1, <1>3, <1>4 DEF Inv

LEMMA ReceiveKeepsInv ==
  ASSUME Inv, NEW p \in Partition, Receive(p)
  PROVE  Inv'
<1> USE DEF Receive, tables
<1>1. TypeInv' /\ WithinLog'
  BY DEF Inv, TypeInv, WithinLog
<1>2. Grows
  BY DEF Inv, TypeInv, Grows
<1>3. OnlyFailedRecordsAreLost'
  BY <1>2, CommittedStay
<1>4. Taken'
  <2> SUFFICES ASSUME NEW q \in Partition, NEW n \in 0..position'[q] - 1
               PROVE  Done(q, n)' \/ InHand(q, n)'
    BY DEF Taken
  <2>1. CASE n \in 0..position[q] - 1
    <3>1. Done(q, n) /\ n \in Nat /\ n < Len(log[q])
      BY <2>1 DEF Inv, Taken, InHand, TypeInv, WithinLog
    <3> QED
      BY <3>1, <1>2, DoneStays
  <2>2. CASE q = p /\ n = position[p]
    BY <2>2 DEF Inv, TypeInv, InHand
  <2>3. n \in 0..position[q] - 1 \/ (q = p /\ n = position[p])
    BY DEF Inv, TypeInv
  <2> QED
    BY <2>1, <2>2, <2>3
<1> QED
  BY <1>1, <1>3, <1>4 DEF Inv

\* Evictions, crashes and starts touch no record.
LEMMA ProcessKeepsInv ==
  ASSUME Inv, Evict \/ Crash \/ Start
  PROVE  Inv'
<1> USE DEF Evict, Crash, Start, Fault, Die, tables
<1>1. TypeInv' /\ WithinLog'
  BY DEF Inv, TypeInv, WithinLog
<1>2. Grows
  BY DEF Inv, TypeInv, Grows
<1>3. OnlyFailedRecordsAreLost'
  BY <1>2, CommittedStay
<1>4. Taken'
  <2>1. pc = "processing" => pc' = "processing" \/ pc' = "down" \/ pc' = "joining"
    OBVIOUS
  <2> QED
    BY <1>2, <2>1, TakenStays DEF InHand
<1> QED
  BY <1>1, <1>3, <1>4 DEF Inv

\* The record in hand: stored, dead-lettered, skipped, or failed by a statement.
LEMMA RecordKeepsInv ==
  ASSUME Inv, Tombstone \/ Store \/ DeadLetter \/ Skip \/ StatementFails
  PROVE  Inv'
<1>1. /\ pc = "processing"
      /\ UNCHANGED <<log, committed, position>>
      /\ pc' \in {"polling", "committing"}
      /\ pc' = "committing" => current' = current
  BY DEF Tombstone, Store, DeadLetter, Skip, StatementFails, Fault, Continue
<1>2. current \in Partition /\ position[current] \in Nat \ {0}
  BY <1>1 DEF Inv, TypeInv
<1>3. TypeInv' /\ WithinLog'
  BY <1>1 DEF Inv, TypeInv, WithinLog
<1>4. Grows
  <2>1. /\ events \subseteq events' /\ deadLetters \subseteq deadLetters'
        /\ failed \subseteq failed'
    BY DEF Tombstone, Store, DeadLetter, Skip, StatementFails, Insert, InsertDeadLetter, tables
  <2> QED
    BY <1>1, <2>1 DEF Inv, TypeInv, Grows
<1>5. OnlyFailedRecordsAreLost'
  BY <1>1, <1>4, CommittedStay
<1>6. \A p \in Partition : \A n \in Nat : InHand(p, n) => Done(p, n)'
  <2> SUFFICES ASSUME NEW p \in Partition, NEW n \in Nat, InHand(p, n)
               PROVE  Done(p, n)'
    OBVIOUS
  <2>1. p = current /\ n + 1 = position[p] /\ n = position[p] - 1
    BY <1>2 DEF InHand
  <2>2. log'[p][n + 1] = Message /\ <<p, n>> = Coordinate
    BY <1>1, <2>1 DEF Message, Coordinate
  <2>3. CASE Tombstone
    BY <2>2, <2>3 DEF Tombstone, Done, Accounted
  <2>4. CASE Store
    BY <2>2, <2>4 DEF Store, Insert, Done, Accounted
  <2>5. CASE DeadLetter
    BY <2>2, <2>5 DEF DeadLetter, InsertDeadLetter, Done, Accounted
  <2>6. CASE Skip \/ StatementFails
    <3>1. <<p, n>> \in failed'
      BY <2>2, <2>6 DEF Skip, StatementFails
    <3> QED
      BY <3>1 DEF Done
  <2> QED
    BY <2>3, <2>4, <2>5, <2>6
<1>7. Taken'
  BY <1>1, <1>4, <1>6, TakenStays
<1> QED
  BY <1>3, <1>5, <1>7 DEF Inv

\* A commit, accepted, rejected or unanswered.
LEMMA CommitKeepsInv ==
  ASSUME Inv, Commit \/ CommitRejected \/ CommitReplyLost
  PROVE  Inv'
<1>1. /\ pc = "committing"
      /\ UNCHANGED <<log, tables, position, failed>>
      /\ committed' = committed \/ committed' = position
      /\ pc' = "polling" \/ pc' = "down"
  BY DEF Commit, CommitRejected, CommitReplyLost, AfterFailedCommit, Continue, Die, Fault, tables
<1>2. TypeInv' /\ WithinLog'
  BY <1>1 DEF Inv, TypeInv, WithinLog
<1>3. Grows
  BY <1>1 DEF Inv, TypeInv, Grows, tables
<1>4. OnlyFailedRecordsAreLost'
  BY <1>1, <1>3, CommittedStay
<1>5. Taken'
  BY <1>1, <1>3, TakenStays DEF InHand
<1> QED
  BY <1>2, <1>4, <1>5 DEF Inv

LEMMA StepKeepsInv ==
  Inv /\ [Next]_vars => Inv'
<1> SUFFICES ASSUME Inv, [Next]_vars PROVE Inv'
  OBVIOUS
<1>1. CASE UNCHANGED vars
  BY <1>1 DEF vars, tables, Inv, TypeInv, WithinLog, Taken, InHand, Done, Accounted,
              OnlyFailedRecordsAreLost
<1>2. CASE Next
  BY <1>2, ProduceKeepsInv, JoinKeepsInv, ReceiveKeepsInv, ProcessKeepsInv, RecordKeepsInv,
     CommitKeepsInv DEF Next, Consume
<1> QED
  BY <1>1, <1>2

\* However often the process is evicted or dies, its statements fail or its commits
\* are lost, the group never commits past a record that has left no row, unless the
\* processing of that very record failed (start_consumer).
THEOREM OnlyFailuresAreLost ==
  Spec => []OnlyFailedRecordsAreLost
<1>1. Inv /\ [Next]_vars => Inv'
  BY StepKeepsInv
<1>2. Inv => OnlyFailedRecordsAreLost
  BY DEF Inv
<1> QED
  BY InitHasInv, <1>1, <1>2, PTL DEF Spec
=============================================================================
