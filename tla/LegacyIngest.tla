---------------------------- MODULE LegacyIngest ---------------------------
(***************************************************************************)
(* The legacy Kafka consumer (src/app/workers/kafka_consumer.py): one      *)
(* process that turns records into rows of notification_events or          *)
(* notification_dead_letters and commits the positions of all its          *)
(* partitions after each of them.  Both tables are written by single       *)
(* INSERT IGNORE statements with autocommit.  Kafka, MySQL and the restart *)
(* of the process are external.                                            *)
(*                                                                         *)
(* A record stands for what build_notification_message makes of it (class) *)
(* and for what its event id is computed from (change), its source         *)
(* position and time: Debezium may send one change twice.                  *)
(***************************************************************************)
EXTENDS Integers, Sequences, FiniteSetsExt

CONSTANTS
  Partition,
  Change,
  None,
  MaxRecords,   \* bound: records of all partitions
  MaxFaults     \* bound: crashes, evictions, failed statements and commits

\* malformed: a NotificationEventParseError; unreadable: no JSON text, or another
\* exception, such as pydantic's ValidationError.
Record ==
  [class : {"event"}, change : Change]
    \cup [class : {"malformed", "unreadable", "tombstone"}, change : {None}]

ASSUME ConstantsAssumption ==
  /\ None \notin Partition \cup Change
  /\ MaxRecords \in Nat
  /\ MaxFaults \in Nat

VARIABLES
  log,          \* records of each partition
  committed,    \* offsets of the group notification_event_ingestor
  member,       \* the consumer belongs to the group's current generation
  events,       \* changes with a row in notification_events
  deadLetters,  \* coordinates with a row in notification_dead_letters
  pc,
  position,     \* offset of the next message of each partition
  current,      \* partition of the message in hand
  faults,
  failed        \* history: coordinates whose own processing failed

tables == <<events, deadLetters>>
vars == <<log, committed, member, tables, pc, position, current, faults, failed>>

Init ==
  /\ log = [p \in Partition |-> <<>>]
  /\ committed = [p \in Partition |-> 0]
  /\ member = FALSE
  /\ events = {}
  /\ deadLetters = {}
  /\ pc = "down"
  /\ position = [p \in Partition |-> 0]
  /\ current = None
  /\ faults = 0
  /\ failed = {}

-----------------------------------------------------------------------------
(* The environment.                                                        *)

\* Records of all partitions.
Produced == MapThenSumSet(LAMBDA q : Len(log[q]), Partition)

Produce(p, record) ==
  /\ Produced < MaxRecords
  /\ log' = [log EXCEPT ![p] = Append(@, record)]
  /\ UNCHANGED <<committed, member, tables, pc, position, current, faults, failed>>

Fault == faults < MaxFaults /\ faults' = faults + 1

\* A session or poll timeout, noticed at the next poll or commit.
Evict ==
  /\ Fault
  /\ member
  /\ member' = FALSE
  /\ UNCHANGED <<log, committed, tables, pc, position, current, failed>>

Die ==
  /\ pc' = "down"
  /\ member' = FALSE
  /\ current' = None

Crash ==
  /\ Fault
  /\ pc # "down"
  /\ Die
  /\ UNCHANGED <<log, committed, tables, position, failed>>

-----------------------------------------------------------------------------
(* The process.                                                            *)

\* The consumer is built, and connected to MySQL however long that takes.
Start ==
  /\ pc = "down"
  /\ pc' = "joining"
  /\ UNCHANGED <<log, committed, member, tables, position, current, faults, failed>>

\* Mutant: the consumer trusts the positions it has.
KeptPositions == position

\* Where a member starts: no offset is stored by anybody else.
ResumePositions == committed

\* The iterator joins the group and goes on at the committed offsets.
Join ==
  /\ pc \in {"joining", "polling"}
  /\ ~member
  /\ member' = TRUE
  /\ position' = ResumePositions
  /\ pc' = "polling"
  /\ UNCHANGED <<log, committed, tables, current, faults, failed>>

\* The iterator also hands out what it had fetched when the group left it behind.
Receive(p) ==
  /\ pc = "polling"
  /\ position[p] < Len(log[p])
  /\ current' = p
  /\ position' = [position EXCEPT ![p] = @ + 1]
  /\ pc' = "processing"
  /\ UNCHANGED <<log, committed, member, tables, faults, failed>>

\* The message in hand and its coordinate.
Message == log[current][position[current]]
Coordinate == <<current, position[current] - 1>>

\* A record that is done with, stored or not, is followed by the next one.
Continue == pc' = "polling" /\ current' = None

Tombstone ==
  /\ pc = "processing"
  /\ Message.class = "tombstone"
  /\ pc' = "committing"
  /\ UNCHANGED <<log, committed, member, tables, position, current, faults, failed>>

\* INSERT IGNORE: a change that is stored already stays as it is.
Insert == events' = events \cup {Message.change}

Store ==
  /\ pc = "processing"
  /\ Message.class = "event"
  /\ Insert
  /\ pc' = "committing"
  /\ UNCHANGED <<log, committed, member, deadLetters, position, current, faults, failed>>

InsertDeadLetter == deadLetters' = deadLetters \cup {Coordinate}

DeadLetter ==
  /\ pc = "processing"
  /\ Message.class = "malformed"
  /\ InsertDeadLetter
  /\ pc' = "committing"
  /\ UNCHANGED <<log, committed, member, events, position, current, faults, failed>>

\* The statement or its reply is lost: the process reconnects, however long that
\* takes, and continues with the next record, its position past this one.
StatementFails ==
  /\ Fault
  /\ pc = "processing"
  /\ \/ Message.class = "event" /\ (Insert \/ UNCHANGED events) /\ UNCHANGED deadLetters
     \/ Message.class = "malformed" /\ (InsertDeadLetter \/ UNCHANGED deadLetters)
          /\ UNCHANGED events
  /\ failed' = failed \cup {Coordinate}
  /\ Continue
  /\ UNCHANGED <<log, committed, member, position>>

\* JSONDecodeError is handled like a lost connection, any other exception by
\* waiting: neither record gets a dead letter.
Skip ==
  /\ pc = "processing"
  /\ Message.class = "unreadable"
  /\ failed' = failed \cup {Coordinate}
  /\ Continue
  /\ UNCHANGED <<log, committed, member, tables, position, faults>>

\* commit() commits the positions of all partitions.
Commit ==
  /\ pc = "committing"
  /\ member
  /\ committed' = position
  /\ Continue
  /\ UNCHANGED <<log, member, tables, position, faults, failed>>

\* A commit that fails after an event is logged and the loop goes on; after a
\* dead letter or tombstone nobody catches it and the process ends.
AfterFailedCommit ==
  IF Message.class = "event" THEN Continue /\ UNCHANGED member ELSE Die

CommitRejected ==
  /\ pc = "committing"
  /\ ~member
  /\ AfterFailedCommit
  /\ UNCHANGED <<log, committed, tables, position, faults, failed>>

CommitReplyLost ==
  /\ Fault
  /\ pc = "committing"
  /\ member
  /\ committed' \in {committed, position}
  /\ AfterFailedCommit
  /\ UNCHANGED <<log, tables, position, failed>>

-----------------------------------------------------------------------------
\* start_consumer
Consume ==
  \/ Start \/ Join
  \/ \E p \in Partition : Receive(p)
  \/ Tombstone \/ Store \/ DeadLetter \/ Skip
  \/ Commit \/ CommitRejected

Next ==
  \/ \E p \in Partition, record \in Record : Produce(p, record)
  \/ Evict \/ Crash \/ StatementFails \/ CommitReplyLost
  \/ Consume

Spec == Init /\ [][Next]_vars

\* The process runs and is started again, and MySQL and Kafka come back.
FairSpec == Spec /\ WF_vars(Consume)

-----------------------------------------------------------------------------
(* Properties.                                                             *)

\* A record that has left a row, or needs none.
Accounted(p, n) ==
  LET record == log[p][n + 1] IN
  \/ record.class = "tombstone"
  \/ record.class = "event" /\ record.change \in events
  \/ record.class = "malformed" /\ <<p, n>> \in deadLetters

\* The group never commits past a record that has left no row, in whatever
\* partition, unless processing that very record failed: no eviction, crash, lost
\* reply or commit of another partition loses any other one.
OnlyFailedRecordsAreLost ==
  \A p \in Partition : \A n \in 0..committed[p] - 1 : Accounted(p, n) \/ <<p, n>> \in failed

\* Every record is processed: it is accounted for or its own processing failed.
EveryRecordIsTaken ==
  \A p \in Partition, n \in 0..MaxRecords - 1 :
    (Len(log[p]) > n) ~> (Len(log[p]) > n /\ (Accounted(p, n) \/ <<p, n>> \in failed))
=============================================================================
