--------------------------- MODULE DurableIntake ---------------------------
(***************************************************************************)
(* Durable intake of Kafka partitions: run_consumer and its rebalance      *)
(* listener (src/updatis/kafka/consumer.py) over the intake repository     *)
(* (src/updatis/intake/repository.py) and the checkpoint tables and        *)
(* triggers of migration 0002.  Kafka itself, its retention, its group     *)
(* coordinator and the replacement of a topic are external.                *)
(*                                                                         *)
(* A record stands for its raw hash and classification: unclassifiable if  *)
(* its manifest lookup or normalization raises.  -1 stands for a           *)
(* missing offset or row.  A transaction of the repository is one action:  *)
(* it runs under the row lock of its checkpoint.  Every exception ends     *)
(* run_consumer and with it the process; Start is the supervisor.          *)
(***************************************************************************)
EXTENDS Integers, Sequences, FiniteSets

CONSTANTS
  Worker,
  Partition,
  None,
  MaxLog,        \* bound: records per partition and topic
  MaxBatch,      \* max_poll_records
  MaxFaults,     \* bound: crashes, lost replies, evictions, revocations, retention
                 \* steps and topic replacements
  MaxTopics,     \* bound: times a topic is created, 1 if it is never replaced
  Class          \* classifications of the records that are produced

ASSUME ConstantsAssumption ==
  /\ None \notin Worker
  /\ MaxLog \in Nat
  /\ MaxBatch \in Nat \ {0}
  /\ MaxFaults \in Nat
  /\ MaxTopics \in Nat \ {0}
  /\ Class \subseteq {"event", "control", "quarantine", "unclassifiable"}

VARIABLES
  \* Kafka
  log,          \* records of each partition since its topic was created
  earliest,     \* first retained offset
  committed,    \* offset of the consumer group
  members,      \* workers in the group's current generation
  owner,        \* partition assignment of the group
  topics,       \* how many times the topic was created
  faults,
  \* metadata database
  checkpoint,   \* ingest_checkpoints: [initial, next]
  ingest,       \* ingest_records: [offset, record]
  events,       \* offsets with an events row
  gaps,         \* offsets with an intake_discontinuities row
  \* each worker process
  pc,
  begin, end,   \* beginning_offsets and end_offsets, -1 where they have served
  todo,         \* partitions not prepared yet
  seen,         \* committed(partition) read for the one being prepared
  prepared,     \* listener.prepared
  durable,      \* listener.durable; -1 where the partition is not assigned
  cursor,       \* offset of the next message
  batch,        \* messages polled and not yet processed
  target,       \* partition being prepared or committed
  result        \* durable offset returned by stage and not yet committed

kafkaVars == <<log, earliest, committed, members, owner, topics, faults>>
tables == <<checkpoint, ingest, events, gaps>>
startVars == <<begin, end, todo, seen, prepared>>
loopVars == <<durable, cursor, batch, result>>
vars == <<kafkaVars, tables, pc, startVars, loopVars, target>>

Record == [class : Class, topic : 1..MaxTopics]

Nothing == [p \in Partition |-> -1]
NoRow == [initial |-> -1, next |-> -1]

Init ==
  /\ log = [p \in Partition |-> <<>>]
  /\ earliest = [p \in Partition |-> 0]
  /\ committed = Nothing
  /\ members = {}
  /\ owner = [p \in Partition |-> None]
  /\ topics = [p \in Partition |-> 1]
  /\ faults = 0
  /\ checkpoint = [p \in Partition |-> NoRow]
  /\ ingest = [p \in Partition |-> {}]
  /\ events = [p \in Partition |-> {}]
  /\ gaps = [p \in Partition |-> {}]
  /\ pc = [w \in Worker |-> "down"]
  /\ begin = [w \in Worker |-> Nothing]
  /\ end = [w \in Worker |-> Nothing]
  /\ todo = [w \in Worker |-> {}]
  /\ seen = [w \in Worker |-> -1]
  /\ prepared = [w \in Worker |-> Nothing]
  /\ durable = [w \in Worker |-> Nothing]
  /\ cursor = [w \in Worker |-> Nothing]
  /\ batch = [w \in Worker |-> [p \in Partition |-> <<>>]]
  /\ target = [w \in Worker |-> None]
  /\ result = [w \in Worker |-> -1]

-----------------------------------------------------------------------------
(* Kafka and the faults.                                                   *)

Produce(p, class) ==
  /\ Len(log[p]) < MaxLog
  /\ log' = [log EXCEPT ![p] = Append(@, [class |-> class, topic |-> topics[p]])]
  /\ UNCHANGED <<earliest, committed, members, owner, topics, faults,
                 tables, pc, startVars, loopVars, target>>

\* Retention drops the oldest record, staged or not.
Expire(p) ==
  /\ faults < MaxFaults
  /\ earliest[p] < Len(log[p])
  /\ earliest' = [earliest EXCEPT ![p] = @ + 1]
  /\ faults' = faults + 1
  /\ UNCHANGED <<log, committed, members, owner, topics,
                 tables, pc, startVars, loopVars, target>>

\* The topic is deleted and created again under the same name.
Replace(p) ==
  /\ faults < MaxFaults
  /\ topics[p] < MaxTopics
  /\ faults' = faults + 1
  /\ topics' = [topics EXCEPT ![p] = @ + 1]
  /\ log' = [log EXCEPT ![p] = <<>>]
  /\ earliest' = [earliest EXCEPT ![p] = 0]
  /\ UNCHANGED <<committed, members, owner, tables, pc, startVars, loopVars, target>>

\* The coordinator hands a free partition to a member.
Assign(w, p) ==
  /\ w \in members
  /\ owner[p] = None
  /\ owner' = [owner EXCEPT ![p] = w]
  /\ UNCHANGED <<log, earliest, committed, members, topics, faults,
                 tables, pc, startVars, loopVars, target>>

Left(w) == [p \in Partition |-> IF owner[p] = w THEN None ELSE owner[p]]

\* A session or poll timeout: the worker does not notice before it polls or
\* commits.
Evict(w) ==
  /\ faults < MaxFaults
  /\ w \in members
  /\ members' = members \ {w}
  /\ owner' = Left(w)
  /\ faults' = faults + 1
  /\ UNCHANGED <<log, earliest, committed, topics,
                 tables, pc, startVars, loopVars, target>>

\* The process ends, by an exception or by a crash, and leaves the group.
Exit(w) ==
  /\ members' = members \ {w}
  /\ owner' = Left(w)
  /\ pc' = [pc EXCEPT ![w] = "down"]
  /\ begin' = [begin EXCEPT ![w] = Nothing]
  /\ end' = [end EXCEPT ![w] = Nothing]
  /\ todo' = [todo EXCEPT ![w] = {}]
  /\ seen' = [seen EXCEPT ![w] = -1]
  /\ prepared' = [prepared EXCEPT ![w] = Nothing]
  /\ durable' = [durable EXCEPT ![w] = Nothing]
  /\ cursor' = [cursor EXCEPT ![w] = Nothing]
  /\ batch' = [batch EXCEPT ![w] = [p \in Partition |-> <<>>]]
  /\ target' = [target EXCEPT ![w] = None]
  /\ result' = [result EXCEPT ![w] = -1]

\* A crash, a stop signal, an unreachable database or broker: whatever was not
\* committed is lost.
Crash(w) ==
  /\ faults < MaxFaults
  /\ pc[w] # "down"
  /\ faults' = faults + 1
  /\ Exit(w)
  /\ UNCHANGED <<log, earliest, committed, topics, tables>>

-----------------------------------------------------------------------------
(* Startup: offsets of all partitions first, then one checkpoint at a time.*)

Start(w) ==
  /\ pc[w] = "down"
  /\ pc' = [pc EXCEPT ![w] = "starting"]
  /\ begin' = [begin EXCEPT ![w] = earliest]
  /\ end' = [end EXCEPT ![w] = [p \in Partition |-> Len(log[p])]]
  /\ todo' = [todo EXCEPT ![w] = Partition]
  /\ UNCHANGED <<kafkaVars, tables, seen, prepared, loopVars, target>>

\* consumer.committed(partition), before the transaction begins.
ReadCommitted(w, p) ==
  /\ pc[w] = "starting"
  /\ p \in todo[w]
  /\ pc' = [pc EXCEPT ![w] = "initializing"]
  /\ seen' = [seen EXCEPT ![w] = committed[p]]
  /\ target' = [target EXCEPT ![w] = p]
  /\ UNCHANGED <<kafkaVars, tables, begin, end, todo, prepared, loopVars>>

\* The row initialize_checkpoint works on: the stored one or the one it inserts.
Found(w, p) ==
  IF checkpoint[p] = NoRow
    THEN [initial |-> begin[w][p], next |-> begin[w][p]]
    ELSE checkpoint[p]

Accepts(w, p) ==
  /\ checkpoint[p] = NoRow => seen[w] = -1
  /\ begin[w][p] <= Found(w, p).next
  /\ Found(w, p).next <= end[w][p]
  /\ seen[w] <= Found(w, p).next

\* Mutant: the consumer is positioned behind the next record.
PositionPastNext(row) == row.next + 1

\* Where the consumer of a partition starts.
Position(row) == row.next

Initialize(w, p) ==
  /\ pc[w] = "initializing"
  /\ target[w] = p
  /\ Accepts(w, p)
  /\ checkpoint' = [checkpoint EXCEPT ![p] = Found(w, p)]
  /\ prepared' = [prepared EXCEPT ![w][p] = Position(Found(w, p))]
  /\ todo' = [todo EXCEPT ![w] = @ \ {p}]
  /\ pc' = [pc EXCEPT ![w] = IF todo[w] = {p} THEN "running" ELSE "starting"]
  /\ seen' = [seen EXCEPT ![w] = -1]
  /\ target' = [target EXCEPT ![w] = None]
  /\ begin' = [begin EXCEPT ![w][p] = -1]
  /\ end' = [end EXCEPT ![w][p] = -1]
  /\ UNCHANGED <<kafkaVars, ingest, events, gaps, loopVars>>

\* A CheckpointError ends the process before it subscribes.
RejectCheckpoint(w, p) ==
  /\ pc[w] = "initializing"
  /\ target[w] = p
  /\ ~Accepts(w, p)
  /\ Exit(w)
  /\ UNCHANGED <<log, earliest, committed, topics, faults, tables>>

-----------------------------------------------------------------------------
(* The poll loop.                                                          *)

Drained(w) == \A p \in Partition : batch[w][p] = <<>>

Polling(w) == pc[w] = "running" /\ Drained(w)

\* poll joins the group anew; what a previous generation assigned is revoked.
Join(w) ==
  /\ Polling(w)
  /\ w \notin members
  /\ members' = members \cup {w}
  /\ durable' = [durable EXCEPT ![w] = Nothing]
  /\ cursor' = [cursor EXCEPT ![w] = Nothing]
  /\ UNCHANGED <<log, earliest, committed, owner, topics, faults,
                 tables, pc, startVars, batch, result, target>>

\* A rebalance during poll: on_partitions_revoked commits nothing.
Revoke(w, p) ==
  /\ Polling(w)
  /\ owner[p] = w
  /\ faults < MaxFaults
  /\ faults' = faults + 1
  /\ owner' = [owner EXCEPT ![p] = None]
  /\ durable' = [durable EXCEPT ![w][p] = -1]
  /\ cursor' = [cursor EXCEPT ![w][p] = -1]
  /\ UNCHANGED <<log, earliest, committed, members, topics,
                 tables, pc, startVars, batch, result, target>>

\* on_partitions_assigned seeks to the offset prepared at startup.
OnAssigned(w, p) ==
  /\ Polling(w)
  /\ owner[p] = w
  /\ durable[w][p] = -1
  /\ cursor' = [cursor EXCEPT ![w][p] = prepared[w][p]]
  /\ durable' = [durable EXCEPT ![w][p] = prepared[w][p]]
  /\ UNCHANGED <<kafkaVars, tables, pc, startVars, batch, result, target>>

Assigned(w, p) == durable[w][p] # -1

\* poll returns retained records of some assigned partitions.
Poll(w) ==
  /\ Polling(w)
  /\ \E upto \in [Partition -> 0..MaxLog] :
       /\ \E p \in Partition : Assigned(w, p) /\ upto[p] > cursor[w][p]
       /\ \A p \in Partition :
            Assigned(w, p) /\ upto[p] > cursor[w][p] =>
              /\ earliest[p] <= cursor[w][p]
              /\ upto[p] <= Len(log[p])
              /\ upto[p] - cursor[w][p] <= MaxBatch
       /\ \A p \in Partition :
            ~(Assigned(w, p) /\ upto[p] > cursor[w][p]) => upto[p] = 0
       /\ batch' = [batch EXCEPT ![w] =
            [p \in Partition |-> IF upto[p] = 0 THEN <<>>
                                 ELSE SubSeq(log[p], cursor[w][p] + 1, upto[p])]]
  /\ UNCHANGED <<kafkaVars, tables, pc, startVars, durable, cursor, result, target>>

\* With auto_offset_reset="none" a position outside the retained log raises.
OutOfRange(w, p) ==
  /\ Polling(w)
  /\ Assigned(w, p)
  /\ cursor[w][p] < earliest[p] \/ cursor[w][p] > Len(log[p])
  /\ Exit(w)
  /\ UNCHANGED <<log, earliest, committed, topics, faults, tables>>

\* Mutant: a duplicate is known by its offset alone.
MatchesOffset(p, offset, record) == \E row \in ingest[p] : row.offset = offset

\* The durable row of a duplicate has its raw hash and classification.
Matches(p, offset, record) == [offset |-> offset, record |-> record] \in ingest[p]

\* stage returned: the message is consumed and its durable offset awaits commit.
Returns(w, p, offset) ==
  /\ result' = [result EXCEPT ![w] = offset]
  /\ target' = [target EXCEPT ![w] = p]
  /\ pc' = [pc EXCEPT ![w] = "committing"]
  /\ batch' = [batch EXCEPT ![w][p] = Tail(@)]
  /\ cursor' = [cursor EXCEPT ![w][p] = @ + 1]
  /\ UNCHANGED <<kafkaVars, startVars, durable>>

\* Mutant: a quarantined record is not counted.
AdvanceUnlessQuarantined(p, offset, record) ==
  checkpoint' = IF record.class = "quarantine" THEN checkpoint
                  ELSE [checkpoint EXCEPT ![p].next = offset + 1]

AdvanceCheckpoint(p, offset, record) ==
  checkpoint' = [checkpoint EXCEPT ![p].next = offset + 1]

\* Mutant: whatever is polled is staged at the next offset.
NextFreeOffset(w, p) == checkpoint[p].next

MessageOffset(w, p) == cursor[w][p]

\* N = M: the ingest record, its event or discontinuity and the checkpoint
\* commit together.
StageNew(w, p) ==
  LET record == Head(batch[w][p])
      offset == MessageOffset(w, p)
  IN
  /\ pc[w] = "running"
  /\ batch[w][p] # <<>>
  /\ record.class # "unclassifiable"
  /\ checkpoint[p] # NoRow
  /\ offset = checkpoint[p].next
  /\ ingest' = [ingest EXCEPT ![p] = @ \cup {[offset |-> offset, record |-> record]}]
  /\ events' = IF record.class = "event"
                 THEN [events EXCEPT ![p] = @ \cup {offset}] ELSE events
  /\ gaps' = IF record.class = "quarantine"
               THEN [gaps EXCEPT ![p] = @ \cup {offset}] ELSE gaps
  /\ AdvanceCheckpoint(p, offset, record)
  /\ Returns(w, p, offset + 1)

\* Mutant: a duplicate returns its own successor instead of the checkpoint.
SuccessorOfDuplicate(w, p) == cursor[w][p] + 1

DurableAfterDuplicate(w, p) == checkpoint[p].next

\* N < M: a verified duplicate returns M and writes nothing.
StageDuplicate(w, p) ==
  /\ pc[w] = "running"
  /\ batch[w][p] # <<>>
  /\ Head(batch[w][p]).class # "unclassifiable"
  /\ cursor[w][p] < checkpoint[p].next
  /\ Matches(p, cursor[w][p], Head(batch[w][p]))
  /\ Returns(w, p, DurableAfterDuplicate(w, p))
  /\ UNCHANGED tables

\* load_manifest or the normalization raises: the record is never staged.
ClassificationFails(w, p) ==
  /\ pc[w] = "running"
  /\ batch[w][p] # <<>>
  /\ Head(batch[w][p]).class = "unclassifiable"
  /\ Exit(w)
  /\ UNCHANGED <<log, earliest, committed, topics, faults, tables>>

\* No checkpoint, N > M, or a duplicate that is not the durable record.
StageRejected(w, p) ==
  /\ pc[w] = "running"
  /\ batch[w][p] # <<>>
  /\ Head(batch[w][p]).class # "unclassifiable"
  /\ \/ cursor[w][p] > checkpoint[p].next
     \/ /\ cursor[w][p] < checkpoint[p].next
        /\ ~Matches(p, cursor[w][p], Head(batch[w][p]))
  /\ Exit(w)
  /\ UNCHANGED <<log, earliest, committed, topics, faults, tables>>

\* Mutant: the offset committed is one past the durable one.
OffsetAfterDurable(w) == result[w] + 1

OffsetToCommit(w) == result[w]

\* The coordinator accepts the offset from a member of its generation.
CommitOffset(w) ==
  LET p == target[w] IN
  /\ pc[w] = "committing"
  /\ durable[w][p] <= result[w]
  /\ w \in members
  /\ committed' = [committed EXCEPT ![p] = OffsetToCommit(w)]
  /\ durable' = [durable EXCEPT ![w][p] = result[w]]
  /\ pc' = [pc EXCEPT ![w] = "running"]
  /\ result' = [result EXCEPT ![w] = -1]
  /\ target' = [target EXCEPT ![w] = None]
  /\ UNCHANGED <<log, earliest, members, owner, topics, faults,
                 tables, startVars, cursor, batch>>

\* CommitFailedError after an eviction, or "durable checkpoint moved backward".
CommitRejected(w) ==
  /\ pc[w] = "committing"
  /\ durable[w][target[w]] > result[w] \/ w \notin members
  /\ Exit(w)
  /\ UNCHANGED <<log, earliest, committed, topics, faults, tables>>

\* The coordinator stores the offset but the reply is lost.
CommitReplyLost(w) ==
  LET p == target[w] IN
  /\ pc[w] = "committing"
  /\ faults < MaxFaults
  /\ durable[w][p] <= result[w]
  /\ w \in members
  /\ committed' = [committed EXCEPT ![p] = OffsetToCommit(w)]
  /\ faults' = faults + 1
  /\ Exit(w)
  /\ UNCHANGED <<log, earliest, topics, tables>>

-----------------------------------------------------------------------------
Run(w) ==
  \/ Start(w)
  \/ Join(w)
  \/ Poll(w)
  \/ CommitOffset(w)
  \/ CommitRejected(w)
  \/ \E p \in Partition :
       \/ ReadCommitted(w, p)
       \/ Initialize(w, p)
       \/ RejectCheckpoint(w, p)
       \/ OnAssigned(w, p)
       \/ OutOfRange(w, p)
       \/ ClassificationFails(w, p)
       \/ StageNew(w, p)
       \/ StageDuplicate(w, p)
       \/ StageRejected(w, p)

Fault ==
  \/ \E w \in Worker : Evict(w) \/ Crash(w) \/ CommitReplyLost(w)
  \/ \E w \in Worker, p \in Partition : Revoke(w, p)
  \/ \E p \in Partition : Expire(p) \/ Replace(p)

Next ==
  \/ \E p \in Partition, class \in Class : Produce(p, class)
  \/ \E w \in Worker, p \in Partition : Assign(w, p)
  \/ \E w \in Worker : Run(w)
  \/ Fault

Spec == Init /\ [][Next]_vars

\* Workers are scheduled and restarted, and the coordinator hands out free
\* partitions; nothing is assumed of producers and faults.
FairSpec ==
  /\ Spec
  /\ \A w \in Worker : WF_vars(Run(w))
  /\ \A p \in Partition : WF_vars(\E w \in Worker : Assign(w, p))

-----------------------------------------------------------------------------
(* Properties.                                                             *)

Offset == -1..MaxLog

\* Every variable keeps its type.
TypeOK ==
  /\ log \in [Partition -> Seq(Record)]
  /\ earliest \in [Partition -> Nat]
  /\ committed \in [Partition -> Offset]
  /\ members \subseteq Worker
  /\ owner \in [Partition -> Worker \cup {None}]
  /\ topics \in [Partition -> 1..MaxTopics]
  /\ faults \in 0..MaxFaults
  /\ checkpoint \in [Partition -> [initial : Offset, next : Offset]]
  /\ ingest \in [Partition -> SUBSET [offset : Nat, record : Record]]
  /\ events \in [Partition -> SUBSET Nat]
  /\ gaps \in [Partition -> SUBSET Nat]
  /\ pc \in [Worker -> {"down", "starting", "initializing", "running", "committing"}]
  /\ begin \in [Worker -> [Partition -> Offset]]
  /\ end \in [Worker -> [Partition -> Offset]]
  /\ todo \in [Worker -> SUBSET Partition]
  /\ seen \in [Worker -> Offset]
  /\ prepared \in [Worker -> [Partition -> Offset]]
  /\ durable \in [Worker -> [Partition -> Offset]]
  /\ cursor \in [Worker -> [Partition -> Offset]]
  /\ batch \in [Worker -> [Partition -> Seq(Record)]]
  /\ target \in [Worker -> Partition \cup {None}]
  /\ result \in [Worker -> Offset]

\* Kafka is never told of an offset metadata has not made durable, whoever
\* stages and commits and wherever it crashes (stage before consumer.commit).
KafkaNeverAhead ==
  \A p \in Partition :
    /\ committed[p] <= checkpoint[p].next
    /\ committed[p] # -1 => checkpoint[p].initial < committed[p]

\* The checkpoint counts exactly the durable records: one row per offset from
\* the initial one, with an event for every event and a discontinuity for every
\* quarantined record and for nothing else (the stage transaction).
IntakeIsContiguous ==
  \A p \in Partition :
    /\ {row.offset : row \in ingest[p]} =
         {n \in 0..MaxLog : checkpoint[p].initial <= n /\ n < checkpoint[p].next}
    /\ \A r, s \in ingest[p] : r.offset = s.offset => r = s
    /\ events[p] = {r.offset : r \in {x \in ingest[p] : x.record.class = "event"}}
    /\ gaps[p] = {r.offset : r \in {x \in ingest[p] : x.record.class = "quarantine"}}

\* What is durable at an offset is what its topic held there.
IntakeIsTheLog ==
  \A p \in Partition : \A row \in ingest[p] :
    row.record.topic = topics[p] =>
      row.offset < Len(log[p]) /\ row.record = log[p][row.offset + 1]

\* No rebalance, eviction or restart leads a worker to present a record stage
\* must refuse while its topic lives: what it holds is the next record or a
\* verifiable duplicate.
StageNeverRejects ==
  \A w \in Worker, p \in Partition :
    topics[p] = 1 /\ batch[w][p] # <<>> =>
      /\ cursor[w][p] <= checkpoint[p].next
      /\ cursor[w][p] < checkpoint[p].next => Matches(p, cursor[w][p], Head(batch[w][p]))

Log == INSTANCE IntakeLog WITH
  stream <- ingest,
  next <- [p \in Partition |-> checkpoint[p].next],
  acknowledged <- committed

\* Workers, crashes and rebalances together append to one durable stream.
IntakeImplementsLog == Log!Spec

\* A message a worker leaves behind is durable exactly as it was polled, also
\* when the topic it came from was replaced under the checkpoint.
ConsumedIsDurable ==
  [][\A w \in Worker, p \in Partition :
       batch[w][p] # <<>> /\ batch'[w][p] = Tail(batch[w][p]) /\ pc'[w] # "down" =>
         [offset |-> cursor[w][p], record |-> Head(batch[w][p])] \in ingest'[p]]_vars

Staged(p, n) == checkpoint[p].initial > n \/ checkpoint[p].next > n

\* A record retention dropped before it was staged, or an epoch that started on
\* an offset retention had passed meanwhile.
Lost(p) == checkpoint[p] # NoRow /\ checkpoint[p].next < earliest[p]

\* A topic that holds a record the worker cannot classify.
Poisoned(p) == \E i \in DOMAIN log[p] : log[p][i].class = "unclassifiable"

\* Every record of the topic becomes durable, through crashes, evictions and
\* rebalances, unless retention took one first, the topic was replaced, or one
\* of the partitions is poisoned.
EventuallyStaged ==
  \A p \in Partition, n \in 0..MaxLog - 1 :
    (Len(log[p]) > n) ~>
      (Staged(p, n) \/ \E q \in Partition : Lost(q) \/ topics[q] > 1 \/ Poisoned(q))

-----------------------------------------------------------------------------
(* What the documents say and the code does not do.                        *)

\* "blocks N and every later offset in that partition while other partitions
\* remain independent": a record stays behind only if its own partition has one
\* that cannot be staged.
PartitionsAreIndependent ==
  \A p \in Partition, n \in 0..MaxLog - 1 :
    (Len(log[p]) > n) ~>
      Staged(p, n) \/ Poisoned(p)

=============================================================================
