------------------------- MODULE DurableIntakeProofs -------------------------
(***************************************************************************)
(* That intake is durable, contiguous, never ahead of Kafka's log and      *)
(* never behind the group's offset, and that it implements IntakeLog: for  *)
(* every set of workers and partitions and every bound.                    *)
(*                                                                         *)
(* What the properties leave out is what a worker holds in memory between  *)
(* two transactions.  IntakeInv says of every worker that its positions,   *)
(* its polled messages and the offset it is about to commit fit the        *)
(* checkpoint and the log, whoever moved those meanwhile.                  *)
(***************************************************************************)
EXTENDS DurableIntake, SequenceTheorems, TLAPS

LogIsOfItsTopic ==
  \A p \in Partition :
    /\ Len(log[p]) <= MaxLog
    /\ earliest[p] <= Len(log[p])
    /\ \A i \in 1..Len(log[p]) : log[p][i].topic = topics[p]

\* What is durable or polled came from this topic or an earlier one.
TopicsAreOld ==
  \A p \in Partition :
    /\ \A row \in ingest[p] : row.record.topic <= topics[p]
    /\ \A w \in Worker : \A i \in 1..Len(batch[w][p]) : batch[w][p][i].topic <= topics[p]

\* An assignment a worker still believes in is the group's, unless it was evicted.
MembersOwn ==
  \A w \in Worker, p \in Partition :
    /\ owner[p] = w => w \in members
    /\ w \in members /\ Assigned(w, p) => owner[p] = w

CheckpointsBegin ==
  \A p \in Partition :
    \/ checkpoint[p] = NoRow
    \/ 0 <= checkpoint[p].initial /\ checkpoint[p].initial <= checkpoint[p].next

Between(n, p) ==
  /\ 0 <= checkpoint[p].initial
  /\ checkpoint[p].initial <= n
  /\ n <= checkpoint[p].next

\* A partition that is prepared starts inside its checkpoint.
StartsInside ==
  \A w \in Worker :
    /\ pc[w] = "initializing" => target[w] \in todo[w]
    /\ pc[w] \in {"running", "committing"} => todo[w] = {}
    /\ \A p \in Partition :
         IF p \in todo[w] THEN 0 <= begin[w][p]
                          ELSE pc[w] # "down" => Between(prepared[w][p], p)

\* The next message of an assigned partition is the next record or an old one.
PositionedInside ==
  \A w \in Worker, p \in Partition :
    IF Assigned(w, p) THEN Between(cursor[w][p], p) /\ cursor[w][p] + Len(batch[w][p]) <= MaxLog
                      ELSE batch[w][p] = <<>>

\* Polled messages are the log's, unless the topic was replaced since.
PolledIsTheLog ==
  \A w \in Worker, p \in Partition : \A i \in 1..Len(batch[w][p]) :
    batch[w][p][i].topic = topics[p] =>
      /\ cursor[w][p] + i <= Len(log[p])
      /\ log[p][cursor[w][p] + i] = batch[w][p][i]

\* The offset about to be committed is durable, and not behind the group's as
\* long as the group would take it.
CommitsForward ==
  \A w \in Worker : pc[w] = "committing" =>
    /\ target[w] \in Partition
    /\ Assigned(w, target[w])
    /\ checkpoint[target[w]].initial < result[w]
    /\ result[w] <= checkpoint[target[w]].next
    /\ w \in members => committed[target[w]] <= result[w]

IntakeInv ==
  /\ TypeOK
  /\ LogIsOfItsTopic
  /\ TopicsAreOld
  /\ MembersOwn
  /\ CheckpointsBegin
  /\ StartsInside
  /\ PositionedInside
  /\ PolledIsTheLog
  /\ CommitsForward
  /\ KafkaNeverAhead
  /\ IntakeIsContiguous
  /\ IntakeIsTheLog
-----------------------------------------------------------------------------
\* Before the first start.
LEMMA InitIntakeInv == Init => IntakeInv
<1> USE ConstantsAssumption
<1> SUFFICES ASSUME Init PROVE IntakeInv
  OBVIOUS
<1>1. TypeOK
  BY DEF Init, TypeOK, Nothing, NoRow, Offset
<1>2. LogIsOfItsTopic /\ TopicsAreOld /\ MembersOwn /\ PolledIsTheLog /\ PositionedInside
  BY DEF Init, LogIsOfItsTopic, TopicsAreOld, MembersOwn, PolledIsTheLog,
         PositionedInside, Nothing, Assigned
<1>3. CheckpointsBegin /\ StartsInside /\ CommitsForward /\ KafkaNeverAhead
  BY DEF Init, CheckpointsBegin, StartsInside, CommitsForward, KafkaNeverAhead, Nothing, NoRow
<1>4. IntakeIsContiguous /\ IntakeIsTheLog
  BY DEF Init, IntakeIsContiguous, IntakeIsTheLog, NoRow
<1> QED
  BY <1>1, <1>2, <1>3, <1>4 DEF IntakeInv

\* A conjunct of the invariant holds on as long as what it speaks of stays.
LEMMA Frames ==
  ASSUME IntakeInv
  PROVE  /\ UNCHANGED <<log, earliest, topics>> =>
              LogIsOfItsTopic'
         /\ UNCHANGED <<ingest, batch, topics>> =>
              TopicsAreOld'
         /\ UNCHANGED <<owner, members, durable>> =>
              MembersOwn'
         /\ UNCHANGED <<checkpoint>> =>
              CheckpointsBegin'
         /\ UNCHANGED <<pc, target, todo, begin, prepared, checkpoint>> =>
              StartsInside'
         /\ UNCHANGED <<durable, cursor, batch, checkpoint>> =>
              PositionedInside'
         /\ UNCHANGED <<batch, cursor, topics, log>> =>
              PolledIsTheLog'
         /\ UNCHANGED <<pc, target, durable, result, checkpoint, members, committed>> =>
              CommitsForward'
         /\ UNCHANGED <<committed, checkpoint>> =>
              KafkaNeverAhead'
         /\ UNCHANGED <<checkpoint, ingest, events, gaps>> =>
              IntakeIsContiguous'
         /\ UNCHANGED <<ingest, log, topics>> =>
              IntakeIsTheLog'
<1>1. UNCHANGED <<log, earliest, topics>> => LogIsOfItsTopic'
  BY DEF IntakeInv, LogIsOfItsTopic
<1>2. UNCHANGED <<ingest, batch, topics>> => TopicsAreOld'
  BY DEF IntakeInv, TopicsAreOld
<1>3. UNCHANGED <<owner, members, durable>> => MembersOwn'
  BY DEF IntakeInv, MembersOwn, Assigned
<1>4. UNCHANGED <<checkpoint>> => CheckpointsBegin'
  BY DEF IntakeInv, CheckpointsBegin
<1>5. UNCHANGED <<pc, target, todo, begin, prepared, checkpoint>> => StartsInside'
  BY DEF IntakeInv, StartsInside, Between
<1>6. UNCHANGED <<durable, cursor, batch, checkpoint>> => PositionedInside'
  BY DEF IntakeInv, PositionedInside, Assigned, Between
<1>7. UNCHANGED <<batch, cursor, topics, log>> => PolledIsTheLog'
  BY DEF IntakeInv, PolledIsTheLog
<1>8. UNCHANGED <<pc, target, durable, result, checkpoint, members, committed>> => CommitsForward'
  BY DEF IntakeInv, CommitsForward, Assigned
<1>9. UNCHANGED <<committed, checkpoint>> => KafkaNeverAhead'
  BY DEF IntakeInv, KafkaNeverAhead
<1>10. UNCHANGED <<checkpoint, ingest, events, gaps>> => IntakeIsContiguous'
  BY DEF IntakeInv, IntakeIsContiguous
<1>11. UNCHANGED <<ingest, log, topics>> => IntakeIsTheLog'
  BY DEF IntakeInv, IntakeIsTheLog
<1> QED
  BY <1>1, <1>2, <1>3, <1>4, <1>5, <1>6, <1>7, <1>8, <1>9, <1>10, <1>11

\* An update of a function of two arguments.
LEMMA UpdateAt ==
  ASSUME NEW A, NEW B, NEW C, NEW f \in [A -> [B -> C]],
         NEW a \in A, NEW b \in B, NEW c \in C
  PROVE  /\ [f EXCEPT ![a][b] = c] \in [A -> [B -> C]]
         /\ \A x \in A, y \in B :
              [f EXCEPT ![a][b] = c][x][y] = IF x = a /\ y = b THEN c ELSE f[x][y]
OBVIOUS

\* Polled messages are records.
LEMMA PolledRecord ==
  ASSUME TypeOK, NEW w \in Worker, NEW p \in Partition, NEW i \in 1..Len(batch[w][p])
  PROVE  /\ batch[w][p] \in Seq(Record)
         /\ batch[w][p][i] \in Record
         /\ batch[w][p][i].topic \in 1..MaxTopics
<1>1. batch[w][p] \in Seq(Record)
  BY DEF TypeOK
<1>2. batch[w][p][i] \in Record
  BY <1>1
<1> QED
  BY <1>1, <1>2 DEF Record

\* Polled messages stay the log's as long as a position moves with its messages only.
LEMMA PolledStays ==
  ASSUME IntakeInv, UNCHANGED <<batch, log, topics>>,
         \A w \in Worker, p \in Partition :
           Len(batch[w][p]) = 0 \/ cursor'[w][p] = cursor[w][p]
  PROVE  PolledIsTheLog'
<1> SUFFICES ASSUME NEW w \in Worker, NEW p \in Partition, NEW i \in 1..Len(batch[w][p]),
                    batch[w][p][i].topic = topics[p]
             PROVE  /\ cursor'[w][p] + i <= Len(log[p])
                    /\ log[p][cursor'[w][p] + i] = batch[w][p][i]
  BY DEF PolledIsTheLog
<1>1. Len(batch[w][p]) # 0
  OBVIOUS
<1>2. cursor'[w][p] = cursor[w][p]
  BY <1>1
<1> QED
  BY <1>2 DEF IntakeInv, PolledIsTheLog

\* Messages are held of assigned partitions only.
LEMMA PolledIsAssigned ==
  ASSUME IntakeInv, NEW w \in Worker, NEW p \in Partition, Len(batch[w][p]) # 0
  PROVE  /\ Assigned(w, p)
         /\ Between(cursor[w][p], p)
         /\ cursor[w][p] \in Nat
         /\ checkpoint[p].initial \in Nat
         /\ checkpoint[p].next \in Nat
<1>1. Assigned(w, p) /\ Between(cursor[w][p], p)
  BY DEF IntakeInv, PositionedInside
<1>2. /\ cursor[w][p] \in Int
      /\ checkpoint[p].initial \in Int
      /\ checkpoint[p].next \in Int
  <2>1. cursor[w] \in [Partition -> Offset]
    BY DEF IntakeInv, TypeOK
  <2>2. checkpoint[p] \in [initial : Offset, next : Offset]
    BY DEF IntakeInv, TypeOK
  <2> QED
    BY <2>1, <2>2 DEF Offset
<1> QED
  BY <1>1, <1>2 DEF Between

\* A record is produced.
LEMMA ProduceKeepsIntake ==
  ASSUME IntakeInv, NEW p \in Partition, NEW class \in Class, Produce(p, class)
  PROVE  IntakeInv'
<1> USE ConstantsAssumption
<1> DEFINE record == [class |-> class, topic |-> topics[p]]
<1>a. record \in Record /\ log[p] \in Seq(Record)
  BY DEF IntakeInv, TypeOK, Record
<1>b. /\ Append(log[p], record) \in Seq(Record)
      /\ Len(Append(log[p], record)) = Len(log[p]) + 1
      /\ Append(log[p], record)[Len(log[p]) + 1] = record
      /\ \A i \in 1..Len(log[p]) : Append(log[p], record)[i] = log[p][i]
  BY <1>a
<1>c. log' = [log EXCEPT ![p] = Append(log[p], record)]
  BY DEF Produce
<1>d. record.topic = topics[p]
  OBVIOUS
<1> HIDE DEF record
<1>d1. ASSUME NEW q \in Partition
      PROVE  Len(log[q]) <= Len(log'[q]) /\ \A i \in 1..Len(log[q]) : log'[q][i] = log[q][i]
  <2>1. Len(log[q]) \in Nat
    BY DEF IntakeInv, TypeOK
  <2>2. CASE q = p
    <3>1. log'[q] = Append(log[p], record)
      BY <1>c, <2>2 DEF IntakeInv, TypeOK
    <3> QED
      BY <1>b, <2>1, <2>2, <3>1
  <2>3. CASE q # p
    <3>1. log'[q] = log[q]
      BY <1>c, <2>3 DEF IntakeInv, TypeOK
    <3> QED
      BY <2>1, <3>1
  <2> QED
    BY <2>2, <2>3
<1>1. TypeOK'
  <2>1. log' \in [Partition -> Seq(Record)]
    BY <1>b, <1>c DEF IntakeInv, TypeOK
  <2> QED
    BY <2>1 DEF IntakeInv, TypeOK, Produce, tables, startVars, loopVars
<1>2. TopicsAreOld' /\ MembersOwn' /\ CheckpointsBegin' /\ StartsInside'
        /\ PositionedInside' /\ CommitsForward' /\ KafkaNeverAhead'
        /\ IntakeIsContiguous'
  BY Frames DEF Produce, kafkaVars, tables, startVars, loopVars
<1>3. LogIsOfItsTopic'
  <2>1. ASSUME NEW q \in Partition, q # p
        PROVE  log'[q] = log[q]
    BY <1>c, <2>1 DEF IntakeInv, TypeOK
  <2>2. log'[p] = Append(log[p], record)
    BY <1>c DEF IntakeInv, TypeOK
  <2>3. Len(log[p]) < MaxLog /\ Len(log[p]) \in Nat
    BY <1>a DEF Produce
  <2> QED
    BY <1>b, <1>d, <2>1, <2>2, <2>3
    DEF IntakeInv, TypeOK, LogIsOfItsTopic, Produce
<1>4. PolledIsTheLog'
  <2>2. UNCHANGED <<batch, cursor, topics>>
    BY DEF Produce, loopVars
  <2>3. ASSUME NEW w \in Worker, NEW q \in Partition, NEW i \in 1..Len(batch[w][q]),
               batch[w][q][i].topic = topics[q]
        PROVE  /\ cursor[w][q] + i <= Len(log'[q])
               /\ log'[q][cursor[w][q] + i] = batch[w][q][i]
    <3>1. i \in Nat \ {0} /\ cursor[w][q] \in Nat /\ Len(log[q]) \in Nat
      <4>1. Len(batch[w][q]) # 0 /\ i \in Nat \ {0}
        BY PolledRecord DEF IntakeInv
      <4>2. cursor[w][q] \in Nat
        BY <4>1, PolledIsAssigned
      <4>3. Len(log[q]) \in Nat
        BY DEF IntakeInv, TypeOK
      <4> QED
        BY <4>1, <4>2, <4>3
    <3>2. /\ cursor[w][q] + i <= Len(log[q])
          /\ log[q][cursor[w][q] + i] = batch[w][q][i]
      BY <2>3 DEF IntakeInv, PolledIsTheLog
    <3>3. Len(log'[q]) \in Nat
      BY <1>1 DEF TypeOK
    <3> DEFINE k == cursor[w][q] + i
    <3>4. k \in 1..Len(log[q])
      BY <3>1, <3>2
    <3> HIDE DEF k
    <3>5. k <= Len(log'[q]) /\ log'[q][k] = log[q][k]
      BY <1>d1, <3>1, <3>3, <3>4
    <3> QED
      BY <3>2, <3>5 DEF k
  <2> QED
    BY <2>2, <2>3 DEF PolledIsTheLog
<1>5. IntakeIsTheLog'
  <2>1. ASSUME NEW q \in Partition, NEW row \in ingest[q], row.record.topic = topics[q]
        PROVE  row.offset < Len(log'[q]) /\ row.record = log'[q][row.offset + 1]
    <3>1. row.offset \in Nat /\ Len(log[q]) \in Nat /\ Len(log'[q]) \in Nat
      BY <1>1 DEF IntakeInv, TypeOK
    <3>2. row.offset < Len(log[q]) /\ row.record = log[q][row.offset + 1]
      BY <2>1 DEF IntakeInv, IntakeIsTheLog
    <3>3. row.offset + 1 \in 1..Len(log[q])
      BY <3>1, <3>2
    <3>4. Len(log[q]) <= Len(log'[q]) /\ log'[q][row.offset + 1] = log[q][row.offset + 1]
      BY <1>d1, <3>3
    <3> QED
      BY <3>1, <3>2, <3>4
  <2> QED
    BY <2>1 DEF IntakeIsTheLog, Produce, tables
<1> QED
  BY <1>1, <1>2, <1>3, <1>4, <1>5 DEF IntakeInv

\* Retention moves the beginning of the log only.
LEMMA ExpireKeepsIntake ==
  ASSUME IntakeInv, NEW p \in Partition, Expire(p)
  PROVE  IntakeInv'
<1> USE ConstantsAssumption
<1>1. TypeOK'
  BY DEF IntakeInv, TypeOK, Expire, kafkaVars, tables, startVars, loopVars
<1>2. TopicsAreOld' /\ MembersOwn' /\ CheckpointsBegin' /\ StartsInside'
        /\ PositionedInside' /\ PolledIsTheLog' /\ CommitsForward' /\ KafkaNeverAhead'
        /\ IntakeIsContiguous' /\ IntakeIsTheLog'
  BY Frames DEF Expire, kafkaVars, tables, startVars, loopVars
<1>3. LogIsOfItsTopic'
  BY DEF IntakeInv, TypeOK, LogIsOfItsTopic, Expire, kafkaVars, tables,
      startVars, loopVars
<1> QED
  BY <1>1, <1>2, <1>3 DEF IntakeInv

\* After a replacement nothing durable or polled is of the current topic.
LEMMA ReplaceKeepsIntake ==
  ASSUME IntakeInv, NEW p \in Partition, Replace(p)
  PROVE  IntakeInv'
<1> USE ConstantsAssumption
<1>a. /\ topics[p] < topics'[p] /\ log'[p] = <<>> /\ earliest'[p] = 0
      /\ \A q \in Partition : q # p => /\ topics'[q] = topics[q]
                                       /\ log'[q] = log[q]
                                       /\ earliest'[q] = earliest[q]
  BY DEF IntakeInv, TypeOK, Replace
<1>b. UNCHANGED <<batch, ingest, cursor>>
  BY DEF Replace, loopVars, tables
<1>1. TypeOK'
  BY DEF IntakeInv, TypeOK, Replace, kafkaVars, tables, startVars, loopVars
<1>2. MembersOwn' /\ CheckpointsBegin' /\ StartsInside' /\ PositionedInside'
        /\ CommitsForward' /\ KafkaNeverAhead' /\ IntakeIsContiguous'
  BY Frames DEF Replace, kafkaVars, tables, startVars, loopVars
<1>3. LogIsOfItsTopic'
  BY <1>a DEF IntakeInv, LogIsOfItsTopic
<1>4. TopicsAreOld'
  <2>1. ASSUME NEW q \in Partition, NEW x \in 1..MaxTopics, x <= topics[q]
        PROVE  x <= topics'[q]
    <3>1. topics[q] \in 1..MaxTopics /\ topics'[q] \in 1..MaxTopics
      BY <1>1 DEF IntakeInv, TypeOK
    <3>2. topics[q] <= topics'[q]
      BY <1>a, <3>1
    <3> QED
      BY <2>1, <3>1, <3>2
  <2>2. ASSUME NEW q \in Partition, NEW row \in ingest[q]
        PROVE  row.record.topic \in 1..MaxTopics
    BY DEF IntakeInv, TypeOK, Record
  <2>3. ASSUME NEW q \in Partition, NEW w \in Worker, NEW i \in 1..Len(batch[w][q])
        PROVE  batch[w][q][i].topic \in 1..MaxTopics
    BY PolledRecord DEF IntakeInv
  <2> QED
    BY <1>b, <2>1, <2>2, <2>3 DEF IntakeInv, TopicsAreOld
<1>5. PolledIsTheLog'
  <2>1. ASSUME NEW w \in Worker, NEW i \in 1..Len(batch[w][p])
        PROVE  batch[w][p][i].topic # topics'[p]
    <3>1. /\ batch[w][p][i].topic \in 1..MaxTopics
          /\ topics[p] \in 1..MaxTopics /\ topics'[p] \in 1..MaxTopics
      BY <1>1, PolledRecord DEF IntakeInv, TypeOK
    <3>2. batch[w][p][i].topic <= topics[p]
      BY DEF IntakeInv, TopicsAreOld
    <3> QED
      BY <1>a, <3>1, <3>2
  <2> QED
    BY <1>a, <1>b, <2>1 DEF IntakeInv, PolledIsTheLog
<1>6. IntakeIsTheLog'
  <2>1. ASSUME NEW row \in ingest[p]
        PROVE  row.record.topic # topics'[p]
    <3>1. /\ row.record.topic \in 1..MaxTopics
          /\ topics[p] \in 1..MaxTopics /\ topics'[p] \in 1..MaxTopics
      BY <1>1 DEF IntakeInv, TypeOK, Record
    <3>2. row.record.topic <= topics[p]
      BY DEF IntakeInv, TopicsAreOld
    <3> QED
      BY <1>a, <3>1, <3>2
  <2> QED
    BY <1>a, <1>b, <2>1 DEF IntakeInv, IntakeIsTheLog
<1> QED
  BY <1>1, <1>2, <1>3, <1>4, <1>5, <1>6 DEF IntakeInv

\* A free partition is handed out.
LEMMA AssignKeepsIntake ==
  ASSUME IntakeInv, NEW w \in Worker, NEW p \in Partition, Assign(w, p)
  PROVE  IntakeInv'
<1> USE ConstantsAssumption
<1>1. TypeOK'
  BY DEF IntakeInv, TypeOK, Assign, kafkaVars, tables, startVars, loopVars
<1>2. LogIsOfItsTopic' /\ TopicsAreOld' /\ CheckpointsBegin' /\ StartsInside'
        /\ PositionedInside' /\ PolledIsTheLog' /\ CommitsForward' /\ KafkaNeverAhead'
        /\ IntakeIsContiguous' /\ IntakeIsTheLog'
  BY Frames DEF Assign, kafkaVars, tables, startVars, loopVars
<1>3. MembersOwn'
  BY DEF IntakeInv, TypeOK, MembersOwn, Assigned, Assign, kafkaVars, tables,
      startVars, loopVars
<1> QED
  BY <1>1, <1>2, <1>3 DEF IntakeInv

\* An evicted worker keeps its positions, and the group no longer listens to it.
LEMMA EvictKeepsIntake ==
  ASSUME IntakeInv, NEW w \in Worker, Evict(w)
  PROVE  IntakeInv'
<1> USE ConstantsAssumption
<1>1. TypeOK'
  BY DEF IntakeInv, TypeOK, Evict, Left, kafkaVars, tables, startVars, loopVars
<1>2. LogIsOfItsTopic' /\ TopicsAreOld' /\ CheckpointsBegin' /\ StartsInside'
        /\ PositionedInside' /\ PolledIsTheLog' /\ KafkaNeverAhead'
        /\ IntakeIsContiguous' /\ IntakeIsTheLog'
  BY Frames DEF Evict, kafkaVars, tables, startVars, loopVars
<1>3. MembersOwn'
  BY DEF IntakeInv, TypeOK, MembersOwn, Assigned, Evict, Left, kafkaVars,
      tables, startVars, loopVars
<1>4. CommitsForward'
  BY DEF IntakeInv, TypeOK, CommitsForward, Assigned, Evict, Left, kafkaVars,
      tables, startVars, loopVars
<1> QED
  BY <1>1, <1>2, <1>3, <1>4 DEF IntakeInv

\* Nothing is left in hand when a worker joins anew.
LEMMA JoinKeepsIntake ==
  ASSUME IntakeInv, NEW w \in Worker, Join(w)
  PROVE  IntakeInv'
<1> USE ConstantsAssumption
<1>1. TypeOK'
  BY DEF IntakeInv, TypeOK, Join, Polling, Drained, Nothing, Offset, kafkaVars,
      tables, startVars, loopVars
<1>2. LogIsOfItsTopic' /\ TopicsAreOld' /\ CheckpointsBegin' /\ StartsInside'
        /\ KafkaNeverAhead' /\ IntakeIsContiguous' /\ IntakeIsTheLog'
  BY Frames DEF Join, kafkaVars, tables, startVars, loopVars
<1>3. MembersOwn'
  BY DEF IntakeInv, TypeOK, MembersOwn, Assigned, Join, Polling, Drained,
      Nothing, Offset, kafkaVars, tables, startVars, loopVars
<1>4. PositionedInside'
  <2>1. ASSUME NEW v \in Worker, NEW q \in Partition
        PROVE  /\ v = w => durable'[v][q] = -1 /\ batch[v][q] = <<>>
               /\ v # w => durable'[v][q] = durable[v][q] /\ cursor'[v][q] = cursor[v][q]
    BY DEF IntakeInv, TypeOK, Join, Polling, Drained, Nothing
  <2>2. UNCHANGED <<batch, checkpoint>>
    BY DEF Join, tables
  <2> QED
    BY <2>1, <2>2 DEF IntakeInv, PositionedInside, Assigned, Between
<1>5. PolledIsTheLog'
  <2>1. ASSUME NEW v \in Worker, NEW q \in Partition, v = w \/ cursor'[v][q] = cursor[v][q]
        PROVE  Len(batch[v][q]) = 0 \/ cursor'[v][q] = cursor[v][q]
    BY <2>1 DEF Join, Polling, Drained
  <2>2. \A v \in Worker : v # w => cursor'[v] = cursor[v]
    BY DEF IntakeInv, TypeOK, Join
  <2>3. UNCHANGED <<batch, log, topics>>
    BY DEF Join
  <2> QED
    BY <2>1, <2>2, <2>3, PolledStays
<1>6. CommitsForward'
  BY DEF IntakeInv, TypeOK, CommitsForward, Assigned, Join, Polling, Drained,
      Nothing, Offset, kafkaVars, tables, startVars, loopVars
<1> QED
  BY <1>1, <1>2, <1>3, <1>4, <1>5, <1>6 DEF IntakeInv

\* A revoked partition has no position.
LEMMA RevokeKeepsIntake ==
  ASSUME IntakeInv, NEW w \in Worker, NEW p \in Partition, Revoke(w, p)
  PROVE  IntakeInv'
<1> USE ConstantsAssumption
<1>z. -1 \in Offset
  BY DEF Offset
<1>b. /\ durable' \in [Worker -> [Partition -> Offset]]
      /\ \A x \in Worker, y \in Partition :
           durable'[x][y] = IF x = w /\ y = p THEN -1 ELSE durable[x][y]
  <2>1. durable' = [durable EXCEPT ![w][p] = -1]
    BY DEF Revoke
  <2>2. durable \in [Worker -> [Partition -> Offset]]
    BY DEF IntakeInv, TypeOK
  <2> QED
    BY <1>z, <2>1, <2>2, UpdateAt
<1>c. /\ cursor' \in [Worker -> [Partition -> Offset]]
      /\ \A x \in Worker, y \in Partition :
           cursor'[x][y] = IF x = w /\ y = p THEN -1 ELSE cursor[x][y]
  <2>1. cursor' = [cursor EXCEPT ![w][p] = -1]
    BY DEF Revoke
  <2>2. cursor \in [Worker -> [Partition -> Offset]]
    BY DEF IntakeInv, TypeOK
  <2> QED
    BY <1>z, <2>1, <2>2, UpdateAt
<1>d. Len(batch[w][p]) = 0 /\ UNCHANGED <<batch, checkpoint, log, topics>>
  BY DEF Revoke, Polling, Drained, kafkaVars, tables
<1>1. TypeOK'
  BY <1>b, <1>c DEF IntakeInv, TypeOK, Revoke, tables, startVars
<1>2. LogIsOfItsTopic' /\ TopicsAreOld' /\ CheckpointsBegin' /\ StartsInside'
        /\ KafkaNeverAhead' /\ IntakeIsContiguous' /\ IntakeIsTheLog'
  BY Frames DEF Revoke, kafkaVars, tables, startVars, loopVars
<1>3. MembersOwn'
  <2>1. owner'[p] = None /\ \A q \in Partition : q # p => owner'[q] = owner[q]
    BY DEF IntakeInv, TypeOK, Revoke
  <2>2. owner[p] = w /\ members' = members
    BY DEF Revoke
  <2> QED
    BY <1>b, <2>1, <2>2 DEF IntakeInv, MembersOwn, Assigned
<1>4. PositionedInside'
  BY <1>b, <1>c, <1>d DEF IntakeInv, PositionedInside, Assigned, Between
<1>5. PolledIsTheLog'
  BY <1>c, <1>d, PolledStays
<1>6. CommitsForward'
  BY DEF IntakeInv, TypeOK, CommitsForward, Assigned, Revoke, Polling, Drained,
      Offset, kafkaVars, tables, startVars, loopVars
<1> QED
  BY <1>1, <1>2, <1>3, <1>4, <1>5, <1>6 DEF IntakeInv

\* The offset prepared at startup may be old by now: still inside the checkpoint.
LEMMA OnAssignedKeepsIntake ==
  ASSUME IntakeInv, NEW w \in Worker, NEW p \in Partition, OnAssigned(w, p)
  PROVE  IntakeInv'
<1> USE ConstantsAssumption
<1>y. Between(prepared[w][p], p)
  BY DEF IntakeInv, OnAssigned, Polling, StartsInside
<1>z. prepared[w][p] \in Offset
  BY DEF IntakeInv, TypeOK
<1>b. /\ durable' \in [Worker -> [Partition -> Offset]]
      /\ \A x \in Worker, y \in Partition :
           durable'[x][y] = IF x = w /\ y = p THEN prepared[w][p] ELSE durable[x][y]
  <2>1. durable' = [durable EXCEPT ![w][p] = prepared[w][p]]
    BY DEF OnAssigned
  <2>2. durable \in [Worker -> [Partition -> Offset]]
    BY DEF IntakeInv, TypeOK
  <2> QED
    BY <1>z, <2>1, <2>2, UpdateAt
<1>c. /\ cursor' \in [Worker -> [Partition -> Offset]]
      /\ \A x \in Worker, y \in Partition :
           cursor'[x][y] = IF x = w /\ y = p THEN prepared[w][p] ELSE cursor[x][y]
  <2>1. cursor' = [cursor EXCEPT ![w][p] = prepared[w][p]]
    BY DEF OnAssigned
  <2>2. cursor \in [Worker -> [Partition -> Offset]]
    BY DEF IntakeInv, TypeOK
  <2> QED
    BY <1>z, <2>1, <2>2, UpdateAt
<1>d. Len(batch[w][p]) = 0 /\ UNCHANGED <<batch, checkpoint, log, topics>>
  BY DEF OnAssigned, Polling, Drained, kafkaVars, tables
<1>1. TypeOK'
  BY <1>b, <1>c DEF IntakeInv, TypeOK, OnAssigned, kafkaVars, tables, startVars
<1>2. LogIsOfItsTopic' /\ TopicsAreOld' /\ CheckpointsBegin' /\ StartsInside'
        /\ KafkaNeverAhead' /\ IntakeIsContiguous' /\ IntakeIsTheLog'
  BY Frames DEF OnAssigned, kafkaVars, tables, startVars, loopVars
<1>3. MembersOwn'
  BY <1>b DEF IntakeInv, MembersOwn, Assigned, OnAssigned, kafkaVars
<1>4. PositionedInside'
  <2>1. /\ Between(cursor'[w][p], p) /\ batch'[w][p] = <<>>
        /\ cursor'[w][p] + Len(batch'[w][p]) <= MaxLog
    BY <1>y, <1>z, <1>c, <1>d DEF Offset, Between, OnAssigned, Polling, Drained
  <2>2. ASSUME NEW v \in Worker, NEW q \in Partition, ~(v = w /\ q = p)
        PROVE  durable'[v][q] = durable[v][q] /\ cursor'[v][q] = cursor[v][q]
    BY <1>b, <1>c, <2>2
  <2> QED
    BY <1>d, <2>1, <2>2 DEF IntakeInv, PositionedInside, Assigned, Between
<1>5. PolledIsTheLog'
  BY <1>c, <1>d, PolledStays
<1>6. CommitsForward'
  BY DEF IntakeInv, TypeOK, CommitsForward, Assigned, OnAssigned, Polling,
      Drained, Offset, kafkaVars, tables, startVars, loopVars
<1> QED
  BY <1>1, <1>2, <1>3, <1>4, <1>5, <1>6 DEF IntakeInv

\* Startup.
LEMMA StartKeepsIntake ==
  ASSUME IntakeInv, NEW w \in Worker, Start(w)
  PROVE  IntakeInv'
<1> USE ConstantsAssumption
<1>1. TypeOK'
  <2>1. /\ earliest \in [Partition -> Offset]
        /\ [p \in Partition |-> Len(log[p])] \in [Partition -> Offset]
    <3>1. \A p \in Partition : earliest[p] \in Nat /\ Len(log[p]) \in Nat
      BY DEF IntakeInv, TypeOK
    <3>2. \A p \in Partition : earliest[p] <= Len(log[p]) /\ Len(log[p]) <= MaxLog
      BY DEF IntakeInv, LogIsOfItsTopic
    <3>3. earliest = [p \in Partition |-> earliest[p]]
      BY DEF IntakeInv, TypeOK
    <3> QED
      BY <3>1, <3>2, <3>3 DEF Offset
  <2> QED
    BY <2>1 DEF IntakeInv, TypeOK, Start, kafkaVars, tables, loopVars
<1>2. LogIsOfItsTopic' /\ TopicsAreOld' /\ MembersOwn' /\ CheckpointsBegin'
        /\ PositionedInside' /\ PolledIsTheLog' /\ KafkaNeverAhead'
        /\ IntakeIsContiguous' /\ IntakeIsTheLog'
  BY Frames DEF Start, kafkaVars, tables, startVars, loopVars
<1>3. StartsInside'
  <2>1. UNCHANGED <<target, prepared, checkpoint>>
    BY DEF Start, startVars, tables
  <2>2. /\ todo'[w] = Partition /\ begin'[w] = earliest /\ pc'[w] = "starting"
        /\ \A v \in Worker : v # w => todo'[v] = todo[v] /\ begin'[v] = begin[v] /\ pc'[v] = pc[v]
    BY DEF IntakeInv, TypeOK, Start
  <2>3. \A p \in Partition : 0 <= earliest[p]
    BY DEF IntakeInv, TypeOK
  <2> QED
    BY <2>1, <2>2, <2>3 DEF IntakeInv, StartsInside, Between
<1>4. CommitsForward'
  BY DEF IntakeInv, TypeOK, CommitsForward, Assigned, Start, Offset, kafkaVars,
      tables, startVars, loopVars
<1> QED
  BY <1>1, <1>2, <1>3, <1>4 DEF IntakeInv

\* The read of the committed offset before the transaction.
LEMMA ReadCommittedKeepsIntake ==
  ASSUME IntakeInv, NEW w \in Worker, NEW p \in Partition, ReadCommitted(w, p)
  PROVE  IntakeInv'
<1> USE ConstantsAssumption
<1>1. TypeOK'
  BY DEF IntakeInv, TypeOK, ReadCommitted, kafkaVars, tables, startVars, loopVars
<1>2. LogIsOfItsTopic' /\ TopicsAreOld' /\ MembersOwn' /\ CheckpointsBegin'
        /\ PositionedInside' /\ PolledIsTheLog' /\ KafkaNeverAhead'
        /\ IntakeIsContiguous' /\ IntakeIsTheLog'
  BY Frames DEF ReadCommitted, kafkaVars, tables, startVars, loopVars
<1>3. StartsInside'
  BY DEF IntakeInv, TypeOK, StartsInside, Between, ReadCommitted, kafkaVars,
      tables, startVars, loopVars
<1>4. CommitsForward'
  BY DEF IntakeInv, TypeOK, CommitsForward, Assigned, ReadCommitted, kafkaVars,
      tables, startVars, loopVars
<1> QED
  BY <1>1, <1>2, <1>3, <1>4 DEF IntakeInv

\* The fields of a checkpoint are offsets.
LEMMA RowsAreNumbers ==
  ASSUME TypeOK, NEW p \in Partition
  PROVE  /\ checkpoint[p] \in [initial : Offset, next : Offset]
         /\ checkpoint[p].initial \in Int /\ -1 <= checkpoint[p].initial
         /\ checkpoint[p].next \in Int /\ checkpoint[p].next <= MaxLog
<1>1. checkpoint[p] \in [initial : Offset, next : Offset]
  BY DEF TypeOK
<1> QED
  BY <1>1, ConstantsAssumption DEF Offset

\* Whether the row is found or inserted, the checkpoints others rely on stay.
LEMMA InitializeKeepsIntake ==
  ASSUME IntakeInv, NEW w \in Worker, NEW p \in Partition, Initialize(w, p)
  PROVE  IntakeInv'
<1> USE ConstantsAssumption
<1> DEFINE row == Found(w, p)
<1>a. /\ row \in [initial : Offset, next : Offset]
      /\ 0 <= row.initial /\ row.initial <= row.next /\ row.next \in Offset
      /\ checkpoint[p] # NoRow => row = checkpoint[p]
      /\ checkpoint[p] = NoRow => row.initial = row.next
  <2>1. 0 <= begin[w][p] /\ begin[w][p] \in Offset
    BY DEF Initialize, IntakeInv, TypeOK, StartsInside
  <2>2. CASE checkpoint[p] = NoRow
    BY <2>1, <2>2 DEF Found, Offset
  <2>3. CASE checkpoint[p] # NoRow
    BY <2>3, RowsAreNumbers DEF Found, IntakeInv, CheckpointsBegin, Offset
  <2> QED
    BY <2>2, <2>3
<1>b. /\ checkpoint' = [checkpoint EXCEPT ![p] = row]
      /\ prepared' = [prepared EXCEPT ![w][p] = row.next]
  BY DEF Initialize, Position
<1> HIDE DEF row
<1>c. /\ checkpoint'[p] = row
      /\ \A q \in Partition : q # p \/ checkpoint[q] # NoRow => checkpoint'[q] = checkpoint[q]
  BY <1>a, <1>b DEF IntakeInv, TypeOK
<1>d. /\ prepared' \in [Worker -> [Partition -> Offset]]
      /\ \A x \in Worker, y \in Partition :
           prepared'[x][y] = IF x = w /\ y = p THEN row.next ELSE prepared[x][y]
  <2>1. prepared \in [Worker -> [Partition -> Offset]] /\ row.next \in Offset
    BY <1>a DEF IntakeInv, TypeOK
  <2> QED
    BY <1>b, <2>1, UpdateAt
<1>e. /\ begin' \in [Worker -> [Partition -> Offset]]
      /\ end' \in [Worker -> [Partition -> Offset]]
      /\ \A x \in Worker, y \in Partition :
           begin'[x][y] = IF x = w /\ y = p THEN -1 ELSE begin[x][y]
  <2>1. -1 \in Offset
    BY DEF Offset
  <2>2. /\ begin' = [begin EXCEPT ![w][p] = -1] /\ begin \in [Worker -> [Partition -> Offset]]
        /\ end' = [end EXCEPT ![w][p] = -1] /\ end \in [Worker -> [Partition -> Offset]]
    BY DEF Initialize, IntakeInv, TypeOK
  <2>3. end' \in [Worker -> [Partition -> Offset]]
    BY <2>1, <2>2, UpdateAt
  <2> QED
    BY <2>1, <2>2, <2>3, UpdateAt
<1>f. ASSUME NEW q \in Partition, NEW n, Between(n, q) PROVE checkpoint[q] # NoRow
  BY <1>f DEF Between, NoRow
<1>1. TypeOK'
  <2>1. checkpoint' \in [Partition -> [initial : Offset, next : Offset]]
    BY <1>a, <1>b DEF IntakeInv, TypeOK
  <2>2. seen' \in [Worker -> Offset]
    BY DEF IntakeInv, TypeOK, Initialize, Offset
  <2> QED
    BY <1>d, <1>e, <2>1, <2>2 DEF IntakeInv, TypeOK, Initialize, kafkaVars, loopVars
<1>2. LogIsOfItsTopic' /\ TopicsAreOld' /\ MembersOwn' /\ PolledIsTheLog'
        /\ IntakeIsTheLog'
  BY Frames DEF Initialize, kafkaVars, tables, startVars, loopVars
<1>3. CheckpointsBegin'
  BY <1>a, <1>c DEF IntakeInv, CheckpointsBegin
<1>4. StartsInside'
  <2>1. ASSUME NEW v \in Worker, v # w
        PROVE  pc'[v] = pc[v] /\ target'[v] = target[v] /\ todo'[v] = todo[v]
    BY <2>1 DEF IntakeInv, TypeOK, Initialize
  <2>2. /\ todo'[w] = todo[w] \ {p}
        /\ pc'[w] = IF todo[w] = {p} THEN "running" ELSE "starting"
        /\ pc[w] # "down"
    BY DEF IntakeInv, TypeOK, Initialize
  <2>3. ASSUME NEW q \in Partition, NEW n, Between(n, q) PROVE Between(n, q)'
    BY <1>c, <1>f, <2>3 DEF Between
  <2>4. Between(prepared[w][p], p)'
    BY <1>a, <1>c, <1>d DEF Between, Offset
  <2>5. ASSUME NEW v \in Worker, NEW q \in Partition
        PROVE  IF q \in todo'[v] THEN 0 <= begin'[v][q]
                                 ELSE pc'[v] # "down" => Between(prepared[v][q], q)'
    <3>1. CASE v = w /\ q = p
      BY <2>2, <2>4, <3>1
    <3>2. CASE ~(v = w /\ q = p)
      <4>1. begin'[v][q] = begin[v][q] /\ prepared'[v][q] = prepared[v][q]
        BY <1>d, <1>e, <3>2
      <4>2. q \in todo'[v] <=> q \in todo[v]
        BY <2>1, <2>2, <3>2
      <4>3. pc'[v] # "down" => pc[v] # "down"
        BY <2>1, <2>2
      <4> QED
        BY <2>3, <4>1, <4>2, <4>3 DEF IntakeInv, StartsInside
    <3> QED
      BY <3>1, <3>2
  <2> QED
    BY <2>1, <2>2, <2>5 DEF IntakeInv, StartsInside
<1>5. PositionedInside'
  <2>1. UNCHANGED <<durable, cursor, batch>>
    BY DEF Initialize, loopVars
  <2>2. ASSUME NEW q \in Partition, NEW n, Between(n, q) PROVE Between(n, q)'
    BY <1>c, <1>f, <2>2 DEF Between
  <2> QED
    BY <2>1, <2>2 DEF IntakeInv, PositionedInside, Assigned
<1>6. CommitsForward'
  <2>1. UNCHANGED <<members, committed, durable, result>>
    BY DEF Initialize, loopVars, kafkaVars
  <2>2. ASSUME NEW v \in Worker, pc'[v] = "committing"
        PROVE  pc[v] = "committing" /\ target'[v] = target[v]
    BY <2>2 DEF IntakeInv, TypeOK, Initialize
  <2>3. ASSUME NEW v \in Worker, NEW q \in Partition, Assigned(v, q)
        PROVE  checkpoint'[q] = checkpoint[q]
    BY <1>c, <1>f, <2>3 DEF IntakeInv, PositionedInside
  <2> QED
    BY <2>1, <2>2, <2>3 DEF IntakeInv, CommitsForward, Assigned
<1>7. KafkaNeverAhead'
  <2>1. committed' = committed
    BY DEF Initialize, kafkaVars
  <2>2. checkpoint[p] = NoRow => committed[p] = -1
    <3>1. committed[p] \in Offset /\ committed[p] <= checkpoint[p].next
      BY DEF IntakeInv, TypeOK, KafkaNeverAhead
    <3> QED
      BY <3>1 DEF NoRow, Offset
  <2> QED
    BY <1>a, <1>c, <2>1, <2>2 DEF IntakeInv, KafkaNeverAhead, Offset
<1>8. IntakeIsContiguous'
  <2>1. UNCHANGED <<ingest, events, gaps>>
    BY DEF Initialize
  <2>2. ASSUME NEW q \in Partition
        PROVE  {n \in 0..MaxLog : checkpoint'[q].initial <= n /\ n < checkpoint'[q].next} =
                 {n \in 0..MaxLog : checkpoint[q].initial <= n /\ n < checkpoint[q].next}
    <3>1. CASE q # p \/ checkpoint[q] # NoRow
      BY <1>c, <3>1
    <3>2. CASE q = p /\ checkpoint[q] = NoRow
      BY <1>a, <1>c, <3>2 DEF NoRow, Offset
    <3> QED
      BY <3>1, <3>2
  <2> QED
    BY <2>1, <2>2 DEF IntakeInv, IntakeIsContiguous
<1> QED
  BY <1>1, <1>2, <1>3, <1>4, <1>5, <1>6, <1>7, <1>8 DEF IntakeInv

\* What poll returns is the log from the position on.
LEMMA PollKeepsIntake ==
  ASSUME IntakeInv, NEW w \in Worker, Poll(w)
  PROVE  IntakeInv'
<1> USE ConstantsAssumption
<1>a. PICK upto \in [Partition -> 0..MaxLog] :
        /\ \A p \in Partition :
             Assigned(w, p) /\ upto[p] > cursor[w][p] => upto[p] <= Len(log[p])
        /\ \A p \in Partition :
             ~(Assigned(w, p) /\ upto[p] > cursor[w][p]) => upto[p] = 0
        /\ batch' = [batch EXCEPT ![w] =
             [p \in Partition |-> IF upto[p] = 0 THEN <<>>
                                  ELSE SubSeq(log[p], cursor[w][p] + 1, upto[p])]]
  BY DEF Poll
<1>b. UNCHANGED <<durable, cursor, checkpoint, log, topics, ingest>>
  BY DEF Poll, kafkaVars, tables
<1>c. \A p \in Partition :
        /\ batch'[w][p] = IF upto[p] = 0 THEN <<>>
                          ELSE SubSeq(log[p], cursor[w][p] + 1, upto[p])
        /\ \A v \in Worker : v # w => batch'[v][p] = batch[v][p]
  BY <1>a DEF IntakeInv, TypeOK
<1>d. ASSUME NEW p \in Partition, upto[p] # 0
      PROVE  /\ Assigned(w, p) /\ cursor[w][p] \in Nat /\ upto[p] \in Nat
             /\ log[p] \in Seq(Record) /\ Len(log[p]) \in Nat
             /\ cursor[w][p] < upto[p] /\ upto[p] <= Len(log[p])
             /\ upto[p] <= MaxLog
  <2>1. Assigned(w, p) /\ cursor[w][p] < upto[p] /\ upto[p] <= Len(log[p])
    BY <1>a, <1>d DEF IntakeInv, TypeOK, Offset
  <2>2. Between(cursor[w][p], p)
    BY <2>1 DEF IntakeInv, PositionedInside
  <2>3. /\ cursor[w][p] \in Int /\ upto[p] \in Nat /\ upto[p] <= MaxLog
        /\ log[p] \in Seq(Record) /\ Len(log[p]) \in Nat
    BY DEF IntakeInv, TypeOK, Offset
  <2>4. checkpoint[p].initial \in Int
    BY RowsAreNumbers DEF IntakeInv
  <2> QED
    BY <2>1, <2>2, <2>3, <2>4 DEF Between
<1>e. ASSUME NEW p \in Partition, upto[p] # 0
      PROVE  /\ batch'[w][p] \in Seq(Record)
             /\ Len(batch'[w][p]) = upto[p] - cursor[w][p]
             /\ \A i \in 1..Len(batch'[w][p]) : batch'[w][p][i] = log[p][cursor[w][p] + i]
  <2>1. batch'[w][p] = SubSeq(log[p], cursor[w][p] + 1, upto[p])
    BY <1>c, <1>e
  <2>2. /\ cursor[w][p] + 1 \in Int /\ upto[p] \in Int
        /\ \A i \in cursor[w][p] + 1 .. upto[p] : log[p][i] \in Record
    BY <1>d, <1>e
  <2>3. /\ SubSeq(log[p], cursor[w][p] + 1, upto[p]) \in Seq(Record)
        /\ Len(SubSeq(log[p], cursor[w][p] + 1, upto[p])) = upto[p] - cursor[w][p]
        /\ \A i \in 1 .. upto[p] - cursor[w][p] :
             SubSeq(log[p], cursor[w][p] + 1, upto[p])[i] = log[p][cursor[w][p] + i]
    <3> DEFINE m == cursor[w][p] + 1
               n == upto[p]
    <3>1. m \in Int /\ n \in Int /\ \A i \in m..n : log[p][i] \in Record
      BY <2>2
    <3>2. m <= n /\ n - m + 1 = upto[p] - cursor[w][p]
          /\ \A i \in Int : m + i - 1 = cursor[w][p] + i
      BY <1>d, <1>e
    <3>3. /\ SubSeq(log[p], m, n) \in Seq(Record)
          /\ Len(SubSeq(log[p], m, n)) = n - m + 1
          /\ \A i \in 1 .. n - m + 1 : SubSeq(log[p], m, n)[i] = log[p][m + i - 1]
      <4> HIDE DEF m, n
      <4> QED
        BY <3>1, <3>2, SubSeqProperties
    <3>4. \A i \in 1 .. n - m + 1 : SubSeq(log[p], m, n)[i] = log[p][cursor[w][p] + i]
      <4> HIDE DEF m, n
      <4> QED
        BY <3>2, <3>3
    <3> QED
      BY <3>2, <3>3, <3>4
  <2> QED
    BY <2>1, <2>3
<1>1. TypeOK'
  <2>1. ASSUME NEW p \in Partition PROVE batch'[w][p] \in Seq(Record)
    <3>1. upto[p] = 0 => batch'[w][p] = <<>>
      BY <1>c
    <3>2. <<>> \in Seq(Record)
      OBVIOUS
    <3> QED
      BY <1>e, <3>1, <3>2
  <2>2. batch'[w] = [p \in Partition |-> batch'[w][p]]
    BY <1>a DEF IntakeInv, TypeOK
  <2>3. batch' \in [Worker -> [Partition -> Seq(Record)]]
    BY <1>a, <2>1, <2>2 DEF IntakeInv, TypeOK
  <2> QED
    BY <2>3 DEF IntakeInv, TypeOK, Poll, kafkaVars, tables, startVars
<1>2. LogIsOfItsTopic' /\ MembersOwn' /\ CheckpointsBegin' /\ StartsInside'
        /\ CommitsForward' /\ KafkaNeverAhead' /\ IntakeIsContiguous' /\ IntakeIsTheLog'
  BY Frames DEF Poll, kafkaVars, tables, startVars, loopVars
<1>3. TopicsAreOld'
  <2>1. ASSUME NEW p \in Partition, NEW i \in 1..Len(batch'[w][p])
        PROVE  batch'[w][p][i].topic <= topics[p]
    <3>1. upto[p] # 0
      BY <1>c
    <3>2. cursor[w][p] + i \in 1..Len(log[p])
      <4>1. Len(batch'[w][p]) = upto[p] - cursor[w][p] /\ i \in Nat \ {0} /\ i <= Len(batch'[w][p])
        BY <1>d, <1>e, <3>1
      <4> QED
        BY <1>d, <3>1, <4>1
    <3>3. batch'[w][p][i] = log[p][cursor[w][p] + i]
      BY <1>e, <3>1
    <3>4. log[p][cursor[w][p] + i].topic = topics[p]
      BY <3>2 DEF IntakeInv, LogIsOfItsTopic
    <3>5. topics[p] \in Nat
      BY DEF IntakeInv, TypeOK
    <3> QED
      BY <3>3, <3>4, <3>5
  <2> QED
    BY <1>b, <1>c, <2>1 DEF IntakeInv, TopicsAreOld
<1>4. PositionedInside'
  <2>1. ASSUME NEW p \in Partition
        PROVE  IF Assigned(w, p) THEN cursor[w][p] + Len(batch'[w][p]) <= MaxLog
                                 ELSE batch'[w][p] = <<>>
    <3>1. CASE upto[p] # 0
      <4>1. Assigned(w, p) /\ Len(batch'[w][p]) = upto[p] - cursor[w][p]
        BY <1>d, <1>e, <3>1
      <4>2. cursor[w][p] \in Nat /\ upto[p] \in Nat /\ upto[p] <= MaxLog
        BY <1>d, <3>1
      <4> QED
        BY <4>1, <4>2
    <3>2. CASE upto[p] = 0
      <4>1. batch'[w][p] = <<>> /\ Len(batch'[w][p]) = 0
        BY <1>c, <3>2
      <4>2. cursor[w][p] \in Offset
        BY DEF IntakeInv, TypeOK
      <4> QED
        BY <4>1, <4>2 DEF Offset
    <3> QED
      BY <3>1, <3>2
  <2> QED
    BY <1>b, <1>c, <2>1 DEF IntakeInv, PositionedInside, Assigned, Between
<1>5. PolledIsTheLog'
  <2>1. ASSUME NEW p \in Partition, NEW i \in 1..Len(batch'[w][p])
        PROVE  /\ cursor[w][p] + i <= Len(log[p])
               /\ log[p][cursor[w][p] + i] = batch'[w][p][i]
    <3>1. upto[p] # 0
      BY <1>c
    <3>2. /\ Len(batch'[w][p]) = upto[p] - cursor[w][p]
          /\ batch'[w][p][i] = log[p][cursor[w][p] + i]
      BY <1>e, <3>1
    <3>3. /\ cursor[w][p] \in Nat /\ upto[p] \in Nat /\ upto[p] <= Len(log[p])
          /\ Len(log[p]) \in Nat
      BY <1>d, <3>1
    <3> QED
      BY <3>2, <3>3
  <2>2. ASSUME NEW v \in Worker, NEW p \in Partition, v # w
        PROVE  batch'[v][p] = batch[v][p]
    BY <1>c, <2>2
  <2> SUFFICES ASSUME NEW v \in Worker, NEW p \in Partition, NEW i \in 1..Len(batch'[v][p]),
                      batch'[v][p][i].topic = topics[p]
               PROVE  /\ cursor[v][p] + i <= Len(log[p])
                      /\ log[p][cursor[v][p] + i] = batch'[v][p][i]
    BY <1>b DEF PolledIsTheLog
  <2>3. CASE v = w
    BY <2>1, <2>3
  <2>4. CASE v # w
    <3>1. batch'[v][p] = batch[v][p]
      BY <2>2, <2>4
    <3> QED
      BY <3>1 DEF IntakeInv, PolledIsTheLog
  <2> QED
    BY <2>3, <2>4
<1> QED
  BY <1>1, <1>2, <1>3, <1>4, <1>5 DEF IntakeInv

\* The end of a process leaves nothing of it behind, whatever it had committed.
LEMMA ExitKeepsIntake ==
  ASSUME IntakeInv, NEW w \in Worker, Exit(w),
         UNCHANGED <<log, earliest, topics, tables>>, faults' \in 0..MaxFaults,
         committed' \in [Partition -> Offset], KafkaNeverAhead',
         \A v \in members \ {w} : pc[v] = "committing" =>
           committed'[target[v]] <= result[v]
  PROVE  IntakeInv'
<1> USE ConstantsAssumption
<1>a. UNCHANGED <<log, earliest, topics, checkpoint, ingest, events, gaps>>
  BY DEF tables
<1>b. /\ Nothing \in [Partition -> Offset] /\ -1 \in Offset
      /\ [p \in Partition |-> <<>>] \in [Partition -> Seq(Record)]
  BY DEF Nothing, Offset
<1>c. members \subseteq Worker
  BY DEF IntakeInv, TypeOK
<1>d. ASSUME NEW v \in Worker, v # w
      PROVE  /\ pc'[v] = pc[v] /\ begin'[v] = begin[v] /\ todo'[v] = todo[v]
             /\ prepared'[v] = prepared[v] /\ durable'[v] = durable[v]
             /\ cursor'[v] = cursor[v] /\ batch'[v] = batch[v]
             /\ target'[v] = target[v] /\ result'[v] = result[v]
             /\ v \in members' <=> v \in members
             /\ \A p \in Partition : owner'[p] = v <=> owner[p] = v
  BY <1>d DEF IntakeInv, TypeOK, Exit, Left
<1>e. /\ pc'[w] = "down" /\ todo'[w] = {} /\ w \notin members'
      /\ \A p \in Partition : owner'[p] # w /\ batch'[w][p] = <<>> /\ durable'[w][p] = -1
  BY DEF IntakeInv, TypeOK, Exit, Left, Nothing
<1>1. TypeOK'
  BY <1>a, <1>b DEF IntakeInv, TypeOK, Exit, Left
<1>2. LogIsOfItsTopic' /\ CheckpointsBegin' /\ IntakeIsContiguous' /\ IntakeIsTheLog'
  BY <1>a, Frames
<1>3. TopicsAreOld'
  BY <1>a, <1>d, <1>e DEF IntakeInv, TopicsAreOld
<1>4. MembersOwn'
  <2>1. ASSUME NEW v \in Worker, NEW p \in Partition
        PROVE  /\ owner'[p] = v => v \in members'
               /\ v \in members' /\ durable'[v][p] # -1 => owner'[p] = v
    <3>1. CASE v = w
      BY <1>e, <3>1
    <3>2. CASE v # w
      BY <1>d, <3>2 DEF IntakeInv, MembersOwn, Assigned
    <3> QED
      BY <3>1, <3>2
  <2> QED
    BY <2>1 DEF MembersOwn, Assigned
<1>5. StartsInside'
  <2>1. ASSUME NEW v \in Worker, v # w
        PROVE  /\ pc'[v] = "initializing" => target'[v] \in todo'[v]
               /\ pc'[v] \in {"running", "committing"} => todo'[v] = {}
               /\ \A p \in Partition :
                    IF p \in todo'[v] THEN 0 <= begin'[v][p]
                                      ELSE pc'[v] # "down" => Between(prepared'[v][p], p)
    BY <1>d, <2>1 DEF IntakeInv, StartsInside
  <2> QED
    BY <1>a, <1>e, <2>1 DEF StartsInside, Between
<1>6. PositionedInside'
  <2>1. ASSUME NEW v \in Worker, NEW p \in Partition, v # w
        PROVE  IF durable'[v][p] # -1
                 THEN Between(cursor'[v][p], p) /\ cursor'[v][p] + Len(batch'[v][p]) <= MaxLog
                 ELSE batch'[v][p] = <<>>
    BY <1>d, <2>1 DEF IntakeInv, PositionedInside, Assigned
  <2> QED
    BY <1>a, <1>e, <2>1 DEF PositionedInside, Assigned, Between
<1>7. PolledIsTheLog'
  <2> SUFFICES ASSUME NEW v \in Worker, NEW p \in Partition, NEW i \in 1..Len(batch'[v][p]),
                      batch'[v][p][i].topic = topics[p]
               PROVE  /\ cursor'[v][p] + i <= Len(log[p])
                      /\ log[p][cursor'[v][p] + i] = batch'[v][p][i]
    BY <1>a DEF PolledIsTheLog
  <2>1. v # w
    BY <1>e
  <2>2. batch'[v][p] = batch[v][p] /\ cursor'[v][p] = cursor[v][p]
    BY <1>d, <2>1
  <2>3. i \in 1..Len(batch[v][p]) /\ batch[v][p][i].topic = topics[p]
    BY <2>2
  <2>4. PolledIsTheLog
    BY DEF IntakeInv
  <2> QED
    BY <2>2, <2>3, <2>4 DEF PolledIsTheLog
<1>8. CommitsForward'
  <2>1. ASSUME NEW v \in Worker, pc'[v] = "committing"
        PROVE  /\ target[v] \in Partition
               /\ durable[v][target[v]] # -1
               /\ checkpoint[target[v]].initial < result[v]
               /\ result[v] <= checkpoint[target[v]].next
               /\ v \in members' => committed'[target[v]] <= result[v]
               /\ v # w
    <3>1. v # w
      BY <1>e, <2>1
    <3>2. pc[v] = "committing"
      BY <1>d, <2>1, <3>1
    <3> QED
      BY <1>d, <3>1, <3>2 DEF IntakeInv, CommitsForward, Assigned
  <2> QED
    BY <1>a, <1>d, <2>1 DEF CommitsForward, Assigned
<1> QED
  BY <1>1, <1>2, <1>3, <1>4, <1>5, <1>6, <1>7, <1>8 DEF IntakeInv

\* The group takes a durable offset, from the one member that owns the partition.
LEMMA GroupTakesOffset ==
  ASSUME IntakeInv, NEW w \in Worker, pc[w] = "committing", w \in members,
         committed' = [committed EXCEPT ![target[w]] = OffsetToCommit(w)],
         checkpoint' = checkpoint
  PROVE  /\ committed' \in [Partition -> Offset]
         /\ KafkaNeverAhead'
         /\ \A v \in members \ {w} : pc[v] = "committing" =>
              committed'[target[v]] <= result[v]
         /\ target[w] \in Partition
         /\ result[w] \in Nat
         /\ committed[target[w]] <= result[w]
<1> USE ConstantsAssumption
<1> DEFINE p == target[w]
<1>1. /\ p \in Partition /\ Assigned(w, p)
      /\ checkpoint[p].initial < result[w] /\ result[w] <= checkpoint[p].next
      /\ committed[p] <= result[w]
  BY DEF IntakeInv, CommitsForward
<1>2. result[w] \in Offset /\ committed \in [Partition -> Offset] /\ members \subseteq Worker
  BY DEF IntakeInv, TypeOK
<1>3. result[w] \in Nat
  BY <1>1, <1>2, RowsAreNumbers DEF IntakeInv, Offset
<1>4. committed'[p] = result[w] /\ \A q \in Partition : q # p => committed'[q] = committed[q]
  BY <1>1, <1>2 DEF OffsetToCommit
<1>5. committed' \in [Partition -> Offset]
  BY <1>2 DEF OffsetToCommit
<1>6. KafkaNeverAhead'
  BY <1>1, <1>4 DEF IntakeInv, KafkaNeverAhead
<1>7. ASSUME NEW v \in members \ {w}, pc[v] = "committing"
      PROVE  committed'[target[v]] <= result[v]
  <2>1. v \in Worker /\ v # w
    BY <1>2
  <2>2. target[v] \in Partition /\ Assigned(v, target[v]) /\ committed[target[v]] <= result[v]
    BY <1>7, <2>1 DEF IntakeInv, CommitsForward
  <2>3. owner[target[v]] = v /\ owner[p] = w
    BY <1>1, <2>1, <2>2 DEF IntakeInv, MembersOwn
  <2> QED
    BY <1>4, <2>1, <2>2, <2>3
<1> QED
  BY <1>1, <1>3, <1>5, <1>6, <1>7

\* The commit that moves the durable offset the listener remembers.
LEMMA CommitOffsetKeepsIntake ==
  ASSUME IntakeInv, NEW w \in Worker, CommitOffset(w)
  PROVE  IntakeInv'
<1> USE ConstantsAssumption
<1> DEFINE p == target[w]
<1>a. /\ pc[w] = "committing" /\ w \in members
      /\ UNCHANGED <<checkpoint, members, owner, todo, begin, prepared, cursor, batch>>
  BY DEF CommitOffset, startVars, tables
<1>b. /\ committed' \in [Partition -> Offset]
      /\ KafkaNeverAhead'
      /\ \A v \in members \ {w} : pc[v] = "committing" => committed'[target[v]] <= result[v]
      /\ p \in Partition
      /\ result[w] \in Nat
  BY <1>a, GroupTakesOffset DEF CommitOffset
<1>c. /\ durable' \in [Worker -> [Partition -> Offset]]
      /\ \A x \in Worker, y \in Partition :
           durable'[x][y] = IF x = w /\ y = p THEN result[w] ELSE durable[x][y]
  <2>1. result[w] \in Offset /\ durable \in [Worker -> [Partition -> Offset]]
    BY DEF IntakeInv, TypeOK
  <2>2. durable' = [durable EXCEPT ![w][p] = result[w]]
    BY DEF CommitOffset
  <2> HIDE DEF p
  <2> QED
    BY <1>b, <2>1, <2>2, UpdateAt
<1>d. ASSUME NEW v \in Worker, NEW q \in Partition
      PROVE  Assigned(v, q)' <=> Assigned(v, q)
  <2>1. Assigned(w, p)
    BY <1>a DEF IntakeInv, CommitsForward
  <2> QED
    BY <1>b, <1>c, <2>1 DEF Assigned
<1>e. /\ pc'[w] = "running"
      /\ \A v \in Worker : v # w => /\ pc'[v] = pc[v] /\ target'[v] = target[v]
                                    /\ result'[v] = result[v]
  BY DEF CommitOffset, IntakeInv, TypeOK
<1>1. TypeOK'
  <2>1. result' \in [Worker -> Offset]
    BY DEF IntakeInv, TypeOK, CommitOffset, Offset
  <2> QED
    BY <1>b, <1>c, <2>1 DEF IntakeInv, TypeOK, CommitOffset, tables, startVars
<1>2. LogIsOfItsTopic' /\ TopicsAreOld' /\ CheckpointsBegin' /\ PolledIsTheLog'
        /\ IntakeIsContiguous' /\ IntakeIsTheLog'
  BY Frames DEF CommitOffset, kafkaVars, tables, startVars, loopVars
<1>3. MembersOwn'
  BY <1>a, <1>d DEF IntakeInv, MembersOwn
<1>4. StartsInside'
  BY <1>a, <1>e DEF IntakeInv, StartsInside, Between
<1>5. PositionedInside'
  BY <1>a, <1>d DEF IntakeInv, PositionedInside, Between
<1>6. CommitsForward'
  BY <1>a, <1>b, <1>d, <1>e DEF IntakeInv, CommitsForward
<1>7. KafkaNeverAhead'
  BY <1>b
<1> QED
  BY <1>1, <1>2, <1>3, <1>4, <1>5, <1>6, <1>7 DEF IntakeInv

\* What stage may do to the tables and to the worker it returns to, be the message
\* new or a duplicate.
StageEffect(w, p) ==
  /\ pc[w] = "running"
  /\ batch[w][p] # <<>>
  /\ Returns(w, p, checkpoint'[p].next)
  /\ cursor[w][p] < checkpoint'[p].next
  /\ checkpoint' \in [Partition -> [initial : Offset, next : Offset]]
  /\ ingest' \in [Partition -> SUBSET [offset : Nat, record : Record]]
  /\ events' \in [Partition -> SUBSET Nat]
  /\ gaps' \in [Partition -> SUBSET Nat]
  /\ \A q \in Partition : /\ checkpoint'[q].initial = checkpoint[q].initial
                          /\ checkpoint[q].next <= checkpoint'[q].next
                          /\ q # p => checkpoint'[q] = checkpoint[q]
  /\ \A q \in Partition : \A row \in ingest'[q] : row.record.topic <= topics[q]

\* The worker drops the message and remembers the durable offset.
LEMMA ReturnKeepsIntake ==
  ASSUME IntakeInv, NEW w \in Worker, NEW p \in Partition, StageEffect(w, p)
  PROVE  /\ TypeOK' /\ LogIsOfItsTopic' /\ TopicsAreOld' /\ MembersOwn'
         /\ CheckpointsBegin' /\ StartsInside' /\ PositionedInside' /\ PolledIsTheLog'
         /\ CommitsForward' /\ KafkaNeverAhead'
<1> USE ConstantsAssumption
<1>0. /\ pc[w] = "running" /\ batch[w][p] # <<>>
      /\ Returns(w, p, checkpoint'[p].next) /\ cursor[w][p] < checkpoint'[p].next
      /\ \A q \in Partition : /\ checkpoint'[q].initial = checkpoint[q].initial
                              /\ checkpoint[q].next <= checkpoint'[q].next
                              /\ q # p => checkpoint'[q] = checkpoint[q]
  BY DEF StageEffect
<1>a. /\ batch[w][p] \in Seq(Record) /\ Len(batch[w][p]) \in Nat \ {0}
      /\ Assigned(w, p) /\ Between(cursor[w][p], p) /\ cursor[w][p] \in Nat
      /\ checkpoint[p].initial \in Nat /\ checkpoint[p].next \in Nat
      /\ cursor[w][p] + Len(batch[w][p]) <= MaxLog
  <2>1. batch[w][p] \in Seq(Record)
    BY DEF IntakeInv, TypeOK
  <2>2. Len(batch[w][p]) \in Nat \ {0}
    BY <1>0, <2>1, EmptySeq
  <2> QED
    BY <2>1, <2>2, PolledIsAssigned DEF IntakeInv, PositionedInside
<1>b. /\ Tail(batch[w][p]) \in Seq(Record)
      /\ Len(Tail(batch[w][p])) = Len(batch[w][p]) - 1
      /\ \A i \in 1..Len(batch[w][p]) - 1 : Tail(batch[w][p])[i] = batch[w][p][i + 1]
  BY <1>a
<1>h. ASSUME NEW i \in 1..Len(Tail(batch[w][p]))
      PROVE  /\ i \in Nat /\ i + 1 \in 1..Len(batch[w][p])
             /\ Tail(batch[w][p])[i] = batch[w][p][i + 1]
  <2>1. Len(Tail(batch[w][p])) = Len(batch[w][p]) - 1 /\ Len(batch[w][p]) \in Nat
    BY <1>a, <1>b
  <2>2. i \in 1..Len(batch[w][p]) - 1
    BY <2>1
  <2> QED
    BY <1>b, <2>1, <2>2
<1>c. /\ batch' \in [Worker -> [Partition -> Seq(Record)]]
      /\ \A x \in Worker, y \in Partition :
           batch'[x][y] = IF x = w /\ y = p THEN Tail(batch[w][p]) ELSE batch[x][y]
  <2>1. batch' = [batch EXCEPT ![w][p] = Tail(batch[w][p])]
    BY <1>0 DEF Returns
  <2>2. batch \in [Worker -> [Partition -> Seq(Record)]]
    BY DEF IntakeInv, TypeOK
  <2> QED
    BY <1>b, <2>1, <2>2, UpdateAt
<1>d. /\ cursor' \in [Worker -> [Partition -> Offset]]
      /\ \A x \in Worker, y \in Partition :
           cursor'[x][y] = IF x = w /\ y = p THEN cursor[w][p] + 1 ELSE cursor[x][y]
  <2>1. cursor' = [cursor EXCEPT ![w][p] = cursor[w][p] + 1]
    BY <1>0 DEF Returns
  <2>2. cursor \in [Worker -> [Partition -> Offset]]
    BY DEF IntakeInv, TypeOK
  <2>3. cursor[w][p] + 1 \in Offset
    BY <1>a DEF Offset
  <2> QED
    BY <2>1, <2>2, <2>3, UpdateAt
<1>i. \A k \in Nat : cursor[w][p] + (k + 1) = cursor'[w][p] + k
  <2>1. cursor'[w][p] = cursor[w][p] + 1 /\ cursor[w][p] \in Nat
    BY <1>a, <1>d
  <2> QED
    BY <2>1
<1>j. \A k \in 1..Len(batch[w][p]) : batch[w][p][k].topic = topics[p] =>
        /\ cursor[w][p] + k <= Len(log[p])
        /\ log[p][cursor[w][p] + k] = batch[w][p][k]
  BY DEF IntakeInv, PolledIsTheLog
<1>e. /\ pc'[w] = "committing" /\ target'[w] = p /\ result'[w] = checkpoint'[p].next
      /\ \A v \in Worker : v # w => /\ pc'[v] = pc[v] /\ target'[v] = target[v]
                                    /\ result'[v] = result[v]
      /\ UNCHANGED <<log, earliest, committed, members, owner, topics, faults,
                      begin, end, todo, seen, prepared, durable>>
  BY <1>0 DEF Returns, IntakeInv, TypeOK, kafkaVars, startVars
<1>f. \A q \in Partition : /\ checkpoint[q].initial \in Int /\ checkpoint[q].next \in Int
                           /\ checkpoint'[q].next \in Int
  <2>1. checkpoint' \in [Partition -> [initial : Offset, next : Offset]]
    BY DEF StageEffect
  <2>2. \A q \in Partition : checkpoint'[q].next \in Offset
    BY <2>1
  <2>3. Offset \subseteq Int
    BY DEF Offset
  <2> QED
    BY <2>2, <2>3, RowsAreNumbers DEF IntakeInv
<1>g. ASSUME NEW q \in Partition, NEW n \in Int, Between(n, q) PROVE Between(n, q)'
  BY <1>0, <1>f, <1>g DEF Between
<1>1. TypeOK'
  <2>1. /\ result' \in [Worker -> Offset]
        /\ pc' \in [Worker -> {"down", "starting", "initializing", "running", "committing"}]
        /\ target' \in [Worker -> Partition \cup {None}]
    <3>1. checkpoint'[p].next \in Offset
      BY DEF StageEffect
    <3> QED
      BY <1>0, <3>1 DEF IntakeInv, TypeOK, Returns
  <2> QED
    BY <1>c, <1>d, <1>e, <2>1 DEF IntakeInv, TypeOK, StageEffect
<1>2. LogIsOfItsTopic' /\ MembersOwn'
  BY <1>e, Frames
<1>3. TopicsAreOld'
  <2>1. ASSUME NEW i \in 1..Len(Tail(batch[w][p]))
        PROVE  Tail(batch[w][p])[i].topic <= topics[p]
    <3>1. i + 1 \in 1..Len(batch[w][p]) /\ Tail(batch[w][p])[i] = batch[w][p][i + 1]
      BY <1>h
    <3> QED
      BY <3>1 DEF IntakeInv, TopicsAreOld
  <2>2. ASSUME NEW v \in Worker, NEW q \in Partition
        PROVE  \A i \in 1..Len(batch'[v][q]) : batch'[v][q][i].topic <= topics[q]
    <3>1. CASE v = w /\ q = p
      BY <1>c, <2>1, <3>1
    <3>2. CASE ~(v = w /\ q = p)
      BY <1>c, <3>2 DEF IntakeInv, TopicsAreOld
    <3> QED
      BY <3>1, <3>2
  <2> QED
    BY <1>e, <2>2 DEF TopicsAreOld, StageEffect
<1>4. CheckpointsBegin'
  <2>1. 0 <= checkpoint'[p].initial /\ checkpoint'[p].initial <= checkpoint'[p].next
    BY <1>0, <1>a, <1>f DEF Between
  <2> QED
    BY <1>0, <2>1 DEF IntakeInv, CheckpointsBegin
<1>5. StartsInside'
  <2>1. \A v \in Worker, q \in Partition : prepared[v][q] \in Int
    BY DEF IntakeInv, TypeOK, Offset
  <2>2. pc'[w] \notin {"down", "initializing"} /\ todo[w] = {} /\ pc[w] # "down"
    BY <1>0, <1>e DEF IntakeInv, StartsInside
  <2> QED
    BY <1>e, <1>g, <2>1, <2>2 DEF IntakeInv, StartsInside
<1>6. PositionedInside'
  <2>1. ASSUME NEW v \in Worker, NEW q \in Partition, ~(v = w /\ q = p)
        PROVE  IF Assigned(v, q)
                 THEN Between(cursor[v][q], q)' /\ cursor'[v][q] + Len(batch'[v][q]) <= MaxLog
                 ELSE batch'[v][q] = <<>>
    <3>1. cursor[v][q] \in Int
      BY DEF IntakeInv, TypeOK, Offset
    <3>2. cursor'[v][q] = cursor[v][q] /\ batch'[v][q] = batch[v][q]
      BY <1>c, <1>d, <2>1
    <3> QED
      BY <1>g, <3>1, <3>2 DEF IntakeInv, PositionedInside
  <2>2. Between(cursor[w][p], p)' /\ cursor'[w][p] + Len(batch'[w][p]) <= MaxLog
    <3>1. cursor'[w][p] = cursor[w][p] + 1 /\ Len(batch'[w][p]) = Len(batch[w][p]) - 1
      BY <1>b, <1>c, <1>d
    <3>2. /\ 0 <= checkpoint'[p].initial /\ checkpoint'[p].initial <= cursor[w][p] + 1
          /\ cursor[w][p] + 1 <= checkpoint'[p].next
      BY <1>0, <1>a, <1>f DEF Between
    <3>3. Between(cursor[w][p], p)'
      BY <3>1, <3>2 DEF Between
    <3>4. cursor'[w][p] + Len(batch'[w][p]) <= MaxLog
      <4>1. \A a, b \in Nat : a + b <= MaxLog => (a + 1) + (b - 1) <= MaxLog
        OBVIOUS
      <4> QED
        BY <1>a, <3>1, <4>1
    <3> QED
      BY <3>3, <3>4
  <2> QED
    BY <1>a, <1>e, <2>1, <2>2 DEF PositionedInside, Assigned
<1>7. PolledIsTheLog'
  <2> SUFFICES ASSUME NEW v \in Worker, NEW q \in Partition, NEW i \in 1..Len(batch'[v][q]),
                      batch'[v][q][i].topic = topics[q]
               PROVE  /\ cursor'[v][q] + i <= Len(log[q])
                      /\ log[q][cursor'[v][q] + i] = batch'[v][q][i]
    BY <1>e DEF PolledIsTheLog
  <2>1. CASE ~(v = w /\ q = p)
    <3>1. cursor'[v][q] = cursor[v][q] /\ batch'[v][q] = batch[v][q]
      BY <1>c, <1>d, <2>1
    <3>2. i \in 1..Len(batch[v][q]) /\ batch[v][q][i].topic = topics[q]
      BY <3>1
    <3>3. PolledIsTheLog
      BY DEF IntakeInv
    <3> QED
      BY <3>1, <3>2, <3>3 DEF PolledIsTheLog
  <2>2. CASE v = w /\ q = p
    <3>0. batch'[v][q] = Tail(batch[w][p])
      BY <1>c, <2>2
    <3>1. i \in Nat /\ i + 1 \in 1..Len(batch[w][p])
      BY <1>h, <3>0
    <3>2. batch'[v][q][i] = batch[w][p][i + 1]
      BY <1>h, <3>0
    <3>3. cursor[w][p] + (i + 1) = cursor'[v][q] + i
      BY <1>i, <2>2, <3>1
    <3>4. /\ cursor[w][p] + (i + 1) <= Len(log[p])
          /\ log[p][cursor[w][p] + (i + 1)] = batch[w][p][i + 1]
      BY <1>j, <2>2, <3>1, <3>2
    <3> QED
      BY <2>2, <3>2, <3>3, <3>4
  <2> QED
    BY <2>1, <2>2
<1>8. CommitsForward'
  <2>1. ASSUME NEW v \in Worker, v # w, pc[v] = "committing"
        PROVE  /\ target[v] \in Partition
               /\ durable[v][target[v]] # -1
               /\ checkpoint'[target[v]].initial < result[v]
               /\ result[v] <= checkpoint'[target[v]].next
               /\ v \in members => committed[target[v]] <= result[v]
    <3>1. /\ target[v] \in Partition /\ durable[v][target[v]] # -1
          /\ checkpoint[target[v]].initial < result[v]
          /\ result[v] <= checkpoint[target[v]].next
          /\ v \in members => committed[target[v]] <= result[v]
      BY <2>1 DEF IntakeInv, CommitsForward, Assigned
    <3>2. result[v] \in Int
      BY DEF IntakeInv, TypeOK, Offset
    <3> QED
      BY <1>0, <1>f, <3>1, <3>2
  <2>2. /\ checkpoint'[p].initial < checkpoint'[p].next
        /\ committed[p] <= checkpoint'[p].next
    <3>1. committed[p] \in Int /\ committed[p] <= checkpoint[p].next
      BY DEF IntakeInv, TypeOK, KafkaNeverAhead, Offset
    <3> QED
      BY <1>0, <1>a, <1>f, <3>1 DEF Between
  <2>3. ASSUME NEW v \in Worker, pc'[v] = "committing", v # w
        PROVE  pc[v] = "committing" /\ target'[v] = target[v] /\ result'[v] = result[v]
    BY <1>e, <2>3
  <2>4. durable[w][p] # -1
    BY <1>a DEF Assigned
  <2> SUFFICES ASSUME NEW v \in Worker, pc'[v] = "committing"
               PROVE  /\ target'[v] \in Partition
                      /\ durable[v][target'[v]] # -1
                      /\ checkpoint'[target'[v]].initial < result'[v]
                      /\ result'[v] <= checkpoint'[target'[v]].next
                      /\ v \in members => committed[target'[v]] <= result'[v]
    BY <1>e DEF CommitsForward, Assigned
  <2>5. CASE v = w
    <3>1. target'[v] = p /\ result'[v] = checkpoint'[p].next
      BY <1>e, <2>5
    <3>2. target'[v] \in Partition
      BY <3>1
    <3>3. durable[v][target'[v]] # -1
      BY <2>4, <2>5, <3>1
    <3>4. checkpoint'[target'[v]].initial < result'[v]
      BY <2>2, <3>1
    <3>5. result'[v] <= checkpoint'[target'[v]].next
      BY <1>f, <3>1
    <3>6. committed[target'[v]] <= result'[v]
      BY <2>2, <3>1
    <3> QED
      BY <3>2, <3>3, <3>4, <3>5, <3>6
  <2>6. CASE v # w
    BY <2>1, <2>3, <2>6
  <2> QED
    BY <2>5, <2>6
<1>9. KafkaNeverAhead'
  <2>1. \A q \in Partition : committed[q] \in Int
    BY DEF IntakeInv, TypeOK, Offset
  <2> QED
    BY <1>0, <1>e, <1>f, <2>1 DEF IntakeInv, KafkaNeverAhead
<1> QED
  BY <1>1, <1>2, <1>3, <1>4, <1>5, <1>6, <1>7, <1>8, <1>9

\* A verified duplicate writes nothing.
LEMMA StageDuplicateKeepsIntake ==
  ASSUME IntakeInv, NEW w \in Worker, NEW p \in Partition, StageDuplicate(w, p)
  PROVE  IntakeInv'
<1> USE ConstantsAssumption
<1>1. UNCHANGED <<checkpoint, ingest, events, gaps, log, topics>>
  BY DEF StageDuplicate, Returns, tables, kafkaVars
<1>2. \A q \in Partition : checkpoint[q].initial \in Int /\ checkpoint[q].next \in Int
  BY RowsAreNumbers DEF IntakeInv
<1>3. TypeOK
  BY DEF IntakeInv
<1>4. /\ checkpoint \in [Partition -> [initial : Offset, next : Offset]]
      /\ ingest \in [Partition -> SUBSET [offset : Nat, record : Record]]
      /\ events \in [Partition -> SUBSET Nat] /\ gaps \in [Partition -> SUBSET Nat]
  BY <1>3 DEF TypeOK
<1>5. /\ pc[w] = "running" /\ batch[w][p] # <<>>
      /\ Returns(w, p, checkpoint[p].next) /\ cursor[w][p] < checkpoint[p].next
  BY DEF StageDuplicate, DurableAfterDuplicate
<1>6. \A q \in Partition : \A row \in ingest[q] : row.record.topic <= topics[q]
  BY DEF IntakeInv, TopicsAreOld
<1>7. /\ TypeOK' /\ LogIsOfItsTopic' /\ TopicsAreOld' /\ MembersOwn'
      /\ CheckpointsBegin' /\ StartsInside' /\ PositionedInside' /\ PolledIsTheLog'
      /\ CommitsForward' /\ KafkaNeverAhead'
  <2>1. /\ checkpoint' \in [Partition -> [initial : Offset, next : Offset]]
        /\ ingest' \in [Partition -> SUBSET [offset : Nat, record : Record]]
        /\ events' \in [Partition -> SUBSET Nat] /\ gaps' \in [Partition -> SUBSET Nat]
        /\ Returns(w, p, checkpoint'[p].next) /\ cursor[w][p] < checkpoint'[p].next
    BY <1>1, <1>4, <1>5
  <2>2. \A q \in Partition : /\ checkpoint'[q].initial = checkpoint[q].initial
                             /\ checkpoint[q].next <= checkpoint'[q].next
                             /\ q # p => checkpoint'[q] = checkpoint[q]
    BY <1>1, <1>2
  <2>3. \A q \in Partition : \A row \in ingest'[q] : row.record.topic <= topics[q]
    BY <1>1, <1>6
  <2> QED
    BY <1>5, <2>1, <2>2, <2>3, ReturnKeepsIntake DEF StageEffect
<1>8. IntakeIsContiguous' /\ IntakeIsTheLog'
  BY <1>1, Frames
<1> QED
  BY <1>7, <1>8 DEF IntakeInv

\* The transaction of the next record: its row, its event or discontinuity, the checkpoint.
LEMMA StageNewKeepsIntake ==
  ASSUME IntakeInv, NEW w \in Worker, NEW p \in Partition, StageNew(w, p)
  PROVE  IntakeInv'
<1> USE ConstantsAssumption
<1> DEFINE record == Head(batch[w][p])
           n == checkpoint[p].next
           row == [offset |-> n, record |-> record]
<1>1. /\ pc[w] = "running" /\ batch[w][p] # <<>> /\ cursor[w][p] = n
      /\ checkpoint' = [checkpoint EXCEPT ![p].next = n + 1]
      /\ ingest' = [ingest EXCEPT ![p] = @ \cup {row}]
      /\ events' = IF record.class = "event" THEN [events EXCEPT ![p] = @ \cup {n}] ELSE events
      /\ gaps' = IF record.class = "quarantine" THEN [gaps EXCEPT ![p] = @ \cup {n}] ELSE gaps
      /\ Returns(w, p, n + 1)
      /\ UNCHANGED <<log, topics>>
  BY DEF StageNew, MessageOffset, AdvanceCheckpoint, Returns, kafkaVars
<1>2. /\ batch[w][p] \in Seq(Record) /\ Len(batch[w][p]) \in Nat \ {0}
      /\ record = batch[w][p][1] /\ record \in Record
  <2>1. batch[w][p] \in Seq(Record)
    BY DEF IntakeInv, TypeOK
  <2> QED
    BY <1>1, <2>1, EmptySeq
<1>3. record.topic \in 1..MaxTopics /\ record.topic <= topics[p]
  BY <1>2 DEF IntakeInv, TopicsAreOld, Record
<1>4. /\ Between(n, p) /\ checkpoint[p].initial \in Nat /\ n \in Nat /\ n + 1 <= MaxLog
  <2>1. /\ Between(n, p) /\ checkpoint[p].initial \in Nat /\ n \in Nat
    BY <1>1, <1>2, PolledIsAssigned
  <2>2. n + Len(batch[w][p]) <= MaxLog
    BY <1>1, <1>2, PolledIsAssigned DEF IntakeInv, PositionedInside
  <2> QED
    BY <1>2, <2>1, <2>2
<1>5. row \in [offset : Nat, record : Record]
  BY <1>2, <1>4
<1>6. /\ checkpoint' \in [Partition -> [initial : Offset, next : Offset]]
      /\ checkpoint'[p].initial = checkpoint[p].initial /\ checkpoint'[p].next = n + 1
      /\ \A q \in Partition : q # p => checkpoint'[q] = checkpoint[q]
  <2>1. n + 1 \in Offset
    BY <1>4 DEF Offset
  <2>2. checkpoint \in [Partition -> [initial : Offset, next : Offset]]
    BY DEF IntakeInv, TypeOK
  <2> HIDE DEF n
  <2> QED
    BY <1>1, <2>1, <2>2
<1>7. /\ ingest' \in [Partition -> SUBSET [offset : Nat, record : Record]]
      /\ events' \in [Partition -> SUBSET Nat] /\ gaps' \in [Partition -> SUBSET Nat]
      /\ ingest'[p] = ingest[p] \cup {row}
      /\ events'[p] = IF record.class = "event" THEN events[p] \cup {n} ELSE events[p]
      /\ gaps'[p] = IF record.class = "quarantine" THEN gaps[p] \cup {n} ELSE gaps[p]
      /\ \A q \in Partition : q # p => /\ ingest'[q] = ingest[q]
                                       /\ events'[q] = events[q]
                                       /\ gaps'[q] = gaps[q]
  <2>1. /\ ingest \in [Partition -> SUBSET [offset : Nat, record : Record]]
        /\ events \in [Partition -> SUBSET Nat] /\ gaps \in [Partition -> SUBSET Nat]
        /\ n \in Nat
    BY <1>4 DEF IntakeInv, TypeOK
  <2> HIDE DEF n, row, record
  <2> QED
    BY <1>1, <1>5, <2>1
<1>8. row.offset = n /\ row.record = record
  OBVIOUS
<1> HIDE DEF n, row, record
<1>9. /\ TypeOK' /\ LogIsOfItsTopic' /\ TopicsAreOld' /\ MembersOwn'
      /\ CheckpointsBegin' /\ StartsInside' /\ PositionedInside' /\ PolledIsTheLog'
      /\ CommitsForward' /\ KafkaNeverAhead'
  <2>1. \A q \in Partition : /\ checkpoint'[q].initial = checkpoint[q].initial
                             /\ checkpoint[q].next <= checkpoint'[q].next
                             /\ q # p => checkpoint'[q] = checkpoint[q]
    <3>1. \A q \in Partition : checkpoint[q].next \in Int
      BY DEF IntakeInv, TypeOK, Offset
    <3> QED
      BY <1>4, <1>6, <3>1 DEF n
  <2>2. \A q \in Partition : \A r \in ingest'[q] : r.record.topic <= topics[q]
    BY <1>3, <1>7, <1>8 DEF IntakeInv, TopicsAreOld
  <2>3. cursor[w][p] < checkpoint'[p].next /\ Returns(w, p, checkpoint'[p].next)
    BY <1>1, <1>4, <1>6
  <2> QED
    BY <1>1, <1>6, <1>7, <2>1, <2>2, <2>3, ReturnKeepsIntake DEF StageEffect
<1>10. IntakeIsContiguous'
  <2>1. /\ {r.offset : r \in ingest[p]} =
             {k \in 0..MaxLog : checkpoint[p].initial <= k /\ k < n}
        /\ \A r, t \in ingest[p] : r.offset = t.offset => r = t
        /\ events[p] = {r.offset : r \in {x \in ingest[p] : x.record.class = "event"}}
        /\ gaps[p] = {r.offset : r \in {x \in ingest[p] : x.record.class = "quarantine"}}
    BY DEF IntakeInv, IntakeIsContiguous, n
  <2>2. {r.offset : r \in ingest'[p]} = {r.offset : r \in ingest[p]} \cup {n}
    BY <1>7, <1>8
  <2>3. {k \in 0..MaxLog : checkpoint'[p].initial <= k /\ k < checkpoint'[p].next} =
          {k \in 0..MaxLog : checkpoint[p].initial <= k /\ k < n} \cup {n}
    <3>1. n \in 0..MaxLog /\ checkpoint[p].initial <= n
      BY <1>4 DEF Between, n
    <3>2. \A k \in 0..MaxLog : k < n + 1 <=> k < n \/ k = n
      BY <1>4
    <3> QED
      BY <1>6, <3>1, <3>2
  <2>4. \A r \in ingest[p] : r.offset # n
    BY <1>4, <2>1
  <2>5. \A r, t \in ingest'[p] : r.offset = t.offset => r = t
    BY <1>7, <1>8, <2>1, <2>4
  <2>6. events'[p] = {r.offset : r \in {x \in ingest'[p] : x.record.class = "event"}}
    <3>1. CASE record.class = "event"
      <4>1. {x \in ingest'[p] : x.record.class = "event"} =
              {x \in ingest[p] : x.record.class = "event"} \cup {row}
        BY <1>7, <1>8, <3>1
      <4> QED
        BY <1>7, <1>8, <2>1, <3>1, <4>1
    <3>2. CASE record.class # "event"
      <4>1. {x \in ingest'[p] : x.record.class = "event"} =
              {x \in ingest[p] : x.record.class = "event"}
        BY <1>7, <1>8, <3>2
      <4> QED
        BY <1>7, <2>1, <3>2, <4>1
    <3> QED
      BY <3>1, <3>2
  <2>7. gaps'[p] = {r.offset : r \in {x \in ingest'[p] : x.record.class = "quarantine"}}
    <3>1. CASE record.class = "quarantine"
      <4>1. {x \in ingest'[p] : x.record.class = "quarantine"} =
              {x \in ingest[p] : x.record.class = "quarantine"} \cup {row}
        BY <1>7, <1>8, <3>1
      <4> QED
        BY <1>7, <1>8, <2>1, <3>1, <4>1
    <3>2. CASE record.class # "quarantine"
      <4>1. {x \in ingest'[p] : x.record.class = "quarantine"} =
              {x \in ingest[p] : x.record.class = "quarantine"}
        BY <1>7, <1>8, <3>2
      <4> QED
        BY <1>7, <2>1, <3>2, <4>1
    <3> QED
      BY <3>1, <3>2
  <2>8. ASSUME NEW q \in Partition, q # p
        PROVE  UNCHANGED <<checkpoint[q], ingest[q], events[q], gaps[q]>>
    BY <1>6, <1>7, <2>8
  <2>9. ASSUME NEW q \in Partition
        PROVE  /\ {r.offset : r \in ingest'[q]} =
                    {k \in 0..MaxLog : checkpoint'[q].initial <= k /\ k < checkpoint'[q].next}
               /\ \A r, t \in ingest'[q] : r.offset = t.offset => r = t
               /\ events'[q] = {r.offset : r \in {x \in ingest'[q] : x.record.class = "event"}}
               /\ gaps'[q] = {r.offset : r \in {x \in ingest'[q] : x.record.class = "quarantine"}}
    <3>1. CASE q = p
      BY <2>1, <2>2, <2>3, <2>5, <2>6, <2>7, <3>1
    <3>2. CASE q # p
      BY <2>8, <3>2 DEF IntakeInv, IntakeIsContiguous
    <3> QED
      BY <3>1, <3>2
  <2> QED
    BY <2>9 DEF IntakeIsContiguous
<1>11. IntakeIsTheLog'
  <2>1. ASSUME record.topic = topics[p]
        PROVE  n < Len(log[p]) /\ record = log[p][n + 1]
    <3>1. batch[w][p][1].topic = topics[p] /\ 1 \in 1..Len(batch[w][p])
      BY <1>2, <2>1
    <3>2. n + 1 <= Len(log[p]) /\ log[p][n + 1] = record
      BY <1>1, <1>2, <3>1 DEF IntakeInv, PolledIsTheLog
    <3>3. Len(log[p]) \in Nat
      BY DEF IntakeInv, TypeOK
    <3> QED
      BY <1>4, <3>2, <3>3
  <2> QED
    BY <1>1, <1>7, <1>8, <2>1 DEF IntakeInv, IntakeIsTheLog
<1> QED
  BY <1>9, <1>10, <1>11 DEF IntakeInv

\* Every step.
LEMMA StepIntakeInv == IntakeInv /\ [Next]_vars => IntakeInv'
<1> SUFFICES ASSUME IntakeInv, [Next]_vars PROVE IntakeInv'
  OBVIOUS
<1>1. CASE \E p \in Partition, class \in Class : Produce(p, class)
  BY <1>1, ProduceKeepsIntake
<1>2. CASE \E w \in Worker, p \in Partition : Assign(w, p)
  BY <1>2, AssignKeepsIntake
<1>3. ASSUME NEW w \in Worker, Exit(w), UNCHANGED <<log, earliest, committed, topics, tables>>,
             faults' \in 0..MaxFaults
      PROVE  IntakeInv'
  <2>1. /\ committed' \in [Partition -> Offset] /\ members \subseteq Worker
        /\ \A v \in Worker : pc[v] = "committing" /\ v \in members =>
             committed[target[v]] <= result[v]
    BY <1>3 DEF IntakeInv, TypeOK, CommitsForward
  <2>2. KafkaNeverAhead'
    BY <1>3 DEF IntakeInv, KafkaNeverAhead, tables
  <2>3. \A v \in members \ {w} : pc[v] = "committing" => committed'[target[v]] <= result[v]
    BY <1>3, <2>1
  <2> QED
    BY <1>3, <2>1, <2>2, <2>3, ExitKeepsIntake
<1>4. faults \in 0..MaxFaults /\ MaxFaults \in Nat
  BY ConstantsAssumption DEF IntakeInv, TypeOK
<1>5. ASSUME NEW w \in Worker, Run(w) PROVE IntakeInv'
  <2>1. CASE Start(w) \/ Join(w) \/ Poll(w) \/ CommitOffset(w)
    BY <2>1, StartKeepsIntake, JoinKeepsIntake, PollKeepsIntake, CommitOffsetKeepsIntake
  <2>2. CASE CommitRejected(w)
    BY <1>3, <1>4, <2>2 DEF CommitRejected
  <2>3. ASSUME NEW p \in Partition,
               ReadCommitted(w, p) \/ Initialize(w, p) \/ OnAssigned(w, p)
        PROVE  IntakeInv'
    BY <2>3, ReadCommittedKeepsIntake, InitializeKeepsIntake, OnAssignedKeepsIntake
  <2>4. ASSUME NEW p \in Partition,
               \/ RejectCheckpoint(w, p) \/ OutOfRange(w, p)
               \/ ClassificationFails(w, p) \/ StageRejected(w, p)
        PROVE  IntakeInv'
    BY <1>3, <1>4, <2>4 DEF RejectCheckpoint, OutOfRange, ClassificationFails, StageRejected
  <2>5. ASSUME NEW p \in Partition, StageNew(w, p) \/ StageDuplicate(w, p)
        PROVE  IntakeInv'
    BY <2>5, StageNewKeepsIntake, StageDuplicateKeepsIntake
  <2> QED
    BY <1>5, <2>1, <2>2, <2>3, <2>4, <2>5 DEF Run
<1>6. ASSUME NEW w \in Worker, Evict(w) \/ Crash(w) \/ CommitReplyLost(w) PROVE IntakeInv'
  <2>1. CASE Evict(w)
    BY <2>1, EvictKeepsIntake
  <2>2. CASE Crash(w)
    BY <1>3, <1>4, <2>2 DEF Crash
  <2>3. CASE CommitReplyLost(w)
    <3>1. /\ pc[w] = "committing" /\ w \in members /\ Exit(w) /\ faults' \in 0..MaxFaults
          /\ committed' = [committed EXCEPT ![target[w]] = OffsetToCommit(w)]
          /\ UNCHANGED <<log, earliest, topics, tables>>
      BY <1>4, <2>3 DEF CommitReplyLost
    <3>2. checkpoint' = checkpoint
      BY <3>1 DEF tables
    <3> QED
      BY <3>1, <3>2, GroupTakesOffset, ExitKeepsIntake
  <2> QED
    BY <1>6, <2>1, <2>2, <2>3
<1>7. CASE \E w \in Worker, p \in Partition : Revoke(w, p)
  BY <1>7, RevokeKeepsIntake
<1>8. CASE \E p \in Partition : Expire(p) \/ Replace(p)
  BY <1>8, ExpireKeepsIntake, ReplaceKeepsIntake
<1>9. CASE UNCHANGED vars
  <2>1. UNCHANGED <<log, earliest, committed, members, owner, topics, faults,
                    checkpoint, ingest, events, gaps, pc, begin, end, todo, seen, prepared,
                    durable, cursor, batch, result, target>>
    BY <1>9 DEF vars, kafkaVars, tables, startVars, loopVars
  <2>2. TypeOK'
    BY <2>1 DEF IntakeInv, TypeOK
  <2> QED
    BY <2>1, <2>2, Frames DEF IntakeInv
<1> QED
  BY <1>1, <1>2, <1>5, <1>6, <1>7, <1>8, <1>9 DEF Next, Fault

-----------------------------------------------------------------------------
\* What workers hold in memory fits the checkpoints and the log between any two
\* steps of any number of workers, whatever crashes, moves or is replaced.
THEOREM IntakeInvariant == Spec => []IntakeInv
<1>1. Init => IntakeInv
  BY InitIntakeInv
<1>2. IntakeInv /\ [Next]_vars => IntakeInv'
  BY StepIntakeInv
<1> QED
  BY <1>1, <1>2, PTL DEF Spec

\* No offset leaves the log bound, and every variable keeps its type.
THEOREM IntakeTypeCorrect == Spec => []TypeOK
<1>1. IntakeInv => TypeOK
  BY DEF IntakeInv
<1> QED
  BY <1>1, IntakeInvariant, PTL

\* The consumer group never gets an offset ahead of the durable checkpoint, whoever
\* commits and wherever a worker dies between stage and commit.
THEOREM CommitsAreDurable == Spec => []KafkaNeverAhead
<1>1. IntakeInv => KafkaNeverAhead
  BY DEF IntakeInv
<1> QED
  BY <1>1, IntakeInvariant, PTL

\* The checkpoint counts exactly the rows, events and discontinuities of the stage
\* transactions, from the initial offset on.
THEOREM CheckpointCountsRows == Spec => []IntakeIsContiguous
<1>1. IntakeInv => IntakeIsContiguous
  BY DEF IntakeInv
<1> QED
  BY <1>1, IntakeInvariant, PTL

\* A durable record of the current topic is the one Kafka holds at that offset.
THEOREM DurableIsTheLog == Spec => []IntakeIsTheLog
<1>1. IntakeInv => IntakeIsTheLog
  BY DEF IntakeInv
<1> QED
  BY <1>1, IntakeInvariant, PTL

\* As long as its topic lives, no worker presents a message stage has to refuse,
\* however often its partition was rebalanced.
THEOREM NothingIsRefused == Spec => []StageNeverRejects
<1>1. ASSUME IntakeInv, NEW w \in Worker, NEW p \in Partition,
             topics[p] = 1, batch[w][p] # <<>>
      PROVE  /\ cursor[w][p] <= checkpoint[p].next
             /\ cursor[w][p] < checkpoint[p].next => Matches(p, cursor[w][p], Head(batch[w][p]))
  <2> USE ConstantsAssumption
  <2> DEFINE n == cursor[w][p]
             record == Head(batch[w][p])
  <2>1. /\ batch[w][p] \in Seq(Record) /\ 1 \in 1..Len(batch[w][p])
        /\ record = batch[w][p][1] /\ record \in Record
    <3>1. batch[w][p] \in Seq(Record)
      BY <1>1 DEF IntakeInv, TypeOK
    <3> QED
      BY <1>1, <3>1, EmptySeq
  <2>2. Between(n, p) /\ n \in Nat /\ checkpoint[p].next \in Nat
    BY <1>1, <2>1, PolledIsAssigned
  <2>3. n <= checkpoint[p].next
    BY <2>2 DEF Between
  <2>4. ASSUME n < checkpoint[p].next PROVE Matches(p, n, record)
    <3>1. PICK row \in ingest[p] : row.offset = n
      <4>1. n \in {row.offset : row \in ingest[p]}
        <5>1. n \in 0..MaxLog
          BY <1>1, <2>2, <2>4, RowsAreNumbers DEF IntakeInv
        <5> QED
          BY <1>1, <2>2, <2>4, <5>1 DEF IntakeInv, IntakeIsContiguous, Between
      <4> QED
        BY <4>1
    <3>2. row \in [offset : Nat, record : Record]
      BY <1>1 DEF IntakeInv, TypeOK
    <3>3. row.record.topic = 1 /\ record.topic = 1
      <4>1. row.record.topic \in 1..MaxTopics /\ row.record.topic <= 1
        BY <1>1, <3>2 DEF IntakeInv, TopicsAreOld, Record
      <4>2. record.topic \in 1..MaxTopics /\ record.topic <= 1
        BY <1>1, <2>1 DEF IntakeInv, TopicsAreOld, Record
      <4> QED
        BY <4>1, <4>2
    <3>4. row.record = log[p][n + 1]
      BY <1>1, <3>1, <3>3 DEF IntakeInv, IntakeIsTheLog
    <3>5. log[p][n + 1] = record
      BY <1>1, <2>1, <3>3 DEF IntakeInv, PolledIsTheLog
    <3>6. row = [offset |-> n, record |-> record]
      BY <3>1, <3>2, <3>4, <3>5
    <3> QED
      BY <3>1, <3>6 DEF Matches
  <2> QED
    BY <2>3, <2>4
<1>2. IntakeInv => StageNeverRejects
  BY <1>1 DEF StageNeverRejects
<1> QED
  BY <1>2, IntakeInvariant, PTL

-----------------------------------------------------------------------------
(* What a worker leaves behind.                                            *)

\* The end of one process takes no message from another.
LEMMA ExitOfOther ==
  ASSUME TypeOK, NEW v \in Worker, Exit(v), NEW w \in Worker, pc'[w] # "down"
  PROVE  batch'[w] = batch[w]
BY DEF TypeOK, Exit

\* Neither does a message another one consumes, or one of another partition.
LEMMA ReturnOfOther ==
  ASSUME TypeOK, NEW v \in Worker, NEW q \in Partition, NEW n, Returns(v, q, n),
         NEW w \in Worker, NEW p \in Partition, ~(v = w /\ q = p)
  PROVE  batch'[w][p] = batch[w][p]
BY DEF TypeOK, Returns

\* Only the two outcomes of stage take a message away from a living worker.
LEMMA ConsumedStep ==
  ASSUME IntakeInv, [Next]_vars, NEW w \in Worker, NEW p \in Partition,
         batch[w][p] # <<>>, batch'[w][p] = Tail(batch[w][p]), pc'[w] # "down"
  PROVE  [offset |-> cursor[w][p], record |-> Head(batch[w][p])] \in ingest'[p]
<1>1. TypeOK
  BY DEF IntakeInv
<1>2. batch'[w][p] # batch[w][p]
  <2>1. batch[w][p] \in Seq(Record)
    BY <1>1 DEF TypeOK
  <2>2. Len(Tail(batch[w][p])) # Len(batch[w][p])
    BY <2>1, EmptySeq
  <2> QED
    BY <2>2
<1>3. CASE UNCHANGED batch
  BY <1>2, <1>3
<1>4. ASSUME NEW v \in Worker, Exit(v) PROVE FALSE
  BY <1>1, <1>2, <1>4, ExitOfOther
<1>5. ASSUME NEW v \in Worker, Poll(v) PROVE FALSE
  <2>1. CASE v = w
    BY <1>5, <2>1 DEF Poll, Polling, Drained
  <2>2. CASE v # w
    <3>1. batch'[w] = batch[w]
      BY <1>1, <1>5, <2>2 DEF Poll, TypeOK
    <3> QED
      BY <1>2, <3>1
  <2> QED
    BY <2>1, <2>2
<1>6. ASSUME NEW v \in Worker, NEW q \in Partition, StageNew(v, q) \/ StageDuplicate(v, q)
      PROVE  [offset |-> cursor[w][p], record |-> Head(batch[w][p])] \in ingest'[p]
  <2>1. \E n : Returns(v, q, n)
    BY <1>6 DEF StageNew, StageDuplicate
  <2>2. v = w /\ q = p
    BY <1>1, <1>2, <2>1, ReturnOfOther
  <2>3. CASE StageNew(w, p)
    BY <1>1, <2>3 DEF StageNew, MessageOffset, TypeOK
  <2>4. CASE StageDuplicate(w, p)
    BY <2>4 DEF StageDuplicate, Matches, tables
  <2> QED
    BY <1>6, <2>2, <2>3, <2>4
<1>7. ASSUME NEW v \in Worker, Run(v)
      PROVE  \/ UNCHANGED batch \/ Poll(v) \/ Exit(v)
             \/ \E q \in Partition : StageNew(v, q) \/ StageDuplicate(v, q)
  BY <1>7
  DEF Run, Start, Join, CommitOffset, CommitRejected, ReadCommitted, Initialize,
      RejectCheckpoint, OnAssigned, OutOfRange, ClassificationFails, StageRejected, loopVars
<1>8. ASSUME Fault
      PROVE  UNCHANGED batch \/ \E v \in Worker : Exit(v)
  BY <1>8 DEF Fault, Evict, Crash, CommitReplyLost, Revoke, Expire, Replace, loopVars
<1>9. CASE \/ \E q \in Partition, class \in Class : Produce(q, class)
           \/ \E v \in Worker, q \in Partition : Assign(v, q)
           \/ UNCHANGED vars
  BY <1>3, <1>9 DEF Produce, Assign, vars, loopVars
<1> QED
  BY <1>3, <1>4, <1>5, <1>6, <1>7, <1>8, <1>9 DEF Next

\* A message a worker leaves behind is durable exactly as it was polled.
THEOREM NothingIsSkipped == Spec => ConsumedIsDurable
<1>1. IntakeInv /\ [Next]_vars =>
        [\A w \in Worker, p \in Partition :
           batch[w][p] # <<>> /\ batch'[w][p] = Tail(batch[w][p]) /\ pc'[w] # "down" =>
             [offset |-> cursor[w][p], record |-> Head(batch[w][p])] \in ingest'[p]]_vars
  BY ConsumedStep
<1> QED
  BY <1>1, IntakeInvariant, PTL DEF Spec, ConsumedIsDurable

-----------------------------------------------------------------------------
(* The refinement of IntakeLog.                                            *)

\* Before the first start nothing is durable.
LEMMA InitIsLog == Init => Log!Init
BY DEF Init, Log!Init, NoRow, Nothing

\* A new checkpoint begins the stream at the beginning of the partition; a stored one
\* leaves it alone.
LEMMA InitializeBegins ==
  ASSUME IntakeInv, NEW w \in Worker, NEW p \in Partition, Initialize(w, p)
  PROVE  [Log!Next]_(Log!vars)
<1>1. /\ checkpoint' = [checkpoint EXCEPT ![p] = Found(w, p)]
      /\ UNCHANGED <<ingest, committed>>
  BY DEF Initialize, kafkaVars
<1>2. checkpoint \in [Partition -> [initial : Offset, next : Offset]]
  BY DEF IntakeInv, TypeOK
<1>3. CASE checkpoint[p] # NoRow
  <2>1. checkpoint' = checkpoint
    BY <1>1, <1>2, <1>3 DEF Found
  <2> QED
    BY <1>1, <2>1 DEF Log!vars
<1>4. CASE checkpoint[p] = NoRow
  <2>1. begin[w][p] \in Nat
    <3>1. 0 <= begin[w][p] /\ begin[w][p] \in Offset
      BY DEF Initialize, IntakeInv, TypeOK, StartsInside
    <3> QED
      BY <3>1 DEF Offset
  <2>2. /\ checkpoint'[p].next = begin[w][p] /\ checkpoint[p].next = -1
        /\ \A q \in Partition : q # p => checkpoint'[q] = checkpoint[q]
    <3>1. /\ checkpoint'[p] = Found(w, p)
          /\ \A q \in Partition : q # p => checkpoint'[q] = checkpoint[q]
      BY <1>1, <1>2
    <3>2. Found(w, p).next = begin[w][p] /\ checkpoint[p].next = -1
      BY <1>4 DEF Found, NoRow
    <3> QED
      BY <3>1, <3>2
  <2>3. [q \in Partition |-> checkpoint[q].next]' =
          [[q \in Partition |-> checkpoint[q].next] EXCEPT ![p] = begin[w][p]]
    BY <2>2
  <2>4. Log!Begin(p, begin[w][p])
    BY <1>1, <2>2, <2>3 DEF Log!Begin
  <2> QED
    <3>1. [q \in Partition |-> checkpoint[q].next]'[p] = begin[w][p]
      BY <2>2
    <3> QED
      BY <2>1, <2>4, <3>1 DEF Log!Next, Log!Begin
<1> QED
  BY <1>3, <1>4

\* Staging appends the record at the next offset.
LEMMA StageAppends ==
  ASSUME IntakeInv, NEW w \in Worker, NEW p \in Partition, StageNew(w, p)
  PROVE  Log!Next
<1> DEFINE record == Head(batch[w][p])
           n == checkpoint[p].next
<1>1. /\ batch[w][p] # <<>> /\ cursor[w][p] = n
      /\ checkpoint' = [checkpoint EXCEPT ![p].next = n + 1]
      /\ ingest' = [ingest EXCEPT ![p] = @ \cup {[offset |-> n, record |-> record]}]
      /\ committed' = committed
  BY DEF StageNew, MessageOffset, AdvanceCheckpoint, Returns, kafkaVars
<1>2. batch[w][p] \in Seq(Record)
  BY DEF IntakeInv, TypeOK
<1>3. record \in Record /\ Len(batch[w][p]) # 0
  BY <1>1, <1>2, EmptySeq
<1>4. n \in Nat
  BY <1>3, PolledIsAssigned
<1>5. checkpoint \in [Partition -> [initial : Offset, next : Offset]]
  BY DEF IntakeInv, TypeOK
<1>6. [q \in Partition |-> checkpoint[q].next]' =
        [[q \in Partition |-> checkpoint[q].next] EXCEPT ![p] = @ + 1]
  <2>1. /\ checkpoint'[p].next = n + 1
        /\ \A q \in Partition : q # p => checkpoint'[q] = checkpoint[q]
    <3> HIDE DEF n
    <3> QED
      BY <1>1, <1>5
  <2> QED
    BY <2>1
<1>7. [q \in Partition |-> checkpoint[q].next][p] = n /\ n # -1
  BY <1>4
<1>8. Log!Append(p, record)
  BY <1>1, <1>6, <1>7 DEF Log!Append
<1> QED
  <2>1. Log!Append(p, record) /\ record \in Record
    BY <1>3, <1>8
  <2> HIDE DEF record
  <2>2. \E r \in Record : Log!Append(p, r)
    BY <2>1 DEF Log!Append
  <2> QED
    BY <2>2 DEF Log!Next

\* A commit, also one whose reply is lost, acknowledges a durable offset.
LEMMA CommitAcknowledges ==
  ASSUME IntakeInv, NEW w \in Worker, pc[w] = "committing", w \in members,
         committed' = [committed EXCEPT ![target[w]] = OffsetToCommit(w)],
         UNCHANGED tables
  PROVE  Log!Next
<1>1. UNCHANGED <<checkpoint, ingest>>
  BY DEF tables
<1>2. /\ target[w] \in Partition /\ result[w] \in Nat
      /\ committed[target[w]] <= result[w]
  BY <1>1, GroupTakesOffset
<1>3. result[w] <= checkpoint[target[w]].next
  BY DEF IntakeInv, CommitsForward
<1>4. committed'[target[w]] = result[w] /\ committed' = [committed EXCEPT ![target[w]] = result[w]]
  BY <1>2 DEF IntakeInv, TypeOK, OffsetToCommit
<1>5. Log!Acknowledge(target[w], result[w])
  BY <1>1, <1>2, <1>3, <1>4 DEF Log!Acknowledge
<1> QED
  BY <1>2, <1>4, <1>5 DEF Log!Next

\* Every step appends, begins or acknowledges, or leaves the stream alone.
LEMMA StepIsLog ==
  ASSUME IntakeInv, [Next]_vars
  PROVE  [Log!Next]_(Log!vars)
<1>1. CASE UNCHANGED <<checkpoint, ingest, committed>>
  BY <1>1 DEF Log!vars
<1>2. ASSUME NEW w \in Worker, Run(w)
      PROVE  [Log!Next]_(Log!vars)
  <2>1. CASE CommitOffset(w)
    BY <2>1, CommitAcknowledges DEF CommitOffset
  <2>2. ASSUME NEW p \in Partition, Initialize(w, p) \/ StageNew(w, p)
        PROVE  [Log!Next]_(Log!vars)
    BY <2>2, InitializeBegins, StageAppends
  <2>3. \/ UNCHANGED <<checkpoint, ingest, committed>> \/ CommitOffset(w)
        \/ \E p \in Partition : Initialize(w, p) \/ StageNew(w, p)
    BY <1>2
    DEF Run, Start, Join, Poll, CommitRejected, ReadCommitted, RejectCheckpoint, OnAssigned,
        OutOfRange, ClassificationFails, StageDuplicate, StageRejected, Returns,
        kafkaVars, tables
  <2> QED
    BY <1>1, <2>1, <2>2, <2>3
<1>3. ASSUME NEW w \in Worker, CommitReplyLost(w)
      PROVE  [Log!Next]_(Log!vars)
  BY <1>3, CommitAcknowledges DEF CommitReplyLost, tables
<1>4. ASSUME Fault, \A w \in Worker : ~CommitReplyLost(w)
      PROVE  UNCHANGED <<checkpoint, ingest, committed>>
  BY <1>4 DEF Fault, Evict, Crash, Revoke, Expire, Replace, tables
<1>5. CASE \/ \E q \in Partition, class \in Class : Produce(q, class)
           \/ \E v \in Worker, q \in Partition : Assign(v, q)
           \/ UNCHANGED vars
  BY <1>1, <1>5 DEF Produce, Assign, vars, kafkaVars, tables
<1> QED
  BY <1>1, <1>2, <1>3, <1>4, <1>5 DEF Next

\* All workers and faults together append to one durable stream per partition and
\* acknowledge it forward only.
THEOREM IntakeIsALog == Spec => IntakeImplementsLog
<1>1. Init => Log!Init
  BY InitIsLog
<1>2. IntakeInv /\ [Next]_vars => [Log!Next]_(Log!vars)
  BY StepIsLog
<1> QED
  BY <1>1, <1>2, IntakeInvariant, PTL DEF Spec, IntakeImplementsLog, Log!Spec
=============================================================================
