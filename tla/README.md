# Updatis: TLA+ models, model checking and proofs

This directory holds a verification project for the repository: TLA+ modules translated from the code, TLC
configurations that check them on small instances, and proofs that TLAPS checks. `PROJECT.json` lists the runs, the
source lines of every definition, the mutants each property must detect, the findings and the hazards.

## 1. The system

The repository holds two programs over one idea (row changes captured by Debezium, carried by Kafka, delivered to
consumers).

*The product* (`src/updatis`), built in phases; intake and leasing exist, delivery attempts do not yet:

| Component | State | Operations | Hard behaviour |
|---|---|---|---|
| capture provisioning (`capture/`) | metadata rows of a pipeline and its epoch; the Kafka Connect connector; the source's replication slot | `provision`: inspect the source, record or compare, look up, post, mark registered | concurrent and repeated invocations, lost replies, crashes between Connect and metadata, operators |
| durable intake (`kafka/consumer.py`, `intake/`) | checkpoint, ingest records, events, discontinuities; the group offset in Kafka; per worker: prepared and durable offsets, polled batch | start-up checks, rebalance callbacks, poll, `stage`, commit | two commits that are not atomic, rebalances and evictions, retention, recreated topics |
| normalization (`normalization/`) | none | a record to an event, a quarantine or a control outcome | many input shapes; pure |
| delivery lanes and leases (`delivery/`, migrations 0003–0005) | deliveries with owner, expiry and fencing generation; lanes with `last_examined_at` | `materialize_delivery`, `acquire_heads`, `renew_claim`, `complete_claim` | concurrent transactions, row and lane locks, SKIP LOCKED, expiry, stale owners |
| migrations (`db/migrate.py`) | schema revision | upgrade under an advisory lock | two jobs at once |
| worker and API processes, configuration | process life cycle; none | start, stop, health; validation | – |

*The legacy application* (`src/app`): a Kafka consumer that inserts into `notification_events`, a dispatch loop that
claims rows and broadcasts them to WebSocket clients, the WebSocket manager with its cleanup task, a rate limiter and a
small orders API. Its state is the MySQL table (status, attempts, `available_at`, `locked_at`), the dead letters, and
the in-memory connections. The hard part is several instances over one table, with a processing timeout instead of a
fence. In memory, coroutines share the connections of an instance and interleave at every await.

How they interact: provisioning creates the epoch whose topics intake reads; intake advances the checkpoint and
inserts events and discontinuities; deliveries are materialized from events and grouped in lanes (pipeline, epoch,
topic, partition); workers lease lane heads. In the legacy application the consumer and the dispatcher meet in the
table only, the dispatcher and the WebSocket endpoints in the connection manager.

What makes each component correct is the list of properties in section 3; the hazards that led to them are in
`PROJECT.json`.

## 2. Modules

| Module | Models |
|---|---|
| `FencedLease` | abstract: per lane at most one lease, each with a new token of its item |
| `LaneLeases` | the delivery repository statement by statement; implements `FencedLease` |
| `LaneLeasesProofs` | theorems about `LaneLeases`: leases and locks; claims, fences, order within a lane, the refinement of `FencedLease` |
| `LaneRotation` | which lanes `acquire_heads` examines, in which order; liveness |
| `LaneRotationProofs` | theorems about `LaneRotation` |
| `IntakeLog` | abstract: an append-only stream and an acknowledged prefix of it |
| `DurableIntake` | `run_consumer`, its listener, the intake repository; implements `IntakeLog` |
| `DurableIntakeProofs` | theorems about `DurableIntake`, the refinement of `IntakeLog` |
| `Provisioning` | `provision` against metadata, Connect, slots and source |
| `ProvisioningProofs` | theorems about `Provisioning` |
| `Normalization` | `normalize_record` check by check, and the stage of its result |
| `NormalizationProofs` | theorems about `Normalization` |
| `LegacyIngest` | the legacy consumer: rows, dead letters and commits of all partitions at once |
| `LegacyIngestProofs` | theorems about `LegacyIngest` |
| `NotificationQueue` | the legacy queue and its dispatch loops |
| `NotificationQueueProofs` | theorems about `NotificationQueue` |
| `WebSocketBroadcast` | the legacy connection manager, its endpoints, cleanup task and broadcasts |
| `WebSocketBroadcastProofs` | theorems about `WebSocketBroadcast` |
| `MC*` | finite instances for TLC |

### LaneLeases

`deliveries` is the committed table. A transaction that holds a row lock has its own version of the row in `working`;
`rowLock` and `laneLock` are the `FOR UPDATE` locks on `deliveries` and `delivery_lanes`. `tx` is the transaction each
worker has open and `held` are the claims it was returned. One action is one statement that can block or be interleaved:
`acquire_heads` is `AcquireBegin` (the candidate page), then for each lane `PassOver` or `LockHead`, then `Commit`;
`renew_claim` is `RenewLock` and `RenewUpdate`; `complete_claim` is `Complete`; `materialize_delivery` with the triggers
of migrations 0004 and 0005 is `Materialize`. `Rollback` is any exception or timeout, `Crash` a lost process.
Time is relative: `ttl` is what is left of a lease, and `Tick` ages all leases at once. `transaction_timeout` is the
guard of `Tick`: no transaction gets older than it. `Stage` advances the intake checkpoint behind a lane so that
discontinuities appear while deliveries are materialized and leased. The attempt engine of later phases is the external
action `Resolve`.

States `pending` and `attempting` are one, `acknowledged` and `terminal` are one: no statement tells them apart.
`AcquireBegin` allows any page of unlocked lanes; `LaneRotation` refines that choice.

### LaneRotation

Only the rotation is kept: `order` compares the values of `last_examined_at`, as the set of pairs of entries of which the
first is no later than the second. A lane has its `Committed` entry and, while a transaction examines it, the `Stamp` that
the transaction has written and other transactions do not see; a commit lets the stamps take the place of what they were
written over, a rollback drops them. A lane that is being registered has a stamp alone, with the time of its `INSERT`, and
gets its committed entry when the insertion commits: by then lanes that were examined in between have later values, so
that a new lane may appear in front of lanes that are there already. `Materialize` is the insertion with its trigger and
keeps the lane locked until `CommitMaterialize` or `RollbackMaterialize`; `RenewLock` and `RenewUnlock` are the lock that
`renew_claim` takes, on a claim that may be stale. `page` is what a call still has to examine: a prefix of the free lanes
in their order (`IsPage`), where a lane that any of these transactions holds is not free and is passed over without being
examined, as by `SKIP LOCKED`.

The candidate query is one step: it sees one state of the table and locks its whole page, where PostgreSQL reads a snapshot
and locks row by row. What lies between the two can only turn a free lane into a skipped one, which the model has as well.
The head rows are not locked here: a head that `complete_claim` holds at the moment its lease ends is passed over once and
is there at the next examination.

`FairSpec` assumes that callers go on calling (`acquire_heads` has no loop of its own: the design says no polling loop is
enabled, so this is an assumption on the caller), that a transaction goes on until it ends (`transaction_timeout` ends those
that do not), and that leases end. Nothing is assumed of insertions and renewals but that each ends: they may lock a lane
again and again just when the candidate query comes by. Hence the form of the two liveness properties: a lane is examined
infinitely often *or* is locked by others infinitely often, and likewise for the lease of its head. When the claim limit is
below the page, as the defaults are (25 and 100), lanes that the limit skips are stamped as well, so examination is fair but
leasing is not guaranteed: `EveryHeadIsLeased` allows that each call that examines the lane has leased its limit of others
before (`Skipped`), which cannot happen when the two are equal.

### DurableIntake

The Kafka side (`log`, `earliest`, `committed`, `members`, `owner`) is external and as adverse as Kafka is: evictions
that the worker does not notice before its next poll or commit, commit replies that are lost, retention past unread
records, topics deleted and recreated. A worker goes through start-up (offsets of all partitions, then
`ReadCommitted`/`Initialize` per partition), then polls, stages record by record and commits after every record. The
transaction of `stage` is one action because it runs under the row lock of its checkpoint. A record is its
classification: event, control, quarantine, or one whose classification raises; `Normalization` says which record is
which. The offsets a worker reads at start-up (`begin`, `end`) are dropped when they have served, since nothing looks at
them again. Every exception ends the process, as in
the code; `Start` is the supervisor that starts it again. The deployment files give no restart policy, so `WF` on
`Start` is an assumption on the environment; so is the coordinator's `WF` on `Assign`.

### Provisioning

An invocation is a program counter over the steps of `provision` with what it read before its transaction (`doc`,
`seen`). A document stands for a pipeline configuration with its epoch and its immutable connector properties. The
metadata transaction is one action: it runs under an advisory lock. Connect, the source schema, the slot and operators
are external. `captured` is history: every configuration the connector of an epoch has ever had, whoever gave it. It lets
`RegisteredWasCaptured` say what registration promises after operators have changed or deleted the connector: that it was
the right one at some time.

### Normalization

A record is what the checks of `normalize_record` tell apart: the state of its two documents, of their schemas, of the
source block, the rows and the key cell by cell, the timestamp, the values that are copied unseen (`metadata`: `db`, `txId`
and `lsn` of the source, `ts_ms` of the payload) and the size. It starts as a change Debezium emits for one of the
`Manifests` and deviates from it in up to `MaxDeviations` places. `Checks` is the sequence of the function's
checks in their order, each with what it raises: "malformed", "unsupported", or "escapes" for an exception that
`normalize_record` does not catch. The first that fails decides.

A cell is a class of JSON values, and three tables say by type what becomes of it: `Accepted` the classes `_convert` takes,
`Escaping` those whose conversion raises what nobody catches, `JsonbRefuses` those the INSERT of the event fails for. The
classes keep apart the values whose fate differs: PostgreSQL's own name of a value that is not finite (`infinity`) and the
names only `Decimal` knows (`spelled`), escaped NULs and half surrogate pairs (`nul`, `surrogate`), integers outside bigint
(`wide`) and outside a double (`huge`), bare `NaN` and `Infinity` of JSON (`nonfinite`), JSON nested too deep for Python
(`deep`), and `beyond`: an exponent whose digits fill the memory, a timestamp whose UTC leaves the years 1 to 9999, a number
in a JSON text that is infinite as a double. A record's `timestamp` is "invalid" after the year 9999, which is a ValueError,
and "overflow" when no float or `time_t` holds it, which is an OverflowError or an OSError.

`Sends` says which cells the source itself may send, and `Quarantined` which of them have no envelope: values that are not
finite, years outside 1 to 9999, JSON that Python does not read, and text that is no UTF-8. Of a change as the source sends
it (`AsSent`) the rows are complete or absent, as with the replica identity the configuration demands. A JSON text that
Python reads and is too deep to be encoded again, a window of a few levels, is not told apart from one too deep to be read.

The clock enters twice: an envelope holds the time of its ingestion, whose text is shorter on a whole second, so
`Classify` has it as a parameter, and a record that is delivered again (`StageAgain`) is classified at another time.

### LegacyIngest

One process over all partitions. An action is one statement or one call of Kafka; reconnecting to MySQL, however long it
takes, is part of `StatementFails`, which the loop leaves with its position past the record. `Commit` commits the
positions of all partitions. The three ways a failing commit ends are those of the code: after an event the exception is
logged, after a tombstone or a dead letter it ends the process. An evicted consumer goes on with what it had fetched
until it joins again. `WF` on `Consume` assumes that the process is restarted and that MySQL comes back. The topic keeps its
records as long as the group needs them: with `auto_offset_reset="earliest"` (`kafka_consumer.py:219`) a consumer whose
offset retention had passed would go on behind the gap without a sign, and what it skips there is left out.

### WebSocketBroadcast

The application is one event loop: an action is what runs between two awaits. `registered` is the key set of both
dictionaries, which change together. `gone` are closed sockets and those whose peer has left: nothing more arrives from
them and a send may raise, but need not. `Cleanup` forgets a connection and leaves its socket and endpoint alone, as the
code does; `TimeOut` is the receive timeout. A broadcast takes its snapshot in `Begin`, sends to one client after the
other and disconnects the failed ones in `Finish`. The fairness is that of asyncio: what can run does, time passes, and
the cleanup task goes on after its errors. Nothing is assumed of clients. `reached` and `steady` are history.

### NotificationQueue

`row` is the table, `batch` the claims of an instance, `lock` the rows a claim transaction has selected and not
committed. A page is any sequence of free, due rows in the order of `created_at` that leaves out only later ones, and
those only when it is full (`IsPage`). The three marks test nothing but the event id, as in the code. `Abandon` is a crash
or a database error: the rest of the batch stays in `processing`. `BroadcastRaises` is an error outside the per-client
handler of `ConnectionManager.broadcast`, which catches everything a client causes.

`claim_due_events` reads the clock, waits for a connection of the pool, and then compares and writes the old reading. `Poll`
is the reading, `held` the time since it, and `Select` and `Claim` work with it: a row is due by that clock, and the
`locked_at` of a claim is as old as the wait was long. `MaxWait` bounds the wait. `mark_failed` reads the clock before its
wait as well, so the retry delay it stores may be partly or wholly over when it commits.

`late`, `sent` and `failures` are history variables for the properties. `late` says that some instance has held a batch
when the clock reading of its claim was older than the processing timeout, whether its broadcasts or its wait for the pool
took the time. That is the code's own clock: `locked_at` is that reading.

## 3. Runs

| Run | Asks | Bounds |
|---|---|---|
| `LaneLeases_one` | one lane, leases and locks: no double lease, no overtaking, unique and monotone fences, live leases untouched, fresh claims; implements `FencedLease` | 2 workers, 2 deliveries whose id order is the reverse of their offsets, generation up to 2, lease 4 ticks, window 1, transaction 2 |
| `LaneLeases_two` | a shared page and claim limit; nothing behind a discontinuity is leased | 2 lanes, 3 deliveries, limit 1 in a page of 2, one quarantined offset |
| `LaneRotation_fair` | turns survive rollbacks, skipped locks and lanes that are being inserted; every lane is examined and every head leased in its turn, or locked or skipped again and again | 3 lanes, 1 worker, limit 1 in a page of 2, 1 rollback |
| `DurableIntake_intake` | intake is contiguous and is the log; Kafka is never ahead; implements `IntakeLog`, also when the topic is recreated; every record becomes durable that can | 2 workers, 1 partition, 2 topics of 2 records of 3 classes, 2 faults |
| `Provisioning_safety` | the first document wins; what is registered has been captured as its stored document asks | 2 invocations repeated without bound, 4 documents, 2 epochs, 1 schema change, 2 operator actions |
| `NotificationQueue_settled` | every event settles; outcomes are earned and, without a late instance, exclusive and final | 2 instances, 2 events, batches of 2, timeout 1, pool wait up to 2, 3 faults |
| `Normalization_records` | what is stored of a record is justified by it; only named faults end the worker | one column of each of 11 types beside the key, a composite key, a dropped column; 2 deviations |
| `LegacyIngest_partitions` | only records whose own processing failed are lost; every record is processed | 2 partitions, 3 records, 2 changes, 2 faults |
| `WebSocketBroadcast_clients` | no entry is leaked; counts are honest; who stays is reached, who vanishes is forgotten | 2 connections, 2 broadcasters, limits of 1 tick |
| `DurableIntake_independent`, `Provisioning_wal`, `Normalization_dropped` | violations: section 5 | 1–2 actors |

Why the bounds are enough: every property relates at most two workers and two deliveries (or offsets) of one lane; a
second lane matters only through the shared page and limit, which `LaneLeases_two` has. Two generations are needed for
a stale claim and its successor. The timing constants keep the order the code has (30 s lease, 10 s window, 15 s
transaction: transaction + window < lease), with every comparison reachable from both sides. Two records let a batch
hold a duplicate and a new record at once; two faults let a crash follow an eviction. Three lanes are the least in
which a page of two can pass one over, and a limit of one below it leaves a lane stamped and unleased.
`LaneRotation_fair` has one worker: of a lane that waits, another one locks and stamps only others, which brings it
forward, or examines it itself, and then does what the properties ask or allow; a rotation of three lanes with two
workers is too large for the liveness check. The two safety properties, whose arguments do depend on whose stamps are
whose, are proved for any number of workers. A pool wait of one more than the processing timeout is the least after
which a claim is stale when it is written. Symmetry is used in runs without liveness only. Two deviations let
one fault of a record hide another, which is what the order of the checks decides; types are independent of each
other, so one column of each is enough. Two broadcasters are the dispatcher and an internal request, whose failures
and disconnects cross; the ticks only have to put the receive timeout before or after the cleanup. Three records over
two partitions let one commit pass a record of each.

`CHECK_DEADLOCK FALSE` is set where the system may stop: all bounded deliveries resolved with generations exhausted,
all records staged and committed, no lane registered.

Fairness: section 2 names each assumption. Faults are never fair; they are bounded in number.

## 4. Proofs

`LaneLeasesProofs`, for any number of workers, lanes, deliveries and any constants that satisfy the assumptions:

* `TypeCorrect`, `LeaseInvariant`, `NoDoubleLease`: `Spec => []TypeOK`, `[]LeaseInv`, `[]OneActiveLeasePerLane`.
  `OneActiveLeasePerLane` is not inductive: a renewal that passed its expiry check has lease time on its uncommitted row
  while the committed row expires. `LeaseInv` adds that lease time beyond the committed one is only ever written by the
  holder of the lane lock (`ExtensionHoldsLane`), that a renewal and a page hold the lanes they are about
  to write in, and that at most one row of a lane has lease time, committed or not (`OneOccupiedPerLane`). Each action
  is then shown to preserve each conjunct it can disturb.
* `NoClaimTwice`, `DiscontinuityBlocks`, `HeadsOnly`, `LiveLeaseStays`, `FreshClaims`, `LimitedClaims`:
  `Spec => []ClaimsAreUnique`, `[]NothingLeasedPastDiscontinuity` and the action properties `NoOvertake`,
  `LiveLeaseIsSafe`, `ReturnedClaimIsFresh` and `AtMostLimitClaims`.
* `LanesAreFenced`: `Spec => EveryLaneIsFenced`, the refinement of `FencedLease` by every lane at once. Each step is shown
  to grant, end or keep the lease of each lane, or to stutter.

  All of these are about what a commit makes visible, and are not inductive: the decision is taken under a lock, several
  statements earlier. `FencingInv` (`FencingInvariant`) adds to `LeaseInv` what each kind of transaction has made of a row
  it has locked (`Written`: a lease has the next generation, lacks at most the age of its transaction and was written over
  an expired one; a renewal and a completion keep the generation, and the committed row still names their worker), that a lease about to
  be committed is still that of the head of its lane (`HeadsAreLeased`, where a delivery may be materialized in front of
  it only under the lane lock that the acquirer has), that nothing is materialized beyond the checkpoint
  (`MaterializedIsStaged`, which is why no discontinuity appears in front of a lease later), and that what a call has
  leased so far is finite and within its limit (`WithinLimit`, with `Cardinality` from the library's theorems on finite
  sets).

`ProvisioningProofs`, for any number of invocations, documents and epochs:

* `ProvisionInvariant`: `Spec => []ProvisionInv`, and from it `ProvisioningTypeCorrect`, `FirstDocumentWins`
  (`RecordedStays`), `RegisteredEpochIsCaptured` (`RegisteredIsCaptured`) and `OnlyOneEpochIsCaptured`
  (`OneEpochIsCaptured`). `RecordedStays` needs only the type invariant and that every running invocation has its
  document (`Begun`): a stored value is only replaced by an equal one (`Agrees`). The other two say what is true of a
  *registered* epoch and are not inductive: registration comes last, after the connector. `CapturedByRecord` therefore
  speaks of every connector: until somebody edits Connect, the only connector is the one of the stored document, and an
  invocation that is past the post or past finding it still sees it. A post comes from an invocation whose document is
  the stored one (`RecordedStays`), which is what ties the new connector to the record.

* `RegisteredEpochWasCaptured`: `Spec => []RegisteredWasCaptured`, which needs no assumption on operators: a registered
  epoch has at some time run the connector its stored document asks for. An invocation is led to the marking by `Post`, by
  `Recheck`, and by `AskRegistered` and `RequireSlot` behind them. `CapturedOnce` says of all these places that the wanted
  configuration is in the history already, and `RecordedStays` that the document of whoever is there is the stored one.

`DurableIntakeProofs`, for any number of workers, partitions, records, topics and faults:

* `IntakeInvariant`: `Spec => []IntakeInv`, and from it `IntakeTypeCorrect`, `CommitsAreDurable` (`KafkaNeverAhead`),
  `CheckpointCountsRows` (`IntakeIsContiguous`), `DurableIsTheLog` (`IntakeIsTheLog`), `NothingIsRefused`
  (`StageNeverRejects`), and `NothingIsSkipped` (`ConsumedIsDurable`).
* `IntakeIsALog`: `Spec => IntakeImplementsLog`, the refinement of `IntakeLog`.

  The properties relate Kafka, metadata and several workers; what makes them inductive is what a worker may still believe:
  the offset it has prepared at start-up lies between the start of the checkpoint and its end (`StartsInside`), its cursor
  too (`PositionedInside`), a polled batch is a section of the log of the topic it was polled
  from (`PolledIsTheLog`), and a commit it is about to send is no further than the checkpoint (`CommitsForward`). None of
  these needs the group to agree that the worker owns the partition (`MembersOwn` says when it does, which only the
  commit needs), and so evictions and two workers on one partition do no harm.
  `LogIsOfItsTopic` and `TopicsAreOld` tie every record to the topic that produced it, so that a recreated topic cannot
  pass for the old one.

`LegacyIngestProofs`, for any number of partitions, records and faults:

* `OnlyFailuresAreLost`: `Spec => []OnlyFailedRecordsAreLost`. The property speaks of committed offsets, which a commit
  takes from the positions of the process, so the invariant says the same of every position of a process that has joined,
  except for the record in hand (`Taken`). It says nothing of a process that is down or joining: `Join` replaces those
  positions. Rows are never deleted and the log only grows (`Grows`), so what is done stays done (`DoneStays`).

`WebSocketBroadcastProofs`, for any number of connections and broadcasters and any timeouts:

* `NoEntryLeaks`, `HonestCount`, `SteadyReached`: `Spec => []NoEntryIsLeaked`, `[]CountIsHonest` and
  `[]SteadyClientsAreReached`, from `BroadcastInvariant`. The count is honest because whoever is in a snapshot has been
  registered and cannot be registered again under the same id (`Snapshot`); a steady client is reached because it stays
  registered and either waits in the snapshot or has been counted (`Steady`). Steps of endpoints, the cleanup, clients
  and the clock leave the broadcasts alone and share one lemma (`AroundKeepsInv`).

`NotificationQueueProofs`, for any number of events and instances, any batch size, timeout and delay:

* `QueueInvariant`: `Spec => []QueueInv`, and from it `QueueTypeCorrect`, `DispatchIsExclusive` (`ExclusiveUnlessLate`),
  `StatusesAreEarned` (`StatusIsEarned`) and `OutcomesAreFinal` (`OutcomeIsFinalUnlessLate`). The marks are not fenced, so
  exclusiveness rests on time: while no instance is late, a row in somebody's batch is `processing` and was locked no longer than the
  timeout before (`ClaimsAreFresh`), so that nobody else's page may hold it. Both ages are those of the clock reading, which
  is why a long wait for the pool makes the instance late and no wait breaks the invariant. `SentIsConfirmed` ties what an instance is about
  to mark to what was broadcast, late or not, which is why statuses are earned even when instances are late.

`NormalizationProofs`, for any manifests and any number of deviations:

* `OutcomesAreJustified`, `PoisonAlone`: `Spec => []OutcomeIsJustified` and `[]OnlyPoisonEndsTheWorker`, from
  `NormalizationInvariant`. The first failing check is the least element of a set of numbers; that it exists is proved from
  the well-foundedness of the numbers (`LeastIsThere`), which stands in for an induction over the checks. Each fault is
  traced to the record (`Explained`), a record without one is a change of the manifest's table (`FineConforms`), and a
  change as the source sends it has none (`SentChangeIsFine`) unless the ordinals have a gap, in which case the last of
  them exceeds the number of columns (`GapsShow`). The invariant says that the result and the durable row are outcomes of
  the record as it is, at some time of ingestion each, and the two times matter only at the size limit
  (`TimeMattersAtTheEdge`). That the tables of cells agree (what is accepted, encoded and not refused conforms, what the source
  sends is accepted or quarantined, what escapes or is refused is poison) is shown type by type (`AcceptedCells`,
  `SentCells`, `EscapingIsPoison`, `RefusedIsPoison`).

`LaneRotationProofs`, for any number of lanes and workers and any page size:

* `RotationTypeCorrect`: `Spec => []TypeOK`, that is: the values of `last_examined_at` stay a total order with one
  committed value for each lane, and only the transaction that has locked a lane has stamped it, after its committed
  value. It needs that the pages of a transaction name each lane once and lanes it has locked (`PagesAreLocked`). The
  lemmas `ChainGrows`, `ChainShrinks` and `ChainRenamed` are about total orders alone; examining, rolling back and
  committing are one of them each.
* `TurnsAreKept`: `Spec => TurnIsLostOnlyByCommit`. `Turn` counts the stamps of insertions as well: a new lane takes its place
  at the `INSERT`, behind all others, and its commit only makes the place visible. What puts a lane behind another one is
  the commit of its own examination, which needs its lock (`CommitPutsBehind`).

Assumptions: those named in the modules (`ASSUME`), which TLC evaluates in every run. In `LaneLeases`: ids are numbers,
`None` is no worker, quarantined offsets carry no delivery, the bounds are numbers, a claim limit is at least one and at
most the page, and a lease outlasts a transaction and the renewal window together. In `Provisioning`: `None` is no
document, epoch, capture or number, and every document has an epoch and a capture. In the other modules: `None` is no
worker, partition, instance or change, the bounds and limits are numbers, and the classes of `DurableIntake` and the
events that cannot be read are among those there are. In `Normalization`: columns are stored in the order
of their ordinals, which `provision` reads by `attnum`, at least one of them is in the key, as the configuration demands, and
what stands for an odd row or key is not a row or key of cells. The proofs do not use fairness.

Only model-checked: liveness (`EventuallyStaged`, `EveryLaneIsExamined`, `EveryHeadIsLeased`, `EventuallySettled`,
`EveryRecordIsTaken`, `VanishedIsForgotten`), which is out of the prover's reach. Every safety property of a passing run is
stated by a theorem.

## 5. What the checks found

* `DurableIntake_independent`: an exception while one record is classified ends the worker for all partitions; the design
  says other partitions remain independent.
* `Provisioning_wal`: a registered epoch whose connector was deleted and whose slot is gone is provisioned again without
  an error; the acceptance document says lost WAL state is not silently recreated.
* `Normalization_dropped`: provisioning stores attribute numbers, which have a gap where a column was dropped, and the
  manifest check numbers the emitted fields from one, so that every change of such a table is quarantined; the design
  says that changes normalize into valid envelopes.

`OnlyPoisonEndsTheWorker` names the records that end the worker each time they are read, where the design has a durable
outcome for every record: a schema that is no object or has a scalar entry, an integer no double holds, an exponent whose
digits fill the memory, a `timestamptz` whose UTC is outside the years 1 to 9999, a record timestamp no `time_t` or float
holds, text or JSON with an escaped NUL and JSON with `NaN`, `Infinity` or a number that is infinite as a double (jsonb
refuses them), a NUL or `NaN` among the values that are copied unseen, and an envelope at the size limit that is classified
differently on a whole second, so that its redelivery conflicts with the durable row. Two of them need no odd producer: a
`json` column of the source may hold an escaped NUL and `1e400`, since PostgreSQL checks `json` for its syntax only.

Seen while modelling and checked in no run of its own: a worker that starts while another one stages may refuse a
checkpoint that is within bounds, because it compares it with a log end it read earlier (a restart repairs it, which
`EventuallyStaged` covers); the legacy attempt count is never stored, so that the retry budget never runs out (a known
defect of the legacy tests); a notification whose broadcast reached nobody is marked delivered (another one);
`_decimal` compares with four names of infinity and NaN before it calls `Decimal`, which knows more (`inf`, `sNaN`),
so that a numeric of such a name, which PostgreSQL itself never emits, becomes an event; the legacy event id includes
the time the connector processed the change, so that a change that is sent again is a new event;
`on_partitions_assigned` seeks to the offset prepared at start-up, so a partition that comes back is replayed from
there (harmless: the replay consists of verified duplicates, which `StageNeverRejects` and `IntakeImplementsLog`
cover); after a crash between the two commits the group offset stays behind until the next record; a recreated topic
that has grown to the checkpoint is continued in the same epoch.

## 6. Not modelled

The migration runner, configuration validation, the API and health endpoints, observability, the legacy rate limiter and
orders API, deployment. Reasons are in `PROJECT.json` ("components"). Transactions whose statements run under one lock
taken first are single actions. The wall clocks of legacy instances are taken as one. Page order within LaneLeases is
arbitrary. Client ids of WebSocket connections are fresh, as the endpoint makes them. Hashes are taken as the identity
of what they are computed from.

## 7. Plan

In this order:

1. Compositions: `DurableIntake` with `LaneLeases` (`Stage` as the checkpoint of the lane's partition), and
   `LegacyIngest` with `NotificationQueue` (`Enqueue`) and `WebSocketBroadcast` (`Broadcast`).
2. `Migration`, `RateLimiter`: small modules.
