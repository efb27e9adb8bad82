-------------------------- MODULE NotificationQueue --------------------------
(***************************************************************************)
(* The legacy notification queue: the table notification_events, the       *)
(* claims of src/app/repositories/notification_event_repository.py and the *)
(* dispatch loop of src/app/services/notification_delivery_service.py and  *)
(* src/app/workers/notification_dispatcher.py, run by every instance of    *)
(* the application over one database.                                      *)
(*                                                                         *)
(* Time is relative: `delay' is available_at - now and `age' is now -      *)
(* locked_at.  A claim reads the clock before it waits for a connection,   *)
(* and compares and writes that reading when it has one: `held' is the     *)
(* time since then, for as long as the batch of the claim is worked on.    *)
(* Each is cut off where it no longer makes a difference.  Instances share *)
(* one clock.  Sleeping between two empty claims is stuttering.  `sent',   *)
(* `failures' and `late' record history for the properties.                *)
(***************************************************************************)
EXTENDS Integers, Sequences, FiniteSets

CONSTANTS
  Event,
  Unreadable,          \* events whose stored payload does not validate
  Instance,
  None,
  BatchSize,           \* notification_batch_size
  ProcessingTimeout,   \* notification_processing_timeout_seconds
  RetryDelay,          \* notification_retry_delay_seconds
  MaxAttempts,         \* notification_max_attempts
  MaxWait,             \* bound: time a claim waits for a connection
  MaxFaults            \* bound: crashes, database and broadcast errors

ASSUME QueueAssumption ==
  /\ Unreadable \subseteq Event
  /\ None \notin Instance
  /\ BatchSize \in Nat \ {0}
  /\ ProcessingTimeout \in Nat
  /\ RetryDelay \in Nat
  /\ MaxAttempts \in Nat
  /\ MaxWait \in Nat
  /\ MaxFaults \in Nat

VARIABLES
  row,           \* notification_events: [status, attempts, delay, age]
  arrivals,      \* events in the order of created_at
  deadLetters,   \* events with a notification_dead_letters row
  lock,          \* instance whose claim transaction has locked the row
  pc,
  batch,         \* claimed and not finished: sequence of [event, attempts]
  held,          \* time since the clock reading of the claim
  faults,
  sent,          \* events a broadcast returned for
  failures,      \* broadcasts of each event that raised
  late           \* some instance held a batch when the clock reading of its
                 \* claim was older than the processing timeout

tables == <<row, arrivals, deadLetters, lock>>
history == <<sent, failures, late>>
vars == <<tables, pc, batch, held, faults, history>>

Status == {"absent", "pending", "processing", "failed", "delivered", "dead_letter"}

\* No comparison tells times above it apart.
Oldest == ProcessingTimeout + MaxWait + 1

Row == [status : Status, attempts : Nat, delay : -MaxWait..RetryDelay,
        age : 0..Oldest]

Queued == [event : Event, attempts : Nat]

Init ==
  /\ row = [e \in Event |-> [status |-> "absent", attempts |-> 0, delay |-> 0, age |-> 0]]
  /\ arrivals = <<>>
  /\ deadLetters = {}
  /\ lock = [e \in Event |-> None]
  /\ pc = [i \in Instance |-> "polling"]
  /\ batch = [i \in Instance |-> <<>>]
  /\ held = [i \in Instance |-> 0]
  /\ faults = 0
  /\ sent = {}
  /\ failures = [e \in Event |-> 0]
  /\ late = FALSE

-----------------------------------------------------------------------------
\* INSERT IGNORE by the Kafka consumer: an event that is there stays as it is.
Enqueue(e) ==
  /\ row[e].status = "absent"
  /\ row' = [row EXCEPT ![e].status = "pending"]
  /\ arrivals' = Append(arrivals, e)
  /\ UNCHANGED <<deadLetters, lock, pc, batch, held, faults, history>>

\* Mutant: a claim is stale as soon as it reaches the timeout.
DueAtTimeout(i, e) ==
  \/ row[e].status \in {"pending", "failed"} /\ row[e].delay + held[i] <= 0
  \/ row[e].status = "processing" /\ row[e].age - held[i] >= ProcessingTimeout

\* Mutant: what another instance was processing is never claimed again.
DueIfReleased(i, e) ==
  row[e].status \in {"pending", "failed"} /\ row[e].delay + held[i] <= 0

\* available_at <= now or locked_at < stale_cutoff, both by the clock reading.
Due(i, e) ==
  \/ row[e].status \in {"pending", "failed"} /\ row[e].delay + held[i] <= 0
  \/ row[e].status = "processing" /\ row[e].age - held[i] > ProcessingTimeout

\* The due rows that nobody has locked.
Free(i) == {e \in Event : Due(i, e) /\ lock[e] = None}

\* ORDER BY created_at.
Before(e, f) ==
  \E m, n \in DOMAIN arrivals : m < n /\ arrivals[m] = e /\ arrivals[n] = f

\* A page of free rows in that order; only a full one leaves some out, and
\* those are later than all of its own.
IsPage(i, page) ==
  /\ \A m, n \in DOMAIN page : m < n => Before(page[m], page[n])
  /\ \A e \in Free(i) :
       \/ \E n \in DOMAIN page : page[n] = e
       \/ Len(page) = BatchSize /\ Before(page[BatchSize], e)

\* claim_due_events reads the clock and asks the pool for a connection.
Poll(i) ==
  /\ pc[i] = "polling"
  /\ held' = [held EXCEPT ![i] = 0]
  /\ pc' = [pc EXCEPT ![i] = "waiting"]
  /\ UNCHANGED <<tables, batch, faults, history>>

\* With a connection, SELECT ... FOR UPDATE SKIP LOCKED by the clock reading; an
\* empty page ends the call.
Select(i) ==
  /\ pc[i] = "waiting"
  /\ \E size \in 0..BatchSize : \E page \in [1..size -> Free(i)] :
       /\ IsPage(i, page)
       /\ batch' = [batch EXCEPT ![i] = [n \in 1..size |->
                      [event |-> page[n], attempts |-> row[page[n]].attempts + 1]]]
       /\ lock' = [e \in Event |-> IF \E n \in 1..size : page[n] = e
                                    THEN i ELSE lock[e]]
       /\ pc' = [pc EXCEPT ![i] = IF size = 0 THEN "polling" ELSE "claiming"]
       /\ late' = (late \/ (size > 0 /\ held[i] > ProcessingTimeout))
  /\ UNCHANGED <<row, arrivals, deadLetters, held, faults, sent, failures>>

Unlocked(i) == [e \in Event |-> IF lock[e] = i THEN None ELSE lock[e]]

\* Mutant: the claim is not written.
ClaimWithoutUpdate(i) ==
  /\ pc[i] = "claiming"
  /\ lock' = Unlocked(i)
  /\ pc' = [pc EXCEPT ![i] = "delivering"]
  /\ UNCHANGED <<row, arrivals, deadLetters, batch, held, faults, history>>

\* claim_due_events: the UPDATEs, with the clock reading for locked_at, and COMMIT.
Claim(i) ==
  /\ pc[i] = "claiming"
  /\ row' = [e \in Event |-> IF lock[e] = i
               THEN [row[e] EXCEPT !.status = "processing", !.age = held[i]]
               ELSE row[e]]
  /\ lock' = Unlocked(i)
  /\ pc' = [pc EXCEPT ![i] = "delivering"]
  /\ UNCHANGED <<arrivals, deadLetters, batch, held, faults, history>>

Current(i) == Head(batch[i])

\* _deliver_event: a stored payload that does not validate is quarantined.
Validate(i) ==
  /\ pc[i] = "delivering"
  /\ Current(i).event \in Unreadable
  /\ pc' = [pc EXCEPT ![i] = "quarantining"]
  /\ UNCHANGED <<tables, batch, held, faults, history>>

\* broadcast returns, with any number of recipients, none included.
Broadcast(i) ==
  /\ pc[i] = "delivering"
  /\ Current(i).event \notin Unreadable
  /\ sent' = sent \cup {Current(i).event}
  /\ pc' = [pc EXCEPT ![i] = "confirming"]
  /\ UNCHANGED <<tables, batch, held, faults, failures, late>>

\* broadcast raises: an error its own per-client handler does not cover.
BroadcastRaises(i) ==
  LET e == Current(i).event IN
  /\ pc[i] = "delivering"
  /\ e \notin Unreadable
  /\ faults < MaxFaults
  /\ faults' = faults + 1
  /\ failures' = [failures EXCEPT ![e] = @ + 1]
  /\ pc' = [pc EXCEPT ![i] = IF Current(i).attempts >= MaxAttempts
                               THEN "quarantining" ELSE "retrying"]
  /\ UNCHANGED <<tables, batch, held, sent, late>>

\* The event is finished; the next one of the batch, or another claim.
Proceed(i) ==
  /\ batch' = [batch EXCEPT ![i] = Tail(@)]
  /\ pc' = [pc EXCEPT ![i] = IF Len(batch[i]) = 1 THEN "polling" ELSE "delivering"]
  /\ UNCHANGED <<arrivals, lock, held, faults, history>>

\* Every mark names the event only: neither its status nor its claim is tested.
MarkDelivered(i) ==
  LET e == Current(i).event IN
  /\ pc[i] = "confirming"
  /\ lock[e] = None
  /\ row' = [row EXCEPT ![e].status = "delivered", ![e].age = 0]
  /\ Proceed(i)
  /\ UNCHANGED deadLetters

\* Mutant: the retry delay grows with every failure.
MarkFailedBackingOff(i) ==
  LET e == Current(i).event IN
  /\ pc[i] = "retrying"
  /\ lock[e] = None
  /\ row' = [row EXCEPT ![e].status = "failed", ![e].age = 0,
                         ![e].delay = RetryDelay * failures[e]]
  /\ Proceed(i)
  /\ UNCHANGED deadLetters

Sooner(d) == IF d < -MaxWait THEN -MaxWait ELSE d

\* The retry delay starts before the wait for a connection.
MarkFailed(i) ==
  LET e == Current(i).event IN
  /\ pc[i] = "retrying"
  /\ lock[e] = None
  /\ \E wait \in 0..held[i] :
       row' = [row EXCEPT ![e].status = "failed", ![e].age = 0,
                          ![e].delay = Sooner(RetryDelay - wait)]
  /\ Proceed(i)
  /\ UNCHANGED deadLetters

\* Mutant: the dead letter is not part of the transaction.
MarkWithoutDeadLetter(i) ==
  LET e == Current(i).event IN
  /\ pc[i] = "quarantining"
  /\ lock[e] = None
  /\ row' = [row EXCEPT ![e].status = "dead_letter", ![e].age = 0]
  /\ Proceed(i)
  /\ UNCHANGED deadLetters

\* mark_dead_letter: the status and the dead letter commit together.
MarkDeadLetter(i) ==
  LET e == Current(i).event IN
  /\ pc[i] = "quarantining"
  /\ lock[e] = None
  /\ row' = [row EXCEPT ![e].status = "dead_letter", ![e].age = 0]
  /\ deadLetters' = deadLetters \cup {e}
  /\ Proceed(i)

\* A database error ends the batch and the loop tries again, or the process
\* dies and is started again; an open claim rolls back.
Abandon(i) ==
  /\ pc[i] # "polling"
  /\ faults < MaxFaults
  /\ faults' = faults + 1
  /\ lock' = Unlocked(i)
  /\ batch' = [batch EXCEPT ![i] = <<>>]
  /\ pc' = [pc EXCEPT ![i] = "polling"]
  /\ UNCHANGED <<row, arrivals, deadLetters, held, history>>

Older(t) == IF t = Oldest THEN t ELSE t + 1

\* Time passes, for an instance without a batch and without a claim unnoticed.
Tick ==
  /\ \A i \in Instance : pc[i] = "waiting" => held[i] < MaxWait
  /\ row' = [e \in Event |-> [row[e] EXCEPT
               !.delay = Sooner(@ - 1),
               !.age = IF row[e].status = "processing" THEN Older(@) ELSE @]]
  /\ held' = [i \in Instance |-> IF pc[i] = "polling" THEN 0 ELSE Older(held[i])]
  /\ late' = (late \/ \E i \in Instance :
                        batch[i] # <<>> /\ held'[i] > ProcessingTimeout)
  /\ UNCHANGED <<arrivals, deadLetters, lock, pc, batch, faults, sent, failures>>

Dispatch(i) ==
  \/ Poll(i) \/ Select(i) \/ Claim(i)
  \/ Validate(i) \/ Broadcast(i)
  \/ MarkDelivered(i) \/ MarkFailed(i) \/ MarkDeadLetter(i)

Next ==
  \/ \E e \in Event : Enqueue(e)
  \/ \E i \in Instance : Dispatch(i) \/ BroadcastRaises(i) \/ Abandon(i)
  \/ Tick

Spec == Init /\ [][Next]_vars

\* Time goes on and every dispatch loop does; faults need not stop, but are
\* bounded, and a process that dies is started again.
FairSpec ==
  /\ Spec
  /\ WF_vars(Tick)
  /\ \A i \in Instance : WF_vars(Dispatch(i))

-----------------------------------------------------------------------------
(* Properties.                                                             *)

\* Every variable keeps its type.
TypeOK ==
  /\ row \in [Event -> Row]
  /\ arrivals \in Seq(Event)
  /\ deadLetters \subseteq Event
  /\ lock \in [Event -> Instance \cup {None}]
  /\ pc \in [Instance -> {"polling", "waiting", "claiming", "delivering",
                          "confirming", "retrying", "quarantining"}]
  /\ batch \in [Instance -> Seq(Queued)]
  /\ held \in [Instance -> 0..Oldest]
  /\ faults \in 0..MaxFaults
  /\ sent \subseteq Event
  /\ failures \in [Event -> Nat]
  /\ late \in BOOLEAN

Holds(i, e) == \E n \in DOMAIN batch[i] : batch[i][n].event = e

\* Two instances hold one event only after one of them held a batch later than the
\* processing timeout after the clock reading of its claim, its wait for a
\* connection included (SKIP LOCKED, and the stale cutoff that is measured from
\* the locked_at of the whole batch).
ExclusiveUnlessLate ==
  late \/ \A i, j \in Instance, e \in Event : Holds(i, e) /\ Holds(j, e) => i = j

\* What the table says has happened: a delivered event was broadcast, and a
\* quarantined one has its dead letter, whatever order the unfenced marks of
\* several instances arrive in.
StatusIsEarned ==
  \A e \in Event :
    /\ row[e].status = "delivered" => e \in sent
    /\ row[e].status = "dead_letter" => e \in deadLetters

\* Without a late instance, as above, an outcome is final: no mark, claim or
\* restart reopens a delivered or quarantined event.
OutcomeIsFinalUnlessLate ==
  [][\A e \in Event : ~late /\ row[e].status \in {"delivered", "dead_letter"} =>
       row'[e].status = row[e].status]_vars

\* Every event settles for good: no crash, database error, failed broadcast or
\* late mark leaves one unfinished (the reclaim of stale processing rows).
EventuallySettled ==
  \A e \in Event : <>[](row[e].status \in {"absent", "delivered", "dead_letter"})

=============================================================================
