----------------------------- MODULE LaneLeases -----------------------------
(***************************************************************************)
(* Fenced scheduling leases over delivery lanes: the statements and        *)
(* transactions of src/updatis/delivery/repository.py together with the    *)
(* triggers of migrations 0003-0005, under READ COMMITTED.                 *)
(*                                                                         *)
(* A lane is one (pipeline, epoch, topic, partition).  `deliveries' is the *)
(* committed version of the table.  `working' is the version the holder of *)
(* a row lock sees; it equals the committed one while the row is unlocked. *)
(* Time is relative: `ttl' is lease_expires_at - clock_timestamp(), cut    *)
(* off at 0, so that a lease is live exactly when its ttl is positive.     *)
(* States pending and attempting are one state here, acknowledged and      *)
(* terminal another: no statement of the repository tells them apart.      *)
(* Outcome codes of calls that change nothing are left out.                *)
(***************************************************************************)
EXTENDS Naturals, FiniteSets

CONSTANTS
  Worker,            \* processes calling the repository; also their owner_id
  Lane,
  Delivery,          \* delivery ids, ordered as the id column is
  LaneOf, OffsetOf,  \* immutable lane and source_offset of each delivery
  Quarantined,       \* <<lane, offset>> that intake turns into a discontinuity
  MaxOffset,         \* bound: offsets staged in one lane
  LeaseDuration, RenewalThreshold, TransactionTimeout,
  MaxGeneration,     \* MAX_FENCING_GENERATION
  Limit, CandidateLimit,
  None

ASSUME IdsAssumption ==
  /\ Delivery \subseteq Nat
  /\ LaneOf \in [Delivery -> Lane]
  /\ OffsetOf \in [Delivery -> Nat]
  /\ None \notin Worker

ASSUME QuarantineAssumption ==
  /\ Quarantined \subseteq Lane \X Nat
  /\ \A d \in Delivery : <<LaneOf[d], OffsetOf[d]>> \notin Quarantined

ASSUME BoundsAssumption ==
  /\ MaxOffset \in Nat
  /\ LeaseDuration \in Nat \ {0}
  /\ RenewalThreshold \in Nat
  /\ TransactionTimeout \in Nat
  /\ MaxGeneration \in Nat
  /\ Limit \in Nat \ {0}
  /\ CandidateLimit \in Nat
  /\ Limit <= CandidateLimit

\* The lease outlives the longest transaction by more than the renewal window.
ASSUME TimingAssumption ==
  TransactionTimeout + RenewalThreshold < LeaseDuration

VARIABLES
  deliveries,  \* committed rows
  working,     \* rows as their lock holder has written them
  rowLock,     \* transaction holding FOR UPDATE, or None
  laneLock,    \* transaction holding the delivery_lanes row, or None
  tx,          \* the transaction each worker has open
  held,        \* claims each worker was returned and may still present
  staged       \* next_offset of the intake checkpoint behind each lane

vars == <<deliveries, working, rowLock, laneLock, tx, held, staged>>

Row == [state      : {"absent", "unresolved", "resolved"},
        owner      : Worker \cup {None},
        ttl        : 0..LeaseDuration,
        generation : 0..MaxGeneration]

Claim == [delivery : Delivery, generation : 0..MaxGeneration]

Transaction ==
  [kind   : {"idle", "acquire", "renewing", "renew", "complete", "materialize"},
   todo   : SUBSET Lane,              \* selected lanes not examined yet
   target : SUBSET Claim,             \* the claim a renewal presents
   age    : 0..TransactionTimeout]

Idle == [kind |-> "idle", todo |-> {}, target |-> {}, age |-> 0]

Open(kind, todo, target) ==
  [kind |-> kind, todo |-> todo, target |-> target, age |-> 0]

Absent == [state |-> "absent", owner |-> None, ttl |-> 0, generation |-> 0]

Pending == [Absent EXCEPT !.state = "unresolved"]

-----------------------------------------------------------------------------
(* What a statement of the repository reads.                               *)

\* The first materialized delivery of a lane registers the lane.
Registered(l) ==
  \E d \in Delivery : LaneOf[d] = l /\ deliveries[d].state # "absent"

Precedes(e, d) ==
  /\ LaneOf[e] = LaneOf[d]
  /\ \/ OffsetOf[e] < OffsetOf[d]
     \/ OffsetOf[e] = OffsetOf[d] /\ e < d

Live(row) == row.owner # None /\ row.ttl > 0

\* Mutant: only unresolved deliveries are searched for an active lease.
ActiveUnresolvedLease(l) ==
  \E d \in Delivery : /\ LaneOf[d] = l
                      /\ deliveries[d].state = "unresolved"
                      /\ Live(deliveries[d])

ActiveLaneLease(l) ==
  \E d \in Delivery : LaneOf[d] = l /\ Live(deliveries[d])

\* Mutant: SKIP LOCKED inside the head selection exposes the successor.
IsUnlockedHead(d) ==
  /\ deliveries[d].state = "unresolved"
  /\ \A e \in Delivery :
       Precedes(e, d) => deliveries[e].state # "unresolved" \/ rowLock[e] # None

IsHead(d) ==
  /\ deliveries[d].state = "unresolved"
  /\ \A e \in Delivery : Precedes(e, d) => deliveries[e].state # "unresolved"

\* Mutant: the discontinuity check looks behind the head.
BlockedByLater(d) ==
  \E q \in Quarantined : /\ q[1] = LaneOf[d]
                         /\ q[2] < staged[LaneOf[d]]
                         /\ q[2] > OffsetOf[d]

\* An earlier discontinuity of the lane that intake has committed.
Blocked(d) ==
  \E q \in Quarantined : /\ q[1] = LaneOf[d]
                         /\ q[2] < staged[LaneOf[d]]
                         /\ q[2] < OffsetOf[d]

Granted(w) ==
  {d \in Delivery : /\ tx[w].kind = "acquire"
                    /\ rowLock[d] = w
                    /\ working[d] # deliveries[d]}

\* Mutant: the claim limit is off by one.
GrantableOneMore(w, d) ==
  /\ ~Live(deliveries[d])
  /\ ~Blocked(d)
  /\ deliveries[d].generation < MaxGeneration
  /\ Cardinality(Granted(w)) <= Limit

\* Mutant: the overflow check is off by one.
GrantableAtMaximum(w, d) ==
  /\ ~Live(deliveries[d])
  /\ ~Blocked(d)
  /\ deliveries[d].generation <= MaxGeneration
  /\ Cardinality(Granted(w)) < Limit

Grantable(w, d) ==
  /\ ~Live(deliveries[d])
  /\ ~Blocked(d)
  /\ deliveries[d].generation < MaxGeneration
  /\ Cardinality(Granted(w)) < Limit

\* Mutant: a mutation by a stale claim is not refused.
FencedByExpiryOnly(w, c) == Live(deliveries[c.delivery])

\* The exact-owner, exact-generation, unexpired guard of a fenced UPDATE.
Fenced(w, c) ==
  /\ deliveries[c.delivery].owner = w
  /\ deliveries[c.delivery].generation = c.generation
  /\ Live(deliveries[c.delivery])

-----------------------------------------------------------------------------
Init ==
  /\ deliveries = [d \in Delivery |-> Absent]
  /\ working = [d \in Delivery |-> Absent]
  /\ rowLock = [d \in Delivery |-> None]
  /\ laneLock = [l \in Lane |-> None]
  /\ tx = [w \in Worker |-> Idle]
  /\ held = [w \in Worker |-> {}]
  /\ staged = [l \in Lane |-> 0]

\* Intake commits the next contiguous offset of a lane's partition.
Stage(l) ==
  /\ staged[l] < MaxOffset
  /\ staged' = [staged EXCEPT ![l] = @ + 1]
  /\ UNCHANGED <<deliveries, working, rowLock, laneLock, tx, held>>

\* Mutant: the insert overwrites a delivery that is already there.
MaterializeOverwriting(w, d) ==
  /\ tx[w].kind = "idle"
  /\ OffsetOf[d] < staged[LaneOf[d]]
  /\ laneLock[LaneOf[d]] = None
  /\ rowLock[d] = None
  /\ laneLock' = [laneLock EXCEPT ![LaneOf[d]] = w]
  /\ tx' = [tx EXCEPT ![w] = Open("materialize", {}, {})]
  /\ rowLock' = [rowLock EXCEPT ![d] = w]
  /\ working' = [working EXCEPT ![d] = Pending]
  /\ UNCHANGED <<deliveries, held, staged>>

\* The INSERT and its trigger: the lane lock is awaited before the row exists,
\* and a delivery that is already there is left as it is.
Materialize(w, d) ==
  LET l == LaneOf[d] IN
  /\ tx[w].kind = "idle"
  /\ OffsetOf[d] < staged[l]
  /\ laneLock[l] = None
  /\ laneLock' = [laneLock EXCEPT ![l] = w]
  /\ tx' = [tx EXCEPT ![w] = Open("materialize", {}, {})]
  /\ IF deliveries[d].state = "absent"
       THEN /\ rowLock' = [rowLock EXCEPT ![d] = w]
            /\ working' = [working EXCEPT ![d] = Pending]
       ELSE UNCHANGED <<rowLock, working>>
  /\ UNCHANGED <<deliveries, held, staged>>

\* Lock at most CandidateLimit lanes, passing over the locked ones.  Any such
\* page is allowed: LaneRotation models the order in which they are taken.
AcquireBegin(w) ==
  LET free == {l \in Lane : Registered(l) /\ laneLock[l] = None} IN
  /\ tx[w].kind = "idle"
  /\ \E page \in SUBSET free \ {{}} :
       /\ Cardinality(page) <= CandidateLimit
       /\ Cardinality(page) < CandidateLimit => page = free
       /\ laneLock' = [l \in Lane |-> IF l \in page THEN w ELSE laneLock[l]]
       /\ tx' = [tx EXCEPT ![w] = Open("acquire", page, {})]
  /\ UNCHANGED <<deliveries, working, rowLock, held, staged>>

\* A lane with an active lease, without a head, or whose head row is locked.
PassOver(w, l) ==
  /\ tx[w].kind = "acquire"
  /\ l \in tx[w].todo
  /\ \/ ActiveLaneLease(l)
     \/ ~\E d \in Delivery : LaneOf[d] = l /\ IsHead(d) /\ rowLock[d] = None
  /\ tx' = [tx EXCEPT ![w].todo = @ \ {l}]
  /\ UNCHANGED <<deliveries, working, rowLock, laneLock, held, staged>>

\* Lock the true head and, if nothing forbids it, write the lease.  A head that
\* is blocked, exhausted or beyond the limit stays locked but unchanged.
LockHead(w, d) ==
  LET l == LaneOf[d] IN
  /\ tx[w].kind = "acquire"
  /\ l \in tx[w].todo
  /\ ~ActiveLaneLease(l)
  /\ IsHead(d)
  /\ rowLock[d] = None
  /\ rowLock' = [rowLock EXCEPT ![d] = w]
  /\ working' = IF Grantable(w, d)
                  THEN [working EXCEPT ![d].owner = w,
                                       ![d].ttl = LeaseDuration,
                                       ![d].generation = @ + 1]
                  ELSE working
  /\ tx' = [tx EXCEPT ![w].todo = @ \ {l}]
  /\ UNCHANGED <<deliveries, laneLock, held, staged>>

\* Mutant: the renewal does not take the lane lock.
RenewWithoutLaneLock(w, c) ==
  /\ tx[w].kind = "idle"
  /\ tx' = [tx EXCEPT ![w] = Open("renewing", {}, {c})]
  /\ UNCHANGED <<deliveries, working, rowLock, laneLock, held, staged>>

\* renew_claim, first statement: the lane lock.
RenewLock(w, c) ==
  LET l == LaneOf[c.delivery] IN
  /\ tx[w].kind = "idle"
  /\ laneLock[l] = None
  /\ laneLock' = [laneLock EXCEPT ![l] = w]
  /\ tx' = [tx EXCEPT ![w] = Open("renewing", {}, {c})]
  /\ UNCHANGED <<deliveries, working, rowLock, held, staged>>

\* renew_claim, second statement: extend the lease inside the renewal window,
\* or match no row and change nothing.
RenewUpdate(w, c) ==
  LET d == c.delivery IN
  /\ tx[w].kind = "renewing"
  /\ c \in tx[w].target
  /\ rowLock[d] = None
  /\ IF Fenced(w, c) /\ deliveries[d].ttl <= RenewalThreshold
       THEN /\ rowLock' = [rowLock EXCEPT ![d] = w]
            /\ working' = [working EXCEPT ![d].ttl = LeaseDuration]
       ELSE UNCHANGED <<rowLock, working>>
  /\ tx' = [tx EXCEPT ![w].kind = "renew"]
  /\ UNCHANGED <<deliveries, laneLock, held, staged>>

\* complete_claim takes no lane lock and leaves the delivery state alone.
Complete(w, c) ==
  LET d == c.delivery IN
  /\ tx[w].kind = "idle"
  /\ rowLock[d] = None
  /\ Fenced(w, c)
  /\ rowLock' = [rowLock EXCEPT ![d] = w]
  /\ working' = [working EXCEPT ![d].owner = None, ![d].ttl = 0]
  /\ tx' = [tx EXCEPT ![w] = Open("complete", {}, {})]
  /\ UNCHANGED <<deliveries, laneLock, held, staged>>

Unlocked(w, lock) == [x \in DOMAIN lock |-> IF lock[x] = w THEN None ELSE lock[x]]

EndTransaction(w) ==
  /\ tx' = [tx EXCEPT ![w] = Idle]
  /\ rowLock' = Unlocked(w, rowLock)
  /\ laneLock' = Unlocked(w, laneLock)

\* COMMIT; an acquisition returns its claims to the caller.
Commit(w) ==
  /\ \/ tx[w].kind \in {"renew", "complete", "materialize"}
     \/ tx[w].kind = "acquire" /\ tx[w].todo = {}
  /\ deliveries' = [d \in Delivery |->
                      IF rowLock[d] = w THEN working[d] ELSE deliveries[d]]
  /\ held' = [held EXCEPT ![w] = @ \cup
                {[delivery |-> d, generation |-> working[d].generation] :
                   d \in Granted(w)}]
  /\ EndTransaction(w)
  /\ UNCHANGED <<working, staged>>

Revert(w) ==
  working' = [d \in Delivery |-> IF rowLock[d] = w THEN deliveries[d] ELSE working[d]]

\* A storage exception, a lock, statement or transaction timeout.
Rollback(w) ==
  /\ tx[w].kind # "idle"
  /\ Revert(w)
  /\ EndTransaction(w)
  /\ UNCHANGED <<deliveries, held, staged>>

\* The process dies: its connection rolls back and its claims are forgotten.
Crash(w) ==
  /\ tx[w].kind # "idle" \/ held[w] # {}
  /\ Revert(w)
  /\ EndTransaction(w)
  /\ held' = [held EXCEPT ![w] = {}]
  /\ UNCHANGED <<deliveries, staged>>

\* External: the attempt engine records an outcome under a live claim.
Resolve(w, c) ==
  LET d == c.delivery IN
  /\ tx[w].kind = "idle"
  /\ rowLock[d] = None
  /\ deliveries[d].state = "unresolved"
  /\ Fenced(w, c)
  /\ deliveries' = [deliveries EXCEPT ![d].state = "resolved"]
  /\ working' = [working EXCEPT ![d].state = "resolved"]
  /\ UNCHANGED <<rowLock, laneLock, tx, held, staged>>

Aged(rows) == [d \in Delivery |->
                [rows[d] EXCEPT !.ttl = IF @ > 0 THEN @ - 1 ELSE 0]]

\* Mutant: a transaction may stay open for as long as a lease.
TickUnbounded ==
  /\ deliveries' = Aged(deliveries)
  /\ working' = Aged(working)
  /\ UNCHANGED <<rowLock, laneLock, tx, held, staged>>

\* Time passes for every lease; transaction_timeout bounds each transaction.
Tick ==
  /\ \A w \in Worker : tx[w].age < TransactionTimeout
  /\ deliveries' = Aged(deliveries)
  /\ working' = Aged(working)
  /\ tx' = [w \in Worker |-> [tx[w] EXCEPT !.age =
                                IF tx[w].kind = "idle" THEN 0 ELSE @ + 1]]
  /\ UNCHANGED <<rowLock, laneLock, held, staged>>

Next ==
  \/ \E l \in Lane : Stage(l)
  \/ \E w \in Worker, d \in Delivery : Materialize(w, d)
  \/ \E w \in Worker : AcquireBegin(w)
  \/ \E w \in Worker, l \in Lane : PassOver(w, l)
  \/ \E w \in Worker, d \in Delivery : LockHead(w, d)
  \/ \E w \in Worker : \E c \in held[w] : RenewLock(w, c)
  \/ \E w \in Worker : \E c \in tx[w].target : RenewUpdate(w, c)
  \/ \E w \in Worker : \E c \in held[w] : Complete(w, c)
  \/ \E w \in Worker : \E c \in held[w] : Resolve(w, c)
  \/ \E w \in Worker : Commit(w)
  \/ \E w \in Worker : Rollback(w)
  \/ \E w \in Worker : Crash(w)
  \/ Tick

Spec == Init /\ [][Next]_vars

-----------------------------------------------------------------------------
(* Properties.                                                             *)

\* Every variable keeps its type.
TypeOK ==
  /\ deliveries \in [Delivery -> Row]
  /\ working \in [Delivery -> Row]
  /\ rowLock \in [Delivery -> Worker \cup {None}]
  /\ laneLock \in [Lane -> Worker \cup {None}]
  /\ tx \in [Worker -> Transaction]
  /\ held \in [Worker -> SUBSET Claim]
  /\ staged \in [Lane -> 0..MaxOffset]

\* A lane never has two live leases, even when a lower delivery is materialized
\* under a running lease or while a renewal is uncommitted
\* (acquire_heads lane lock and active-lease check, renew_claim lane lock).
OneActiveLeasePerLane ==
  \A d, e \in Delivery :
    LaneOf[d] = LaneOf[e] /\ Live(deliveries[d]) /\ Live(deliveries[e]) => d = e

(* The inductive strengthening of OneActiveLeasePerLane.                   *)

\* deliveries_lease_pair: an unowned row has no time left on its lease.
LeasePair ==
  \A d \in Delivery : /\ deliveries[d].owner = None => deliveries[d].ttl = 0
                      /\ working[d].owner = None => working[d].ttl = 0

RowUnlockedIsCommitted ==
  \A d \in Delivery : rowLock[d] = None => working[d] = deliveries[d]

\* Whoever has written more lease time than is committed holds the lane.
ExtensionHoldsLane ==
  \A d \in Delivery : working[d].ttl > deliveries[d].ttl =>
                        laneLock[LaneOf[d]] = rowLock[d]

\* Before its UPDATE a renewal holds the lane of the claim it was given.
RenewalHoldsLane ==
  \A w \in Worker : \A c \in tx[w].target : laneLock[LaneOf[c.delivery]] = w

\* A lane still to be examined is locked, and none of its rows is.
PageIsUntouched ==
  \A w \in Worker : \A l \in tx[w].todo :
    /\ tx[w].kind = "acquire"
    /\ laneLock[l] = w
    /\ \A d \in Delivery : LaneOf[d] = l => rowLock[d] # w

IdleHoldsNothing ==
  \A w \in Worker : tx[w].kind = "idle" =>
    /\ tx[w].todo = {} /\ tx[w].target = {}
    /\ \A d \in Delivery : rowLock[d] # w
    /\ \A l \in Lane : laneLock[l] # w

\* Lease time on a row, committed or still being written.
Occupied(d) == deliveries[d].ttl > 0 \/ working[d].ttl > 0

OneOccupiedPerLane ==
  \A d, e \in Delivery :
    LaneOf[d] = LaneOf[e] /\ Occupied(d) /\ Occupied(e) => d = e

\* Leases, row locks and lane locks fit together in every state, also between
\* the statements of a transaction: the argument that no interleaving of
\* acquire_heads, renew_claim and complete_claim doubles a lane's lease.
LeaseInv ==
  /\ TypeOK
  /\ LeasePair
  /\ RowUnlockedIsCommitted
  /\ ExtensionHoldsLane
  /\ RenewalHoldsLane
  /\ PageIsUntouched
  /\ IdleHoldsNothing
  /\ OneOccupiedPerLane

\* No two workers are ever returned the same fencing generation of a delivery,
\* and no claim is ahead of the table (fencing_generation + 1 in acquire_heads).
ClaimsAreUnique ==
  \A w \in Worker : \A c \in held[w] :
    /\ c.generation <= deliveries[c.delivery].generation
    /\ \A v \in Worker \ {w} : c \notin held[v]

\* A delivery behind a discontinuity is never leased, whatever the order of
\* intake, materialization and acquisition (the blocked check of acquire_heads).
NothingLeasedPastDiscontinuity ==
  \A d \in Delivery, q \in Quarantined :
    q[1] = LaneOf[d] /\ q[2] < OffsetOf[d] => deliveries[d].generation = 0

\* When a lease commits, everything before it in its lane that has been
\* materialized by then is resolved: a locked N never exposes N+1.
NoOvertake ==
  [][\A d \in Delivery :
       deliveries'[d].generation > deliveries[d].generation =>
         \A e \in Delivery : Precedes(e, d) => deliveries'[e].state # "unresolved"]_vars

\* A live lease ends only by time or by its owner's own completion; nothing
\* another worker does, late or lost, takes it away or resets it.
LiveLeaseIsSafe ==
  [][\A d \in Delivery :
       LET row == deliveries[d] IN
       Live(row) /\ deliveries'[d].owner # row.owner =>
         tx[row.owner].kind = "complete" /\ rowLock[d] = row.owner]_vars

\* The claims a call returns are live and not yet due for renewal, however long
\* the transaction took (30 s lease, 10 s window, transaction_timeout 15 s).
ReturnedClaimIsFresh ==
  [][\A w \in Worker : \A c \in held'[w] \ held[w] :
       /\ deliveries'[c.delivery].owner = w
       /\ deliveries'[c.delivery].ttl > RenewalThreshold]_vars

\* One acquire_heads call leases at most its limit, over all lanes of its page.
\* (the limit check that still lets the remaining lanes be examined).
AtMostLimitClaims ==
  [][\A w \in Worker : held'[w] # {} => Cardinality(held'[w] \ held[w]) <= Limit]_vars

-----------------------------------------------------------------------------
(* Each lane implements FencedLease.  A renewal that has passed its expiry *)
(* check keeps the lease until it ends, though other transactions already  *)
(* read the committed row as expired; only the lane lock hides it.         *)

Holding(d) ==
  \/ Live(deliveries[d])
  \/ \E w \in Worker : /\ rowLock[d] = w
                       /\ tx[w].kind = "renew"
                       /\ Live(working[d])

LaneLease(l) ==
  IF \E d \in Delivery : LaneOf[d] = l /\ Holding(d)
    THEN LET d == CHOOSE d \in Delivery : LaneOf[d] = l /\ Holding(d)
         IN  [owner |-> deliveries[d].owner, item |-> d,
              token |-> deliveries[d].generation]
    ELSE None

Fence == INSTANCE FencedLease WITH
  Item <- Delivery,
  NoLease <- None,
  lease <- [l \in Lane |-> LaneLease(l)],
  issued <- [d \in Delivery |-> deliveries[d].generation]

\* Acquisition, renewal, completion, expiry, crash and rollback together give
\* every lane the promise of FencedLease.
EveryLaneIsFenced == Fence!Spec

=============================================================================
