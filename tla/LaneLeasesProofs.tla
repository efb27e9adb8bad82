-------------------------- MODULE LaneLeasesProofs --------------------------
(***************************************************************************)
(* Machine-checked theorems about LaneLeases, for every set of workers,    *)
(* lanes and deliveries and every bound its assumptions allow: first       *)
(* leases and locks, then claims, the order within a lane and the          *)
(* refinement of FencedLease.                                              *)
(***************************************************************************)
EXTENDS LaneLeases, FiniteSetTheorems, TLAPS

-----------------------------------------------------------------------------
(* Type correctness.                                                       *)

LEMMA RowTyping ==
  /\ Absent \in Row
  /\ Pending \in Row
  /\ Idle \in Transaction
BY BoundsAssumption DEF Absent, Pending, Row, Idle, Transaction

LEMMA RowUpdates ==
  ASSUME NEW r \in Row, NEW t \in 0..LeaseDuration
  PROVE  /\ [r EXCEPT !.ttl = t] \in Row
         /\ [r EXCEPT !.owner = None, !.ttl = t] \in Row
         /\ [r EXCEPT !.state = "resolved"] \in Row
<1>1. [r EXCEPT !.ttl = t] \in Row
  BY DEF Row
<1>2. [r EXCEPT !.owner = None, !.ttl = t] \in Row
  BY DEF Row
<1>3. [r EXCEPT !.state = "resolved"] \in Row
  BY DEF Row
<1> QED
  BY <1>1, <1>2, <1>3

LEMMA ClaimFields ==
  ASSUME TypeOK, NEW w \in Worker, NEW c \in held[w] \cup tx[w].target
  PROVE  c \in Claim /\ c.delivery \in Delivery
<1>1. held[w] \subseteq Claim
  BY DEF TypeOK
<1>2. tx[w].target \subseteq Claim
  BY DEF TypeOK, Transaction
<1>3. c \in Claim
  BY <1>1, <1>2
<1> QED
  BY <1>3 DEF Claim

LEMMA TodoLanes ==
  ASSUME TypeOK, NEW w \in Worker
  PROVE  tx[w].todo \subseteq Lane
BY DEF TypeOK, Transaction

LEMMA OpenTyping ==
  ASSUME NEW kind \in {"acquire", "renewing", "complete", "materialize"},
         NEW todo \in SUBSET Lane, NEW target \in SUBSET Claim
  PROVE  Open(kind, todo, target) \in Transaction
BY BoundsAssumption DEF Open, Transaction

LEMMA AgedTyping ==
  ASSUME NEW rows \in [Delivery -> Row]
  PROVE  /\ Aged(rows) \in [Delivery -> Row]
         /\ \A d \in Delivery : Aged(rows)[d].ttl <= rows[d].ttl
BY BoundsAssumption DEF Aged, Row

LEMMA InitTypeOK == Init => TypeOK
BY RowTyping, BoundsAssumption DEF Init, TypeOK

LEMMA StepTypeOK == TypeOK /\ [Next]_vars => TypeOK'
<1> SUFFICES ASSUME TypeOK, [Next]_vars PROVE TypeOK'
  OBVIOUS
<1> USE IdsAssumption, BoundsAssumption, RowTyping
<1>1. ASSUME NEW l \in Lane, Stage(l) PROVE TypeOK'
  BY <1>1 DEF Stage, TypeOK
<1>2. ASSUME NEW w \in Worker, NEW d \in Delivery, Materialize(w, d) PROVE TypeOK'
  <2>1. Open("materialize", {}, {}) \in Transaction
    BY OpenTyping
  <2> QED
    BY <1>2, <2>1 DEF Materialize, TypeOK
<1>3. ASSUME NEW w \in Worker, AcquireBegin(w) PROVE TypeOK'
  BY <1>3 DEF AcquireBegin, TypeOK, Open, Transaction
<1>4. ASSUME NEW w \in Worker, NEW l \in Lane, PassOver(w, l) PROVE TypeOK'
  BY <1>4 DEF PassOver, TypeOK, Transaction
<1>5. ASSUME NEW w \in Worker, NEW d \in Delivery, LockHead(w, d) PROVE TypeOK'
  <2>1. tx' \in [Worker -> Transaction]
    BY <1>5 DEF LockHead, TypeOK, Transaction
  <2>2. working' \in [Delivery -> Row]
    BY <1>5 DEF LockHead, Grantable, TypeOK, Row
  <2> QED
    BY <1>5, <2>1, <2>2 DEF LockHead, TypeOK
<1>6. ASSUME NEW w \in Worker, NEW c \in held[w], RenewLock(w, c) PROVE TypeOK'
  <2>1. c \in Claim /\ LaneOf[c.delivery] \in Lane
    BY ClaimFields
  <2>2. Open("renewing", {}, {c}) \in Transaction
    BY <2>1, OpenTyping
  <2> QED
    BY <1>6, <2>1, <2>2 DEF RenewLock, TypeOK
<1>7. ASSUME NEW w \in Worker, NEW c \in tx[w].target, RenewUpdate(w, c) PROVE TypeOK'
  <2>1. c \in Claim /\ c.delivery \in Delivery
    BY ClaimFields
  <2>2. tx' \in [Worker -> Transaction]
    BY <1>7 DEF RenewUpdate, TypeOK, Transaction
  <2>3. working' \in [Delivery -> Row]
    <3>1. [working[c.delivery] EXCEPT !.ttl = LeaseDuration] \in Row
      <4>1. working[c.delivery] \in Row
        BY <2>1 DEF TypeOK
      <4>2. LeaseDuration \in 0..LeaseDuration
        BY BoundsAssumption
      <4> QED
        BY <4>1, <4>2, RowUpdates, Zenon
    <3>2. \/ working' = working
          \/ working' = [working EXCEPT ![c.delivery] =
                            [working[c.delivery] EXCEPT !.ttl = LeaseDuration]]
      BY <1>7, <2>1 DEF RenewUpdate, TypeOK
    <3> QED
      BY <3>1, <3>2, <2>1 DEF TypeOK
  <2> QED
    BY <1>7, <2>1, <2>2, <2>3 DEF RenewUpdate, TypeOK
<1>8. ASSUME NEW w \in Worker, NEW c \in held[w], Complete(w, c) PROVE TypeOK'
  <2>1. c \in Claim /\ c.delivery \in Delivery
    BY ClaimFields
  <2>2. tx' \in [Worker -> Transaction]
    <3>1. Open("complete", {}, {}) \in Transaction
      BY OpenTyping
    <3> QED
      BY <1>8, <3>1 DEF Complete, TypeOK
  <2>3. working' \in [Delivery -> Row]
    <3>1. [working[c.delivery] EXCEPT !.owner = None, !.ttl = 0] \in Row
      <4>1. working[c.delivery] \in Row
        BY <2>1 DEF TypeOK
      <4>2. 0 \in 0..LeaseDuration
        BY BoundsAssumption
      <4> QED
        BY <4>1, <4>2, RowUpdates, Zenon
    <3>2. working' = [working EXCEPT ![c.delivery] =
                        [working[c.delivery] EXCEPT !.owner = None, !.ttl = 0]]
      BY <1>8, <2>1 DEF Complete, TypeOK
    <3> QED
      BY <3>1, <3>2, <2>1 DEF TypeOK
  <2> QED
    BY <1>8, <2>1, <2>2, <2>3 DEF Complete, TypeOK
<1>9. ASSUME NEW w \in Worker, NEW c \in held[w], Resolve(w, c) PROVE TypeOK'
  <2>1. c.delivery \in Delivery
    BY ClaimFields
  <2>2. ASSUME NEW r \in Row PROVE [r EXCEPT !.state = "resolved"] \in Row
    <3>1. 0 \in 0..LeaseDuration
      OBVIOUS
    <3> QED
      BY <3>1, RowUpdates, Zenon
  <2>3. /\ deliveries' = [deliveries EXCEPT ![c.delivery] =
                             [deliveries[c.delivery] EXCEPT !.state = "resolved"]]
        /\ working' = [working EXCEPT ![c.delivery] =
                          [working[c.delivery] EXCEPT !.state = "resolved"]]
    BY <1>9, <2>1 DEF Resolve, TypeOK
  <2>4. /\ deliveries' \in [Delivery -> Row]
        /\ working' \in [Delivery -> Row]
    BY <2>1, <2>2, <2>3 DEF TypeOK
  <2> QED
    BY <1>9, <2>4 DEF Resolve, TypeOK
<1>10. ASSUME NEW w \in Worker, Commit(w) PROVE TypeOK'
  <2>1. /\ tx' \in [Worker -> Transaction]
        /\ rowLock' \in [Delivery -> Worker \cup {None}]
        /\ laneLock' \in [Lane -> Worker \cup {None}]
    BY <1>10 DEF Commit, EndTransaction, Unlocked, TypeOK
  <2>2. deliveries' \in [Delivery -> Row]
    BY <1>10 DEF Commit, TypeOK
  <2>3. {[delivery |-> d, generation |-> working[d].generation] : d \in Granted(w)}
          \subseteq Claim
    <3>1. Granted(w) \subseteq Delivery
      BY DEF Granted
    <3>2. \A d \in Delivery : working[d].generation \in 0..MaxGeneration
      BY DEF TypeOK, Row
    <3>3. ASSUME NEW d \in Granted(w)
          PROVE  [delivery |-> d, generation |-> working[d].generation] \in Claim
      BY <3>1, <3>2 DEF Claim
    <3> QED
      BY <3>3
  <2>4. held' \in [Worker -> SUBSET Claim]
    BY <1>10, <2>3 DEF Commit, TypeOK
  <2> QED
    BY <1>10, <2>1, <2>2, <2>4 DEF Commit, TypeOK
<1>11. ASSUME NEW w \in Worker, Rollback(w) \/ Crash(w) PROVE TypeOK'
  <2>1. /\ tx' \in [Worker -> Transaction]
        /\ rowLock' \in [Delivery -> Worker \cup {None}]
        /\ laneLock' \in [Lane -> Worker \cup {None}]
    BY <1>11 DEF Rollback, Crash, EndTransaction, Unlocked, TypeOK
  <2>2. working' \in [Delivery -> Row]
    BY <1>11 DEF Rollback, Crash, Revert, TypeOK
  <2>3. /\ deliveries' = deliveries
        /\ staged' = staged
        /\ held' \in [Worker -> SUBSET Claim]
    BY <1>11 DEF Rollback, Crash, TypeOK
  <2> QED
    BY <2>1, <2>2, <2>3 DEF TypeOK
<1>12. ASSUME Tick PROVE TypeOK'
  <2>1. /\ deliveries' \in [Delivery -> Row]
        /\ working' \in [Delivery -> Row]
    BY <1>12, AgedTyping DEF Tick, TypeOK
  <2>2. tx' \in [Worker -> Transaction]
    <3> SUFFICES ASSUME NEW w \in Worker PROVE tx'[w] \in Transaction
      BY <1>12 DEF Tick
    <3>1. tx[w] \in Transaction /\ tx[w].age < TransactionTimeout
      BY <1>12 DEF Tick, TypeOK
    <3> QED
      BY <1>12, <3>1 DEF Tick, Transaction
  <2> QED
    BY <1>12, <2>1, <2>2 DEF Tick, TypeOK
<1>13. CASE UNCHANGED vars
  BY <1>13 DEF vars, TypeOK
<1> QED
  BY <1>1, <1>2, <1>3, <1>4, <1>5, <1>6, <1>7, <1>8, <1>9, <1>10, <1>11, <1>12, <1>13
  DEF Next

\* Every reachable state is well typed: no generation, lease or transaction age
\* leaves its range and no lock names anything but a worker.
THEOREM TypeCorrect == Spec => []TypeOK
<1>1. Init => TypeOK
  BY InitTypeOK
<1>2. TypeOK /\ [Next]_vars => TypeOK'
  BY StepTypeOK
<1> QED
  BY <1>1, <1>2, PTL DEF Spec

-----------------------------------------------------------------------------
(* One live lease per lane.                                                *)

LEMMA InitLeaseInv == Init => LeaseInv
<1> SUFFICES ASSUME Init PROVE LeaseInv
  OBVIOUS
<1>1. TypeOK
  BY InitTypeOK
<1>2. /\ LeasePair
      /\ RowUnlockedIsCommitted
      /\ ExtensionHoldsLane
      /\ OneOccupiedPerLane
  BY DEF Init, LeasePair, RowUnlockedIsCommitted, ExtensionHoldsLane,
         OneOccupiedPerLane, Occupied, Absent
<1>3. /\ RenewalHoldsLane
      /\ PageIsUntouched
      /\ IdleHoldsNothing
  BY IdsAssumption
  DEF Init, RenewalHoldsLane, PageIsUntouched, IdleHoldsNothing, Idle
<1> QED
  BY <1>1, <1>2, <1>3 DEF LeaseInv

LEMMA LiveIsTimeLeft ==
  ASSUME TypeOK, LeasePair, NEW d \in Delivery
  PROVE  Live(deliveries[d]) <=> deliveries[d].ttl > 0
BY DEF Live, LeasePair, TypeOK, Row

\* Steps that leave the lease columns and the locks on rows alone.
LEMMA LeasesUntouched ==
  ASSUME LeaseInv,
         \A d \in Delivery : /\ deliveries'[d].owner = deliveries[d].owner
                             /\ deliveries'[d].ttl = deliveries[d].ttl
                             /\ working'[d].owner = working[d].owner
                             /\ working'[d].ttl = working[d].ttl
  PROVE  LeasePair' /\ OneOccupiedPerLane'
BY DEF LeaseInv, LeasePair, OneOccupiedPerLane, Occupied

LEMMA StageStep ==
  ASSUME LeaseInv, TypeOK', NEW l \in Lane, Stage(l)
  PROVE  LeaseInv'
BY DEF Stage, LeaseInv, LeasePair, RowUnlockedIsCommitted, ExtensionHoldsLane,
       RenewalHoldsLane, PageIsUntouched, IdleHoldsNothing, OneOccupiedPerLane, Occupied

\* A step of one worker that takes or frees locks only in its own name keeps
\* what every other worker's locks guarantee.
LEMMA LockFrame ==
  ASSUME LeaseInv, NEW w \in Worker,
         \A v \in Worker : v # w => tx'[v] = tx[v],
         \A m \in Lane : laneLock'[m] \in {laneLock[m], w, None},
         \A m \in Lane : laneLock'[m] # laneLock[m] => laneLock[m] \in {None, w},
         \A e \in Delivery : rowLock'[e] \in {rowLock[e], w, None},
         \A c \in tx'[w].target : laneLock'[LaneOf[c.delivery]] = w,
         \A l \in tx'[w].todo :
           /\ tx'[w].kind = "acquire"
           /\ laneLock'[l] = w
           /\ \A e \in Delivery : LaneOf[e] = l => rowLock'[e] # w,
         tx'[w].kind = "idle" =>
           /\ tx'[w].todo = {} /\ tx'[w].target = {}
           /\ \A e \in Delivery : rowLock'[e] # w
           /\ \A l \in Lane : laneLock'[l] # w
  PROVE  RenewalHoldsLane' /\ PageIsUntouched' /\ IdleHoldsNothing'
<1> USE IdsAssumption
<1>1. TypeOK
  BY DEF LeaseInv
<1>2. RenewalHoldsLane'
  <2> SUFFICES ASSUME NEW v \in Worker, v # w, NEW c \in tx[v].target
               PROVE  laneLock'[LaneOf[c.delivery]] = v
    BY DEF RenewalHoldsLane
  <2>1. LaneOf[c.delivery] \in Lane
    BY <1>1, ClaimFields
  <2>2. laneLock[LaneOf[c.delivery]] = v
    BY DEF LeaseInv, RenewalHoldsLane
  <2> QED
    BY <2>1, <2>2
<1>3. PageIsUntouched'
  <2> SUFFICES ASSUME NEW v \in Worker, v # w, NEW l \in tx[v].todo
               PROVE  /\ tx[v].kind = "acquire"
                      /\ laneLock'[l] = v
                      /\ \A e \in Delivery : LaneOf[e] = l => rowLock'[e] # v
    BY DEF PageIsUntouched
  <2>1. l \in Lane
    BY <1>1, TodoLanes
  <2>2. /\ tx[v].kind = "acquire" /\ laneLock[l] = v
        /\ \A e \in Delivery : LaneOf[e] = l => rowLock[e] # v
    BY DEF LeaseInv, PageIsUntouched
  <2> QED
    BY <2>1, <2>2
<1>4. IdleHoldsNothing'
  <2> SUFFICES ASSUME NEW v \in Worker, v # w, tx[v].kind = "idle"
               PROVE  /\ tx[v].todo = {} /\ tx[v].target = {}
                      /\ \A e \in Delivery : rowLock'[e] # v
                      /\ \A l \in Lane : laneLock'[l] # v
    BY DEF IdleHoldsNothing
  <2>1. /\ tx[v].todo = {} /\ tx[v].target = {}
        /\ \A e \in Delivery : rowLock[e] # v
        /\ \A l \in Lane : laneLock[l] # v
    BY DEF LeaseInv, IdleHoldsNothing
  <2> QED
    BY <2>1
<1> QED
  BY <1>2, <1>3, <1>4

LEMMA MaterializeStep ==
  ASSUME LeaseInv, TypeOK', NEW w \in Worker, NEW d \in Delivery, Materialize(w, d)
  PROVE  LeaseInv'
<1> USE IdsAssumption
<1>1. TypeOK /\ LaneOf[d] \in Lane
  BY DEF LeaseInv
<1>2. /\ \A e \in Delivery : /\ e # d => working'[e] = working[e] /\ rowLock'[e] = rowLock[e]
                             /\ rowLock'[e] \in {rowLock[e], w}
      /\ \/ working'[d] = working[d] /\ rowLock'[d] = rowLock[d]
         \/ working'[d] = Pending /\ rowLock'[d] = w
      /\ deliveries' = deliveries
  BY <1>1 DEF Materialize, TypeOK
<1>3. /\ \A m \in Lane : m # LaneOf[d] => laneLock'[m] = laneLock[m]
      /\ laneLock[LaneOf[d]] = None
      /\ laneLock'[LaneOf[d]] = w
      /\ tx'[w].todo = {} /\ tx'[w].target = {} /\ tx'[w].kind = "materialize"
      /\ \A v \in Worker : v # w => tx'[v] = tx[v]
  BY <1>1 DEF Materialize, TypeOK, Open
<1>4. LeasePair'
  BY <1>1, <1>2 DEF LeaseInv, LeasePair, Pending, Absent
<1>5. RowUnlockedIsCommitted'
  <2>1. rowLock'[d] = None => working'[d] = deliveries'[d]
    BY <1>1, <1>2 DEF LeaseInv, RowUnlockedIsCommitted
  <2>2. \A e \in Delivery : e # d /\ rowLock'[e] = None => working'[e] = deliveries'[e]
    BY <1>2 DEF LeaseInv, RowUnlockedIsCommitted
  <2> QED
    BY <2>1, <2>2 DEF RowUnlockedIsCommitted
<1>6. ExtensionHoldsLane'
  <2>1. \A e \in Delivery : working[e].ttl \in Int /\ deliveries[e].ttl \in Int
    BY <1>1 DEF TypeOK, Row
  <2>2. ASSUME NEW e \in Delivery, working[e].ttl > deliveries[e].ttl
        PROVE  laneLock[LaneOf[e]] = rowLock[e] /\ rowLock[e] # None
    <3>1. laneLock[LaneOf[e]] = rowLock[e]
      BY <2>2 DEF LeaseInv, ExtensionHoldsLane
    <3>2. rowLock[e] = None => working[e].ttl = deliveries[e].ttl
      BY DEF LeaseInv, RowUnlockedIsCommitted
    <3>3. working[e].ttl \in Int /\ deliveries[e].ttl \in Int
      BY <2>1
    <3>4. working[e].ttl # deliveries[e].ttl
      BY <2>2, <3>3
    <3> QED
      BY <3>1, <3>2, <3>4
  <2>3. ASSUME NEW e \in Delivery, working'[e].ttl > deliveries'[e].ttl
        PROVE  working'[e] = working[e] /\ rowLock'[e] = rowLock[e]
    <3>1. Pending.ttl = 0 /\ deliveries[d].ttl >= 0
      BY <1>1 DEF Pending, Absent, TypeOK, Row
    <3> QED
      BY <1>2, <2>1, <2>3, <3>1
  <2>4. ASSUME NEW e \in Delivery, working'[e].ttl > deliveries'[e].ttl
        PROVE  laneLock'[LaneOf[e]] = rowLock'[e]
    <3>1. working[e].ttl > deliveries[e].ttl /\ rowLock'[e] = rowLock[e]
      BY <1>2, <2>3, <2>4
    <3>2. laneLock[LaneOf[e]] = rowLock[e] /\ rowLock[e] # None
      BY <2>2, <3>1
    <3>3. LaneOf[e] \in Lane /\ LaneOf[e] # LaneOf[d]
      BY <1>3, <3>2 DEF LeaseInv
    <3> QED
      BY <1>3, <3>1, <3>2, <3>3
  <2> QED
    BY <2>4 DEF ExtensionHoldsLane
<1>7. RenewalHoldsLane' /\ PageIsUntouched' /\ IdleHoldsNothing'
  BY <1>2, <1>3, LockFrame
<1>8. OneOccupiedPerLane'
  BY <1>1, <1>2 DEF LeaseInv, OneOccupiedPerLane, Occupied, Pending, Absent
<1> QED
  BY <1>4, <1>5, <1>6, <1>7, <1>8 DEF LeaseInv

LEMMA AcquireBeginStep ==
  ASSUME LeaseInv, TypeOK', NEW w \in Worker, AcquireBegin(w)
  PROVE  LeaseInv'
<1> USE IdsAssumption
<1>1. TypeOK
  BY DEF LeaseInv
<1>2. PICK page \in SUBSET Lane :
        /\ \A l \in page : laneLock[l] = None
        /\ laneLock' = [l \in Lane |-> IF l \in page THEN w ELSE laneLock[l]]
        /\ tx' = [tx EXCEPT ![w] = Open("acquire", page, {})]
  BY DEF AcquireBegin
<1>3. /\ tx'[w].todo = page /\ tx'[w].target = {} /\ tx'[w].kind = "acquire"
      /\ \A v \in Worker : v # w => tx'[v] = tx[v]
  BY <1>1, <1>2 DEF Open, TypeOK
<1>4. /\ deliveries' = deliveries /\ working' = working /\ rowLock' = rowLock
      /\ \A e \in Delivery : rowLock[e] # w
  BY DEF AcquireBegin, LeaseInv, IdleHoldsNothing
<1>5. LeasePair' /\ OneOccupiedPerLane'
  BY <1>4, LeasesUntouched
<1>6. RowUnlockedIsCommitted'
  BY <1>4 DEF LeaseInv, RowUnlockedIsCommitted
<1>7. ExtensionHoldsLane'
  <2> SUFFICES ASSUME NEW d \in Delivery, working[d].ttl > deliveries[d].ttl
               PROVE  laneLock'[LaneOf[d]] = rowLock[d]
    BY <1>4 DEF ExtensionHoldsLane
  <2>1. laneLock[LaneOf[d]] = rowLock[d] /\ rowLock[d] # None
    BY <1>1 DEF LeaseInv, ExtensionHoldsLane, RowUnlockedIsCommitted, TypeOK, Row
  <2> QED
    BY <1>2, <2>1
<1>8. RenewalHoldsLane' /\ PageIsUntouched' /\ IdleHoldsNothing'
  BY <1>2, <1>3, <1>4, LockFrame
<1> QED
  BY <1>5, <1>6, <1>7, <1>8 DEF LeaseInv
LEMMA PassOverStep ==
  ASSUME LeaseInv, TypeOK', NEW w \in Worker, NEW l \in Lane, PassOver(w, l)
  PROVE  LeaseInv'
<1>1. TypeOK
  BY DEF LeaseInv
<1>2. /\ tx'[w].todo \subseteq tx[w].todo /\ tx'[w].target = tx[w].target
      /\ tx'[w].kind = "acquire"
      /\ \A v \in Worker : v # w => tx'[v] = tx[v]
  BY <1>1 DEF PassOver, TypeOK, Transaction
<1>3. deliveries' = deliveries /\ working' = working /\ rowLock' = rowLock
      /\ laneLock' = laneLock
  BY DEF PassOver
<1>4. LeasePair' /\ OneOccupiedPerLane' /\ RowUnlockedIsCommitted' /\ ExtensionHoldsLane'
  BY <1>3, LeasesUntouched DEF LeaseInv, RowUnlockedIsCommitted, ExtensionHoldsLane
<1>5. RenewalHoldsLane' /\ PageIsUntouched' /\ IdleHoldsNothing'
  BY <1>2, <1>3, LockFrame DEF LeaseInv, RenewalHoldsLane, PageIsUntouched
<1> QED
  BY <1>4, <1>5 DEF LeaseInv

LEMMA LockHeadStep ==
  ASSUME LeaseInv, TypeOK', NEW w \in Worker, NEW d \in Delivery, LockHead(w, d)
  PROVE  LeaseInv'
<1> USE IdsAssumption
<1>1. TypeOK /\ LaneOf[d] \in Lane
  BY DEF LeaseInv
<1>2. /\ \A e \in Delivery : /\ e # d => working'[e] = working[e] /\ rowLock'[e] = rowLock[e]
                             /\ rowLock'[e] \in {rowLock[e], w}
      /\ rowLock[d] = None /\ rowLock'[d] = w
      /\ deliveries' = deliveries /\ laneLock' = laneLock
      /\ \/ working'[d] = working[d]
         \/ working'[d].owner = w
  BY <1>1 DEF LockHead, TypeOK, Row
<1>3. /\ LaneOf[d] \in tx[w].todo
      /\ tx'[w].todo = tx[w].todo \ {LaneOf[d]} /\ tx'[w].target = tx[w].target
      /\ tx'[w].kind = "acquire"
      /\ \A v \in Worker : v # w => tx'[v] = tx[v]
  BY <1>1 DEF LockHead, TypeOK, Transaction
<1>4. laneLock[LaneOf[d]] = w /\ \A e \in Delivery : LaneOf[e] = LaneOf[d] => rowLock[e] # w
  BY <1>3 DEF LeaseInv, PageIsUntouched
<1>5. LeasePair'
  BY <1>1, <1>2 DEF LeaseInv, LeasePair
<1>6. RowUnlockedIsCommitted'
  BY <1>2 DEF LeaseInv, RowUnlockedIsCommitted
<1>7. ExtensionHoldsLane'
  BY <1>2, <1>4 DEF LeaseInv, ExtensionHoldsLane
<1>8. RenewalHoldsLane' /\ PageIsUntouched' /\ IdleHoldsNothing'
  BY <1>2, <1>3, LockFrame DEF LeaseInv, RenewalHoldsLane, PageIsUntouched
\* No row of the lane has lease time: none is committed, because the active
\* lease check failed, and none is being written, because that would take the
\* lane lock this transaction holds.
<1>9. ASSUME NEW e \in Delivery, LaneOf[e] = LaneOf[d] PROVE ~Occupied(e)
  <2>1. ~Live(deliveries[e])
    BY <1>9 DEF LockHead, ActiveLaneLease
  <2>2. ~(deliveries[e].ttl > 0)
    BY <1>1, <2>1, LiveIsTimeLeft DEF LeaseInv
  <2>3. ~(working[e].ttl > deliveries[e].ttl)
    BY <1>4, <1>9 DEF LeaseInv, ExtensionHoldsLane
  <2> QED
    BY <1>1, <2>2, <2>3 DEF Occupied, TypeOK, Row
<1>10. OneOccupiedPerLane'
  <2> SUFFICES ASSUME NEW e \in Delivery, NEW f \in Delivery, LaneOf[e] = LaneOf[f],
                      Occupied(e)', Occupied(f)'
               PROVE  e = f
    BY DEF OneOccupiedPerLane
  <2>1. /\ e # d => Occupied(e)
        /\ f # d => Occupied(f)
    BY <1>2 DEF Occupied
  <2> QED
    BY <1>9, <2>1 DEF LeaseInv, OneOccupiedPerLane
<1> QED
  BY <1>5, <1>6, <1>7, <1>8, <1>10 DEF LeaseInv

LEMMA RenewLockStep ==
  ASSUME LeaseInv, TypeOK', NEW w \in Worker, NEW c \in held[w], RenewLock(w, c)
  PROVE  LeaseInv'
<1> USE IdsAssumption
<1>1. TypeOK /\ LaneOf[c.delivery] \in Lane
  BY ClaimFields DEF LeaseInv
<1>2. /\ laneLock[LaneOf[c.delivery]] = None
      /\ laneLock' = [laneLock EXCEPT ![LaneOf[c.delivery]] = w]
      /\ tx'[w].todo = {} /\ tx'[w].target = {c} /\ tx'[w].kind = "renewing"
      /\ \A v \in Worker : v # w => tx'[v] = tx[v]
  BY <1>1 DEF RenewLock, TypeOK, Open
<1>3. deliveries' = deliveries /\ working' = working /\ rowLock' = rowLock
  BY DEF RenewLock
<1>4. LeasePair' /\ OneOccupiedPerLane' /\ RowUnlockedIsCommitted'
  BY <1>3, LeasesUntouched DEF LeaseInv, RowUnlockedIsCommitted
<1>5. ExtensionHoldsLane'
  <2> SUFFICES ASSUME NEW d \in Delivery, working[d].ttl > deliveries[d].ttl
               PROVE  laneLock'[LaneOf[d]] = rowLock[d]
    BY <1>3 DEF ExtensionHoldsLane
  <2>1. laneLock[LaneOf[d]] = rowLock[d] /\ rowLock[d] # None
    BY <1>1 DEF LeaseInv, ExtensionHoldsLane, RowUnlockedIsCommitted, TypeOK, Row
  <2> QED
    BY <1>1, <1>2, <2>1 DEF TypeOK
<1>6. RenewalHoldsLane' /\ PageIsUntouched' /\ IdleHoldsNothing'
  <2>1. /\ \A m \in Lane : laneLock'[m] \in {laneLock[m], w, None}
        /\ \A m \in Lane : laneLock'[m] # laneLock[m] => laneLock[m] \in {None, w}
        /\ laneLock'[LaneOf[c.delivery]] = w
    BY <1>1, <1>2 DEF TypeOK
  <2> QED
    BY <1>2, <1>3, <2>1, LockFrame
<1> QED
  BY <1>4, <1>5, <1>6 DEF LeaseInv

LEMMA RenewUpdateStep ==
  ASSUME LeaseInv, TypeOK', NEW w \in Worker, NEW c \in tx[w].target, RenewUpdate(w, c)
  PROVE  LeaseInv'
<1> USE IdsAssumption
<1> DEFINE d == c.delivery
<1>1. TypeOK /\ d \in Delivery /\ LaneOf[d] \in Lane
  BY ClaimFields DEF LeaseInv
<1>2. /\ \A e \in Delivery : /\ e # d => working'[e] = working[e] /\ rowLock'[e] = rowLock[e]
                             /\ rowLock'[e] \in {rowLock[e], w}
      /\ rowLock[d] = None
      /\ deliveries' = deliveries /\ laneLock' = laneLock
      /\ \/ working'[d] = working[d] /\ rowLock'[d] = rowLock[d]
         \/ /\ Fenced(w, c) /\ rowLock'[d] = w
            /\ working'[d].owner = working[d].owner
  <2>1. \/ working' = working /\ rowLock' = rowLock
        \/ /\ Fenced(w, c)
           /\ rowLock' = [rowLock EXCEPT ![d] = w]
           /\ working' = [working EXCEPT ![d].ttl = LeaseDuration]
    BY DEF RenewUpdate
  <2>2. rowLock[d] = None /\ deliveries' = deliveries /\ laneLock' = laneLock
    BY DEF RenewUpdate
  <2>3. CASE working' = working /\ rowLock' = rowLock
    BY <2>2, <2>3
  <2>4. CASE /\ Fenced(w, c)
             /\ rowLock' = [rowLock EXCEPT ![d] = w]
             /\ working' = [working EXCEPT ![d].ttl = LeaseDuration]
    <3>1. /\ \A e \in Delivery : e # d => working'[e] = working[e] /\ rowLock'[e] = rowLock[e]
          /\ rowLock'[d] = w
      BY <1>1, <2>4 DEF TypeOK
    <3>2. working'[d].owner = working[d].owner
      BY <1>1, <2>4 DEF TypeOK, Row
    <3> QED
      BY <1>1, <2>2, <2>4, <3>1, <3>2
  <2> QED
    BY <2>1, <2>3, <2>4
<1>3. /\ tx'[w].todo = tx[w].todo /\ tx'[w].target = tx[w].target
      /\ tx'[w].kind = "renew"
      /\ \A v \in Worker : v # w => tx'[v] = tx[v]
  BY <1>1 DEF RenewUpdate, TypeOK, Transaction
<1>4. laneLock[LaneOf[d]] = w
  BY DEF LeaseInv, RenewalHoldsLane
<1>5. Fenced(w, c) => /\ deliveries[d].ttl > 0 /\ working[d] = deliveries[d]
                      /\ working[d].owner # None
  BY <1>1, <1>2 DEF Fenced, Live, LeaseInv, RowUnlockedIsCommitted
<1>6. LeasePair'
  BY <1>1, <1>2, <1>5 DEF LeaseInv, LeasePair
<1>7. RowUnlockedIsCommitted'
  BY <1>1, <1>2 DEF LeaseInv, RowUnlockedIsCommitted
<1>8. ExtensionHoldsLane'
  BY <1>1, <1>2, <1>4 DEF LeaseInv, ExtensionHoldsLane
<1>9. RenewalHoldsLane' /\ PageIsUntouched' /\ IdleHoldsNothing'
  <2>1. tx[w].todo = {}
    BY DEF LeaseInv, PageIsUntouched, RenewUpdate
  <2> QED
    BY <1>2, <1>3, <2>1, LockFrame DEF LeaseInv, RenewalHoldsLane
<1>10. \A e \in Delivery : Occupied(e)' => Occupied(e)
  BY <1>1, <1>2, <1>5 DEF Occupied
<1>11. OneOccupiedPerLane'
  BY <1>10 DEF LeaseInv, OneOccupiedPerLane
<1> QED
  BY <1>6, <1>7, <1>8, <1>9, <1>11 DEF LeaseInv

LEMMA CompleteStep ==
  ASSUME LeaseInv, TypeOK', NEW w \in Worker, NEW c \in held[w], Complete(w, c)
  PROVE  LeaseInv'
<1> USE IdsAssumption
<1> DEFINE d == c.delivery
<1>1. TypeOK /\ d \in Delivery /\ LaneOf[d] \in Lane
  BY ClaimFields DEF LeaseInv
<1>2. /\ \A e \in Delivery : /\ e # d => working'[e] = working[e] /\ rowLock'[e] = rowLock[e]
                             /\ rowLock'[e] \in {rowLock[e], w}
      /\ rowLock'[d] = w /\ working'[d].ttl = 0
      /\ deliveries' = deliveries /\ laneLock' = laneLock
  <2>1. /\ rowLock' = [rowLock EXCEPT ![d] = w]
        /\ working' = [working EXCEPT ![d].owner = None, ![d].ttl = 0]
        /\ deliveries' = deliveries /\ laneLock' = laneLock
    BY DEF Complete
  <2> QED
    BY <1>1, <2>1 DEF TypeOK, Row
<1>3. /\ tx'[w].todo = {} /\ tx'[w].target = {} /\ tx'[w].kind = "complete"
      /\ \A v \in Worker : v # w => tx'[v] = tx[v]
  BY <1>1 DEF Complete, TypeOK, Open
<1>4. LeasePair'
  BY <1>1, <1>2 DEF LeaseInv, LeasePair
<1>5. RowUnlockedIsCommitted'
  BY <1>2 DEF LeaseInv, RowUnlockedIsCommitted
<1>6. ExtensionHoldsLane'
  BY <1>1, <1>2 DEF LeaseInv, ExtensionHoldsLane, TypeOK, Row
<1>7. RenewalHoldsLane' /\ PageIsUntouched' /\ IdleHoldsNothing'
  BY <1>2, <1>3, LockFrame
<1>8. \A e \in Delivery : Occupied(e)' => Occupied(e)
  <2> SUFFICES ASSUME NEW e \in Delivery, Occupied(e)' PROVE Occupied(e)
    OBVIOUS
  <2>1. CASE e = d
    <3>1. ~(0 > 0)
      OBVIOUS
    <3> QED
      BY <1>2, <2>1, <3>1 DEF Occupied
  <2>2. CASE e # d
    BY <1>2, <2>2 DEF Occupied
  <2> QED
    BY <2>1, <2>2
<1>9. OneOccupiedPerLane'
  BY <1>8 DEF LeaseInv, OneOccupiedPerLane
<1> QED
  BY <1>4, <1>5, <1>6, <1>7, <1>9 DEF LeaseInv

\* What ending a transaction does to the locks.
LEMMA EndFrame ==
  ASSUME LeaseInv, NEW w \in Worker, EndTransaction(w)
  PROVE  /\ RenewalHoldsLane' /\ PageIsUntouched' /\ IdleHoldsNothing'
         /\ \A e \in Delivery : rowLock'[e] = IF rowLock[e] = w THEN None ELSE rowLock[e]
         /\ \A m \in Lane : laneLock'[m] = IF laneLock[m] = w THEN None ELSE laneLock[m]
<1> USE IdsAssumption
<1>1. TypeOK
  BY DEF LeaseInv
<1>2. /\ tx'[w].todo = {} /\ tx'[w].target = {}
      /\ \A v \in Worker : v # w => tx'[v] = tx[v]
  BY <1>1 DEF EndTransaction, TypeOK, Idle
<1>3. /\ \A e \in Delivery : rowLock'[e] = IF rowLock[e] = w THEN None ELSE rowLock[e]
      /\ \A m \in Lane : laneLock'[m] = IF laneLock[m] = w THEN None ELSE laneLock[m]
  BY <1>1 DEF EndTransaction, Unlocked, TypeOK
<1>4. RenewalHoldsLane' /\ PageIsUntouched' /\ IdleHoldsNothing'
  BY <1>2, <1>3, LockFrame
<1> QED
  BY <1>3, <1>4

LEMMA CommitStep ==
  ASSUME LeaseInv, TypeOK', NEW w \in Worker, Commit(w)
  PROVE  LeaseInv'
<1> USE IdsAssumption
<1>1. TypeOK
  BY DEF LeaseInv
<1>2. /\ \A e \in Delivery : deliveries'[e] = IF rowLock[e] = w THEN working[e] ELSE deliveries[e]
      /\ working' = working
      /\ EndTransaction(w)
  BY DEF Commit
<1>3. LeasePair'
  BY <1>2 DEF LeaseInv, LeasePair
<1>4. RowUnlockedIsCommitted'
  BY <1>2, EndFrame DEF LeaseInv, RowUnlockedIsCommitted
<1>5. ExtensionHoldsLane'
  <2> SUFFICES ASSUME NEW d \in Delivery, working[d].ttl > deliveries'[d].ttl
               PROVE  laneLock'[LaneOf[d]] = rowLock'[d]
    BY <1>2 DEF ExtensionHoldsLane
  <2>1. rowLock[d] # w /\ deliveries'[d] = deliveries[d]
    BY <1>1, <1>2 DEF TypeOK, Row
  <2>2. laneLock[LaneOf[d]] = rowLock[d]
    BY <2>1 DEF LeaseInv, ExtensionHoldsLane
  <2>3. LaneOf[d] \in Lane
    OBVIOUS
  <2> QED
    BY <1>2, <2>1, <2>2, <2>3, EndFrame
<1>6. \A e \in Delivery : Occupied(e)' => Occupied(e)
  BY <1>2 DEF Occupied
<1>7. OneOccupiedPerLane'
  BY <1>6 DEF LeaseInv, OneOccupiedPerLane
<1> QED
  BY <1>2, <1>3, <1>4, <1>5, <1>7, EndFrame DEF LeaseInv

LEMMA RevertStep ==
  ASSUME LeaseInv, TypeOK', NEW w \in Worker,
         Revert(w), EndTransaction(w), deliveries' = deliveries
  PROVE  LeaseInv'
<1> USE IdsAssumption
<1>1. TypeOK
  BY DEF LeaseInv
<1>2. \A e \in Delivery : working'[e] = IF rowLock[e] = w THEN deliveries[e] ELSE working[e]
  BY DEF Revert
<1>3. LeasePair'
  BY <1>2 DEF LeaseInv, LeasePair
<1>4. RowUnlockedIsCommitted'
  BY <1>2, EndFrame DEF LeaseInv, RowUnlockedIsCommitted
<1>5. ExtensionHoldsLane'
  <2> SUFFICES ASSUME NEW d \in Delivery, working'[d].ttl > deliveries[d].ttl
               PROVE  laneLock'[LaneOf[d]] = rowLock'[d]
    BY DEF ExtensionHoldsLane
  <2>1. rowLock[d] # w /\ working'[d] = working[d]
    BY <1>1, <1>2 DEF TypeOK, Row
  <2>2. laneLock[LaneOf[d]] = rowLock[d]
    BY <2>1 DEF LeaseInv, ExtensionHoldsLane
  <2>3. LaneOf[d] \in Lane
    OBVIOUS
  <2> QED
    BY <2>1, <2>2, <2>3, EndFrame
<1>6. \A e \in Delivery : Occupied(e)' => Occupied(e)
  BY <1>2 DEF Occupied
<1>7. OneOccupiedPerLane'
  BY <1>6 DEF LeaseInv, OneOccupiedPerLane
<1> QED
  BY <1>3, <1>4, <1>5, <1>7, EndFrame DEF LeaseInv

LEMMA ResolveStep ==
  ASSUME LeaseInv, TypeOK', NEW w \in Worker, NEW c \in held[w], Resolve(w, c)
  PROVE  LeaseInv'
<1> DEFINE d == c.delivery
<1>1. TypeOK /\ d \in Delivery
  BY ClaimFields DEF LeaseInv
<1>2. /\ rowLock[d] = None
      /\ deliveries' = [deliveries EXCEPT ![d].state = "resolved"]
      /\ working' = [working EXCEPT ![d].state = "resolved"]
      /\ rowLock' = rowLock /\ laneLock' = laneLock /\ tx' = tx
  BY DEF Resolve
<1>3. \A e \in Delivery : /\ deliveries'[e].owner = deliveries[e].owner
                          /\ deliveries'[e].ttl = deliveries[e].ttl
                          /\ working'[e].owner = working[e].owner
                          /\ working'[e].ttl = working[e].ttl
  BY <1>1, <1>2 DEF TypeOK, Row
<1>4. LeasePair' /\ OneOccupiedPerLane'
  BY <1>3, LeasesUntouched
<1>5. ExtensionHoldsLane'
  BY <1>2, <1>3 DEF LeaseInv, ExtensionHoldsLane
<1>6. RowUnlockedIsCommitted'
  <2>1. working[d] = deliveries[d]
    BY <1>1, <1>2 DEF LeaseInv, RowUnlockedIsCommitted
  <2> QED
    BY <1>1, <1>2, <2>1 DEF LeaseInv, RowUnlockedIsCommitted, TypeOK
<1>7. RenewalHoldsLane' /\ PageIsUntouched' /\ IdleHoldsNothing'
  BY <1>2 DEF LeaseInv, RenewalHoldsLane, PageIsUntouched, IdleHoldsNothing
<1> QED
  BY <1>4, <1>5, <1>6, <1>7 DEF LeaseInv

LEMMA TickStep ==
  ASSUME LeaseInv, TypeOK', Tick
  PROVE  LeaseInv'
<1>1. TypeOK
  BY DEF LeaseInv
<1>2. /\ rowLock' = rowLock /\ laneLock' = laneLock
      /\ \A e \in Delivery :
           /\ deliveries'[e].owner = deliveries[e].owner
           /\ deliveries'[e].ttl = IF deliveries[e].ttl > 0 THEN deliveries[e].ttl - 1 ELSE 0
           /\ working'[e].owner = working[e].owner
           /\ working'[e].ttl = IF working[e].ttl > 0 THEN working[e].ttl - 1 ELSE 0
           /\ working[e] = deliveries[e] => working'[e] = deliveries'[e]
  BY <1>1 DEF Tick, Aged, TypeOK, Row
<1>3. \A w \in Worker : /\ tx'[w].kind = tx[w].kind
                        /\ tx'[w].todo = tx[w].todo
                        /\ tx'[w].target = tx[w].target
  BY <1>1 DEF Tick, TypeOK, Transaction
<1>4. LeasePair'
  BY <1>2 DEF LeaseInv, LeasePair
<1>5. RowUnlockedIsCommitted'
  BY <1>2 DEF LeaseInv, RowUnlockedIsCommitted
<1>6. ExtensionHoldsLane'
  <2> SUFFICES ASSUME NEW d \in Delivery, working'[d].ttl > deliveries'[d].ttl
               PROVE  laneLock[LaneOf[d]] = rowLock[d]
    BY <1>2 DEF ExtensionHoldsLane
  <2>1. working[d].ttl \in Nat /\ deliveries[d].ttl \in Nat
    BY <1>1, BoundsAssumption DEF TypeOK, Row
  <2>2. working[d].ttl > deliveries[d].ttl
    BY <1>2, <2>1
  <2> QED
    BY <2>2 DEF LeaseInv, ExtensionHoldsLane
<1>7. RenewalHoldsLane' /\ PageIsUntouched' /\ IdleHoldsNothing'
  BY <1>2, <1>3 DEF LeaseInv, RenewalHoldsLane, PageIsUntouched, IdleHoldsNothing
<1>8. \A e \in Delivery : Occupied(e)' => Occupied(e)
  BY <1>1, <1>2 DEF Occupied, TypeOK, Row
<1>9. OneOccupiedPerLane'
  BY <1>8 DEF LeaseInv, OneOccupiedPerLane
<1> QED
  BY <1>4, <1>5, <1>6, <1>7, <1>9 DEF LeaseInv

LEMMA StepLeaseInv == LeaseInv /\ [Next]_vars => LeaseInv'
<1> SUFFICES ASSUME LeaseInv, [Next]_vars PROVE LeaseInv'
  OBVIOUS
<1>1. TypeOK'
  BY StepTypeOK DEF LeaseInv
<1>2. ASSUME NEW w \in Worker, Rollback(w) \/ Crash(w) PROVE LeaseInv'
  BY <1>1, <1>2, RevertStep DEF Rollback, Crash
<1>3. CASE UNCHANGED vars
  BY <1>3 DEF vars, LeaseInv, TypeOK, LeasePair, RowUnlockedIsCommitted, ExtensionHoldsLane,
              RenewalHoldsLane, PageIsUntouched, IdleHoldsNothing, OneOccupiedPerLane, Occupied
<1> QED
  BY <1>1, <1>2, <1>3, StageStep, MaterializeStep, AcquireBeginStep, PassOverStep,
     LockHeadStep, RenewLockStep, RenewUpdateStep, CompleteStep, CommitStep, ResolveStep,
     TickStep DEF Next

\* The inductive invariant: in every state, also between the statements of a
\* transaction, leases, row locks and lane locks fit together.
THEOREM LeaseInvariant == Spec => []LeaseInv
<1>1. Init => LeaseInv
  BY InitLeaseInv
<1>2. LeaseInv /\ [Next]_vars => LeaseInv'
  BY StepLeaseInv
<1> QED
  BY <1>1, <1>2, PTL DEF Spec

\* A lane never has two live leases, whatever the interleaving of acquisition,
\* materialization, renewal, completion, expiry, crash and rollback.
THEOREM NoDoubleLease == Spec => []OneActiveLeasePerLane
<1>1. LeaseInv => OneActiveLeasePerLane
  BY LiveIsTimeLeft DEF LeaseInv, OneActiveLeasePerLane, OneOccupiedPerLane, Occupied
<1> QED
  BY <1>1, LeaseInvariant, PTL
-----------------------------------------------------------------------------
(***************************************************************************)
(* Fencing tokens, the order within a lane and the claim limit, and that   *)
(* every lane implements FencedLease.                                      *)
(*                                                                         *)
(* The properties speak of what is committed or returned, and nothing of   *)
(* that happens before the COMMIT.  Written says what each kind of         *)
(* transaction has made of a row it has locked; HeadsAreLeased that a      *)
(* lease about to be committed is still that of the head of its lane.      *)
(***************************************************************************)

LeaseWritten(w, d) ==
  /\ tx[w].kind = "acquire"
  /\ deliveries[d].state = "unresolved"
  /\ deliveries[d].ttl = 0
  /\ working[d].state = "unresolved"
  /\ working[d].owner = w
  /\ working[d].generation = deliveries[d].generation + 1
  /\ LeaseDuration <= working[d].ttl + tx[w].age

RenewalWritten(w, d) ==
  /\ tx[w].kind = "renew"
  /\ deliveries[d].owner = w
  /\ working[d].state = deliveries[d].state
  /\ working[d].owner = w
  /\ working[d].generation = deliveries[d].generation

CompletionWritten(w, d) ==
  /\ tx[w].kind = "complete"
  /\ deliveries[d].owner = w
  /\ working[d].state = deliveries[d].state
  /\ working[d].owner = None
  /\ working[d].ttl = 0
  /\ working[d].generation = deliveries[d].generation

InsertWritten(w, d) ==
  /\ tx[w].kind = "materialize"
  /\ deliveries[d] = Absent
  /\ working[d] = Pending
  /\ laneLock[LaneOf[d]] = w

HeadLocked(w, d) ==
  /\ tx[w].kind = "acquire"
  /\ deliveries[d].state = "unresolved"
  /\ working[d] = deliveries[d]

Written ==
  \A w \in Worker, d \in Delivery : rowLock[d] = w =>
    \/ HeadLocked(w, d) \/ LeaseWritten(w, d)
    \/ RenewalWritten(w, d) \/ CompletionWritten(w, d) \/ InsertWritten(w, d)

AbsentIsBlank ==
  \A d \in Delivery : deliveries[d].state = "absent" => deliveries[d] = Absent

\* A delivery is materialized behind the checkpoint of its partition.
MaterializedIsStaged ==
  \A d \in Delivery :
    deliveries[d].state # "absent" \/ working[d].state # "absent" =>
      OffsetOf[d] < staged[LaneOf[d]]

HeadsAreLeased ==
  \A w \in Worker, d \in Delivery : rowLock[d] = w /\ LeaseWritten(w, d) =>
    \A e \in Delivery : Precedes(e, d) => deliveries[e].state # "unresolved"

NothingWrittenPastDiscontinuity ==
  \A d \in Delivery, q \in Quarantined :
    q[1] = LaneOf[d] /\ q[2] < OffsetOf[d] =>
      deliveries[d].generation = 0 /\ working[d].generation = 0

WithinLimit ==
  \A w \in Worker : IsFiniteSet(Granted(w)) /\ Cardinality(Granted(w)) <= Limit

FencingInv ==
  /\ LeaseInv
  /\ Written
  /\ AbsentIsBlank
  /\ MaterializedIsStaged
  /\ HeadsAreLeased
  /\ NothingWrittenPastDiscontinuity
  /\ ClaimsAreUnique
  /\ WithinLimit

-----------------------------------------------------------------------------
LEMMA InitFencingInv == Init => FencingInv
<1> SUFFICES ASSUME Init PROVE FencingInv
  OBVIOUS
<1>1. LeaseInv
  BY InitLeaseInv
<1>2. /\ Written
      /\ AbsentIsBlank
      /\ MaterializedIsStaged
      /\ HeadsAreLeased
      /\ NothingWrittenPastDiscontinuity
      /\ ClaimsAreUnique
  BY IdsAssumption
  DEF Init, Written, AbsentIsBlank, MaterializedIsStaged, HeadsAreLeased,
      NothingWrittenPastDiscontinuity, ClaimsAreUnique, Absent
<1>3. WithinLimit
  <2> SUFFICES ASSUME NEW w \in Worker
               PROVE  IsFiniteSet(Granted(w)) /\ Cardinality(Granted(w)) <= Limit
    BY DEF WithinLimit
  <2>1. Granted(w) = {}
    BY DEF Init, Granted, Idle
  <2> QED
    BY <2>1, FS_EmptySet, BoundsAssumption
<1> QED
  BY <1>1, <1>2, <1>3 DEF FencingInv

\* A step that writes no row keeps FencingInv if the transactions that have locked
\* one stay as they are and no lane lock is given up.
LEMMA QuietStep ==
  ASSUME FencingInv, LeaseInv',
         UNCHANGED <<deliveries, working, rowLock, held>>,
         \A l \in Lane : staged[l] <= staged'[l],
         \A l \in Lane : laneLock[l] # None => laneLock'[l] = laneLock[l],
         \A w \in Worker, d \in Delivery : rowLock[d] = w =>
           tx'[w].kind = tx[w].kind /\ tx'[w].age = tx[w].age
  PROVE  FencingInv'
<1> USE IdsAssumption DEF FencingInv
<1>1. TypeOK /\ TypeOK'
  BY DEF LeaseInv
<1>2. Written'
  <2> SUFFICES ASSUME NEW w \in Worker, NEW d \in Delivery, rowLock[d] = w
               PROVE  \/ HeadLocked(w, d)' \/ LeaseWritten(w, d)' \/ RenewalWritten(w, d)'
                      \/ CompletionWritten(w, d)' \/ InsertWritten(w, d)'
    BY DEF Written
  <2>1. \/ HeadLocked(w, d) \/ LeaseWritten(w, d)
        \/ RenewalWritten(w, d) \/ CompletionWritten(w, d) \/ InsertWritten(w, d)
    BY DEF Written
  <2>2. LaneOf[d] \in Lane
    OBVIOUS
  <2> QED
    BY <2>1, <2>2
    DEF HeadLocked, LeaseWritten, RenewalWritten, CompletionWritten, InsertWritten
<1>3. AbsentIsBlank'
  BY DEF AbsentIsBlank
<1>4. MaterializedIsStaged'
  BY <1>1 DEF MaterializedIsStaged, TypeOK
<1>5. HeadsAreLeased'
  BY DEF HeadsAreLeased, LeaseWritten
<1>6. NothingWrittenPastDiscontinuity' /\ ClaimsAreUnique'
  BY DEF NothingWrittenPastDiscontinuity, ClaimsAreUnique
<1>7. ASSUME NEW w \in Worker PROVE Granted(w)' = Granted(w)
  BY DEF Granted
<1>8. WithinLimit'
  BY <1>7 DEF WithinLimit
<1> QED
  BY <1>2, <1>3, <1>4, <1>5, <1>6, <1>8

\* A step in which w locks the row d and writes it, or writes nothing.
LEMMA WriteStep ==
  ASSUME FencingInv, LeaseInv', NEW w \in Worker, NEW d \in Delivery,
         UNCHANGED <<deliveries, held, staged>>,
         \A e \in Delivery : e # d => working'[e] = working[e] /\ rowLock'[e] = rowLock[e],
         rowLock[d] = None, rowLock'[d] = w,
         \A v \in Worker : v # w => tx'[v] = tx[v],
         \A l \in Lane : laneLock[l] # None => laneLock'[l] = laneLock[l],
         \A e \in Delivery : rowLock[e] = w =>
           tx'[w].kind = tx[w].kind /\ tx'[w].age = tx[w].age,
         \/ HeadLocked(w, d)' \/ LeaseWritten(w, d)'
         \/ RenewalWritten(w, d)' \/ CompletionWritten(w, d)' \/ InsertWritten(w, d)',
         LeaseWritten(w, d)' =>
           \A e \in Delivery : Precedes(e, d) => deliveries[e].state # "unresolved",
         working'[d].state # "absent" => OffsetOf[d] < staged[LaneOf[d]],
         \A q \in Quarantined :
           q[1] = LaneOf[d] /\ q[2] < OffsetOf[d] => working'[d].generation = 0,
         IsFiniteSet(Granted(w))' /\ Cardinality(Granted(w))' <= Limit
  PROVE  FencingInv'
<1> USE IdsAssumption DEF FencingInv
<1>1. Written'
  <2> SUFFICES ASSUME NEW v \in Worker, NEW e \in Delivery, rowLock'[e] = v
               PROVE  \/ HeadLocked(v, e)' \/ LeaseWritten(v, e)' \/ RenewalWritten(v, e)'
                      \/ CompletionWritten(v, e)' \/ InsertWritten(v, e)'
    BY DEF Written
  <2>1. CASE e = d
    BY <2>1
  <2>2. CASE e # d
    <3>1. \/ HeadLocked(v, e) \/ LeaseWritten(v, e)
          \/ RenewalWritten(v, e) \/ CompletionWritten(v, e) \/ InsertWritten(v, e)
      BY <2>2 DEF Written
    <3>2. LaneOf[e] \in Lane /\ tx'[v].kind = tx[v].kind /\ tx'[v].age = tx[v].age
      BY <2>2
    <3> QED
      BY <2>2, <3>1, <3>2
      DEF HeadLocked, LeaseWritten, RenewalWritten, CompletionWritten, InsertWritten
  <2> QED
    BY <2>1, <2>2
<1>2. AbsentIsBlank'
  BY DEF AbsentIsBlank
<1>3. MaterializedIsStaged'
  BY DEF MaterializedIsStaged
<1>4. HeadsAreLeased'
  <2> SUFFICES ASSUME NEW v \in Worker, NEW e \in Delivery, rowLock'[e] = v,
                      LeaseWritten(v, e)', NEW f \in Delivery, Precedes(f, e)
               PROVE  deliveries[f].state # "unresolved"
    BY DEF HeadsAreLeased
  <2>1. CASE e = d
    BY <2>1
  <2>2. CASE e # d
    <3>1. LeaseWritten(v, e) /\ rowLock[e] = v
      BY <2>2 DEF LeaseWritten
    <3> QED
      BY <3>1 DEF HeadsAreLeased
  <2> QED
    BY <2>1, <2>2
<1>5. NothingWrittenPastDiscontinuity' /\ ClaimsAreUnique'
  BY DEF NothingWrittenPastDiscontinuity, ClaimsAreUnique
<1>6. WithinLimit'
  <2>1. ASSUME NEW v \in Worker, v # w PROVE Granted(v)' = Granted(v)
    BY <2>1 DEF Granted
  <2> QED
    BY <2>1 DEF WithinLimit
<1> QED
  BY <1>1, <1>2, <1>3, <1>4, <1>5, <1>6

LEMMA StageKeepsFencing ==
  ASSUME FencingInv, LeaseInv', NEW l \in Lane, Stage(l)
  PROVE  FencingInv'
<1>1. staged \in [Lane -> Nat]
  BY BoundsAssumption DEF FencingInv, LeaseInv, TypeOK
<1>2. \A m \in Lane : staged[m] <= staged'[m]
  BY <1>1 DEF Stage
<1> QED
  BY <1>2, QuietStep DEF Stage

LEMMA QuietActions ==
  ASSUME FencingInv, LeaseInv', NEW w \in Worker,
         \/ AcquireBegin(w)
         \/ \E l \in Lane : PassOver(w, l)
         \/ \E c \in held[w] : RenewLock(w, c)
  PROVE  FencingInv'
<1> USE IdsAssumption
<1>1. TypeOK /\ IdleHoldsNothing
  BY DEF FencingInv, LeaseInv
<1>2. UNCHANGED <<deliveries, working, rowLock, held, staged>>
  BY DEF AcquireBegin, PassOver, RenewLock
<1>3. \A l \in Lane : staged[l] <= staged'[l]
  BY <1>1, <1>2, BoundsAssumption DEF TypeOK
<1>4. \A l \in Lane : laneLock[l] # None => laneLock'[l] = laneLock[l]
  <2>1. CASE AcquireBegin(w)
    BY <2>1 DEF AcquireBegin
  <2>2. CASE \E c \in held[w] : RenewLock(w, c)
    BY <1>1, <2>2 DEF RenewLock, TypeOK
  <2>3. CASE \E l \in Lane : PassOver(w, l)
    BY <2>3 DEF PassOver
  <2> QED
    BY <2>1, <2>2, <2>3
<1>5. \A v \in Worker, d \in Delivery : rowLock[d] = v =>
        tx'[v].kind = tx[v].kind /\ tx'[v].age = tx[v].age
  <2>1. CASE AcquireBegin(w) \/ \E c \in held[w] : RenewLock(w, c)
    <3>1. \A d \in Delivery : rowLock[d] # w
      BY <1>1, <2>1 DEF AcquireBegin, RenewLock, IdleHoldsNothing
    <3>2. \A v \in Worker : v # w => tx'[v] = tx[v]
      BY <1>1, <2>1 DEF AcquireBegin, RenewLock, TypeOK
    <3> QED
      BY <3>1, <3>2
  <2>2. CASE \E l \in Lane : PassOver(w, l)
    BY <1>1, <2>2 DEF PassOver, TypeOK, Transaction
  <2> QED
    BY <2>1, <2>2
<1> QED
  BY <1>2, <1>3, <1>4, <1>5, QuietStep

\* A worker that has just begun has granted nothing.
LEMMA NothingGranted ==
  ASSUME NEW w \in Worker, tx'[w].kind # "acquire"
  PROVE  IsFiniteSet(Granted(w))' /\ Cardinality(Granted(w))' <= Limit
<1>1. Granted(w)' = {}
  BY DEF Granted
<1> QED
  BY <1>1, FS_EmptySet, BoundsAssumption

LEMMA MaterializeKeepsFencing ==
  ASSUME FencingInv, LeaseInv', NEW w \in Worker, NEW d \in Delivery, Materialize(w, d)
  PROVE  FencingInv'
<1> USE IdsAssumption
<1>1. TypeOK /\ IdleHoldsNothing /\ RowUnlockedIsCommitted /\ LaneOf[d] \in Lane
  BY DEF FencingInv, LeaseInv
<1>2. /\ UNCHANGED <<deliveries, held, staged>>
      /\ tx'[w].kind = "materialize"
      /\ \A v \in Worker : v # w => tx'[v] = tx[v]
      /\ \A l \in Lane : laneLock[l] # None => laneLock'[l] = laneLock[l]
      /\ laneLock'[LaneOf[d]] = w
      /\ \A e \in Delivery : rowLock[e] # w
      /\ OffsetOf[d] < staged[LaneOf[d]]
  BY <1>1 DEF Materialize, TypeOK, Open, IdleHoldsNothing
<1>3. CASE deliveries[d].state # "absent"
  <2>1. UNCHANGED <<rowLock, working>>
    BY <1>3 DEF Materialize
  <2>2. \A l \in Lane : staged[l] <= staged'[l]
    BY <1>1, <1>2, BoundsAssumption DEF TypeOK
  <2> QED
    BY <1>2, <2>1, <2>2, QuietStep
<1>4. CASE deliveries[d].state = "absent"
  <2>1. /\ rowLock' = [rowLock EXCEPT ![d] = w]
        /\ working' = [working EXCEPT ![d] = Pending]
    BY <1>4 DEF Materialize
  <2>2. deliveries[d] = Absent
    BY <1>4 DEF FencingInv, AbsentIsBlank
  <2>3. rowLock[d] = None
    <3> SUFFICES ASSUME NEW v \in Worker, rowLock[d] = v PROVE FALSE
      BY <1>1 DEF TypeOK
    <3>1. \/ HeadLocked(v, d) \/ LeaseWritten(v, d)
          \/ RenewalWritten(v, d) \/ CompletionWritten(v, d) \/ InsertWritten(v, d)
      BY DEF FencingInv, Written
    <3>2. deliveries[d].owner # v /\ laneLock[LaneOf[d]] # v
      BY <2>2 DEF Absent, Materialize
    <3> QED
      BY <1>4, <3>1, <3>2
      DEF HeadLocked, LeaseWritten, RenewalWritten, CompletionWritten, InsertWritten
  <2>4. InsertWritten(w, d)'
    BY <1>1, <1>2, <2>1, <2>2 DEF InsertWritten, TypeOK
  <2>5. /\ working'[d].generation = 0
        /\ rowLock'[d] = w
        /\ \A e \in Delivery : e # d => working'[e] = working[e] /\ rowLock'[e] = rowLock[e]
    BY <1>1, <2>1 DEF Pending, Absent, TypeOK
  <2>6. ~LeaseWritten(w, d)'
    BY <1>2 DEF LeaseWritten
  <2>7. IsFiniteSet(Granted(w))' /\ Cardinality(Granted(w))' <= Limit
    BY <1>2, NothingGranted
  <2> QED
    BY <1>2, <2>3, <2>4, <2>5, <2>6, <2>7, WriteStep
<1> QED
  BY <1>3, <1>4

LEMMA LockHeadKeepsFencing ==
  ASSUME FencingInv, LeaseInv', NEW w \in Worker, NEW d \in Delivery, LockHead(w, d)
  PROVE  FencingInv'
<1> USE IdsAssumption, BoundsAssumption
<1>1. TypeOK /\ LeasePair /\ RowUnlockedIsCommitted
  BY DEF FencingInv, LeaseInv
<1>2. /\ UNCHANGED <<deliveries, held, staged, laneLock>>
      /\ rowLock[d] = None
      /\ rowLock' = [rowLock EXCEPT ![d] = w]
      /\ IsHead(d)
      /\ working[d] = deliveries[d]
      /\ tx' = [tx EXCEPT ![w].todo = @ \ {LaneOf[d]}]
      /\ tx[w].kind = "acquire"
  BY <1>1 DEF LockHead, RowUnlockedIsCommitted
<1>3. /\ tx'[w].kind = "acquire" /\ tx'[w].age = tx[w].age
      /\ \A v \in Worker : v # w => tx'[v] = tx[v]
  BY <1>1, <1>2 DEF TypeOK, Transaction
<1>4. /\ deliveries[d].state = "unresolved"
      /\ OffsetOf[d] < staged[LaneOf[d]]
      /\ \A e \in Delivery : Precedes(e, d) => deliveries[e].state # "unresolved"
  BY <1>2 DEF IsHead, FencingInv, MaterializedIsStaged
<1>5. IsFiniteSet(Granted(w)) /\ Cardinality(Granted(w)) <= Limit
  BY DEF FencingInv, WithinLimit
<1>6. CASE ~Grantable(w, d)
  <2>1. working' = working
    BY <1>6 DEF LockHead
  <2>2. HeadLocked(w, d)'
    BY <1>2, <1>3, <1>4, <2>1 DEF HeadLocked
  <2>3. ~LeaseWritten(w, d)'
    BY <1>1, <1>2, <2>1 DEF LeaseWritten, TypeOK, Row
  <2>4. Granted(w)' = Granted(w)
    BY <1>1, <1>2, <1>3, <2>1 DEF Granted, TypeOK
  <2>5. \A q \in Quarantined :
          q[1] = LaneOf[d] /\ q[2] < OffsetOf[d] => working'[d].generation = 0
    BY <2>1 DEF FencingInv, NothingWrittenPastDiscontinuity
  <2> QED
    BY <1>1, <1>2, <1>3, <1>4, <1>5, <2>1, <2>2, <2>3, <2>4, <2>5, WriteStep DEF TypeOK
<1>7. CASE Grantable(w, d)
  <2>1. /\ \A e \in Delivery : e # d => working'[e] = working[e]
        /\ working'[d].state = working[d].state
        /\ working'[d].owner = w
        /\ working'[d].ttl = LeaseDuration
        /\ working'[d].generation = working[d].generation + 1
    BY <1>1, <1>7 DEF LockHead, TypeOK, Row
  <2>2. deliveries[d].ttl = 0
    BY <1>1, <1>7, LiveIsTimeLeft DEF Grantable, TypeOK, Row
  <2>3. LeaseWritten(w, d)'
    <3>1. LeaseDuration <= LeaseDuration + tx[w].age
      BY <1>1 DEF TypeOK, Transaction
    <3> QED
      BY <1>2, <1>3, <1>4, <2>1, <2>2, <3>1 DEF LeaseWritten
  <2>4. \A q \in Quarantined :
          q[1] = LaneOf[d] /\ q[2] < OffsetOf[d] => working'[d].generation = 0
    <3> SUFFICES ASSUME NEW q \in Quarantined, q[1] = LaneOf[d], q[2] < OffsetOf[d]
                 PROVE  FALSE
      OBVIOUS
    <3>1. q[2] \in Nat /\ OffsetOf[d] \in Nat /\ staged[LaneOf[d]] \in Nat
      BY <1>1, QuarantineAssumption DEF TypeOK
    <3>2. q[2] < staged[LaneOf[d]]
      BY <1>4, <3>1
    <3> QED
      BY <1>7, <3>2 DEF Grantable, Blocked
  <2>5. IsFiniteSet(Granted(w))' /\ Cardinality(Granted(w))' <= Limit
    <3>1. Granted(w)' = Granted(w) \cup {d}
      <4>1. deliveries[d].generation \in Nat
        BY <1>1 DEF TypeOK, Row
      <4>2. working'[d] # deliveries[d]
        BY <1>2, <2>1, <4>1
      <4>3. /\ \A e \in Delivery : e # d => rowLock'[e] = rowLock[e]
            /\ rowLock'[d] = w
        BY <1>1, <1>2 DEF TypeOK
      <4> QED
        BY <1>2, <1>3, <2>1, <4>2, <4>3 DEF Granted
    <3>2. Cardinality(Granted(w)) \in Nat /\ Cardinality(Granted(w)) < Limit
      BY <1>5, <1>7, FS_CardinalityType DEF Grantable
    <3>3. IsFiniteSet(Granted(w) \cup {d}) /\ Cardinality(Granted(w) \cup {d}) <= Limit
      <4>1. /\ IsFiniteSet(Granted(w) \cup {d})
            /\ Cardinality(Granted(w) \cup {d}) =
                 IF d \in Granted(w) THEN Cardinality(Granted(w)) ELSE Cardinality(Granted(w)) + 1
        BY <1>5, FS_AddElement
      <4> QED
        BY <3>2, <4>1
    <3> QED
      BY <3>1, <3>3
  <2>6. /\ \A e \in Delivery : e # d => rowLock'[e] = rowLock[e]
        /\ rowLock'[d] = w
    BY <1>1, <1>2 DEF TypeOK
  <2> QED
    BY <1>2, <1>3, <1>4, <2>1, <2>3, <2>4, <2>5, <2>6, WriteStep
<1> QED
  BY <1>6, <1>7

\* The row of a claim that is still fenced is nobody's to insert.
LEMMA FencedRow ==
  ASSUME FencingInv, NEW w \in Worker, NEW c \in held[w] \cup tx[w].target, Fenced(w, c),
         rowLock[c.delivery] = None
  PROVE  /\ c.delivery \in Delivery
         /\ deliveries[c.delivery].owner = w
         /\ deliveries[c.delivery].state # "absent"
         /\ working[c.delivery] = deliveries[c.delivery]
         /\ OffsetOf[c.delivery] < staged[LaneOf[c.delivery]]
<1>1. c.delivery \in Delivery
  BY ClaimFields DEF FencingInv, LeaseInv
<1>2. deliveries[c.delivery].owner = w
  BY DEF Fenced
<1>3. deliveries[c.delivery].state # "absent"
  <2>1. deliveries[c.delivery].state = "absent" => deliveries[c.delivery] = Absent
    BY <1>1 DEF FencingInv, AbsentIsBlank
  <2>2. Absent.owner # w
    BY IdsAssumption DEF Absent
  <2> QED
    BY <1>2, <2>1, <2>2
<1>4. working[c.delivery] = deliveries[c.delivery]
  BY <1>1 DEF FencingInv, LeaseInv, RowUnlockedIsCommitted
<1>5. OffsetOf[c.delivery] < staged[LaneOf[c.delivery]]
  BY <1>1, <1>3 DEF FencingInv, MaterializedIsStaged
<1> QED
  BY <1>1, <1>2, <1>3, <1>4, <1>5

LEMMA RenewUpdateKeepsFencing ==
  ASSUME FencingInv, LeaseInv', NEW w \in Worker, NEW c \in tx[w].target, RenewUpdate(w, c)
  PROVE  FencingInv'
<1> USE IdsAssumption
<1> DEFINE d == c.delivery
<1>1. TypeOK /\ d \in Delivery
  BY ClaimFields DEF FencingInv, LeaseInv
<1>2. \A e \in Delivery : rowLock[e] # w
  BY DEF RenewUpdate, FencingInv, Written, HeadLocked, LeaseWritten, RenewalWritten,
         CompletionWritten, InsertWritten
<1>3. /\ UNCHANGED <<deliveries, held, staged, laneLock>>
      /\ rowLock[d] = None
      /\ tx'[w].kind = "renew"
      /\ \A v \in Worker : v # w => tx'[v] = tx[v]
  BY <1>1 DEF RenewUpdate, TypeOK, Transaction
<1>4. CASE UNCHANGED <<rowLock, working>>
  <2>1. \A l \in Lane : staged[l] <= staged'[l]
    BY <1>1, <1>3, BoundsAssumption DEF TypeOK
  <2> QED
    BY <1>2, <1>3, <1>4, <2>1, QuietStep
<1>5. CASE /\ Fenced(w, c)
           /\ rowLock' = [rowLock EXCEPT ![d] = w]
           /\ working' = [working EXCEPT ![d].ttl = LeaseDuration]
  <2>1. /\ deliveries[d].owner = w
        /\ working[d] = deliveries[d]
        /\ OffsetOf[d] < staged[LaneOf[d]]
    BY <1>3, <1>5, FencedRow
  <2>2. /\ \A e \in Delivery : e # d => working'[e] = working[e] /\ rowLock'[e] = rowLock[e]
        /\ rowLock'[d] = w
        /\ working'[d].state = working[d].state
        /\ working'[d].owner = working[d].owner
        /\ working'[d].generation = working[d].generation
    BY <1>1, <1>5 DEF TypeOK, Row
  <2>3. RenewalWritten(w, d)' /\ ~LeaseWritten(w, d)'
    BY <1>3, <2>1, <2>2 DEF RenewalWritten, LeaseWritten
  <2>4. \A q \in Quarantined :
          q[1] = LaneOf[d] /\ q[2] < OffsetOf[d] => working'[d].generation = 0
    BY <1>1, <2>2 DEF FencingInv, NothingWrittenPastDiscontinuity
  <2>5. IsFiniteSet(Granted(w))' /\ Cardinality(Granted(w))' <= Limit
    BY <1>3, NothingGranted
  <2> HIDE DEF d
  <2> QED
    BY <1>1, <1>2, <1>3, <2>1, <2>2, <2>3, <2>4, <2>5, WriteStep
<1> QED
  BY <1>4, <1>5 DEF RenewUpdate

LEMMA CompleteKeepsFencing ==
  ASSUME FencingInv, LeaseInv', NEW w \in Worker, NEW c \in held[w], Complete(w, c)
  PROVE  FencingInv'
<1> USE IdsAssumption
<1> DEFINE d == c.delivery
<1>1. TypeOK /\ IdleHoldsNothing /\ d \in Delivery
  BY ClaimFields DEF FencingInv, LeaseInv
<1>2. \A e \in Delivery : rowLock[e] # w
  BY <1>1 DEF Complete, IdleHoldsNothing
<1>3. /\ UNCHANGED <<deliveries, held, staged, laneLock>>
      /\ rowLock[d] = None
      /\ Fenced(w, c)
      /\ tx'[w].kind = "complete"
      /\ \A v \in Worker : v # w => tx'[v] = tx[v]
  BY <1>1 DEF Complete, Open, TypeOK
<1>4. /\ deliveries[d].owner = w
      /\ working[d] = deliveries[d]
      /\ OffsetOf[d] < staged[LaneOf[d]]
  BY <1>3, FencedRow
<1>5. /\ \A e \in Delivery : e # d => working'[e] = working[e] /\ rowLock'[e] = rowLock[e]
      /\ rowLock'[d] = w
      /\ working'[d].state = working[d].state
      /\ working'[d].owner = None
      /\ working'[d].ttl = 0
      /\ working'[d].generation = working[d].generation
  BY <1>1 DEF Complete, TypeOK, Row
<1>6. CompletionWritten(w, d)' /\ ~LeaseWritten(w, d)'
  BY <1>3, <1>4, <1>5 DEF CompletionWritten, LeaseWritten
<1>7. \A q \in Quarantined :
        q[1] = LaneOf[d] /\ q[2] < OffsetOf[d] => working'[d].generation = 0
  BY <1>1, <1>5 DEF FencingInv, NothingWrittenPastDiscontinuity
<1>8. IsFiniteSet(Granted(w))' /\ Cardinality(Granted(w))' <= Limit
  BY <1>3, NothingGranted
<1> HIDE DEF d
<1> QED
  BY <1>1, <1>2, <1>3, <1>4, <1>5, <1>6, <1>7, <1>8, WriteStep

LEMMA RevertKeepsFencing ==
  ASSUME FencingInv, LeaseInv', NEW w \in Worker,
         Revert(w), EndTransaction(w), UNCHANGED <<deliveries, staged>>,
         \A v \in Worker : held'[v] \subseteq held[v]
  PROVE  FencingInv'
<1> USE IdsAssumption DEF FencingInv
<1>1. TypeOK /\ LeaseInv
  BY DEF LeaseInv
<1>2. /\ \A e \in Delivery : working'[e] = IF rowLock[e] = w THEN deliveries[e] ELSE working[e]
      /\ \A e \in Delivery : rowLock'[e] = IF rowLock[e] = w THEN None ELSE rowLock[e]
      /\ \A m \in Lane : laneLock'[m] = IF laneLock[m] = w THEN None ELSE laneLock[m]
  BY EndFrame DEF Revert
<1>3. tx'[w].kind = "idle" /\ \A v \in Worker : v # w => tx'[v] = tx[v]
  BY <1>1 DEF EndTransaction, TypeOK, Idle
<1>4. Written'
  <2> SUFFICES ASSUME NEW v \in Worker, NEW e \in Delivery, rowLock'[e] = v
               PROVE  \/ HeadLocked(v, e)' \/ LeaseWritten(v, e)' \/ RenewalWritten(v, e)'
                      \/ CompletionWritten(v, e)' \/ InsertWritten(v, e)'
    BY DEF Written
  <2>1. v # w /\ rowLock[e] = v /\ LaneOf[e] \in Lane
    BY <1>2
  <2>2. working'[e] = working[e] /\ tx'[v] = tx[v]
    BY <1>2, <1>3, <2>1
  <2>3. \/ HeadLocked(v, e) \/ LeaseWritten(v, e)
        \/ RenewalWritten(v, e) \/ CompletionWritten(v, e) \/ InsertWritten(v, e)
    BY <2>1 DEF Written
  <2> QED
    BY <1>2, <2>1, <2>2, <2>3
    DEF HeadLocked, LeaseWritten, RenewalWritten, CompletionWritten, InsertWritten
<1>5. AbsentIsBlank'
  BY DEF AbsentIsBlank
<1>6. MaterializedIsStaged'
  BY <1>2 DEF MaterializedIsStaged
<1>7. HeadsAreLeased'
  BY <1>2, <1>3 DEF HeadsAreLeased, LeaseWritten
<1>8. NothingWrittenPastDiscontinuity'
  BY <1>2 DEF NothingWrittenPastDiscontinuity
<1>9. ClaimsAreUnique'
  BY DEF ClaimsAreUnique
<1>10. WithinLimit'
  <2>1. ASSUME NEW v \in Worker, v # w PROVE Granted(v)' = Granted(v)
    BY <1>2, <1>3, <2>1 DEF Granted
  <2>2. IsFiniteSet(Granted(w))' /\ Cardinality(Granted(w))' <= Limit
    BY <1>3, NothingGranted
  <2> QED
    BY <2>1, <2>2 DEF WithinLimit
<1> QED
  BY <1>4, <1>5, <1>6, <1>7, <1>8, <1>9, <1>10

-----------------------------------------------------------------------------
\* What a COMMIT of w makes of the row d.
CommitsNothing(w, d) == deliveries'[d] = deliveries[d]

CommitsOf(w, d) ==
  /\ rowLock[d] = w
  /\ deliveries'[d] = working[d]
  /\ \/ LeaseWritten(w, d) \/ RenewalWritten(w, d)
     \/ CompletionWritten(w, d) \/ InsertWritten(w, d)

LEMMA CommitEffect ==
  ASSUME FencingInv, NEW w \in Worker, Commit(w), NEW d \in Delivery
  PROVE  CommitsNothing(w, d) \/ CommitsOf(w, d)
<1>1. deliveries'[d] = IF rowLock[d] = w THEN working[d] ELSE deliveries[d]
  BY DEF Commit
<1>2. rowLock[d] = w =>
        \/ HeadLocked(w, d) \/ LeaseWritten(w, d)
        \/ RenewalWritten(w, d) \/ CompletionWritten(w, d) \/ InsertWritten(w, d)
  BY DEF FencingInv, Written
<1> QED
  BY <1>1, <1>2 DEF HeadLocked, CommitsNothing, CommitsOf

\* What an acquisition has granted is written with the next generation.
LEMMA GrantedIsWritten ==
  ASSUME FencingInv, NEW w \in Worker, NEW d \in Granted(w)
  PROVE  d \in Delivery /\ rowLock[d] = w /\ LeaseWritten(w, d)
BY DEF Granted, FencingInv, Written, HeadLocked, RenewalWritten, CompletionWritten,
       InsertWritten

\* A commit never lowers a generation.
LEMMA CommitGenerations ==
  ASSUME FencingInv, NEW w \in Worker, Commit(w), NEW d \in Delivery
  PROVE  /\ deliveries'[d].generation >= deliveries[d].generation
         /\ deliveries'[d].generation > deliveries[d].generation => LeaseWritten(w, d) /\ rowLock[d] = w
<1>1. deliveries[d].generation \in Nat
  BY BoundsAssumption DEF FencingInv, LeaseInv, TypeOK, Row
<1>2. CASE CommitsNothing(w, d)
  BY <1>1, <1>2 DEF CommitsNothing
<1>3. CASE CommitsOf(w, d)
  <2>1. InsertWritten(w, d) => deliveries'[d].generation = deliveries[d].generation
    BY <1>3 DEF CommitsOf, InsertWritten, Pending, Absent
  <2>2. RenewalWritten(w, d) \/ CompletionWritten(w, d) =>
          deliveries'[d].generation = deliveries[d].generation
    BY <1>3 DEF CommitsOf, RenewalWritten, CompletionWritten
  <2>3. LeaseWritten(w, d) => deliveries'[d].generation = deliveries[d].generation + 1
    BY <1>3 DEF CommitsOf, LeaseWritten
  <2> QED
    BY <1>1, <1>3, <2>1, <2>2, <2>3 DEF CommitsOf
<1> QED
  BY <1>2, <1>3, CommitEffect

\* A transaction keeps the lane of a lease it has written.
LEMMA LeaseHoldsLane ==
  ASSUME FencingInv, NEW w \in Worker, NEW d \in Delivery, rowLock[d] = w, LeaseWritten(w, d)
  PROVE  laneLock[LaneOf[d]] = w /\ working[d].ttl > RenewalThreshold
<1>1. TypeOK /\ ExtensionHoldsLane
  BY DEF FencingInv, LeaseInv
<1>2. /\ tx[w].age \in Nat /\ tx[w].age <= TransactionTimeout
      /\ working[d].ttl \in Nat
  BY <1>1, BoundsAssumption DEF TypeOK, Row, Transaction
<1>3. working[d].ttl > RenewalThreshold
  BY <1>2, BoundsAssumption, TimingAssumption DEF LeaseWritten
<1>4. working[d].ttl > deliveries[d].ttl
  BY <1>2, <1>3, BoundsAssumption DEF LeaseWritten
<1> QED
  BY <1>1, <1>3, <1>4 DEF ExtensionHoldsLane

LEMMA CommitKeepsFencing ==
  ASSUME FencingInv, LeaseInv', NEW w \in Worker, Commit(w)
  PROVE  FencingInv'
<1> USE IdsAssumption DEF FencingInv
<1>1. TypeOK /\ LeaseInv /\ EndTransaction(w)
  BY DEF LeaseInv, Commit
<1>2. /\ UNCHANGED <<working, staged>>
      /\ \A e \in Delivery : deliveries'[e] = IF rowLock[e] = w THEN working[e] ELSE deliveries[e]
      /\ \A e \in Delivery : rowLock'[e] = IF rowLock[e] = w THEN None ELSE rowLock[e]
      /\ \A m \in Lane : laneLock'[m] = IF laneLock[m] = w THEN None ELSE laneLock[m]
  BY <1>1, EndFrame DEF Commit
<1>3. tx'[w].kind = "idle" /\ \A v \in Worker : v # w => tx'[v] = tx[v]
  BY <1>1 DEF EndTransaction, TypeOK, Idle
<1>4. Written'
  <2> SUFFICES ASSUME NEW v \in Worker, NEW e \in Delivery, rowLock'[e] = v
               PROVE  \/ HeadLocked(v, e)' \/ LeaseWritten(v, e)' \/ RenewalWritten(v, e)'
                      \/ CompletionWritten(v, e)' \/ InsertWritten(v, e)'
    BY DEF Written
  <2>1. v # w /\ rowLock[e] = v /\ LaneOf[e] \in Lane
    BY <1>2
  <2>2. deliveries'[e] = deliveries[e] /\ tx'[v] = tx[v]
    BY <1>2, <1>3, <2>1
  <2>3. \/ HeadLocked(v, e) \/ LeaseWritten(v, e)
        \/ RenewalWritten(v, e) \/ CompletionWritten(v, e) \/ InsertWritten(v, e)
    BY <2>1 DEF Written
  <2> QED
    BY <1>2, <2>1, <2>2, <2>3
    DEF HeadLocked, LeaseWritten, RenewalWritten, CompletionWritten, InsertWritten
<1>5. AbsentIsBlank'
  <2> SUFFICES ASSUME NEW d \in Delivery, deliveries'[d].state = "absent"
               PROVE  deliveries'[d] = Absent
    BY DEF AbsentIsBlank
  <2>1. CASE CommitsNothing(w, d)
    BY <2>1 DEF CommitsNothing, AbsentIsBlank
  <2>2. CASE CommitsOf(w, d)
    <3>1. ~LeaseWritten(w, d) /\ ~InsertWritten(w, d)
      BY <2>2 DEF CommitsOf, LeaseWritten, InsertWritten, Pending, Absent
    <3>2. deliveries[d].state = "absent" /\ deliveries[d].owner = w
      BY <2>2, <3>1 DEF CommitsOf, RenewalWritten, CompletionWritten
    <3>3. deliveries[d] = Absent /\ Absent.owner = None
      BY <3>2 DEF AbsentIsBlank, Absent
    <3> QED
      BY <3>2, <3>3
  <2> QED
    BY <2>1, <2>2, CommitEffect
<1>6. MaterializedIsStaged'
  BY <1>2 DEF MaterializedIsStaged
<1>7. HeadsAreLeased'
  <2> SUFFICES ASSUME NEW v \in Worker, NEW d \in Delivery, rowLock'[d] = v,
                      LeaseWritten(v, d)', NEW e \in Delivery, Precedes(e, d)
               PROVE  deliveries'[e].state # "unresolved"
    BY DEF HeadsAreLeased
  <2>1. v # w /\ rowLock[d] = v /\ LeaseWritten(v, d)
    BY <1>2, <1>3 DEF LeaseWritten
  <2>2. deliveries[e].state # "unresolved" /\ laneLock[LaneOf[e]] = v
    BY <2>1, LeaseHoldsLane DEF HeadsAreLeased, Precedes
  <2>3. CASE CommitsNothing(w, e)
    BY <2>2, <2>3 DEF CommitsNothing
  <2>4. CASE CommitsOf(w, e)
    BY <2>1, <2>2, <2>4
    DEF CommitsOf, LeaseWritten, RenewalWritten, CompletionWritten, InsertWritten
  <2> QED
    BY <2>3, <2>4, CommitEffect
<1>8. NothingWrittenPastDiscontinuity'
  BY <1>2 DEF NothingWrittenPastDiscontinuity
<1>9. ClaimsAreUnique'
  <2> DEFINE new == {[delivery |-> d, generation |-> working[d].generation] : d \in Granted(w)}
  <2>1. /\ held'[w] = held[w] \cup new
        /\ \A v \in Worker : v # w => held'[v] = held[v]
    BY <1>1 DEF Commit, TypeOK
  <2>2. ASSUME NEW v \in Worker, NEW c \in held[v]
        PROVE  /\ c.generation <= deliveries[c.delivery].generation
               /\ c.generation <= deliveries'[c.delivery].generation
    <3>1. c.delivery \in Delivery /\ c \in Claim
      BY <1>1, ClaimFields
    <3>2. /\ c.generation \in Nat
          /\ deliveries[c.delivery].generation \in Nat
          /\ deliveries'[c.delivery].generation \in Nat
      <4>1. /\ deliveries[c.delivery] \in Row
            /\ deliveries'[c.delivery] \in Row
        BY <1>1, <3>1 DEF LeaseInv, TypeOK
      <4> QED
        BY <3>1, <4>1, BoundsAssumption DEF Claim, Row
    <3>3. c.generation <= deliveries[c.delivery].generation
      BY DEF ClaimsAreUnique
    <3>4. deliveries'[c.delivery].generation >= deliveries[c.delivery].generation
      BY <3>1, CommitGenerations
    <3> QED
      BY <3>2, <3>3, <3>4
  <2>3. ASSUME NEW c \in new
        PROVE  /\ c.delivery \in Delivery
               /\ deliveries[c.delivery].generation \in Nat
               /\ c.generation = deliveries[c.delivery].generation + 1
               /\ c.generation = deliveries'[c.delivery].generation
    <3>1. PICK d \in Granted(w) : c.delivery = d /\ c.generation = working[d].generation
      OBVIOUS
    <3>2. d \in Delivery /\ rowLock[d] = w /\ LeaseWritten(w, d)
      BY GrantedIsWritten
    <3> QED
      <4>1. deliveries[d] \in Row /\ deliveries'[d] = working[d]
        BY <1>1, <1>2, <3>2 DEF TypeOK
      <4>2. deliveries[d].generation \in Nat
        BY <4>1, BoundsAssumption DEF Row
      <4> QED
        BY <3>1, <3>2, <4>1, <4>2 DEF LeaseWritten
  <2>4. \A c \in new : \A v \in Worker : c \notin held[v]
    <3> SUFFICES ASSUME NEW c \in new, NEW v \in Worker, c \in held[v] PROVE FALSE
      OBVIOUS
    <3> HIDE DEF new
    <3> QED
      BY <2>2, <2>3
  <2>5. ASSUME NEW v \in Worker, NEW c \in held'[v]
        PROVE  c.generation <= deliveries'[c.delivery].generation
    <3>1. c \in held[v] \/ c \in new
      BY <2>1
    <3>2. CASE c \in new
      <4> HIDE DEF new
      <4> QED
        BY <2>3, <3>2
    <3> QED
      BY <2>2, <3>1, <3>2
  <2>6. ASSUME NEW v \in Worker, NEW c \in held'[v], NEW u \in Worker \ {v}
        PROVE  c \notin held'[u]
    <3> HIDE DEF new
    <3>1. c \in held[v] => c \notin held[u]
      BY DEF ClaimsAreUnique
    <3> QED
      BY <2>1, <2>4, <3>1
  <2> QED
    BY <2>5, <2>6 DEF ClaimsAreUnique
<1>10. WithinLimit'
  <2>1. ASSUME NEW v \in Worker, v # w PROVE Granted(v)' = Granted(v)
    BY <1>2, <1>3, <2>1 DEF Granted
  <2>2. IsFiniteSet(Granted(w))' /\ Cardinality(Granted(w))' <= Limit
    BY <1>3, NothingGranted
  <2> QED
    BY <2>1, <2>2 DEF WithinLimit
<1> QED
  BY <1>4, <1>5, <1>6, <1>7, <1>8, <1>9, <1>10

LEMMA ResolveKeepsFencing ==
  ASSUME FencingInv, LeaseInv', NEW w \in Worker, NEW c \in held[w], Resolve(w, c)
  PROVE  FencingInv'
<1> USE IdsAssumption DEF FencingInv
<1> DEFINE d == c.delivery
<1>1. TypeOK /\ d \in Delivery
  BY ClaimFields DEF LeaseInv
<1>2. /\ UNCHANGED <<rowLock, laneLock, tx, held, staged>>
      /\ rowLock[d] = None
      /\ deliveries[d].state = "unresolved"
  BY DEF Resolve
<1>3. /\ \A e \in Delivery : e # d => deliveries'[e] = deliveries[e] /\ working'[e] = working[e]
      /\ deliveries'[d].state = "resolved"
      /\ deliveries'[d].generation = deliveries[d].generation
      /\ working'[d].generation = working[d].generation
  BY <1>1 DEF Resolve, TypeOK, Row
<1> HIDE DEF d
<1>4. Written'
  <2> SUFFICES ASSUME NEW v \in Worker, NEW e \in Delivery, rowLock[e] = v
               PROVE  \/ HeadLocked(v, e)' \/ LeaseWritten(v, e)' \/ RenewalWritten(v, e)'
                      \/ CompletionWritten(v, e)' \/ InsertWritten(v, e)'
    BY <1>2 DEF Written
  <2>1. deliveries'[e] = deliveries[e] /\ working'[e] = working[e]
    BY <1>2, <1>3
  <2>2. \/ HeadLocked(v, e) \/ LeaseWritten(v, e)
        \/ RenewalWritten(v, e) \/ CompletionWritten(v, e) \/ InsertWritten(v, e)
    BY DEF Written
  <2> QED
    BY <1>2, <2>1, <2>2
    DEF HeadLocked, LeaseWritten, RenewalWritten, CompletionWritten, InsertWritten
<1>5. AbsentIsBlank'
  BY <1>3 DEF AbsentIsBlank
<1>6. MaterializedIsStaged'
  BY <1>1, <1>2, <1>3 DEF MaterializedIsStaged
<1>7. HeadsAreLeased'
  <2> SUFFICES ASSUME NEW v \in Worker, NEW e \in Delivery, rowLock[e] = v,
                      LeaseWritten(v, e)', NEW f \in Delivery, Precedes(f, e)
               PROVE  deliveries'[f].state # "unresolved"
    BY <1>2 DEF HeadsAreLeased
  <2>1. LeaseWritten(v, e)
    BY <1>2, <1>3 DEF LeaseWritten
  <2>2. deliveries[f].state # "unresolved"
    BY <2>1 DEF HeadsAreLeased
  <2> QED
    BY <1>3, <2>2
<1>8. \A e \in Delivery : /\ deliveries'[e].generation = deliveries[e].generation
                          /\ working'[e].generation = working[e].generation
  BY <1>3
<1>9. NothingWrittenPastDiscontinuity'
  BY <1>8 DEF NothingWrittenPastDiscontinuity
<1>10. ClaimsAreUnique'
  <2>1. \A v \in Worker : \A b \in held[v] : b.delivery \in Delivery
    BY <1>1, ClaimFields
  <2> QED
    BY <1>2, <1>8, <2>1 DEF ClaimsAreUnique
<1>11. WithinLimit'
  <2>1. ASSUME NEW v \in Worker PROVE Granted(v)' = Granted(v)
    BY <1>2, <1>3 DEF Granted
  <2> QED
    BY <2>1 DEF WithinLimit
<1> QED
  BY <1>4, <1>5, <1>6, <1>7, <1>9, <1>10, <1>11

LEMMA AgedRow ==
  ASSUME NEW rows \in [Delivery -> Row], NEW d \in Delivery
  PROVE  /\ Aged(rows)[d].state = rows[d].state
         /\ Aged(rows)[d].owner = rows[d].owner
         /\ Aged(rows)[d].generation = rows[d].generation
         /\ Aged(rows)[d].ttl = IF rows[d].ttl > 0 THEN rows[d].ttl - 1 ELSE 0
         /\ rows[d].ttl = 0 => Aged(rows)[d] = rows[d]
<1>1. Aged(rows)[d] = [rows[d] EXCEPT !.ttl = IF @ > 0 THEN @ - 1 ELSE 0]
  BY DEF Aged
<1>2. rows[d] \in Row
  OBVIOUS
<1>3. rows[d].ttl = 0 => Aged(rows)[d] = rows[d]
  BY <1>1, <1>2 DEF Row
<1> QED
  BY <1>1, <1>2, <1>3 DEF Row

LEMMA TickKeepsFencing ==
  ASSUME FencingInv, LeaseInv', Tick
  PROVE  FencingInv'
<1> USE IdsAssumption DEF FencingInv
<1>1. TypeOK
  BY DEF LeaseInv
<1>2. /\ UNCHANGED <<rowLock, laneLock, held, staged>>
      /\ \A w \in Worker : /\ tx'[w].kind = tx[w].kind
                           /\ tx[w].kind # "idle" => tx'[w].age = tx[w].age + 1
  BY <1>1 DEF Tick, TypeOK, Transaction
<1>3. \A d \in Delivery :
        /\ deliveries'[d].state = deliveries[d].state
        /\ deliveries'[d].owner = deliveries[d].owner
        /\ deliveries'[d].generation = deliveries[d].generation
        /\ deliveries'[d].ttl = IF deliveries[d].ttl > 0 THEN deliveries[d].ttl - 1 ELSE 0
        /\ working'[d].state = working[d].state
        /\ working'[d].owner = working[d].owner
        /\ working'[d].generation = working[d].generation
        /\ working'[d].ttl = IF working[d].ttl > 0 THEN working[d].ttl - 1 ELSE 0
  BY <1>1, AgedRow DEF Tick, TypeOK
<1>4. \A d \in Delivery :
        /\ deliveries[d] = Absent => deliveries'[d] = Absent
        /\ working[d] = Pending => working'[d] = Pending
        /\ working[d] = deliveries[d] => working'[d] = deliveries'[d]
  <2>1. Absent.ttl = 0 /\ Pending.ttl = 0
    BY DEF Absent, Pending
  <2>2. \A d \in Delivery : /\ deliveries[d].ttl = 0 => deliveries'[d] = deliveries[d]
                            /\ working[d].ttl = 0 => working'[d] = working[d]
    BY <1>1, AgedRow DEF Tick, TypeOK
  <2>3. \A d \in Delivery : working[d] = deliveries[d] => working'[d] = deliveries'[d]
    BY DEF Tick, Aged
  <2> QED
    BY <2>1, <2>2, <2>3
<1>5. \A d \in Delivery : deliveries[d].ttl \in Nat /\ working[d].ttl \in Nat
  BY <1>1, BoundsAssumption DEF TypeOK, Row
<1>6. Written'
  <2> SUFFICES ASSUME NEW v \in Worker, NEW e \in Delivery, rowLock[e] = v
               PROVE  \/ HeadLocked(v, e)' \/ LeaseWritten(v, e)' \/ RenewalWritten(v, e)'
                      \/ CompletionWritten(v, e)' \/ InsertWritten(v, e)'
    BY <1>2 DEF Written
  <2>1. \/ HeadLocked(v, e) \/ LeaseWritten(v, e)
        \/ RenewalWritten(v, e) \/ CompletionWritten(v, e) \/ InsertWritten(v, e)
    BY DEF Written
  <2>2. CASE HeadLocked(v, e) \/ InsertWritten(v, e)
    BY <1>2, <1>3, <1>4, <2>2 DEF HeadLocked, InsertWritten
  <2>3. CASE RenewalWritten(v, e)
    BY <1>2, <1>3, <1>4, <2>3 DEF RenewalWritten
  <2>4. CASE CompletionWritten(v, e)
    <3>1. ~(0 > 0)
      OBVIOUS
    <3> QED
      BY <1>2, <1>3, <1>4, <2>4, <3>1 DEF CompletionWritten
  <2>5. CASE LeaseWritten(v, e)
    <3>1. LeaseDuration <= working'[e].ttl + tx'[v].age
      <4>1. tx[v].age \in Nat /\ tx'[v].age = tx[v].age + 1
        BY <1>1, <1>2, <2>5, BoundsAssumption DEF LeaseWritten, TypeOK, Transaction
      <4>2. LeaseDuration <= working[e].ttl + tx[v].age
        BY <2>5 DEF LeaseWritten
      <4>3. /\ working[e].ttl \in Nat
            /\ working'[e].ttl = IF working[e].ttl > 0 THEN working[e].ttl - 1 ELSE 0
        BY <1>3, <1>5
      <4> QED
        BY <4>1, <4>2, <4>3, BoundsAssumption
    <3>2. deliveries'[e].ttl = 0
      BY <1>3, <1>5, <2>5 DEF LeaseWritten
    <3> QED
      BY <1>2, <1>3, <2>5, <3>1, <3>2 DEF LeaseWritten
  <2> QED
    BY <2>1, <2>2, <2>3, <2>4, <2>5
<1>7. AbsentIsBlank' /\ MaterializedIsStaged'
  BY <1>2, <1>3, <1>4 DEF AbsentIsBlank, MaterializedIsStaged
<1>8. HeadsAreLeased'
  <2> SUFFICES ASSUME NEW v \in Worker, NEW e \in Delivery, rowLock[e] = v,
                      LeaseWritten(v, e)', NEW f \in Delivery, Precedes(f, e)
               PROVE  deliveries'[f].state # "unresolved"
    BY <1>2 DEF HeadsAreLeased
  <2>1. LeaseWritten(v, e)
    <3>1. \/ HeadLocked(v, e) \/ LeaseWritten(v, e)
          \/ RenewalWritten(v, e) \/ CompletionWritten(v, e) \/ InsertWritten(v, e)
      BY DEF Written
    <3>2. tx[v].kind = "acquire"
      BY <1>2 DEF LeaseWritten
    <3>3. working[e].generation # deliveries[e].generation
      <4>1. working'[e].generation = deliveries'[e].generation + 1
        BY DEF LeaseWritten
      <4>2. deliveries[e].generation \in Nat
        BY <1>1, BoundsAssumption DEF TypeOK, Row
      <4> QED
        BY <1>3, <4>1, <4>2
    <3> QED
      BY <3>1, <3>2, <3>3 DEF HeadLocked, RenewalWritten, CompletionWritten, InsertWritten
  <2>2. deliveries[f].state # "unresolved"
    BY <2>1 DEF HeadsAreLeased
  <2> QED
    BY <1>3, <1>4, <2>2
<1>9. NothingWrittenPastDiscontinuity'
  BY <1>3 DEF NothingWrittenPastDiscontinuity
<1>10. ClaimsAreUnique'
  <2>1. \A v \in Worker : \A b \in held[v] : b.delivery \in Delivery
    BY <1>1, ClaimFields
  <2> QED
    BY <1>2, <1>3, <1>4, <2>1 DEF ClaimsAreUnique
<1>11. WithinLimit'
  <2> SUFFICES ASSUME NEW v \in Worker
               PROVE  IsFiniteSet(Granted(v))' /\ Cardinality(Granted(v))' <= Limit
    BY DEF WithinLimit
  <2>1. Granted(v)' \subseteq Granted(v)
    BY <1>2, <1>3, <1>4 DEF Granted
  <2>2. IsFiniteSet(Granted(v)) /\ Cardinality(Granted(v)) <= Limit
    BY DEF WithinLimit
  <2>3. /\ IsFiniteSet(Granted(v)')
        /\ Cardinality(Granted(v)') <= Cardinality(Granted(v))
    BY <2>1, <2>2, FS_Subset
  <2>4. Cardinality(Granted(v)) \in Nat /\ Cardinality(Granted(v)') \in Nat
    BY <2>2, <2>3, FS_CardinalityType
  <2> QED
    BY <2>2, <2>3, <2>4, BoundsAssumption
<1> QED
  BY <1>6, <1>7, <1>8, <1>9, <1>10, <1>11

LEMMA StepFencingInv == FencingInv /\ [Next]_vars => FencingInv'
<1> SUFFICES ASSUME FencingInv, [Next]_vars PROVE FencingInv'
  OBVIOUS
<1>1. LeaseInv'
  BY StepLeaseInv DEF FencingInv
<1>2. ASSUME NEW w \in Worker, Rollback(w) PROVE FencingInv'
  BY <1>1, <1>2, RevertKeepsFencing DEF Rollback
<1>3. ASSUME NEW w \in Worker, Crash(w) PROVE FencingInv'
  <2>1. \A v \in Worker : held'[v] \subseteq held[v]
    BY <1>3 DEF Crash, FencingInv, LeaseInv, TypeOK
  <2> QED
    BY <1>1, <1>3, <2>1, RevertKeepsFencing DEF Crash
<1>4. CASE UNCHANGED vars
  <2>1. staged \in [Lane -> Nat]
    BY BoundsAssumption DEF FencingInv, LeaseInv, TypeOK
  <2>2. \A m \in Lane : staged[m] <= staged'[m]
    BY <1>4, <2>1 DEF vars
  <2> QED
    BY <1>1, <1>4, <2>2, QuietStep DEF vars
<1> QED
  BY <1>1, <1>2, <1>3, <1>4, StageKeepsFencing, QuietActions, MaterializeKeepsFencing,
     LockHeadKeepsFencing, RenewUpdateKeepsFencing, CompleteKeepsFencing,
     CommitKeepsFencing, ResolveKeepsFencing, TickKeepsFencing DEF Next

\* The inductive invariant: what every open transaction has written to the rows it
\* has locked, and that the leases it is about to commit are those of lane heads.
THEOREM FencingInvariant == Spec => []FencingInv
<1>1. Init => FencingInv
  BY InitFencingInv
<1>2. FencingInv /\ [Next]_vars => FencingInv'
  BY StepFencingInv
<1> QED
  BY <1>1, <1>2, PTL DEF Spec

\* No fencing generation of a delivery is ever handed out twice, and no claim is
\* ahead of the table, whatever rolls back or crashes.
THEOREM NoClaimTwice == Spec => []ClaimsAreUnique
<1>1. FencingInv => ClaimsAreUnique
  BY DEF FencingInv
<1> QED
  BY <1>1, FencingInvariant, PTL

\* No delivery behind a discontinuity of its lane is ever leased.
THEOREM DiscontinuityBlocks == Spec => []NothingLeasedPastDiscontinuity
<1>1. FencingInv => NothingLeasedPastDiscontinuity
  BY DEF FencingInv, NothingWrittenPastDiscontinuity, NothingLeasedPastDiscontinuity
<1> QED
  BY <1>1, FencingInvariant, PTL

-----------------------------------------------------------------------------
(* What a step may never do.                                               *)

\* Owners and generations change by COMMIT only, and so do claims, which are
\* otherwise lost.
LEMMA OnlyCommitsGrant ==
  ASSUME FencingInv, [Next]_vars, \A w \in Worker : ~Commit(w)
  PROVE  /\ \A d \in Delivery : /\ deliveries'[d].owner = deliveries[d].owner
                                /\ deliveries'[d].generation = deliveries[d].generation
         /\ \A w \in Worker : held'[w] \subseteq held[w]
<1>1. TypeOK
  BY DEF FencingInv, LeaseInv
<1>2. CASE Tick
  BY <1>1, <1>2, AgedRow DEF Tick, TypeOK
<1>3. ASSUME NEW w \in Worker, NEW c \in held[w], Resolve(w, c)
      PROVE  /\ \A d \in Delivery : /\ deliveries'[d].owner = deliveries[d].owner
                                    /\ deliveries'[d].generation = deliveries[d].generation
             /\ held' = held
  <2>1. c.delivery \in Delivery
    BY <1>1, ClaimFields
  <2> QED
    BY <1>1, <1>3, <2>1 DEF Resolve, TypeOK, Row
<1>4. ASSUME NEW w \in Worker, Crash(w)
      PROVE  deliveries' = deliveries /\ \A v \in Worker : held'[v] \subseteq held[v]
  BY <1>1, <1>4 DEF Crash, TypeOK
<1>5. CASE deliveries' = deliveries /\ held' = held
  BY <1>5
<1> QED
  BY <1>2, <1>3, <1>4, <1>5
  DEF Next, vars, Stage, Materialize, AcquireBegin, PassOver, LockHead, RenewLock,
      RenewUpdate, Complete, Rollback

\* No commit exposes N + 1 while N is unresolved, whoever holds N's row.
THEOREM HeadsOnly == Spec => NoOvertake
<1>1. ASSUME FencingInv, [Next]_vars, NEW d \in Delivery,
             deliveries'[d].generation > deliveries[d].generation,
             NEW e \in Delivery, Precedes(e, d)
      PROVE  deliveries'[e].state # "unresolved"
  <2>1. deliveries[d].generation \in Nat
    BY <1>1, BoundsAssumption DEF FencingInv, LeaseInv, TypeOK, Row
  <2>2. PICK w \in Worker : Commit(w)
    BY <1>1, <2>1, OnlyCommitsGrant
  <2>3. LeaseWritten(w, d) /\ rowLock[d] = w
    BY <1>1, <2>2, CommitGenerations
  <2>4. deliveries[e].state # "unresolved"
    BY <1>1, <2>3 DEF FencingInv, HeadsAreLeased
  <2>5. CASE CommitsNothing(w, e)
    BY <2>4, <2>5 DEF CommitsNothing
  <2>6. CASE CommitsOf(w, e)
    BY <2>3, <2>4, <2>6
    DEF CommitsOf, LeaseWritten, RenewalWritten, CompletionWritten, InsertWritten
  <2> QED
    BY <1>1, <2>2, <2>5, <2>6, CommitEffect
<1>2. FencingInv /\ [Next]_vars =>
        [\A d \in Delivery :
           deliveries'[d].generation > deliveries[d].generation =>
             \A e \in Delivery : Precedes(e, d) => deliveries'[e].state # "unresolved"]_vars
  BY <1>1
<1> QED
  BY <1>2, FencingInvariant, PTL DEF Spec, NoOvertake

\* Nothing but time and its owner's own completion ends a live lease.
THEOREM LiveLeaseStays == Spec => LiveLeaseIsSafe
<1>1. ASSUME FencingInv, [Next]_vars, NEW d \in Delivery, Live(deliveries[d]),
             deliveries'[d].owner # deliveries[d].owner
      PROVE  tx[deliveries[d].owner].kind = "complete" /\ rowLock[d] = deliveries[d].owner
  <2>1. PICK w \in Worker : Commit(w)
    BY <1>1, OnlyCommitsGrant
  <2>2. CommitsOf(w, d)
    BY <1>1, <2>1, CommitEffect DEF CommitsNothing
  <2>3. ~LeaseWritten(w, d)
    BY <1>1, BoundsAssumption DEF Live, LeaseWritten
  <2>4. ~InsertWritten(w, d)
    BY <1>1 DEF Live, InsertWritten, Absent
  <2>5. ~RenewalWritten(w, d)
    BY <1>1, <2>2 DEF CommitsOf, RenewalWritten
  <2> QED
    BY <2>2, <2>3, <2>4, <2>5 DEF CommitsOf, CompletionWritten
<1>2. FencingInv /\ [Next]_vars =>
        [\A d \in Delivery :
           LET row == deliveries[d] IN
           Live(row) /\ deliveries'[d].owner # row.owner =>
             tx[row.owner].kind = "complete" /\ rowLock[d] = row.owner]_vars
  BY <1>1
<1> QED
  BY <1>2, FencingInvariant, PTL DEF Spec, LiveLeaseIsSafe

\* The claims that w is returned by its commit.
NewClaims(w) == {[delivery |-> d, generation |-> working[d].generation] : d \in Granted(w)}

LEMMA ClaimsReturned ==
  ASSUME FencingInv, [Next]_vars, NEW w \in Worker, held'[w] \ held[w] # {}
  PROVE  Commit(w) /\ held'[w] \ held[w] \subseteq NewClaims(w)
<1>1. PICK v \in Worker : Commit(v)
  BY OnlyCommitsGrant
<1>2. held' = [held EXCEPT ![v] = @ \cup NewClaims(v)]
  BY <1>1 DEF Commit, NewClaims
<1>3. held \in [Worker -> SUBSET Claim]
  BY DEF FencingInv, LeaseInv, TypeOK
<1>4. v = w
  BY <1>2, <1>3
<1> QED
  BY <1>1, <1>2, <1>3, <1>4

\* A claim is live and not yet due for renewal when it is returned.
THEOREM FreshClaims == Spec => ReturnedClaimIsFresh
<1>1. ASSUME FencingInv, [Next]_vars, NEW w \in Worker, NEW c \in held'[w] \ held[w]
      PROVE  /\ deliveries'[c.delivery].owner = w
             /\ deliveries'[c.delivery].ttl > RenewalThreshold
  <2>1. Commit(w) /\ c \in NewClaims(w)
    BY <1>1, ClaimsReturned
  <2>2. PICK d \in Granted(w) : c.delivery = d
    BY <2>1 DEF NewClaims
  <2>3. d \in Delivery /\ rowLock[d] = w /\ LeaseWritten(w, d)
    BY <1>1, GrantedIsWritten
  <2>4. deliveries'[d] = working[d]
    BY <2>1, <2>3 DEF Commit
  <2> QED
    BY <1>1, <2>2, <2>3, <2>4, LeaseHoldsLane DEF LeaseWritten
<1>2. FencingInv /\ [Next]_vars =>
        [\A w \in Worker : \A c \in held'[w] \ held[w] :
           /\ deliveries'[c.delivery].owner = w
           /\ deliveries'[c.delivery].ttl > RenewalThreshold]_vars
  BY <1>1
<1> QED
  BY <1>2, FencingInvariant, PTL DEF Spec, ReturnedClaimIsFresh

\* A call is returned at most its limit of claims, over all lanes of its page.
THEOREM LimitedClaims == Spec => AtMostLimitClaims
<1>1. ASSUME FencingInv, [Next]_vars, NEW w \in Worker
      PROVE  Cardinality(held'[w] \ held[w]) <= Limit
  <2>1. CASE held'[w] \ held[w] = {}
    BY <2>1, FS_EmptySet, BoundsAssumption
  <2>2. CASE held'[w] \ held[w] # {}
    <3>1. held'[w] \ held[w] \subseteq NewClaims(w)
      BY <1>1, <2>2, ClaimsReturned
    <3>2. IsFiniteSet(Granted(w)) /\ Cardinality(Granted(w)) <= Limit
      BY <1>1 DEF FencingInv, WithinLimit
    <3> DEFINE f == [d \in Granted(w) |->
                      [delivery |-> d, generation |-> working[d].generation]]
    <3>3. f \in Surjection(Granted(w), NewClaims(w))
      BY DEF NewClaims, Surjection
    <3>4. IsFiniteSet(NewClaims(w)) /\ Cardinality(NewClaims(w)) <= Cardinality(Granted(w))
      <4> HIDE DEF f
      <4> QED
        BY <3>2, <3>3, FS_Surjection
    <3>5. /\ IsFiniteSet(held'[w] \ held[w])
          /\ Cardinality(held'[w] \ held[w]) <= Cardinality(NewClaims(w))
      BY <3>1, <3>4, FS_Subset
    <3>6. /\ Cardinality(Granted(w)) \in Nat
          /\ Cardinality(NewClaims(w)) \in Nat
          /\ Cardinality(held'[w] \ held[w]) \in Nat
      BY <3>2, <3>4, <3>5, FS_CardinalityType
    <3> QED
      BY <3>2, <3>4, <3>5, <3>6, BoundsAssumption
  <2> QED
    BY <2>1, <2>2
<1>2. FencingInv /\ [Next]_vars =>
        [\A w \in Worker :
           held'[w] # {} => Cardinality(held'[w] \ held[w]) <= Limit]_vars
  BY <1>1
<1> QED
  BY <1>2, FencingInvariant, PTL DEF Spec, AtMostLimitClaims

-----------------------------------------------------------------------------
(* The refinement of FencedLease.                                          *)

\* At most one delivery of a lane is holding, and it is the lease of the lane.
LEMMA LeaseOfHolder ==
  ASSUME FencingInv, NEW d \in Delivery, Holding(d)
  PROVE  LaneLease(LaneOf[d]) = [owner |-> deliveries[d].owner, item |-> d,
                                 token |-> deliveries[d].generation]
<1>1. ASSUME NEW e \in Delivery, Holding(e) PROVE Occupied(e)
  BY <1>1 DEF Holding, Live, Occupied
<1>2. \A e \in Delivery : LaneOf[e] = LaneOf[d] /\ Holding(e) <=> e = d
  BY <1>1 DEF FencingInv, LeaseInv, OneOccupiedPerLane
<1>3. (CHOOSE e \in Delivery : LaneOf[e] = LaneOf[d] /\ Holding(e)) = d
  BY <1>2
<1> QED
  BY <1>3 DEF LaneLease

LEMMA NoHolder ==
  ASSUME NEW l \in Lane, \A d \in Delivery : LaneOf[d] = l => ~Holding(d)
  PROVE  LaneLease(l) = None
BY DEF LaneLease

\* The same of the state a step leads to.
LEMMA NextLeaseOfHolder ==
  ASSUME FencingInv', NEW d \in Delivery, Holding(d)'
  PROVE  LaneLease(LaneOf[d])' = [owner |-> deliveries'[d].owner, item |-> d,
                                  token |-> deliveries'[d].generation]
<1>1. ASSUME NEW e \in Delivery, Holding(e)' PROVE Occupied(e)'
  BY <1>1 DEF Holding, Live, Occupied
<1>2. \A e \in Delivery : LaneOf[e] = LaneOf[d] /\ Holding(e)' <=> e = d
  BY <1>1 DEF FencingInv, LeaseInv, OneOccupiedPerLane
<1>3. (CHOOSE e \in Delivery : LaneOf[e] = LaneOf[d] /\ Holding(e)') = d
  BY <1>2
<1> QED
  BY <1>3 DEF LaneLease

LEMMA NextNoHolder ==
  ASSUME NEW l \in Lane, \A d \in Delivery : LaneOf[d] = l => ~Holding(d)'
  PROVE  LaneLease(l)' = None
BY DEF LaneLease

\* A lane in which nobody becomes a holder keeps its lease or ends it.
LEMMA LaneKeepsOrEnds ==
  ASSUME FencingInv, FencingInv', NEW l \in Lane,
         \A d \in Delivery : LaneOf[d] = l /\ Holding(d)' =>
           /\ Holding(d)
           /\ deliveries'[d].owner = deliveries[d].owner
           /\ deliveries'[d].generation = deliveries[d].generation
  PROVE  \/ LaneLease(l)' = LaneLease(l)
         \/ LaneLease(l) # None /\ LaneLease(l)' = None
<1>1. CASE \E d \in Delivery : LaneOf[d] = l /\ Holding(d)'
  <2>1. PICK d \in Delivery : LaneOf[d] = l /\ Holding(d)'
    BY <1>1
  <2>2. LaneLease(l) = [owner |-> deliveries[d].owner, item |-> d,
                        token |-> deliveries[d].generation]
    BY <2>1, LeaseOfHolder
  <2>3. LaneLease(l)' = [owner |-> deliveries'[d].owner, item |-> d,
                         token |-> deliveries'[d].generation]
    BY <2>1, NextLeaseOfHolder
  <2> QED
    BY <2>1, <2>2, <2>3
<1>2. CASE \A d \in Delivery : LaneOf[d] = l => ~Holding(d)'
  <2>1. LaneLease(l)' = None
    BY <1>2, NextNoHolder
  <2> QED
    BY <2>1
<1> QED
  BY <1>1, <1>2

\* Only a commit makes a holder, since a renewal checks the lease it extends.
LEMMA OnlyCommitsHold ==
  ASSUME FencingInv, [Next]_vars, \A w \in Worker : ~Commit(w),
         NEW d \in Delivery, Holding(d)'
  PROVE  Holding(d)
<1> USE IdsAssumption
<1>1. TypeOK /\ IdleHoldsNothing
  BY DEF FencingInv, LeaseInv
<1>2. Live(deliveries'[d]) => Live(deliveries[d])
  <2>1. CASE Tick
    <3>1. deliveries[d] \in Row
      BY <1>1 DEF TypeOK
    <3>2. /\ deliveries'[d].owner = deliveries[d].owner
          /\ deliveries'[d].ttl = IF deliveries[d].ttl > 0 THEN deliveries[d].ttl - 1 ELSE 0
      BY <2>1, <3>1 DEF Tick, Aged, Row
    <3> QED
      BY <3>1, <3>2, BoundsAssumption DEF Live, Row
  <2>2. ASSUME NEW w \in Worker, NEW c \in held[w], Resolve(w, c)
        PROVE  Live(deliveries'[d]) => Live(deliveries[d])
    <3>1. c.delivery \in Delivery
      BY <1>1, ClaimFields
    <3> QED
      BY <1>1, <2>2, <3>1 DEF Resolve, TypeOK, Row, Live
  <2>3. CASE deliveries' = deliveries
    BY <2>3
  <2> QED
    BY <2>1, <2>2, <2>3
    DEF Next, vars, Stage, Materialize, AcquireBegin, PassOver, LockHead, RenewLock,
        RenewUpdate, Complete, Rollback, Crash
<1>3. ASSUME NEW v \in Worker, rowLock'[d] = v, tx'[v].kind = "renew", Live(working'[d])
      PROVE  Holding(d)
  <2>1. CASE rowLock[d] = v /\ tx[v].kind = "renew" /\ Live(working[d])
    BY <2>1 DEF Holding
  <2>2. CASE Tick
    <3>1. rowLock[d] = v /\ tx[v].kind = "renew"
      <4>1. rowLock' = rowLock
        BY <2>2 DEF Tick
      <4>2. tx[v] \in Transaction
        BY <1>1 DEF TypeOK
      <4>3. tx'[v].kind = tx[v].kind
        BY <2>2, <4>2 DEF Tick, Transaction
      <4> QED
        BY <1>3, <4>1, <4>3
    <3>2. Live(working[d])
      <4>1. working[d] \in Row
        BY <1>1 DEF TypeOK
      <4>2. /\ working'[d].owner = working[d].owner
            /\ working'[d].ttl = IF working[d].ttl > 0 THEN working[d].ttl - 1 ELSE 0
        BY <2>2, <4>1 DEF Tick, Aged, Row
      <4> QED
        BY <1>3, <4>1, <4>2, BoundsAssumption DEF Live, Row
    <3> QED
      BY <2>1, <3>1, <3>2
  <2>3. ASSUME NEW w \in Worker, NEW c \in held[w], Resolve(w, c)
        PROVE  Holding(d)
    <3>1. c.delivery \in Delivery
      BY <1>1, ClaimFields
    <3>2. rowLock[d] = v /\ tx[v].kind = "renew" /\ Live(working[d])
      BY <1>1, <1>3, <2>3, <3>1 DEF Resolve, TypeOK, Row, Live
    <3> QED
      BY <2>1, <3>2
  <2>4. ASSUME NEW w \in Worker, NEW c \in tx[w].target, RenewUpdate(w, c)
        PROVE  Holding(d)
    <3>1. c.delivery \in Delivery
      BY <1>1, ClaimFields
    <3>2. CASE UNCHANGED <<rowLock, working>>
      <4>1. w # v
        BY <1>3, <2>4, <3>2
        DEF RenewUpdate, FencingInv, Written, HeadLocked, LeaseWritten, RenewalWritten,
            CompletionWritten, InsertWritten
      <4> QED
        BY <1>1, <1>3, <2>1, <2>4, <3>2, <4>1 DEF RenewUpdate, TypeOK
    <3>3. CASE d = c.delivery /\ Fenced(w, c)
      BY <3>3 DEF Fenced, Holding
    <3>4. CASE /\ d # c.delivery
               /\ rowLock' = [rowLock EXCEPT ![c.delivery] = w]
               /\ working' = [working EXCEPT ![c.delivery].ttl = LeaseDuration]
      <4>1. rowLock[d] = v /\ working'[d] = working[d]
        BY <1>1, <1>3, <3>1, <3>4 DEF TypeOK
      <4>2. w # v
        BY <2>4, <4>1
        DEF RenewUpdate, FencingInv, Written, HeadLocked, LeaseWritten, RenewalWritten,
            CompletionWritten, InsertWritten
      <4> QED
        BY <1>1, <1>3, <2>1, <2>4, <4>1, <4>2 DEF RenewUpdate, TypeOK
    <3> QED
      BY <2>4, <3>2, <3>3, <3>4 DEF RenewUpdate
  <2>5. ASSUME NEW w \in Worker, NEW e \in Delivery, LockHead(w, e)
        PROVE  Holding(d)
    <3>1. tx'[v].kind = tx[v].kind
      BY <1>1, <2>5 DEF LockHead, TypeOK, Transaction
    <3>2. d # e
      BY <1>1, <1>3, <2>5, <3>1 DEF LockHead, TypeOK
    <3> QED
      BY <1>1, <1>3, <2>1, <2>5, <3>1, <3>2 DEF LockHead, TypeOK
  <2>6. ASSUME NEW w \in Worker, NEW e \in Delivery, Materialize(w, e)
        PROVE  Holding(d)
    <3>1. v # w
      BY <1>1, <1>3, <2>6 DEF Materialize, TypeOK, Open
    <3> QED
      BY <1>1, <1>3, <2>1, <2>6, <3>1 DEF Materialize, TypeOK
  <2>7. ASSUME NEW w \in Worker, NEW c \in held[w], Complete(w, c)
        PROVE  Holding(d)
    <3>1. v # w /\ c.delivery \in Delivery
      BY <1>1, <1>3, <2>7, ClaimFields DEF Complete, TypeOK, Open
    <3> QED
      BY <1>1, <1>3, <2>1, <2>7, <3>1 DEF Complete, TypeOK
  <2>8. ASSUME NEW w \in Worker, AcquireBegin(w) \/ \E c \in held[w] : RenewLock(w, c)
        PROVE  Holding(d)
    <3>1. v # w
      BY <1>1, <1>3, <2>8 DEF AcquireBegin, RenewLock, TypeOK, Open
    <3> QED
      BY <1>1, <1>3, <2>1, <2>8, <3>1 DEF AcquireBegin, RenewLock, TypeOK
  <2>9. ASSUME NEW w \in Worker, NEW l \in Lane, PassOver(w, l)
        PROVE  Holding(d)
    <3>1. tx'[v].kind = tx[v].kind
      BY <1>1, <2>9 DEF PassOver, TypeOK, Transaction
    <3> QED
      BY <1>3, <2>1, <2>9, <3>1 DEF PassOver
  <2>10. ASSUME NEW w \in Worker, Rollback(w) \/ Crash(w)
         PROVE  Holding(d)
    <3>1. Revert(w) /\ EndTransaction(w)
      BY <2>10 DEF Rollback, Crash
    <3>2. rowLock'[d] = IF rowLock[d] = w THEN None ELSE rowLock[d]
      BY <3>1, EndFrame DEF FencingInv
    <3>3. v # w /\ rowLock[d] = v
      BY <1>3, <3>2
    <3> QED
      BY <1>1, <1>3, <2>1, <3>1, <3>3 DEF Revert, EndTransaction, TypeOK
  <2>11. CASE UNCHANGED <<working, rowLock, tx>>
    BY <1>3, <2>1, <2>11
  <2> QED
    BY <2>2, <2>3, <2>4, <2>5, <2>6, <2>7, <2>8, <2>9, <2>10, <2>11 DEF Next, Stage, vars
<1> QED
  BY <1>2, <1>3 DEF Holding

\* In a commit every row that was written as leased grants its lane.
LEMMA CommitGrants ==
  ASSUME FencingInv, FencingInv', NEW w \in Worker, Commit(w),
         NEW d \in Delivery, rowLock[d] = w, LeaseWritten(w, d)
  PROVE  /\ LaneLease(LaneOf[d]) = None
         /\ deliveries'[d].generation = deliveries[d].generation + 1
         /\ LaneLease(LaneOf[d])' = [owner |-> w, item |-> d,
                                     token |-> deliveries'[d].generation]
<1> USE IdsAssumption
<1>1. deliveries'[d] = working[d]
  BY DEF Commit
<1>2. working[d].ttl > 0
  BY LeaseHoldsLane, BoundsAssumption DEF FencingInv, LeaseInv, TypeOK, Row
<1>3. ~Holding(d)
  BY BoundsAssumption DEF LeaseWritten, Holding, Live
<1>4. ASSUME NEW e \in Delivery, LaneOf[e] = LaneOf[d], Holding(e) PROVE FALSE
  BY <1>2, <1>3, <1>4 DEF Holding, Live, Occupied, FencingInv, LeaseInv, OneOccupiedPerLane
<1>5. LaneLease(LaneOf[d]) = None
  BY <1>4, NoHolder
<1>6. Holding(d)'
  BY <1>1, <1>2 DEF Holding, Live, LeaseWritten
<1>7. LaneLease(LaneOf[d])' = [owner |-> deliveries'[d].owner, item |-> d,
                               token |-> deliveries'[d].generation]
  BY <1>6, NextLeaseOfHolder
<1> QED
  BY <1>1, <1>5, <1>7 DEF LeaseWritten

\* In a commit every other row keeps its generation, and makes no holder.
LEMMA CommitElse ==
  ASSUME FencingInv, NEW w \in Worker, Commit(w),
         NEW d \in Delivery, ~(rowLock[d] = w /\ LeaseWritten(w, d))
  PROVE  /\ deliveries'[d].generation = deliveries[d].generation
         /\ Holding(d)' => Holding(d) /\ deliveries'[d].owner = deliveries[d].owner
<1> USE IdsAssumption
<1>1. TypeOK
  BY DEF FencingInv, LeaseInv
<1>2. /\ working' = working
      /\ rowLock'[d] = IF rowLock[d] = w THEN None ELSE rowLock[d]
      /\ \A v \in Worker : v # w => tx'[v] = tx[v]
  <2>1. EndTransaction(w) /\ working' = working /\ LeaseInv
    BY DEF Commit, FencingInv
  <2>2. \A v \in Worker : v # w => tx'[v] = tx[v]
    BY <1>1, <2>1 DEF EndTransaction, TypeOK
  <2> QED
    BY <2>1, <2>2, EndFrame
<1>3. ASSUME NEW v \in Worker, rowLock'[d] = v
      PROVE  v # w /\ rowLock[d] = v /\ tx'[v] = tx[v]
  BY <1>2, <1>3
<1>4. CASE CommitsNothing(w, d)
  BY <1>2, <1>3, <1>4 DEF CommitsNothing, Holding
<1>5. CASE CommitsOf(w, d)
  <2>1. \A v \in Worker : rowLock'[d] # v
    BY <1>3, <1>5 DEF CommitsOf
  <2>2. Holding(d)' => Live(working[d])
    BY <1>5, <2>1 DEF Holding, CommitsOf
  <2>3. CASE RenewalWritten(w, d)
    BY <1>5, <2>2, <2>3 DEF RenewalWritten, CommitsOf, Holding
  <2>4. CASE CompletionWritten(w, d)
    BY <1>5, <2>2, <2>4 DEF CompletionWritten, CommitsOf, Live
  <2>5. CASE InsertWritten(w, d)
    BY <1>5, <2>2, <2>5 DEF InsertWritten, CommitsOf, Live, Pending, Absent
  <2> QED
    BY <1>5, <2>3, <2>4, <2>5 DEF CommitsOf
<1> QED
  BY <1>4, <1>5, CommitEffect

\* Every step of LaneLeases is a step of FencedLease or leaves it alone.
LEMMA StepIsFenced ==
  ASSUME FencingInv, FencingInv', [Next]_vars
  PROVE  Fence!Next
<1> USE IdsAssumption
<1>1. ASSUME NEW d \in Delivery, NEW w \in Worker, LaneLease(LaneOf[d]) = None,
             deliveries'[d].generation = deliveries[d].generation + 1,
             LaneLease(LaneOf[d])' = [owner |-> w, item |-> d,
                                      token |-> deliveries'[d].generation]
      PROVE  Fence!Grant(w, d)
  BY <1>1 DEF Fence!Grant
<1>2. CASE \A w \in Worker : ~Commit(w)
  <2>1. ASSUME NEW l \in Lane
        PROVE  \/ LaneLease(l)' = LaneLease(l)
               \/ LaneLease(l) # None /\ LaneLease(l)' = None
    BY <1>2, OnlyCommitsGrant, OnlyCommitsHold, LaneKeepsOrEnds
  <2>2. \A d \in Delivery : deliveries'[d].generation = deliveries[d].generation
    BY <1>2, OnlyCommitsGrant
  <2> QED
    BY <2>1, <2>2 DEF Fence!Next, Fence!End
<1>3. ASSUME NEW w \in Worker, Commit(w) PROVE Fence!Next
  <2>1. ASSUME NEW d \in Delivery, rowLock[d] = w, LeaseWritten(w, d)
        PROVE  Fence!Grant(w, d)
    BY <1>1, <1>3, <2>1, CommitGrants
  <2>2. ASSUME NEW l \in Lane,
               \A d \in Delivery : LaneOf[d] = l => ~(rowLock[d] = w /\ LeaseWritten(w, d))
        PROVE  \/ LaneLease(l)' = LaneLease(l)
               \/ LaneLease(l) # None /\ LaneLease(l)' = None
    BY <1>3, <2>2, CommitElse, LaneKeepsOrEnds
  <2>3. \A d \in Delivery : ~(rowLock[d] = w /\ LeaseWritten(w, d)) =>
          deliveries'[d].generation = deliveries[d].generation
    BY <1>3, CommitElse
  <2> QED
    BY <2>1, <2>2, <2>3 DEF Fence!Next, Fence!End
<1> QED
  BY <1>2, <1>3

LEMMA InitIsFenced == Init => Fence!Init
<1> SUFFICES ASSUME Init PROVE Fence!Init
  OBVIOUS
<1>1. \A d \in Delivery : ~Holding(d) /\ deliveries[d].generation = 0
  BY DEF Init, Holding, Live, Absent, Idle
<1>2. \A l \in Lane : LaneLease(l) = None
  BY <1>1, NoHolder
<1> QED
  BY <1>1, <1>2 DEF Fence!Init

\* Acquisition, renewal, completion, expiry, crash and rollback together implement
\* the fenced lease of every lane: who holds it, for which delivery, by which token.
THEOREM LanesAreFenced == Spec => EveryLaneIsFenced
<1>1. Init => Fence!Init
  BY InitIsFenced
<1>2. FencingInv /\ FencingInv' /\ [Next]_vars => [Fence!Next]_(Fence!vars)
  BY StepIsFenced
<1> QED
  BY <1>1, <1>2, FencingInvariant, PTL DEF Spec, EveryLaneIsFenced, Fence!Spec
=============================================================================
