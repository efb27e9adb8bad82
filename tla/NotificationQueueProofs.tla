----------------------- MODULE NotificationQueueProofs -----------------------
(***************************************************************************)
(* Proofs about NotificationQueue, for any number of events and instances, *)
(* any batch size, timeout, delay, pool wait and attempt limit.            *)
(*                                                                         *)
(* The marks of the dispatch loop name an event and test nothing, so that  *)
(* nothing but time keeps two instances apart.  QueueInv says how: a row   *)
(* lock lasts from the SELECT to the COMMIT (LockedByClaim); from then on  *)
(* the age of the row is that of the clock reading of the whole batch      *)
(* (ClaimsAreFresh), however long the claim waited for its connection, and *)
(* a batch that is not late is not old enough for a second claim.          *)
(***************************************************************************)
EXTENDS NotificationQueue, TLAPS

Phase == {"polling", "waiting", "claiming", "delivering", "confirming",
          "retrying", "quarantining"}

\* Every row was inserted once, and arrivals has its place.
ArrivalsAreRows ==
  /\ \A m, n \in DOMAIN arrivals : arrivals[m] = arrivals[n] => m = n
  /\ \A n \in DOMAIN arrivals : row[arrivals[n]].status # "absent"

\* The rows of a page stay locked until the claim commits, and nothing marks
\* them meanwhile.
LockedByClaim ==
  /\ \A i \in Instance, e \in Event :
       lock[e] = i <=> pc[i] = "claiming" /\ Holds(i, e)
  /\ \A e \in Event :
       lock[e] # None => row[e].status \in {"pending", "failed", "processing"}

\* A loop that is not claiming another one works on the head of its batch, and no batch has
\* an event twice.
BatchesAreHeld ==
  \A i \in Instance :
    /\ batch[i] = <<>> <=> pc[i] \in {"polling", "waiting"}
    /\ \A m, n \in DOMAIN batch[i] : batch[i][m].event = batch[i][n].event => m = n

SentIsConfirmed ==
  \A i \in Instance : pc[i] = "confirming" => Current(i).event \in sent

\* Unless some instance is late, what a committed claim holds is processing,
\* for as long as the batch is held.
ClaimsAreFresh ==
  late \/ \A i \in Instance :
            /\ batch[i] # <<>> => held[i] <= ProcessingTimeout
            /\ \A e \in Event : Holds(i, e) /\ pc[i] # "claiming" =>
                 row[e].status = "processing" /\ row[e].age = held[i]

QueueInv ==
  /\ TypeOK
  /\ ArrivalsAreRows
  /\ LockedByClaim
  /\ BatchesAreHeld
  /\ SentIsConfirmed
  /\ ClaimsAreFresh
  /\ ExclusiveUnlessLate
  /\ StatusIsEarned

-----------------------------------------------------------------------------
(* The batches.                                                            *)

LEMMA HolderIsClaiming ==
  ASSUME QueueInv, NEW i \in Instance, NEW e \in Event, Holds(i, e)
  PROVE  batch[i] # <<>> /\ pc[i] \notin {"polling", "waiting"}
BY DEF QueueInv, BatchesAreHeld, Holds

LEMMA CurrentIsQueued ==
  ASSUME QueueInv, NEW i \in Instance, pc[i] \notin {"polling", "waiting"}
  PROVE  /\ Current(i) \in Queued
         /\ Current(i).event \in Event
         /\ Holds(i, Current(i).event)
<1>1. batch[i] \in Seq(Queued) /\ batch[i] # <<>>
  BY DEF QueueInv, TypeOK, BatchesAreHeld
<1>2. 1 \in DOMAIN batch[i] /\ Current(i) = batch[i][1]
  BY <1>1 DEF Current
<1>3. batch[i][1] \in Queued
  BY <1>1
<1>4. Current(i).event \in Event
  BY <1>2, <1>3 DEF Queued
<1> QED
  BY <1>2, <1>3, <1>4 DEF Holds

\* Proceed takes the head off the batch of its instance, and nothing else.
LEMMA ProceedShrinks ==
  ASSUME QueueInv, NEW i \in Instance, pc[i] \notin {"polling", "waiting"}, Proceed(i)
  PROVE  /\ batch' \in [Instance -> Seq(Queued)]
         /\ pc' \in [Instance -> Phase]
         /\ pc'[i] \in {"polling", "delivering"}
         /\ \A j \in Instance \ {i} : batch'[j] = batch[j] /\ pc'[j] = pc[j]
         /\ BatchesAreHeld'
         /\ \A e \in Event : ~(e = Current(i).event /\ Holds(i, e)')
         /\ \A j \in Instance, e \in Event : Holds(j, e)' => Holds(j, e)
         /\ \A j \in Instance \ {i}, e \in Event : Holds(j, e)' <=> Holds(j, e)
<1> DEFINE b == batch[i]
<1>1. b \in Seq(Queued) /\ b # <<>> /\ i \in DOMAIN batch /\ i \in DOMAIN pc
  BY DEF QueueInv, TypeOK, BatchesAreHeld
<1>2. batch'[i] = Tail(b) /\ pc'[i] = IF Len(b) = 1 THEN "polling" ELSE "delivering"
  BY <1>1 DEF Proceed
<1>3. \A j \in Instance \ {i} : batch'[j] = batch[j] /\ pc'[j] = pc[j]
  BY DEF Proceed, QueueInv, TypeOK
<1>4. /\ Tail(b) \in Seq(Queued)
      /\ Len(b) \in Nat \ {0}
      /\ Len(Tail(b)) = Len(b) - 1
      /\ DOMAIN Tail(b) = 1..Len(b) - 1
      /\ DOMAIN b = 1..Len(b)
      /\ \A n \in 1..Len(b) - 1 : n + 1 \in DOMAIN b /\ Tail(b)[n] = b[n + 1]
  BY <1>1
<1>5. \A m, n \in DOMAIN b : b[m].event = b[n].event => m = n
  BY DEF QueueInv, BatchesAreHeld
<1>6. /\ batch' \in [Instance -> Seq(Queued)]
      /\ pc' \in [Instance -> Phase]
  BY <1>2, <1>4 DEF Proceed, QueueInv, TypeOK, Phase
<1>7. BatchesAreHeld'
  <2> SUFFICES ASSUME NEW j \in Instance
               PROVE  /\ batch'[j] = <<>> <=> pc'[j] \in {"polling", "waiting"}
                      /\ \A m, n \in DOMAIN batch'[j] :
                           batch'[j][m].event = batch'[j][n].event => m = n
    BY DEF BatchesAreHeld
  <2>1. CASE j # i
    BY <1>3, <2>1 DEF QueueInv, BatchesAreHeld
  <2>2. CASE j = i
    <3>0. \A t \in Seq(Queued) : t = <<>> <=> Len(t) = 0
      OBVIOUS
    <3>1. Tail(b) = <<>> <=> Len(b) = 1
      <4>1. Tail(b) = <<>> <=> Len(Tail(b)) = 0
        BY <1>4, <3>0
      <4>2. Len(b) \in Nat \ {0} /\ Len(Tail(b)) = Len(b) - 1
        BY <1>4
      <4> HIDE DEF b
      <4> QED
        BY <4>1, <4>2
    <3>2. \A m, n \in 1..Len(b) - 1 : Tail(b)[m].event = Tail(b)[n].event => m = n
      <4> SUFFICES ASSUME NEW m \in 1..Len(b) - 1, NEW n \in 1..Len(b) - 1,
                          Tail(b)[m].event = Tail(b)[n].event
                   PROVE  m = n
        OBVIOUS
      <4>1. b[m + 1].event = b[n + 1].event /\ m + 1 \in DOMAIN b /\ n + 1 \in DOMAIN b
        BY <1>4
      <4> QED
        BY <4>1, <1>5, <1>4
    <3>3. batch'[i] = <<>> <=> pc'[i] \in {"polling", "waiting"}
      BY <1>2, <3>1
    <3>4. DOMAIN batch'[i] = 1..Len(b) - 1
      BY <1>2, <1>4
    <3>5. \A m, n \in DOMAIN batch'[i] :
            batch'[i][m].event = batch'[i][n].event => m = n
      BY <1>2, <3>2, <3>4
    <3> QED
      BY <2>2, <3>3, <3>5
  <2> QED
    BY <2>1, <2>2
<1>8. ASSUME NEW e \in Event, e = Current(i).event, Holds(i, e)'
      PROVE  FALSE
  <2>1. PICK n \in DOMAIN batch'[i] : batch'[i][n].event = e
    BY <1>8 DEF Holds
  <2>2. n \in 1..Len(b) - 1 /\ b[n + 1].event = e /\ n + 1 \in DOMAIN b
    BY <1>2, <1>4, <2>1
  <2>3. b[1].event = e /\ 1 \in DOMAIN b
    BY <1>1, <1>8 DEF Current
  <2> QED
    BY <1>5, <2>2, <2>3, <1>4
<1>9. ASSUME NEW e \in Event, Holds(i, e)'
      PROVE  Holds(i, e)
  <2>1. PICK n \in DOMAIN batch'[i] : batch'[i][n].event = e
    BY <1>9 DEF Holds
  <2>2. b[n + 1].event = e /\ n + 1 \in DOMAIN b
    BY <1>2, <1>4, <2>1
  <2> QED
    BY <2>2 DEF Holds
<1>10. \A j \in Instance \ {i}, e \in Event : Holds(j, e)' <=> Holds(j, e)
  BY <1>3 DEF Holds
<1> QED
  BY <1>2, <1>3, <1>6, <1>7, <1>8, <1>9, <1>10

\* A mark finishes the event: what is true of every other event stays.
LEMMA MarkFinishes ==
  ASSUME QueueInv, NEW i \in Instance,
         pc[i] \in {"confirming", "retrying", "quarantining"},
         lock[Current(i).event] = None,
         Proceed(i),
         \A f \in Event \ {Current(i).event} : row'[f] = row[f],
         row'[Current(i).event].status # "absent"
  PROVE  /\ ArrivalsAreRows'
         /\ LockedByClaim'
         /\ BatchesAreHeld'
         /\ SentIsConfirmed'
         /\ ClaimsAreFresh'
         /\ ExclusiveUnlessLate'
<1> DEFINE c == Current(i).event
<1>0. /\ TypeOK /\ c \in Event /\ Holds(i, c)
      /\ ExclusiveUnlessLate /\ LockedByClaim /\ ClaimsAreFresh
  BY CurrentIsQueued DEF QueueInv
<1>1. /\ pc'[i] \in {"polling", "delivering"}
      /\ \A j \in Instance \ {i} : batch'[j] = batch[j] /\ pc'[j] = pc[j]
      /\ BatchesAreHeld'
      /\ \A e \in Event : ~(e = c /\ Holds(i, e)')
      /\ \A j \in Instance, e \in Event : Holds(j, e)' => Holds(j, e)
      /\ \A j \in Instance \ {i}, e \in Event : Holds(j, e)' <=> Holds(j, e)
  BY ProceedShrinks
<1>2. UNCHANGED <<arrivals, lock, held, sent, late>>
  BY DEF Proceed, history
<1>3. ArrivalsAreRows'
  <2>1. \A n \in DOMAIN arrivals : arrivals[n] \in Event
    BY <1>0 DEF TypeOK
  <2>2. \A n \in DOMAIN arrivals : row'[arrivals[n]].status # "absent"
    BY <2>1 DEF QueueInv, ArrivalsAreRows
  <2> QED
    BY <1>2, <2>2 DEF QueueInv, ArrivalsAreRows
<1>4. LockedByClaim'
  <2>1. \A j \in Instance, e \in Event :
          lock'[e] = j <=> pc'[j] = "claiming" /\ Holds(j, e)'
    BY <1>0, <1>1, <1>2 DEF LockedByClaim
  <2>2. \A e \in Event :
          lock'[e] # None => row'[e].status \in {"pending", "failed", "processing"}
    BY <1>0, <1>2 DEF LockedByClaim
  <2> QED
    BY <2>1, <2>2 DEF LockedByClaim
<1>5. SentIsConfirmed'
  BY <1>1, <1>2 DEF QueueInv, SentIsConfirmed, Current
<1>6. ExclusiveUnlessLate'
  BY <1>0, <1>1, <1>2 DEF ExclusiveUnlessLate
<1>7. ClaimsAreFresh'
  <2> SUFFICES ASSUME ~late, NEW j \in Instance
               PROVE  /\ batch'[j] # <<>> => held[j] <= ProcessingTimeout
                      /\ \A e \in Event : Holds(j, e)' /\ pc'[j] # "claiming" =>
                           row'[e].status = "processing" /\ row'[e].age = held[j]
    BY <1>2 DEF ClaimsAreFresh
  <2>1. batch'[j] # <<>> => held[j] <= ProcessingTimeout
    <3>1. batch'[j] # <<>> => batch[j] # <<>>
      BY <1>1 DEF QueueInv, BatchesAreHeld
    <3> QED
      BY <1>0, <3>1 DEF ClaimsAreFresh
  <2>2. ASSUME NEW e \in Event, Holds(j, e)', pc'[j] # "claiming"
        PROVE  row'[e].status = "processing" /\ row'[e].age = held[j]
    <3>1. Holds(j, e) /\ pc[j] # "claiming"
      BY <1>1, <2>2
    <3>2. e # c
      BY <1>0, <1>1, <2>2, <3>1 DEF ExclusiveUnlessLate
    <3> QED
      BY <1>0, <3>1, <3>2 DEF ClaimsAreFresh
  <2> QED
    BY <2>1, <2>2
<1> QED
  BY <1>1, <1>3, <1>4, <1>5, <1>6, <1>7

-----------------------------------------------------------------------------
(* The invariant.                                                          *)

LEMMA InitQueueInv == Init => QueueInv
<1> SUFFICES ASSUME Init PROVE QueueInv
  OBVIOUS
<1> USE QueueAssumption
<1>1. TypeOK
  <2>1. [status |-> "absent", attempts |-> 0, delay |-> 0, age |-> 0] \in Row
    <3>1. 0 \in -MaxWait..RetryDelay /\ 0 \in 0..Oldest
      BY DEF Oldest
    <3> QED
      BY <3>1 DEF Row, Status
  <2>2. /\ row \in [Event -> Row] /\ lock \in [Event -> Instance \cup {None}]
        /\ failures \in [Event -> Nat] /\ held \in [Instance -> 0..Oldest]
        /\ pc \in [Instance -> Phase] /\ batch \in [Instance -> Seq(Queued)]
    BY <2>1 DEF Init, Phase, Oldest
  <2>3. /\ arrivals \in Seq(Event) /\ deadLetters \subseteq Event
        /\ sent \subseteq Event /\ faults \in 0..MaxFaults
    BY DEF Init
  <2>4. late \in BOOLEAN
    BY Zenon DEF Init
  <2> QED
    BY <2>2, <2>3, <2>4 DEF TypeOK, Phase
<1>2. \A i \in Instance, e \in Event : ~Holds(i, e)
  BY DEF Init, Holds
<1>3. ArrivalsAreRows /\ BatchesAreHeld /\ SentIsConfirmed /\ StatusIsEarned
  BY DEF Init, ArrivalsAreRows, BatchesAreHeld, SentIsConfirmed, StatusIsEarned
<1>4. LockedByClaim /\ ClaimsAreFresh /\ ExclusiveUnlessLate
  BY <1>2 DEF Init, LockedByClaim, ClaimsAreFresh, ExclusiveUnlessLate
<1> QED
  BY <1>1, <1>3, <1>4 DEF QueueInv

LEMMA EnqueueKeepsInv ==
  ASSUME QueueInv, NEW e \in Event, Enqueue(e)
  PROVE  QueueInv'
<1> USE QueueAssumption
<1>0. TypeOK
  BY DEF QueueInv
<1>1. TypeOK'
  <2>1. [row[e] EXCEPT !.status = "pending"] \in Row
    <3>1. row[e] \in Row /\ "pending" \in Status
      BY <1>0 DEF TypeOK, Status
    <3> QED
      BY <3>1 DEF Row
  <2>2. row' \in [Event -> Row]
    BY <1>0, <2>1 DEF TypeOK, Enqueue
  <2>3. arrivals' \in Seq(Event)
    BY <1>0 DEF TypeOK, Enqueue
  <2> QED
    BY <1>0, <2>2, <2>3 DEF TypeOK, Enqueue, history
<1>2. /\ \A f \in Event \ {e} : row'[f] = row[f]
      /\ row'[e].status = "pending" /\ row[e].status = "absent"
      /\ UNCHANGED <<deadLetters, lock, pc, batch, held, sent, late>>
  BY DEF QueueInv, TypeOK, Row, Enqueue, history
<1>3. ArrivalsAreRows'
  <2>1. /\ arrivals \in Seq(Event) /\ Len(arrivals) \in Nat
        /\ DOMAIN arrivals = 1..Len(arrivals)
        /\ DOMAIN arrivals' = 1..Len(arrivals) + 1
        /\ arrivals'[Len(arrivals) + 1] = e
        /\ \A n \in 1..Len(arrivals) : arrivals'[n] = arrivals[n] /\ arrivals[n] # e
    BY <1>2 DEF QueueInv, TypeOK, ArrivalsAreRows, Enqueue
  <2>2. \A n \in DOMAIN arrivals' : n = Len(arrivals) + 1 \/ n \in 1..Len(arrivals)
    BY <2>1
  <2>3. \A m, n \in DOMAIN arrivals' : arrivals'[m] = arrivals'[n] => m = n
    BY <2>1, <2>2 DEF QueueInv, ArrivalsAreRows
  <2>4. \A n \in DOMAIN arrivals' : row'[arrivals'[n]].status # "absent"
    BY <1>2, <2>1, <2>2 DEF QueueInv, ArrivalsAreRows
  <2> QED
    BY <2>3, <2>4 DEF ArrivalsAreRows
<1>4. \A j \in Instance, f \in Event : Holds(j, f)' <=> Holds(j, f)
  BY <1>2 DEF Holds
<1>5. LockedByClaim'
  BY <1>2, <1>4 DEF QueueInv, LockedByClaim
<1>6. BatchesAreHeld' /\ SentIsConfirmed'
  BY <1>2 DEF QueueInv, BatchesAreHeld, SentIsConfirmed, Current
<1>7. ClaimsAreFresh' /\ ExclusiveUnlessLate'
  BY <1>2, <1>4 DEF QueueInv, ClaimsAreFresh, ExclusiveUnlessLate
<1>8. StatusIsEarned'
  BY <1>2 DEF QueueInv, StatusIsEarned
<1> QED
  BY <1>1, <1>3, <1>5, <1>6, <1>7, <1>8 DEF QueueInv

LEMMA PollKeepsInv ==
  ASSUME QueueInv, NEW i \in Instance, Poll(i)
  PROVE  QueueInv'
<1> USE QueueAssumption
<1>1. /\ TypeOK /\ pc[i] = "polling"
      /\ pc' = [pc EXCEPT ![i] = "waiting"] /\ held' = [held EXCEPT ![i] = 0]
      /\ UNCHANGED <<row, arrivals, deadLetters, lock, batch, faults, sent, failures, late>>
  BY DEF QueueInv, Poll, tables, history
<1>2. TypeOK'
  <2>1. held' \in [Instance -> 0..Oldest]
    BY <1>1 DEF TypeOK, Oldest
  <2>2. pc' \in [Instance -> {"polling", "waiting", "claiming", "delivering",
                              "confirming", "retrying", "quarantining"}]
    BY <1>1 DEF TypeOK
  <2> QED
    BY <1>1, <2>1, <2>2 DEF TypeOK
<1>3. /\ pc'[i] = "waiting" /\ batch[i] = <<>>
      /\ \A j \in Instance \ {i} : pc'[j] = pc[j] /\ held'[j] = held[j]
      /\ \A j \in Instance, e \in Event : Holds(j, e)' <=> Holds(j, e)
      /\ \A e \in Event : ~Holds(i, e)
  BY <1>1 DEF QueueInv, TypeOK, BatchesAreHeld, Holds
<1>4. ArrivalsAreRows' /\ StatusIsEarned'
  BY <1>1 DEF QueueInv, ArrivalsAreRows, StatusIsEarned
<1>5. LockedByClaim' /\ BatchesAreHeld'
  BY <1>1, <1>3 DEF QueueInv, LockedByClaim, BatchesAreHeld
<1>6. SentIsConfirmed'
  BY <1>1, <1>3 DEF QueueInv, SentIsConfirmed, Current
<1>7. ClaimsAreFresh' /\ ExclusiveUnlessLate'
  BY <1>1, <1>3 DEF QueueInv, ClaimsAreFresh, ExclusiveUnlessLate
<1> QED
  BY <1>2, <1>4, <1>5, <1>6, <1>7 DEF QueueInv

\* The events of a page are free and distinct, by the order of arrival.
LEMMA PageIsFree ==
  ASSUME QueueInv, NEW i \in Instance,
         NEW size \in 0..BatchSize, NEW page \in [1..size -> Free(i)],
         IsPage(i, page)
  PROVE  /\ \A n \in 1..size :
              page[n] \in Event /\ Due(i, page[n]) /\ lock[page[n]] = None
         /\ \A m, n \in 1..size : page[m] = page[n] => m = n
<1> USE QueueAssumption
<1>1. \A n \in 1..size : page[n] \in Event /\ Due(i, page[n]) /\ lock[page[n]] = None
  BY DEF Free
<1>2. \A e : ~Before(e, e)
  <2>1. DOMAIN arrivals \subseteq Nat
    BY DEF QueueInv, TypeOK
  <2> QED
    BY <2>1 DEF QueueInv, ArrivalsAreRows, Before
<1>3. \A m, n \in 1..size : m < n => page[m] # page[n]
  BY <1>2 DEF IsPage
<1>4. \A m, n \in 1..size : m = n \/ m < n \/ n < m
  OBVIOUS
<1> QED
  BY <1>1, <1>3, <1>4

LEMMA SelectKeepsInv ==
  ASSUME QueueInv, NEW i \in Instance, Select(i)
  PROVE  QueueInv'
<1> USE QueueAssumption
<1>0. PICK size \in 0..BatchSize : \E page \in [1..size -> Free(i)] :
        /\ IsPage(i, page)
        /\ batch' = [batch EXCEPT ![i] = [n \in 1..size |->
                       [event |-> page[n], attempts |-> row[page[n]].attempts + 1]]]
        /\ lock' = [e \in Event |-> IF \E n \in 1..size : page[n] = e
                                     THEN i ELSE lock[e]]
        /\ pc' = [pc EXCEPT ![i] = IF size = 0 THEN "polling" ELSE "claiming"]
        /\ late' = (late \/ (size > 0 /\ held[i] > ProcessingTimeout))
  BY DEF Select
<1>1. PICK page \in [1..size -> Free(i)] :
        /\ IsPage(i, page)
        /\ batch' = [batch EXCEPT ![i] = [n \in 1..size |->
                       [event |-> page[n], attempts |-> row[page[n]].attempts + 1]]]
        /\ lock' = [e \in Event |-> IF \E n \in 1..size : page[n] = e
                                     THEN i ELSE lock[e]]
        /\ pc' = [pc EXCEPT ![i] = IF size = 0 THEN "polling" ELSE "claiming"]
        /\ late' = (late \/ (size > 0 /\ held[i] > ProcessingTimeout))
  BY <1>0
<1>2. /\ \A n \in 1..size :
           page[n] \in Event /\ Due(i, page[n]) /\ lock[page[n]] = None
      /\ \A m, n \in 1..size : page[m] = page[n] => m = n
  BY <1>1, PageIsFree
<1> DEFINE Paged(e) == \E n \in 1..size : page[n] = e
           b == [n \in 1..size |->
                   [event |-> page[n], attempts |-> row[page[n]].attempts + 1]]
<1>3. /\ TypeOK /\ pc[i] = "waiting"
      /\ UNCHANGED <<row, arrivals, deadLetters, held, faults, sent, failures>>
  BY DEF QueueInv, Select
<1>4. b \in Seq(Queued) /\ DOMAIN b = 1..size /\ (b = <<>> <=> size = 0)
  <2>1. size \in Nat /\ (size # 0 <=> 1 \in 1..size)
    OBVIOUS
  <2>2. ASSUME NEW n \in 1..size
        PROVE  b[n] \in Queued
    <3>1. page[n] \in Event /\ row[page[n]] \in Row
      BY <1>2, <1>3 DEF TypeOK
    <3>2. row[page[n]].attempts + 1 \in Nat
      BY <3>1 DEF Row
    <3> QED
      BY <3>1, <3>2 DEF Queued
  <2> QED
    <3>1. b \in Seq(Queued) /\ Len(b) = size
      BY <2>1, <2>2
    <3>2. \A q \in Seq(Queued) : q = <<>> <=> Len(q) = 0
      OBVIOUS
    <3> HIDE DEF b
    <3>3. b = <<>> <=> size = 0
      BY <3>1, <3>2
    <3>4. DOMAIN b = 1..size
      BY <2>1 DEF b
    <3> QED
      BY <3>1, <3>3, <3>4
<1>5. TypeOK'
  <2>1. batch' \in [Instance -> Seq(Queued)]
    BY <1>1, <1>3, <1>4 DEF TypeOK
  <2>2. lock' \in [Event -> Instance \cup {None}]
    BY <1>1, <1>3 DEF TypeOK
  <2>3. pc' \in [Instance -> {"polling", "waiting", "claiming", "delivering", "confirming",
                              "retrying", "quarantining"}]
    BY <1>1, <1>3 DEF TypeOK
  <2>4. late' \in BOOLEAN
    BY <1>1, <1>3 DEF TypeOK
  <2> QED
    BY <1>3, <2>1, <2>2, <2>3, <2>4 DEF TypeOK
<1>6. /\ batch'[i] = b /\ pc'[i] = IF size = 0 THEN "polling" ELSE "claiming"
      /\ \A j \in Instance \ {i} : batch'[j] = batch[j] /\ pc'[j] = pc[j]
      /\ \A e \in Event : lock'[e] = IF Paged(e) THEN i ELSE lock[e]
  BY <1>1, <1>3 DEF TypeOK
<1>7. /\ \A e \in Event : Holds(i, e)' <=> Paged(e)
      /\ \A j \in Instance \ {i}, e \in Event : Holds(j, e)' <=> Holds(j, e)
      /\ \A e \in Event : ~Holds(i, e)
  <2>1. \A e \in Event : Holds(i, e)' <=> Paged(e)
    <3>1. \A n \in 1..size : b[n].event = page[n]
      OBVIOUS
    <3>2. \A e \in Event : Holds(i, e)' <=> \E n \in DOMAIN b : b[n].event = e
      BY <1>6 DEF Holds
    <3> HIDE DEF b
    <3> QED
      BY <1>4, <3>1, <3>2
  <2>2. \A j \in Instance \ {i}, e \in Event : Holds(j, e)' <=> Holds(j, e)
    BY <1>6 DEF Holds
  <2>3. \A e \in Event : ~Holds(i, e)
    BY <1>3 DEF QueueInv, BatchesAreHeld, Holds
  <2> QED
    BY <2>1, <2>2, <2>3
<1>8. ArrivalsAreRows' /\ StatusIsEarned'
  BY <1>3 DEF QueueInv, ArrivalsAreRows, StatusIsEarned
<1>9. BatchesAreHeld'
  <2> SUFFICES ASSUME NEW j \in Instance
               PROVE  /\ batch'[j] = <<>> <=> pc'[j] \in {"polling", "waiting"}
                      /\ \A m, n \in DOMAIN batch'[j] :
                           batch'[j][m].event = batch'[j][n].event => m = n
    BY DEF BatchesAreHeld
  <2>1. CASE j = i
    <3>1. \A n \in 1..size : b[n].event = page[n]
      OBVIOUS
    <3> QED
      BY <1>2, <1>4, <1>6, <2>1, <3>1
  <2>2. CASE j # i
    BY <1>6, <2>2 DEF QueueInv, BatchesAreHeld
  <2> QED
    BY <2>1, <2>2
<1>10. SentIsConfirmed'
  BY <1>3, <1>6 DEF QueueInv, SentIsConfirmed, Current
<1>11. LockedByClaim'
  <2>1. ASSUME NEW j \in Instance, NEW e \in Event
        PROVE  lock'[e] = j <=> pc'[j] = "claiming" /\ Holds(j, e)'
    <3>1. lock[e] = j <=> pc[j] = "claiming" /\ Holds(j, e)
      BY DEF QueueInv, LockedByClaim
    <3>2. Paged(e) => lock[e] = None
      BY <1>2
    <3> QED
      BY <1>3, <1>6, <1>7, <3>1, <3>2
  <2>2. ASSUME NEW e \in Event, lock'[e] # None
        PROVE  row'[e].status \in {"pending", "failed", "processing"}
    <3>1. CASE Paged(e)
      BY <1>2, <1>3, <3>1 DEF Due
    <3>2. CASE ~Paged(e)
      BY <1>3, <1>6, <2>2, <3>2 DEF QueueInv, LockedByClaim
    <3> QED
      BY <3>1, <3>2
  <2> QED
    BY <2>1, <2>2 DEF LockedByClaim
\* A page never has an event of a batch that is not late: the row is locked, or
\* processing and too young.
<1>12. ASSUME ~late, NEW j \in Instance, NEW e \in Event, Holds(j, e)
       PROVE  ~Paged(e)
  <2>1. CASE pc[j] = "claiming"
    <3>1. lock[e] = j /\ j # None
      BY <1>12, <2>1 DEF QueueInv, LockedByClaim
    <3> QED
      BY <1>2, <3>1
  <2>2. CASE pc[j] # "claiming"
    <3>1. /\ row[e].status = "processing" /\ row[e].age = held[j]
          /\ held[j] <= ProcessingTimeout
      BY <1>12, <2>2, HolderIsClaiming DEF QueueInv, ClaimsAreFresh
    <3>2. held[j] \in Nat /\ held[i] \in Nat
      BY <1>3 DEF TypeOK
    <3>3. ~Due(i, e)
      BY <3>1, <3>2 DEF Due
    <3> QED
      BY <1>2, <3>3
  <2> QED
    BY <2>1, <2>2
<1>13. late \/ late' \/ (size > 0 => held[i] <= ProcessingTimeout)
  <2>1. held[i] > ProcessingTimeout \/ held[i] <= ProcessingTimeout
    <3>1. held[i] \in Nat
      BY <1>3 DEF TypeOK
    <3> QED
      BY <3>1
  <2>2. late' = (late \/ (size > 0 /\ held[i] > ProcessingTimeout))
    BY <1>1
  <2> QED
    BY <2>1, <2>2, Zenon
<1>14. late => late'
  BY <1>1
<1>15. ExclusiveUnlessLate'
  BY <1>7, <1>12, <1>14 DEF QueueInv, ExclusiveUnlessLate
<1>16. ClaimsAreFresh'
  <2> SUFFICES ASSUME ~late', NEW j \in Instance
               PROVE  /\ batch'[j] # <<>> => held[j] <= ProcessingTimeout
                      /\ \A e \in Event : Holds(j, e)' /\ pc'[j] # "claiming" =>
                           row[e].status = "processing" /\ row[e].age = held[j]
    BY <1>3 DEF ClaimsAreFresh
  <2>1. CASE j = i
    <3>1. batch'[i] # <<>> => size > 0
      BY <1>4, <1>6
    <3>2. \A e \in Event : Holds(i, e)' => pc'[i] = "claiming"
      BY <1>6, <1>7
    <3> QED
      BY <1>13, <1>14, <2>1, <3>1, <3>2
  <2>2. CASE j # i
    BY <1>6, <1>7, <1>14, <2>2 DEF QueueInv, ClaimsAreFresh
  <2> QED
    BY <2>1, <2>2
<1> QED
  BY <1>5, <1>8, <1>9, <1>10, <1>11, <1>15, <1>16 DEF QueueInv

LEMMA ClaimKeepsInv ==
  ASSUME QueueInv, NEW i \in Instance, Claim(i)
  PROVE  QueueInv'
<1> USE QueueAssumption
<1>1. /\ TypeOK /\ pc[i] = "claiming"
      /\ pc' = [pc EXCEPT ![i] = "delivering"]
      /\ UNCHANGED <<arrivals, deadLetters, batch, held, faults, sent, failures, late>>
  BY DEF QueueInv, Claim, history
<1>2. \A e \in Event :
        /\ lock'[e] = IF lock[e] = i THEN None ELSE lock[e]
        /\ lock[e] = i => /\ row'[e] = [row[e] EXCEPT !.status = "processing",
                                                      !.age = held[i]]
                          /\ row'[e].status = "processing" /\ row'[e].age = held[i]
        /\ lock[e] # i => row'[e] = row[e]
  <2>1. \A r \in Row :
          /\ [r EXCEPT !.status = "processing", !.age = held[i]].status = "processing"
          /\ [r EXCEPT !.status = "processing", !.age = held[i]].age = held[i]
    BY DEF Row
  <2>2. \A e \in Event : row[e] \in Row
    BY <1>1 DEF TypeOK
  <2>3. \A e \in Event : lock'[e] = IF lock[e] = i THEN None ELSE lock[e]
    BY DEF Claim, Unlocked
  <2>4. \A e \in Event :
          row'[e] = IF lock[e] = i
                      THEN [row[e] EXCEPT !.status = "processing", !.age = held[i]]
                      ELSE row[e]
    BY DEF Claim
  <2> SUFFICES ASSUME NEW e \in Event
               PROVE  lock[e] = i => /\ row'[e].status = "processing"
                                     /\ row'[e].age = held[i]
    BY <2>3, <2>4
  <2> QED
    BY <2>1, <2>2, <2>4
<1>3. TypeOK'
  <2>1. row' \in [Event -> Row]
    <3>1. \A r \in Row : [r EXCEPT !.status = "processing", !.age = held[i]] \in Row
      BY <1>1 DEF TypeOK, Row, Status
    <3>2. \A e \in Event : row[e] \in Row
      BY <1>1 DEF TypeOK
    <3>3. \A e \in Event : row'[e] \in Row
      BY <1>2, <3>1, <3>2
    <3> QED
      BY <3>3 DEF Claim
  <2>2. lock' \in [Event -> Instance \cup {None}]
    BY <1>1 DEF TypeOK, Claim, Unlocked
  <2>3. pc' \in [Instance -> {"polling", "waiting", "claiming", "delivering", "confirming",
                              "retrying", "quarantining"}]
    BY <1>1 DEF TypeOK
  <2> QED
    BY <1>1, <2>1, <2>2, <2>3 DEF TypeOK
<1>4. /\ pc'[i] = "delivering"
      /\ \A j \in Instance \ {i} : pc'[j] = pc[j]
      /\ \A j \in Instance, e \in Event : Holds(j, e)' <=> Holds(j, e)
  BY <1>1 DEF TypeOK, Holds
<1>5. \A j \in Instance, e \in Event : lock[e] = j <=> pc[j] = "claiming" /\ Holds(j, e)
  BY DEF QueueInv, LockedByClaim
<1>6. ArrivalsAreRows'
  <2>1. \A n \in DOMAIN arrivals : arrivals[n] \in Event
    BY <1>1 DEF TypeOK
  <2>2. \A n \in DOMAIN arrivals : row'[arrivals[n]].status # "absent"
    BY <1>2, <2>1 DEF QueueInv, ArrivalsAreRows
  <2> QED
    BY <1>1, <2>2 DEF QueueInv, ArrivalsAreRows
<1>7. LockedByClaim'
  <2>1. ASSUME NEW j \in Instance, NEW e \in Event
        PROVE  lock'[e] = j <=> pc'[j] = "claiming" /\ Holds(j, e)'
    <3>1. lock'[e] = IF lock[e] = i THEN None ELSE lock[e]
      BY <1>2
    <3> QED
      BY <1>4, <1>5, <3>1
  <2>2. \A e \in Event :
          lock'[e] # None => row'[e].status \in {"pending", "failed", "processing"}
    BY <1>2 DEF QueueInv, LockedByClaim
  <2> QED
    BY <2>1, <2>2 DEF LockedByClaim
<1>8. BatchesAreHeld' /\ SentIsConfirmed'
  BY <1>1, <1>4 DEF QueueInv, BatchesAreHeld, SentIsConfirmed, Current
<1>9. ExclusiveUnlessLate'
  BY <1>1, <1>4 DEF QueueInv, ExclusiveUnlessLate
<1>10. ClaimsAreFresh'
  <2> SUFFICES ASSUME ~late, NEW j \in Instance
               PROVE  /\ batch[j] # <<>> => held[j] <= ProcessingTimeout
                      /\ \A e \in Event : Holds(j, e)' /\ pc'[j] # "claiming" =>
                           row'[e].status = "processing" /\ row'[e].age = held[j]
    BY <1>1 DEF ClaimsAreFresh
  <2>1. batch[j] # <<>> => held[j] <= ProcessingTimeout
    BY DEF QueueInv, ClaimsAreFresh
  <2>2. ASSUME NEW e \in Event, Holds(j, e), pc'[j] # "claiming"
        PROVE  row'[e].status = "processing" /\ row'[e].age = held[j]
    <3>1. CASE j = i
      <4>1. lock[e] = i
        BY <1>1, <1>5, <2>2, <3>1
      <4> QED
        BY <1>2, <3>1, <4>1
    <3>2. CASE j # i
      <4>1. ~Holds(i, e)
        BY <2>2, <3>2 DEF QueueInv, ExclusiveUnlessLate
      <4>2. row'[e] = row[e] /\ pc[j] # "claiming"
        BY <1>2, <1>4, <1>5, <2>2, <3>2, <4>1
      <4> QED
        BY <2>2, <4>2 DEF QueueInv, ClaimsAreFresh
    <3> QED
      BY <3>1, <3>2
  <2> QED
    BY <1>4, <2>1, <2>2
<1>11. StatusIsEarned'
  BY <1>1, <1>2 DEF QueueInv, StatusIsEarned
<1> QED
  BY <1>3, <1>6, <1>7, <1>8, <1>9, <1>10, <1>11 DEF QueueInv

\* Validation and broadcast change the table not at all.
LEMMA DeliveryKeepsInv ==
  ASSUME QueueInv, NEW i \in Instance,
         Validate(i) \/ Broadcast(i) \/ BroadcastRaises(i)
  PROVE  QueueInv'
<1> USE QueueAssumption
<1>1. PICK q \in {"confirming", "retrying", "quarantining"} :
        /\ pc[i] = "delivering" /\ pc' = [pc EXCEPT ![i] = q]
        /\ q = "confirming" => Current(i).event \in sent'
  BY DEF Validate, Broadcast, BroadcastRaises
<1>2. /\ TypeOK /\ Current(i).event \in Event
      /\ UNCHANGED <<row, arrivals, deadLetters, lock, batch, held, late>>
      /\ sent \subseteq sent'
  BY <1>1, CurrentIsQueued
  DEF QueueInv, Validate, Broadcast, BroadcastRaises, tables, history
<1>3. sent' \subseteq Event /\ failures' \in [Event -> Nat] /\ faults' \in 0..MaxFaults
  <2>1. CASE Validate(i) \/ Broadcast(i)
    BY <1>2, <2>1 DEF TypeOK, Validate, Broadcast, history
  <2>2. CASE BroadcastRaises(i)
    <3>1. failures[Current(i).event] + 1 \in Nat /\ faults + 1 \in 0..MaxFaults
      BY <1>2, <2>2 DEF TypeOK, BroadcastRaises
    <3> QED
      BY <1>2, <2>2, <3>1 DEF TypeOK, BroadcastRaises
  <2> QED
    BY <2>1, <2>2
<1>4. pc' \in [Instance -> {"polling", "waiting", "claiming", "delivering", "confirming",
                            "retrying", "quarantining"}]
  BY <1>1, <1>2 DEF TypeOK
<1>5. TypeOK'
  BY <1>2, <1>3, <1>4 DEF TypeOK
<1>6. /\ pc'[i] = q
      /\ \A j \in Instance \ {i} : pc'[j] = pc[j]
      /\ \A j \in Instance, e \in Event : Holds(j, e)' <=> Holds(j, e)
      /\ \A j \in Instance : pc'[j] = "claiming" <=> pc[j] = "claiming"
      /\ \A j \in Instance :
           pc'[j] \in {"polling", "waiting"} <=> pc[j] \in {"polling", "waiting"}
      /\ \A j \in Instance : Current(j)' = Current(j)
  BY <1>1, <1>2 DEF TypeOK, Holds, Current
<1>7. ArrivalsAreRows' /\ StatusIsEarned'
  BY <1>2 DEF QueueInv, ArrivalsAreRows, StatusIsEarned
<1>8. LockedByClaim' /\ BatchesAreHeld'
  BY <1>2, <1>6 DEF QueueInv, LockedByClaim, BatchesAreHeld
<1>9. SentIsConfirmed'
  BY <1>1, <1>2, <1>6 DEF QueueInv, SentIsConfirmed
<1>10. ClaimsAreFresh' /\ ExclusiveUnlessLate'
  BY <1>2, <1>6 DEF QueueInv, ClaimsAreFresh, ExclusiveUnlessLate
<1> QED
  BY <1>5, <1>7, <1>8, <1>9, <1>10 DEF QueueInv

\* What the three marks write.
LEMMA MarkedRow ==
  ASSUME TypeOK, NEW i \in Instance, Current(i).event \in Event,
         MarkDelivered(i) \/ MarkFailed(i) \/ MarkDeadLetter(i)
  PROVE  /\ row' \in [Event -> Row]
         /\ \A f \in Event \ {Current(i).event} : row'[f] = row[f]
         /\ row'[Current(i).event].status \in {"delivered", "failed", "dead_letter"}
         /\ row'[Current(i).event].status = "dead_letter" =>
              Current(i).event \in deadLetters'
         /\ row'[Current(i).event].status = "delivered" => pc[i] = "confirming"
<1> USE QueueAssumption
<1> DEFINE c == Current(i).event
           Marked(s) == [row[c] EXCEPT !.status = s, !.age = 0]
           Retried(w) == [row[c] EXCEPT !.status = "failed", !.age = 0,
                                        !.delay = Sooner(RetryDelay - w)]
<1>1. row \in [Event -> Row] /\ c \in Event /\ row[c] \in Row
  BY DEF TypeOK
<1>2. /\ \A s \in Status : Marked(s) \in Row /\ Marked(s).status = s
      /\ \A w \in Nat : Retried(w) \in Row /\ Retried(w).status = "failed"
  <2>1. "failed" \in Status /\ 0 \in 0..Oldest
    BY DEF Status, Oldest
  <2>2. \A w \in Nat : Sooner(RetryDelay - w) \in -MaxWait..RetryDelay
    BY DEF Sooner
  <2> QED
    BY <1>1, <2>1, <2>2 DEF Row
<1>3. /\ MarkDelivered(i) => row' = [row EXCEPT ![c] = Marked("delivered")]
      /\ MarkDeadLetter(i) => row' = [row EXCEPT ![c] = Marked("dead_letter")]
      /\ MarkFailed(i) => \E w \in 0..held[i] : row' = [row EXCEPT ![c] = Retried(w)]
  BY <1>1 DEF MarkDelivered, MarkDeadLetter, MarkFailed, Row
<1> HIDE DEF c, Marked, Retried
<1>4. CASE MarkDelivered(i)
  <2>1. row' = [row EXCEPT ![c] = Marked("delivered")] /\ "delivered" \in Status
    BY <1>3, <1>4 DEF Status
  <2>2. /\ row' \in [Event -> Row] /\ row'[c].status = "delivered"
        /\ \A f \in Event \ {c} : row'[f] = row[f]
    BY <1>1, <1>2, <2>1
  <2> QED
    BY <1>4, <2>2 DEF MarkDelivered, c
<1>5. CASE MarkDeadLetter(i)
  <2>1. row' = [row EXCEPT ![c] = Marked("dead_letter")] /\ "dead_letter" \in Status
    BY <1>3, <1>5 DEF Status
  <2>2. /\ row' \in [Event -> Row] /\ row'[c].status = "dead_letter"
        /\ \A f \in Event \ {c} : row'[f] = row[f]
    BY <1>1, <1>2, <2>1
  <2> QED
    BY <1>5, <2>2 DEF MarkDeadLetter, c
<1>6. CASE MarkFailed(i)
  <2>0. PICK w \in 0..held[i] : row' = [row EXCEPT ![c] = Retried(w)]
    BY <1>3, <1>6
  <2>1. /\ row' \in [Event -> Row] /\ row'[c].status = "failed"
        /\ \A f \in Event \ {c} : row'[f] = row[f]
    BY <1>1, <1>2, <2>0
  <2> QED
    BY <2>1 DEF c
<1> QED
  BY <1>4, <1>5, <1>6

LEMMA MarksKeepInv ==
  ASSUME QueueInv, NEW i \in Instance,
         MarkDelivered(i) \/ MarkFailed(i) \/ MarkDeadLetter(i)
  PROVE  QueueInv'
<1> USE QueueAssumption
<1> DEFINE c == Current(i).event
<1>1. /\ pc[i] \in {"confirming", "retrying", "quarantining"}
      /\ lock[c] = None /\ Proceed(i)
  BY DEF MarkDelivered, MarkFailed, MarkDeadLetter
<1>2. TypeOK /\ c \in Event
  BY <1>1, CurrentIsQueued DEF QueueInv
<1>3. /\ row' \in [Event -> Row]
      /\ \A f \in Event \ {c} : row'[f] = row[f]
      /\ row'[c].status \in {"delivered", "failed", "dead_letter"}
      /\ row'[c].status = "dead_letter" => c \in deadLetters'
      /\ row'[c].status = "delivered" => pc[i] = "confirming"
  BY <1>2, MarkedRow
<1>4. deadLetters \subseteq deadLetters' /\ deadLetters' \subseteq Event
  BY <1>2 DEF MarkDelivered, MarkFailed, MarkDeadLetter, TypeOK
<1>5. UNCHANGED <<arrivals, lock, held, faults, sent, failures, late>>
  BY <1>1 DEF Proceed, history
<1>6. TypeOK'
  <2>1. batch' \in [Instance -> Seq(Queued)] /\ pc' \in [Instance -> Phase]
    BY <1>1, ProceedShrinks
  <2> QED
    BY <1>2, <1>3, <1>4, <1>5, <2>1 DEF TypeOK, Phase
<1>7. /\ ArrivalsAreRows' /\ LockedByClaim' /\ BatchesAreHeld'
      /\ SentIsConfirmed' /\ ClaimsAreFresh' /\ ExclusiveUnlessLate'
  BY <1>1, <1>3, MarkFinishes
<1>8. StatusIsEarned'
  BY <1>3, <1>4, <1>5 DEF QueueInv, StatusIsEarned, SentIsConfirmed
<1> QED
  BY <1>6, <1>7, <1>8 DEF QueueInv

LEMMA AbandonKeepsInv ==
  ASSUME QueueInv, NEW i \in Instance, Abandon(i)
  PROVE  QueueInv'
<1> USE QueueAssumption
<1>1. /\ TypeOK
      /\ UNCHANGED <<row, arrivals, deadLetters, held, sent, failures, late>>
      /\ faults' \in 0..MaxFaults
  BY DEF QueueInv, TypeOK, Abandon, history
<1>2. /\ pc'[i] = "polling" /\ batch'[i] = <<>>
      /\ \A j \in Instance \ {i} : pc'[j] = pc[j] /\ batch'[j] = batch[j]
      /\ \A e \in Event : lock'[e] = IF lock[e] = i THEN None ELSE lock[e]
  BY <1>1 DEF TypeOK, Abandon, Unlocked
<1>3. TypeOK'
  <2>1. batch' \in [Instance -> Seq(Queued)]
    BY <1>1 DEF TypeOK, Abandon
  <2>2. lock' \in [Event -> Instance \cup {None}]
    BY <1>1 DEF TypeOK, Abandon, Unlocked
  <2>3. pc' \in [Instance -> {"polling", "waiting", "claiming", "delivering", "confirming",
                              "retrying", "quarantining"}]
    BY <1>1 DEF TypeOK, Abandon
  <2> QED
    BY <1>1, <2>1, <2>2, <2>3 DEF TypeOK
<1>4. /\ \A e \in Event : ~Holds(i, e)'
      /\ \A j \in Instance \ {i}, e \in Event : Holds(j, e)' <=> Holds(j, e)
  BY <1>2 DEF Holds
<1>5. ArrivalsAreRows' /\ StatusIsEarned'
  BY <1>1 DEF QueueInv, ArrivalsAreRows, StatusIsEarned
<1>6. LockedByClaim'
  <2>1. \A j \in Instance, e \in Event :
          lock'[e] = j <=> pc'[j] = "claiming" /\ Holds(j, e)'
    BY <1>2, <1>4 DEF QueueInv, LockedByClaim
  <2>2. \A e \in Event :
          lock'[e] # None => row'[e].status \in {"pending", "failed", "processing"}
    BY <1>1, <1>2 DEF QueueInv, LockedByClaim
  <2> QED
    BY <2>1, <2>2 DEF LockedByClaim
<1>7. BatchesAreHeld' /\ SentIsConfirmed'
  BY <1>1, <1>2 DEF QueueInv, BatchesAreHeld, SentIsConfirmed, Current
<1>8. ClaimsAreFresh' /\ ExclusiveUnlessLate'
  BY <1>1, <1>2, <1>4 DEF QueueInv, ClaimsAreFresh, ExclusiveUnlessLate
<1> QED
  BY <1>3, <1>5, <1>6, <1>7, <1>8 DEF QueueInv

LEMMA TickKeepsInv ==
  ASSUME QueueInv, Tick
  PROVE  QueueInv'
<1> USE QueueAssumption
<1>1. /\ TypeOK
      /\ UNCHANGED <<arrivals, deadLetters, lock, pc, batch, faults, sent, failures>>
  BY DEF QueueInv, Tick
<1>2. \A t \in 0..Oldest : Older(t) \in 0..Oldest
  BY DEF Older, Oldest
<1>3. \A e \in Event :
        /\ row'[e] \in Row
        /\ row'[e].status = row[e].status
        /\ row[e].status = "processing" => row'[e].age = Older(row[e].age)
  <2> SUFFICES ASSUME NEW e \in Event
               PROVE  /\ row'[e] \in Row
                      /\ row'[e].status = row[e].status
                      /\ row[e].status = "processing" =>
                           row'[e].age = Older(row[e].age)
    OBVIOUS
  <2> DEFINE r == row[e]
             d == Sooner(r.delay - 1)
             a == IF r.status = "processing" THEN Older(r.age) ELSE r.age
  <2>1. /\ r \in Row /\ d \in -MaxWait..RetryDelay /\ a \in 0..Oldest
    BY <1>1, <1>2 DEF TypeOK, Row, Sooner
  <2>2. row'[e] = [r EXCEPT !.delay = d, !.age = a]
    BY <2>1 DEF Tick, Row
  <2>3. /\ [r EXCEPT !.delay = d, !.age = a] \in Row
        /\ [r EXCEPT !.delay = d, !.age = a].status = r.status
        /\ [r EXCEPT !.delay = d, !.age = a].age = a
    <3> HIDE DEF d, a
    <3> QED
      BY <2>1 DEF Row
  <2> QED
    BY <2>2, <2>3
<1>4. TypeOK'
  <2>1. row' \in [Event -> Row]
    <3>1. row' = [e \in Event |-> row'[e]]
      BY DEF Tick
    <3> QED
      BY <1>3, <3>1
  <2>2. held' \in [Instance -> 0..Oldest]
    <3>1. \A j \in Instance : held'[j] = IF pc[j] = "polling" THEN 0 ELSE Older(held[j])
      BY DEF Tick
    <3>2. \A j \in Instance : held[j] \in 0..Oldest
      BY <1>1 DEF TypeOK
    <3>3. \A j \in Instance : held'[j] \in 0..Oldest
      BY <1>2, <3>1, <3>2 DEF Oldest
    <3>4. held' = [j \in Instance |-> held'[j]]
      BY DEF Tick
    <3> QED
      BY <3>3, <3>4
  <2>3. late' \in BOOLEAN
    BY <1>1 DEF TypeOK, Tick
  <2> QED
    BY <1>1, <2>1, <2>2, <2>3 DEF TypeOK
<1>5. /\ \A j \in Instance, e \in Event : Holds(j, e)' <=> Holds(j, e)
      /\ \A j \in Instance : Current(j)' = Current(j)
  BY <1>1 DEF Holds, Current
<1>6. ArrivalsAreRows'
  <2>1. \A n \in DOMAIN arrivals : arrivals[n] \in Event
    BY <1>1 DEF TypeOK
  <2> QED
    BY <1>1, <1>3, <2>1 DEF QueueInv, ArrivalsAreRows
<1>7. LockedByClaim'
  BY <1>1, <1>3, <1>5 DEF QueueInv, LockedByClaim
<1>8. BatchesAreHeld' /\ SentIsConfirmed'
  BY <1>1, <1>5 DEF QueueInv, BatchesAreHeld, SentIsConfirmed
<1>9. StatusIsEarned'
  BY <1>1, <1>3 DEF QueueInv, StatusIsEarned
<1>10. ~late' => /\ ~late
                 /\ \A j \in Instance : ~(batch[j] # <<>> /\ held'[j] > ProcessingTimeout)
  BY DEF Tick
<1>11. ExclusiveUnlessLate'
  BY <1>5, <1>10 DEF QueueInv, ExclusiveUnlessLate
<1>12. ClaimsAreFresh'
  <2> SUFFICES ASSUME ~late', NEW j \in Instance
               PROVE  /\ batch[j] # <<>> => held'[j] <= ProcessingTimeout
                      /\ \A e \in Event : Holds(j, e)' /\ pc'[j] # "claiming" =>
                           row'[e].status = "processing" /\ row'[e].age = held'[j]
    BY <1>1 DEF ClaimsAreFresh
  <2>1. batch[j] # <<>> => held'[j] <= ProcessingTimeout
    <3>1. held'[j] \in Nat
      BY <1>4 DEF TypeOK
    <3> QED
      BY <1>10, <3>1
  <2>2. ASSUME NEW e \in Event, Holds(j, e)', pc'[j] # "claiming"
        PROVE  row'[e].status = "processing" /\ row'[e].age = held'[j]
    <3>1. row[e].status = "processing" /\ row[e].age = held[j]
      BY <1>1, <1>5, <1>10, <2>2 DEF QueueInv, ClaimsAreFresh
    <3>2. pc[j] # "polling"
      BY <1>5, <2>2, HolderIsClaiming
    <3>3. held'[j] = Older(held[j])
      BY <3>2 DEF Tick
    <3> QED
      BY <1>3, <3>1, <3>3
  <2> QED
    BY <2>1, <2>2
<1> QED
  BY <1>4, <1>6, <1>7, <1>8, <1>9, <1>11, <1>12 DEF QueueInv

LEMMA StutterKeepsInv ==
  ASSUME QueueInv, UNCHANGED vars
  PROVE  QueueInv'
BY DEF QueueInv, TypeOK, ArrivalsAreRows, LockedByClaim, BatchesAreHeld,
       SentIsConfirmed, ClaimsAreFresh, ExclusiveUnlessLate, StatusIsEarned,
       Holds, Current, vars, tables, history

LEMMA NextKeepsInv ==
  ASSUME QueueInv, [Next]_vars
  PROVE  QueueInv'
<1>1. CASE \E e \in Event : Enqueue(e)
  BY <1>1, EnqueueKeepsInv
<1>2. ASSUME NEW i \in Instance, Dispatch(i) \/ BroadcastRaises(i) \/ Abandon(i)
      PROVE  QueueInv'
  <2>0. CASE Poll(i)
    BY <2>0, PollKeepsInv
  <2>1. CASE Select(i)
    BY <2>1, SelectKeepsInv
  <2>2. CASE Claim(i)
    BY <2>2, ClaimKeepsInv
  <2>3. CASE Validate(i) \/ Broadcast(i) \/ BroadcastRaises(i)
    BY <2>3, DeliveryKeepsInv
  <2>4. CASE MarkDelivered(i) \/ MarkFailed(i) \/ MarkDeadLetter(i)
    BY <2>4, MarksKeepInv
  <2>5. CASE Abandon(i)
    BY <2>5, AbandonKeepsInv
  <2> QED
    BY <1>2, <2>0, <2>1, <2>2, <2>3, <2>4, <2>5 DEF Dispatch
<1>3. CASE Tick
  BY <1>3, TickKeepsInv
<1>4. CASE UNCHANGED vars
  BY <1>4, StutterKeepsInv
<1> QED
  BY <1>1, <1>2, <1>3, <1>4 DEF Next

-----------------------------------------------------------------------------
(* The theorems.                                                           *)

\* The inductive invariant holds of every run of the dispatch loops.
THEOREM QueueInvariant == Spec => []QueueInv
<1>1. Init => QueueInv
  BY InitQueueInv
<1>2. QueueInv /\ [Next]_vars => QueueInv'
  BY NextKeepsInv
<1> QED
  BY <1>1, <1>2, PTL DEF Spec

\* Every variable of the queue keeps its type: no batch is read past its end and
\* no row leaves the columns' values.
THEOREM QueueTypeCorrect == Spec => []TypeOK
<1>1. QueueInv => TypeOK
  BY DEF QueueInv
<1> QED
  BY <1>1, QueueInvariant, PTL

\* However many instances dispatch from one table, two of them hold an event only
\* after one of them held a batch later than the processing timeout after the
\* clock reading of its claim.  A long wait for a connection is enough for that.
THEOREM DispatchIsExclusive == Spec => []ExclusiveUnlessLate
<1>1. QueueInv => ExclusiveUnlessLate
  BY DEF QueueInv
<1> QED
  BY <1>1, QueueInvariant, PTL

\* A delivered row was broadcast and a quarantined one has its dead letter, late
\* marks included.
THEOREM StatusesAreEarned == Spec => []StatusIsEarned
<1>1. QueueInv => StatusIsEarned
  BY DEF QueueInv
<1> QED
  BY <1>1, QueueInvariant, PTL

\* While no instance is late the outcome of every event is final, though the
\* marks test neither the status nor the claim.
THEOREM OutcomesAreFinal == Spec => OutcomeIsFinalUnlessLate
<1>1. ASSUME QueueInv, [Next]_vars, NEW e \in Event, ~late,
             row[e].status \in {"delivered", "dead_letter"}
      PROVE  row'[e].status = row[e].status
  <2> USE QueueAssumption
  <2>0. TypeOK /\ lock[e] \in Instance \cup {None} /\ lock[e] = None
    BY <1>1 DEF QueueInv, TypeOK, LockedByClaim
  <2>1. CASE \E f \in Event : Enqueue(f)
    BY <1>1, <2>0, <2>1 DEF Enqueue, TypeOK
  <2>2. ASSUME NEW i \in Instance, Claim(i)
        PROVE  row'[e].status = row[e].status
    BY <2>0, <2>2 DEF Claim
  <2>3. ASSUME NEW i \in Instance,
               MarkDelivered(i) \/ MarkFailed(i) \/ MarkDeadLetter(i)
        PROVE  row'[e].status = row[e].status
    <3>1. pc[i] \in {"confirming", "retrying", "quarantining"}
      BY <2>3 DEF MarkDelivered, MarkFailed, MarkDeadLetter
    <3>2. Current(i).event \in Event /\ row[Current(i).event].status = "processing"
      BY <1>1, <3>1, CurrentIsQueued DEF QueueInv, ClaimsAreFresh
    <3>3. e # Current(i).event
      BY <1>1, <3>2
    <3> QED
      BY <2>0, <2>3, <3>2, <3>3, MarkedRow
  <2>5. CASE Tick
    <3>1. row[e] \in Row
      BY <2>0 DEF TypeOK
    <3> QED
      BY <2>5, <3>1 DEF Tick, Row
  <2>6. CASE UNCHANGED vars
    BY <2>6 DEF vars, tables
  <2>7. ASSUME NEW i \in Instance,
               Dispatch(i) \/ BroadcastRaises(i) \/ Abandon(i)
        PROVE  row'[e].status = row[e].status
    <3>1. CASE Poll(i) \/ Select(i)
      BY <3>1 DEF Poll, Select, tables
    <3>2. CASE Validate(i) \/ Broadcast(i) \/ BroadcastRaises(i) \/ Abandon(i)
      BY <3>2 DEF Validate, Broadcast, BroadcastRaises, Abandon, tables
    <3> QED
      BY <2>2, <2>3, <2>7, <3>1, <3>2 DEF Dispatch
  <2> QED
    BY <1>1, <2>1, <2>5, <2>6, <2>7 DEF Next
<1>2. QueueInv /\ [Next]_vars =>
        [\A e \in Event : ~late /\ row[e].status \in {"delivered", "dead_letter"} =>
           row'[e].status = row[e].status]_vars
  BY <1>1
<1> QED
  BY <1>2, QueueInvariant, PTL DEF Spec, OutcomeIsFinalUnlessLate

=============================================================================
