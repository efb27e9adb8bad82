---------------------------- MODULE LaneRotation ----------------------------
(***************************************************************************)
(* Which lanes acquire_heads examines, and when every lane gets its turn:  *)
(* the ORDER BY last_examined_at, id FOR UPDATE SKIP LOCKED LIMIT of       *)
(* src/updatis/delivery/repository.py and the default that migration 0005  *)
(* gives the column.  LaneLeases abstracts this order away.                *)
(*                                                                         *)
(* `order' compares the values of the column, as a set of pairs of         *)
(* entries.  A lane that is being examined has two entries, the committed  *)
(* one and the stamp its transaction has written; a lane that is being     *)
(* registered has a stamp alone, taken at its INSERT.  Nobody else sees a  *)
(* stamp before its transaction commits.  The transactions of              *)
(* materialize_delivery and renew_claim lock one lane each.  Of a lane     *)
(* only its lease and the existence of an eligible head are kept: a head   *)
(* behind a discontinuity or at the maximum generation is no eligible head.*)
(***************************************************************************)
EXTENDS Naturals, Sequences, FiniteSets

CONSTANTS
  Worker, Lane, None,
  Insertion,             \* a transaction of materialize_delivery
  Renewal,               \* a transaction of renew_claim
  Limit, CandidateLimit,
  MaxFaults              \* bound: transactions of acquire_heads rolled back

ASSUME RotationAssumption ==
  /\ None \notin Worker
  /\ Insertion \notin Worker \cup {None}
  /\ Renewal \notin Worker \cup {None, Insertion}
  /\ Limit \in Nat \ {0}
  /\ CandidateLimit \in Nat
  /\ Limit <= CandidateLimit
  /\ MaxFaults \in Nat

VARIABLES
  order,    \* last_examined_at: <<e, f>> if e is no later than f
  lock,     \* transaction holding the row of delivery_lanes
  open,     \* workers with a transaction
  page,     \* selected lanes of a transaction, still to be examined
  claims,   \* lanes whose head the transaction has leased
  leased,   \* lanes with a live lease
  heads,    \* lanes with an eligible head
  faults

vars == <<order, lock, open, page, claims, leased, heads, faults>>

\* The value another transaction sees, or one that `by' has yet to commit.
Entry == [lane : Lane, by : Worker \cup {Insertion, None}]

Committed(l) == [lane |-> l, by |-> None]
Stamp(w, l) == [lane |-> l, by |-> w]

Written(e) == <<e, e>> \in order
Entries == {e \in Entry : Written(e)}

Registered(l) == Written(Committed(l))

\* The order once e has the current time.
Latest(e) == order \cup {<<f, e>> : f \in Entries \cup {e}}

Init ==
  /\ order = {}
  /\ lock = [l \in Lane |-> None]
  /\ open = {}
  /\ page = [w \in Worker |-> <<>>]
  /\ claims = [w \in Worker |-> {}]
  /\ leased = {}
  /\ heads = {}
  /\ faults = 0

\* What an entry is once the stamps in `done' are committed.
Kept(done, e) == IF e \in done THEN Committed(e.lane) ELSE e

Among(S) == {p \in order : p[1] \in S /\ p[2] \in S}

\* The order once they are: a stamp replaces the value it was written over.
Settled(done) ==
  LET over == {Committed(s.lane) : s \in done} IN
  {<<Kept(done, p[1]), Kept(done, p[2])>> : p \in Among(Entries \ over)}

\* Mutant: the trigger stamps a lane that is there already, too.
MaterializeRestamping(l) ==
  /\ lock[l] = None
  /\ lock' = [lock EXCEPT ![l] = Insertion]
  /\ order' = Latest(Stamp(Insertion, l))
  /\ UNCHANGED <<open, page, claims, leased, heads, faults>>

\* A delivery is inserted: its trigger locks the lane, which the first one
\* registers, examined now.
Materialize(l) ==
  /\ lock[l] = None
  /\ lock' = [lock EXCEPT ![l] = Insertion]
  /\ order' = IF Registered(l) THEN order ELSE Latest(Stamp(Insertion, l))
  /\ UNCHANGED <<open, page, claims, leased, heads, faults>>

\* The insertion commits: the delivery is there, perhaps as an eligible head,
\* and the new lane with the time it was stamped at.
CommitMaterialize(l) ==
  /\ lock[l] = Insertion
  /\ lock' = [lock EXCEPT ![l] = None]
  /\ order' = Settled(Entries \cap {Stamp(Insertion, l)})
  /\ heads' \in {heads, heads \cup {l}}
  /\ UNCHANGED <<open, page, claims, leased, faults>>

\* The insertion fails, and a new lane with it.
RollbackMaterialize(l) ==
  /\ lock[l] = Insertion
  /\ lock' = [lock EXCEPT ![l] = None]
  /\ order' = Among(Entries \ {Stamp(Insertion, l)})
  /\ UNCHANGED <<open, page, claims, leased, heads, faults>>

\* renew_claim locks the lane of a delivery, before it looks at the claim: a
\* stale one locks it as well.
RenewLock(l) ==
  /\ Registered(l)
  /\ lock[l] = None
  /\ lock' = [lock EXCEPT ![l] = Renewal]
  /\ UNCHANGED <<order, open, page, claims, leased, heads, faults>>

\* The renewal ends.  A lease it extends is not ended yet (EndLease).
RenewUnlock(l) ==
  /\ lock[l] = Renewal
  /\ lock' = [lock EXCEPT ![l] = None]
  /\ UNCHANGED <<order, open, page, claims, leased, heads, faults>>

\* The lanes the candidate query walks over.
Free == {l \in Lane : Registered(l) /\ lock[l] = None}

\* ORDER BY last_examined_at: l has its turn before m.
Precedes(l, m) == l # m /\ <<Committed(l), Committed(m)>> \in order

\* A page of free lanes in that order; only a full one leaves some out, and
\* those come after all of its own.
IsPage(lanes) ==
  /\ \A i, j \in DOMAIN lanes : i < j => Precedes(lanes[i], lanes[j])
  /\ \A l \in Free :
       \/ \E i \in DOMAIN lanes : lanes[i] = l
       \/ Len(lanes) = CandidateLimit /\ Precedes(lanes[CandidateLimit], l)

\* Select and lock a page.
Begin(w) ==
  /\ w \notin open
  /\ open' = open \cup {w}
  /\ \E size \in 1..CandidateLimit : \E lanes \in [1..size -> Free] :
       /\ IsPage(lanes)
       /\ page' = [page EXCEPT ![w] = lanes]
       /\ lock' = [l \in Lane |->
                     IF \E i \in 1..size : lanes[i] = l THEN w ELSE lock[l]]
  /\ UNCHANGED <<order, claims, leased, heads, faults>>

\* Mutant: only a lane whose head is leased is stamped.
ExamineStampingLeased(w) ==
  LET l == Head(page[w])
      taken == l \notin leased /\ l \in heads /\ Cardinality(claims[w]) < Limit
  IN
  /\ page[w] # <<>>
  /\ order' = IF taken THEN Latest(Stamp(w, l)) ELSE order
  /\ claims' = IF taken THEN [claims EXCEPT ![w] = @ \cup {l}] ELSE claims
  /\ page' = [page EXCEPT ![w] = Tail(@)]
  /\ UNCHANGED <<lock, open, leased, heads, faults>>

\* Stamp the next lane of the page and lease its head, if it may be leased and
\* the claim limit is not reached.
Examine(w) ==
  LET l == Head(page[w])
      taken == l \notin leased /\ l \in heads /\ Cardinality(claims[w]) < Limit
  IN
  /\ page[w] # <<>>
  /\ order' = Latest(Stamp(w, l))
  /\ claims' = IF taken THEN [claims EXCEPT ![w] = @ \cup {l}] ELSE claims
  /\ page' = [page EXCEPT ![w] = Tail(@)]
  /\ UNCHANGED <<lock, open, leased, heads, faults>>

Unlocked(w) == [l \in Lane |-> IF lock[l] = w THEN None ELSE lock[l]]

\* The uncommitted values of w.
Stamps(w) == {e \in Entries : e.by = w}

Commit(w) ==
  /\ w \in open
  /\ page[w] = <<>>
  /\ order' = Settled(Stamps(w))
  /\ leased' = leased \cup claims[w]
  /\ lock' = Unlocked(w)
  /\ open' = open \ {w}
  /\ claims' = [claims EXCEPT ![w] = {}]
  /\ UNCHANGED <<page, heads, faults>>

\* Mutant: the stamps survive the rollback of what they were written with.
RollbackKeepingStamps(w) ==
  /\ faults < MaxFaults
  /\ w \in open
  /\ order' = Settled(Stamps(w))
  /\ lock' = Unlocked(w)
  /\ open' = open \ {w}
  /\ page' = [page EXCEPT ![w] = <<>>]
  /\ claims' = [claims EXCEPT ![w] = {}]
  /\ faults' = faults + 1
  /\ UNCHANGED <<leased, heads>>

\* A storage exception: neither the leases nor the stamps happened.
Rollback(w) ==
  /\ faults < MaxFaults
  /\ w \in open
  /\ order' = Among(Entries \ Stamps(w))
  /\ lock' = Unlocked(w)
  /\ open' = open \ {w}
  /\ page' = [page EXCEPT ![w] = <<>>]
  /\ claims' = [claims EXCEPT ![w] = {}]
  /\ faults' = faults + 1
  /\ UNCHANGED <<leased, heads>>

\* External: the last unresolved delivery of the lane is resolved.
Resolve(l) ==
  /\ l \in leased \cap heads
  /\ heads' = heads \ {l}
  /\ UNCHANGED <<order, lock, open, page, claims, leased, faults>>

\* The lease is completed or expires.
EndLease(l) ==
  /\ l \in leased
  /\ leased' = leased \ {l}
  /\ UNCHANGED <<order, lock, open, page, claims, heads, faults>>

\* The next statement of a call of acquire_heads.
Acquire(w) == Begin(w) \/ Examine(w) \/ Commit(w)

\* The transaction of an insertion or a renewal ends.
Release(l) == CommitMaterialize(l) \/ RollbackMaterialize(l) \/ RenewUnlock(l)

Next ==
  \/ \E l \in Lane :
       \/ Materialize(l) \/ RenewLock(l) \/ Release(l)
       \/ Resolve(l) \/ EndLease(l)
  \/ \E w \in Worker : Acquire(w) \/ Rollback(w)

Spec == Init /\ [][Next]_vars

\* Callers keep calling, a transaction goes on until it ends (transaction_timeout)
\* and a lease is not renewed for ever.  No delivery need ever arrive or be
\* resolved, and nothing keeps insertions and renewals from locking a lane again
\* and again.
FairSpec ==
  /\ Spec
  /\ \A w \in Worker : WF_vars(Acquire(w))
  /\ \A l \in Lane : WF_vars(Release(l)) /\ WF_vars(EndLease(l))

-----------------------------------------------------------------------------
(* Properties.                                                             *)

\* Every variable keeps its type; the values of the column are totally ordered,
\* and a lane is stamped only by the transaction that holds its row: by an
\* insertion before it has a committed value, by an examination after that one.
TypeOK ==
  /\ order \subseteq Entries \X Entries
  /\ lock \in [Lane -> Worker \cup {Insertion, Renewal, None}]
  /\ open \subseteq Worker
  /\ page \in [Worker -> Seq(Lane)]
  /\ claims \in [Worker -> SUBSET Lane]
  /\ leased \subseteq Lane
  /\ heads \subseteq Lane
  /\ faults \in 0..MaxFaults
  /\ \A e, f, g \in Entries :
       /\ <<e, f>> \in order \/ <<f, e>> \in order
       /\ <<e, f>> \in order /\ <<f, e>> \in order => e = f
       /\ <<e, f>> \in order /\ <<f, g>> \in order => <<e, g>> \in order
  /\ \A e \in Entries :
       /\ e.by \in {None, lock[e.lane]}
       /\ IF e.by = Insertion THEN ~Registered(e.lane)
                              ELSE <<Committed(e.lane), e>> \in order

\* The lanes whose turn comes before that of l, also those whose registration is
\* not committed yet.
Turn(l) ==
  {m \in Lane \ {l} :
     \E e \in {Committed(m), Stamp(Insertion, m)} : <<e, Committed(l)>> \in order}

\* A lane falls behind another one, registered or still being inserted, only when
\* its own examination commits: neither an insertion after it nor a rolled back
\* acquisition costs it its turn, nor does one that only skips it because it is
\* locked (the default of migration 0005, and stamps that commit together with
\* the leases).
TurnIsLostOnlyByCommit ==
  [][\A l \in Lane : Registered(l) /\ ~(Turn(l)' \subseteq Turn(l)) =>
       \E w \in Worker : lock[l] = w /\ w \notin open' /\ page[w] = <<>>]_vars

\* Every registered lane is examined again and again, or others lock it again and
\* again: neither the leases, nor a claim limit below the page, nor the pages and
\* locks of other lanes keep it from its turn (the rotation by last_examined_at).
EveryLaneIsExamined ==
  \A l \in Lane : []<>(~Registered(l) \/ lock[l] # None)

\* A call that examines l has leased its limit of other heads.
Skipped(l) == \E w \in Worker : lock[l] = w /\ l \notin claims[w] /\ Cardinality(claims[w]) = Limit

\* Every eligible head is leased in its turn, unless insertions or renewals hold its
\* lane again and again, or the calls that examine it reach their limit before it.
EveryHeadIsLeased ==
  \A l \in Lane :
    []<>(l \in leased \/ l \notin heads \/ lock[l] \in {Insertion, Renewal} \/ Skipped(l))

=============================================================================
