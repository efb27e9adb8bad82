------------------------- MODULE LaneRotationProofs -------------------------
(***************************************************************************)
(* Proofs about LaneRotation, for any number of lanes and workers, any     *)
(* page size and any number of rolled back transactions.                   *)
(*                                                                         *)
(* Three operations change the column last_examined_at: a value is added   *)
(* at the end, stamps are taken out again, or they replace what they were  *)
(* written over.  The first part shows that each keeps a total order.      *)
(* That no lane is stamped twice or by two transactions rests on the row   *)
(* locks of the pages (PagesAreLocked).                                    *)
(***************************************************************************)
EXTENDS LaneRotation, TLAPS

Ent(R) == {e \in Entry : <<e, e>> \in R}

\* A total order of some entries.
Chain(R) ==
  /\ R \subseteq Ent(R) \X Ent(R)
  /\ \A e, f, g \in Ent(R) :
       /\ <<e, f>> \in R \/ <<f, e>> \in R
       /\ <<e, f>> \in R /\ <<f, e>> \in R => e = f
       /\ <<e, f>> \in R /\ <<f, g>> \in R => <<e, g>> \in R

\* Every stamp is its locker's: of a lane that is not registered yet, or later
\* than the value it will replace.
Anchored(R, locks) ==
  \A e \in Ent(R) :
    /\ e.by \in {None, locks[e.lane]}
    /\ IF e.by = Insertion THEN Committed(e.lane) \notin Ent(R)
                           ELSE <<Committed(e.lane), e>> \in R

\* Lane l waits in the page of w: locked, registered and not stamped yet.
Waits(R, locks, w, l) ==
  locks[l] = w /\ Committed(l) \in Ent(R) /\ Stamp(w, l) \notin Ent(R)

\* The lanes a transaction has yet to examine wait for it, and no page has a lane
\* twice.
PagesAreLocked ==
  \A w \in Worker :
    /\ \A i \in DOMAIN page[w] : Waits(order, lock, w, page[w][i])
    /\ \A i, j \in DOMAIN page[w] : page[w][i] = page[w][j] => i = j

RotationInv == TypeOK /\ PagesAreLocked

LEMMA TypeIsChain ==
  TypeOK <=> /\ Chain(order) /\ Anchored(order, lock)
             /\ lock \in [Lane -> Worker \cup {Insertion, Renewal, None}]
             /\ open \subseteq Worker
             /\ page \in [Worker -> Seq(Lane)]
             /\ claims \in [Worker -> SUBSET Lane]
             /\ leased \subseteq Lane
             /\ heads \subseteq Lane
             /\ faults \in 0..MaxFaults
<1>1. /\ Entries = Ent(order)
      /\ \A l \in Lane : Registered(l) <=> Committed(l) \in Ent(order)
      /\ \A e \in Entries : e.lane \in Lane
  BY DEF Entries, Ent, Written, Registered, Entry, Committed
<1>2. Anchored(order, lock) <=>
        \A e \in Entries :
          /\ e.by \in {None, lock[e.lane]}
          /\ IF e.by = Insertion THEN ~Registered(e.lane)
                                 ELSE <<Committed(e.lane), e>> \in order
  BY <1>1 DEF Anchored
<1> QED
  BY <1>1, <1>2 DEF TypeOK, Chain

LEMMA TypeIsChainNext ==
  TypeOK' <=> /\ Chain(order') /\ Anchored(order', lock')
              /\ lock' \in [Lane -> Worker \cup {Insertion, Renewal, None}]
              /\ open' \subseteq Worker
              /\ page' \in [Worker -> Seq(Lane)]
              /\ claims' \in [Worker -> SUBSET Lane]
              /\ leased' \subseteq Lane
              /\ heads' \subseteq Lane
              /\ faults' \in 0..MaxFaults
<1>1. /\ Entries' = Ent(order')
      /\ \A l \in Lane : Registered(l)' <=> Committed(l) \in Ent(order')
      /\ \A e \in Entries' : e.lane \in Lane
  BY DEF Entries, Ent, Written, Registered, Entry, Committed
<1>2. Anchored(order', lock') <=>
        \A e \in Entries' :
          /\ e.by \in {None, lock'[e.lane]}
          /\ IF e.by = Insertion THEN ~Registered(e.lane)'
                                 ELSE <<Committed(e.lane), e>> \in order'
  BY <1>1 DEF Anchored
<1> QED
  BY <1>1, <1>2 DEF TypeOK, Chain, Committed

-----------------------------------------------------------------------------
(* Total orders.                                                           *)

LEMMA PairsAreEntries ==
  ASSUME NEW R, Chain(R), NEW e, NEW f, <<e, f>> \in R
  PROVE  e \in Ent(R) /\ f \in Ent(R)
BY DEF Chain

\* A new entry may come last.
LEMMA ChainGrows ==
  ASSUME NEW R, Chain(R), NEW e \in Entry \ Ent(R),
         NEW Q, Q = R \cup {<<f, e>> : f \in Ent(R) \cup {e}}
  PROVE  /\ Chain(Q)
         /\ Ent(Q) = Ent(R) \cup {e}
         /\ \A f, g : <<f, g>> \in Q <=>
              <<f, g>> \in R \/ (g = e /\ f \in Ent(R) \cup {e})
<1>1. \A f, g : <<f, g>> \in Q <=> <<f, g>> \in R \/ (g = e /\ f \in Ent(R) \cup {e})
  OBVIOUS
<1>2. Ent(Q) = Ent(R) \cup {e}
  BY <1>1 DEF Ent
<1>3. Q \subseteq Ent(Q) \X Ent(Q)
  BY <1>2 DEF Chain
<1>4. \A f \in Ent(R) : <<e, f>> \notin Q
  BY <1>1, PairsAreEntries
<1>5. ASSUME NEW f \in Ent(Q), NEW g \in Ent(Q), NEW h \in Ent(Q)
      PROVE  /\ <<f, g>> \in Q \/ <<g, f>> \in Q
             /\ <<f, g>> \in Q /\ <<g, f>> \in Q => f = g
             /\ <<f, g>> \in Q /\ <<g, h>> \in Q => <<f, h>> \in Q
  <2>1. <<f, g>> \in Q \/ <<g, f>> \in Q
    BY <1>1, <1>2 DEF Chain
  <2>2. <<f, g>> \in Q /\ <<g, f>> \in Q => f = g
    BY <1>1, <1>2, <1>4 DEF Chain
  <2>3. <<f, g>> \in Q /\ <<g, h>> \in Q => <<f, h>> \in Q
    BY <1>1, <1>2, <1>4 DEF Chain
  <2> QED
    BY <2>1, <2>2, <2>3
<1> QED
  BY <1>1, <1>2, <1>3, <1>5 DEF Chain

\* Any of its entries are totally ordered.
LEMMA ChainShrinks ==
  ASSUME NEW R, Chain(R), NEW S, S \subseteq Ent(R),
         NEW Q, Q = {p \in R : p[1] \in S /\ p[2] \in S}
  PROVE  /\ Chain(Q)
         /\ Ent(Q) = S
         /\ \A e, f : <<e, f>> \in Q <=> <<e, f>> \in R /\ e \in S /\ f \in S
<1>1. \A e, f : <<e, f>> \in Q <=> <<e, f>> \in R /\ e \in S /\ f \in S
  OBVIOUS
<1>2. Ent(Q) = S
  BY <1>1 DEF Ent
<1>3. Q \subseteq S \X S
  BY DEF Chain
<1>4. ASSUME NEW e \in S, NEW f \in S, NEW g \in S
      PROVE  /\ <<e, f>> \in Q \/ <<f, e>> \in Q
             /\ <<e, f>> \in Q /\ <<f, e>> \in Q => e = f
             /\ <<e, f>> \in Q /\ <<f, g>> \in Q => <<e, g>> \in Q
  <2>1. e \in Ent(R) /\ f \in Ent(R) /\ g \in Ent(R)
    OBVIOUS
  <2> QED
    BY <1>1, <2>1 DEF Chain
<1>5. Q \subseteq Ent(Q) \X Ent(Q)
  BY <1>2, <1>3
<1>6. ASSUME NEW e \in Ent(Q), NEW f \in Ent(Q), NEW g \in Ent(Q)
      PROVE  /\ <<e, f>> \in Q \/ <<f, e>> \in Q
             /\ <<e, f>> \in Q /\ <<f, e>> \in Q => e = f
             /\ <<e, f>> \in Q /\ <<f, g>> \in Q => <<e, g>> \in Q
  <2>1. e \in S /\ f \in S /\ g \in S
    BY <1>2
  <2> QED
    BY <2>1, <1>4
<1>7. Chain(Q)
  BY <1>5, <1>6 DEF Chain
<1> QED
  BY <1>1, <1>2, <1>7

\* Renaming its entries, no two alike, keeps an order.
LEMMA ChainRenamed ==
  ASSUME NEW R, Chain(R), NEW h \in [Ent(R) -> Entry],
         \A e, f \in Ent(R) : h[e] = h[f] => e = f,
         NEW Q, \A q : q \in Q <=> \E p \in R : q = <<h[p[1]], h[p[2]]>>
  PROVE  /\ Chain(Q)
         /\ \A x : x \in Ent(Q) <=> \E e \in Ent(R) : x = h[e]
         /\ \A e, f \in Ent(R) : <<h[e], h[f]>> \in Q <=> <<e, f>> \in R
<1> DEFINE E == Ent(R)
<1>1. \A p \in R : p[1] \in E /\ p[2] \in E /\ p = <<p[1], p[2]>>
  BY DEF Chain
<1>2. ASSUME NEW e \in E, NEW f \in E
      PROVE  <<h[e], h[f]>> \in Q <=> <<e, f>> \in R
  <2>1. ASSUME <<h[e], h[f]>> \in Q
        PROVE  <<e, f>> \in R
    <3>1. PICK p \in R : <<h[e], h[f]>> = <<h[p[1]], h[p[2]]>>
      BY <2>1
    <3>2. h[e] = h[p[1]] /\ h[f] = h[p[2]]
      BY <3>1
    <3>3. e = p[1] /\ f = p[2]
      BY <1>1, <3>2
    <3> QED
      BY <1>1, <3>3
  <2>2. ASSUME <<e, f>> \in R
        PROVE  <<h[e], h[f]>> \in Q
    BY <2>2
  <2> QED
    BY <2>1, <2>2
<1>3. \A x : x \in Ent(Q) <=> \E e \in E : x = h[e]
  <2>1. ASSUME NEW x \in Ent(Q)
        PROVE  \E e \in E : x = h[e]
    <3>1. PICK p \in R : <<x, x>> = <<h[p[1]], h[p[2]]>>
      BY <2>1 DEF Ent
    <3> QED
      BY <1>1, <3>1
  <2>2. ASSUME NEW e \in E
        PROVE  h[e] \in Ent(Q)
    <3>1. <<e, e>> \in R /\ h[e] \in Entry
      BY DEF Ent
    <3> QED
      BY <1>2, <3>1 DEF Ent
  <2> QED
    BY <2>1, <2>2
<1>4. Q \subseteq Ent(Q) \X Ent(Q)
  <2> SUFFICES ASSUME NEW q \in Q PROVE q \in Ent(Q) \X Ent(Q)
    OBVIOUS
  <2>1. PICK p \in R : q = <<h[p[1]], h[p[2]]>>
    OBVIOUS
  <2> QED
    BY <1>1, <1>3, <2>1
<1>5. ASSUME NEW x \in Ent(Q), NEW y \in Ent(Q), NEW z \in Ent(Q)
      PROVE  /\ <<x, y>> \in Q \/ <<y, x>> \in Q
             /\ <<x, y>> \in Q /\ <<y, x>> \in Q => x = y
             /\ <<x, y>> \in Q /\ <<y, z>> \in Q => <<x, z>> \in Q
  <2>1. PICK e \in E, f \in E, g \in E : x = h[e] /\ y = h[f] /\ z = h[g]
    BY <1>3
  <2>2. /\ <<e, f>> \in R \/ <<f, e>> \in R
        /\ <<e, f>> \in R /\ <<f, e>> \in R => e = f
        /\ <<e, f>> \in R /\ <<f, g>> \in R => <<e, g>> \in R
    BY DEF Chain
  <2> QED
    BY <1>2, <2>1, <2>2
<1> QED
  BY <1>2, <1>3, <1>4, <1>5 DEF Chain

-----------------------------------------------------------------------------
(* The three changes of the column.                                        *)

\* The transactions that write the column.
Writer == Worker \cup {Insertion}

LEMMA EntriesDiffer ==
  /\ \A l \in Lane : Committed(l) \in Entry /\ Committed(l).lane = l /\ Committed(l).by = None
  /\ \A w \in Writer, l \in Lane :
       /\ Stamp(w, l) \in Entry /\ Stamp(w, l).lane = l /\ Stamp(w, l).by = w
       /\ w # None
  /\ \A e \in Entry : /\ e.lane \in Lane /\ e.by \in Writer \cup {None}
                      /\ e.by = None => e = Committed(e.lane)
                      /\ e.by # None => e = Stamp(e.by, e.lane)
  /\ None # Insertion /\ Insertion \notin Worker
BY RotationAssumption DEF Writer, Entry, Committed, Stamp

LEMMA WrittenIsEnt ==
  /\ Entries = Ent(order)
  /\ \A l \in Lane : Registered(l) <=> Committed(l) \in Ent(order)
BY EntriesDiffer DEF Entries, Written, Registered, Ent

\* A stamp is the transaction's that holds the lane.
LEMMA StampedByLocker ==
  ASSUME RotationInv, NEW w \in Writer, NEW l \in Lane, Stamp(w, l) \in Ent(order)
  PROVE  lock[l] = w
<1>1. Anchored(order, lock)
  BY TypeIsChain DEF RotationInv
<1>2. Stamp(w, l).lane = l /\ Stamp(w, l).by = w /\ w # None
  BY EntriesDiffer
<1> QED
  BY <1>1, <1>2 DEF Anchored

\* What the locks `locks' must leave in place: the stamps that are not in S.
Holders(S, locks) == \A e \in Entries \ S : e.by \in {None, locks[e.lane]}

\* What pages rely on: no lane loses its value, none gets a stamp.
Steady(R) ==
  /\ \A l \in Lane : Committed(l) \in Ent(order) => Committed(l) \in Ent(R)
  /\ \A w \in Worker, l \in Lane : Stamp(w, l) \in Ent(R) => Stamp(w, l) \in Ent(order)

\* The order after a rollback: stamps taken out again.
LEMMA StampsGo ==
  ASSUME RotationInv, NEW gone, \A e \in gone \cap Entries : e.by # None,
         NEW locks, Holders(gone, locks)
  PROVE  LET Q == Among(Entries \ gone) IN
         Chain(Q) /\ Anchored(Q, locks) /\ Steady(Q) /\ Q \subseteq order
<1> DEFINE S == Entries \ gone
           Q == Among(S)
<1>1. Chain(order) /\ Anchored(order, lock) /\ Entries = Ent(order) /\ S \subseteq Ent(order)
  BY TypeIsChain, WrittenIsEnt DEF RotationInv
<1>2. /\ Chain(Q) /\ Ent(Q) = S
      /\ \A e, f : <<e, f>> \in Q <=> <<e, f>> \in order /\ e \in S /\ f \in S
  <2>1. Q = {p \in order : p[1] \in S /\ p[2] \in S}
    BY DEF Among
  <2> HIDE DEF S, Q
  <2> QED
    BY <1>1, <2>1, ChainShrinks
<1>3. Anchored(Q, locks)
  <2> SUFFICES ASSUME NEW e \in S
               PROVE  /\ e.by \in {None, locks[e.lane]}
                      /\ IF e.by = Insertion THEN Committed(e.lane) \notin S
                                             ELSE <<Committed(e.lane), e>> \in Q
    BY <1>2 DEF Anchored
  <2>1. e \in Entry /\ e.lane \in Lane /\ e \in Ent(order) /\ e \in Entries \ gone
    BY <1>1, EntriesDiffer DEF Ent
  <2>2. e.by \in {None, locks[e.lane]}
    BY <2>1 DEF Holders
  <2>3. CASE e.by = Insertion
    BY <1>1, <2>1, <2>2, <2>3 DEF Anchored
  <2>4. CASE e.by # Insertion
    <3>1. <<Committed(e.lane), e>> \in order
      BY <1>1, <2>1, <2>4 DEF Anchored
    <3>2. Committed(e.lane) \in S
      BY <1>1, <2>1, <3>1, PairsAreEntries, EntriesDiffer
    <3> QED
      BY <1>2, <2>1, <2>2, <2>4, <3>1, <3>2
  <2> QED
    BY <2>3, <2>4
<1>4. Steady(Q)
  BY <1>1, <1>2, EntriesDiffer DEF Steady
<1> QED
  BY <1>2, <1>3, <1>4 DEF Among

\* The order after a commit: Kept, as a function of the remaining entries.
LEMMA SettledIsRenamed ==
  ASSUME RotationInv, NEW done \in SUBSET Entries, \A s \in done : s.by # None
  PROVE  LET K == Entries \ {Committed(s.lane) : s \in done} IN
         /\ Chain(Settled(done))
         /\ \A x : x \in Ent(Settled(done)) <=> \E e \in K : x = Kept(done, e)
         /\ \A e, f \in K :
              <<Kept(done, e), Kept(done, f)>> \in Settled(done) <=> <<e, f>> \in order
<1> DEFINE over == {Committed(s.lane) : s \in done}
           K == Entries \ over
           R == Among(K)
           h == [e \in K |-> Kept(done, e)]
<1>1. /\ Chain(order) /\ Anchored(order, lock)
      /\ Entries = Ent(order) /\ K \subseteq Ent(order)
  BY TypeIsChain, WrittenIsEnt DEF RotationInv
<1>2. /\ Chain(R) /\ Ent(R) = K
      /\ \A e, f : <<e, f>> \in R <=> <<e, f>> \in order /\ e \in K /\ f \in K
  <2>1. R = {p \in order : p[1] \in K /\ p[2] \in K}
    BY DEF Among
  <2> HIDE DEF K, R
  <2> QED
    BY <1>1, <2>1, ChainShrinks
<1>3. \A e \in K : e \in Entry /\ Kept(done, e) \in Entry
  BY EntriesDiffer DEF Kept, Entries
<1>4. ASSUME NEW e \in K, NEW f \in K, Kept(done, e) = Kept(done, f)
      PROVE  e = f
  <2>1. /\ e \in Entry /\ f \in Entry /\ e \in Ent(order) /\ f \in Ent(order)
        /\ e.lane \in Lane /\ f.lane \in Lane
    BY <1>1, <1>3, EntriesDiffer
  <2>2. CASE e \in done /\ f \in done
    <3>1. e.lane = f.lane
      BY <1>4, <2>1, <2>2, EntriesDiffer DEF Kept
    <3>2. e.by = lock[e.lane] /\ f.by = lock[f.lane] /\ e.by # None /\ f.by # None
      BY <1>1, <2>1, <2>2 DEF Anchored
    <3> QED
      BY <2>1, <3>1, <3>2, EntriesDiffer
  <2>3. CASE e \in done /\ f \notin done
    <3>1. f = Committed(e.lane)
      BY <1>4, <2>3 DEF Kept
    <3> QED
      BY <2>3, <3>1
  <2>4. CASE e \notin done /\ f \in done
    <3>1. e = Committed(f.lane)
      BY <1>4, <2>4 DEF Kept
    <3> QED
      BY <2>4, <3>1
  <2>5. CASE e \notin done /\ f \notin done
    BY <1>4, <2>5 DEF Kept
  <2> QED
    BY <2>2, <2>3, <2>4, <2>5
<1>5. \A q : q \in Settled(done) <=> \E p \in R : q = <<h[p[1]], h[p[2]]>>
  <2>1. \A p \in R : p[1] \in K /\ p[2] \in K
    BY DEF Among
  <2>2. \A q : q \in Settled(done) <=>
                \E p \in R : q = <<Kept(done, p[1]), Kept(done, p[2])>>
    BY DEF Settled
  <2> QED
    BY <2>1, <2>2
<1>6. h \in [Ent(R) -> Entry] /\ \A e, f \in Ent(R) : h[e] = h[f] => e = f
  BY <1>2, <1>3, <1>4
<1>7. /\ Chain(Settled(done))
      /\ \A x : x \in Ent(Settled(done)) <=> \E e \in Ent(R) : x = h[e]
      /\ \A e, f \in Ent(R) : <<h[e], h[f]>> \in Settled(done) <=> <<e, f>> \in R
  <2> HIDE DEF R, h, K
  <2> QED
    BY <1>2, <1>5, <1>6, ChainRenamed
<1>8. \A e \in K : h[e] = Kept(done, e)
  OBVIOUS
<1> HIDE DEF R, h, K
<1>9. \A x : x \in Ent(Settled(done)) <=> \E e \in K : x = Kept(done, e)
  BY <1>2, <1>7, <1>8
<1>10. \A e, f \in K :
         <<Kept(done, e), Kept(done, f)>> \in Settled(done) <=> <<e, f>> \in order
  BY <1>2, <1>7, <1>8
<1> QED
  BY <1>7, <1>9, <1>10 DEF K

\* The value a lane has once the stamps in `done' are committed: the stamp, if it
\* is one of theirs, and no earlier than the value it had.
LEMMA ValuesSettle ==
  ASSUME RotationInv, NEW done \in SUBSET Entries, \A s \in done : s.by # None,
         NEW l \in Lane
  PROVE  LET K == Entries \ {Committed(s.lane) : s \in done} IN
         /\ Registered(l) =>
              \E v \in K : /\ Kept(done, v) = Committed(l) /\ v.lane = l
                          /\ v.by # Insertion /\ <<Committed(l), v>> \in order
         /\ \A v \in K : Kept(done, v) = Committed(l) =>
              /\ v.lane = l
              /\ v = Committed(l) \/ v \in done
<1> DEFINE K == Entries \ {Committed(s.lane) : s \in done}
<1>1. Chain(order) /\ Anchored(order, lock) /\ Entries = Ent(order)
  BY TypeIsChain, WrittenIsEnt DEF RotationInv
<1>2. \A s \in done : /\ s \in Entry /\ s \in Ent(order) /\ s.lane \in Lane
                      /\ s # Committed(s.lane)
  BY <1>1, EntriesDiffer DEF Entries
<1>3. ASSUME Registered(l)
      PROVE  \E v \in K : /\ Kept(done, v) = Committed(l) /\ v.lane = l
                         /\ v.by # Insertion /\ <<Committed(l), v>> \in order
  <2>0. Committed(l) \in Ent(order) /\ Committed(l) \notin done
    BY <1>3, WrittenIsEnt, EntriesDiffer
  <2>1. CASE \E s \in done : s.lane = l
    <3>1. PICK s \in done : s.lane = l
      BY <2>1
    <3>2. s \in K
      <4>1. ASSUME NEW t \in done, s = Committed(t.lane)
            PROVE  FALSE
        BY <1>2, <4>1, EntriesDiffer
      <4> QED
        BY <4>1
    <3>3. s.by # Insertion
      BY <1>1, <1>2, <2>0, <3>1 DEF Anchored
    <3>4. <<Committed(l), s>> \in order
      BY <1>1, <1>2, <3>1, <3>3 DEF Anchored
    <3>5. Kept(done, s) = Committed(l)
      BY <3>1 DEF Kept
    <3> QED
      BY <3>1, <3>2, <3>3, <3>4, <3>5
  <2>2. CASE ~\E s \in done : s.lane = l
    <3>1. Committed(l) \in K
      <4>1. \A s \in done : Committed(s.lane) # Committed(l)
        BY <1>2, <2>2, EntriesDiffer
      <4> QED
        BY <1>1, <2>0, <4>1
    <3>2. Kept(done, Committed(l)) = Committed(l)
      BY <2>0 DEF Kept
    <3>3. <<Committed(l), Committed(l)>> \in order
      BY <2>0 DEF Ent
    <3> QED
      BY <3>1, <3>2, <3>3, EntriesDiffer
  <2> QED
    BY <2>1, <2>2
<1>4. ASSUME NEW v \in K, Kept(done, v) = Committed(l)
      PROVE  v.lane = l /\ (v = Committed(l) \/ v \in done)
  <2>1. v \in Entry
    BY DEF Entries
  <2>2. CASE v \in done
    <3>1. Committed(v.lane) = Committed(l) /\ v.lane \in Lane
      BY <1>2, <1>4, <2>2 DEF Kept
    <3> QED
      BY <2>2, <3>1, EntriesDiffer
  <2>3. CASE v \notin done
    BY <1>4, <2>3, EntriesDiffer DEF Kept
  <2> QED
    BY <2>2, <2>3
<1> QED
  BY <1>3, <1>4

\* The order after a commit keeps what the invariant says of it.
LEMMA StampsSettle ==
  ASSUME RotationInv, NEW done \in SUBSET Entries, \A s \in done : s.by # None,
         NEW locks, Holders(done, locks)
  PROVE  Chain(Settled(done)) /\ Anchored(Settled(done), locks) /\ Steady(Settled(done))
<1> DEFINE K == Entries \ {Committed(s.lane) : s \in done}
           Q == Settled(done)
<1>1. Chain(order) /\ Anchored(order, lock) /\ Entries = Ent(order)
  BY TypeIsChain, WrittenIsEnt DEF RotationInv
<1>2. /\ Chain(Q)
      /\ \A x : x \in Ent(Q) <=> \E e \in K : x = Kept(done, e)
      /\ \A e, f \in K : <<Kept(done, e), Kept(done, f)>> \in Q <=> <<e, f>> \in order
  BY SettledIsRenamed
<1>3. \A l \in Lane :
        /\ Registered(l) => \E v \in K : Kept(done, v) = Committed(l) /\ v.lane = l
        /\ Committed(l) \in Ent(order) => Committed(l) \in Ent(Q)
  <2> SUFFICES ASSUME NEW l \in Lane, Registered(l)
               PROVE  /\ \E v \in K : Kept(done, v) = Committed(l) /\ v.lane = l
                      /\ Committed(l) \in Ent(Q)
    BY WrittenIsEnt
  <2>1. \E v \in K : Kept(done, v) = Committed(l) /\ v.lane = l
    <3>1. \E v \in K : /\ Kept(done, v) = Committed(l) /\ v.lane = l
                      /\ v.by # Insertion /\ <<Committed(l), v>> \in order
      BY ValuesSettle
    <3> QED
      BY <3>1
  <2> QED
    BY <1>2, <2>1
<1>4. ASSUME NEW e \in K
      PROVE  /\ Kept(done, e) \in Entry /\ Kept(done, e).lane = e.lane
             /\ e.lane \in Lane /\ e \in Ent(order)
             /\ e \in done => Kept(done, e) = Committed(e.lane)
             /\ e \notin done => Kept(done, e) = e
  BY <1>1, EntriesDiffer DEF Kept, Ent
<1>5. Anchored(Q, locks)
  <2> SUFFICES ASSUME NEW x \in Ent(Q)
               PROVE  /\ x.by \in {None, locks[x.lane]}
                      /\ IF x.by = Insertion THEN Committed(x.lane) \notin Ent(Q)
                                             ELSE <<Committed(x.lane), x>> \in Q
    BY DEF Anchored
  <2>1. PICK e \in K : x = Kept(done, e)
    BY <1>2
  <2>2. x.lane = e.lane /\ e.lane \in Lane /\ e \in Ent(order) /\ e \in Entries
    BY <1>4, <2>1
  <2>3. CASE e \in done
    <3>1. x = Committed(e.lane) /\ x.by = None /\ x.by # Insertion
      BY <1>4, <2>1, <2>2, <2>3, EntriesDiffer
    <3>2. <<x, x>> \in Q
      BY DEF Ent
    <3> QED
      BY <2>2, <3>1, <3>2
  <2>4. CASE e \notin done
    <3>1. x = e /\ x.by \in {None, locks[x.lane]}
      BY <1>4, <2>1, <2>2, <2>4 DEF Holders
    <3>2. CASE x.by = Insertion
      <4>1. Committed(e.lane) \notin Ent(order) /\ e.by = lock[e.lane] /\ e.by # None
        BY <1>1, <2>2, <3>1, <3>2, EntriesDiffer DEF Anchored
      <4>2. ASSUME Committed(x.lane) \in Ent(Q)
            PROVE  FALSE
        <5>1. PICK v \in K : Committed(e.lane) = Kept(done, v)
          BY <1>2, <2>2, <4>2
        <5>2. v.lane = e.lane /\ (v = Committed(e.lane) \/ v \in done)
          BY <2>2, <5>1, ValuesSettle
        <5>3. v \in done /\ v \in Ent(order)
          BY <1>4, <4>1, <5>2
        <5>4. v.by = lock[v.lane] /\ v \in Entry /\ e \in Entry
          BY <1>1, <2>2, <5>3 DEF Anchored, Ent
        <5>5. v = e
          BY <4>1, <5>2, <5>4, EntriesDiffer
        <5> QED
          BY <2>4, <5>3, <5>5
      <4> QED
        BY <3>1, <3>2, <4>2
    <3>3. CASE x.by # Insertion
      <4>1. <<Committed(e.lane), e>> \in order
        BY <1>1, <2>2, <3>1, <3>3 DEF Anchored
      <4>2. Registered(e.lane)
        BY <1>1, <2>2, <4>1, PairsAreEntries, WrittenIsEnt
      <4>3. PICK v \in K : Kept(done, v) = Committed(e.lane) /\ v.lane = e.lane
        BY <1>3, <2>2, <4>2
      <4>4. CASE v = Committed(e.lane)
        BY <1>2, <2>1, <2>2, <3>1, <3>3, <4>1, <4>3, <4>4
      <4>5. CASE v # Committed(e.lane)
        <5>1. v \in done /\ v \in Ent(order)
          BY <1>4, <2>2, <4>3, <4>5, ValuesSettle
        <5>2. v.by = lock[v.lane] /\ v.by # None /\ v \in Entry
          BY <1>1, <5>1 DEF Anchored, Ent
        <5>3. e.by = None
          <6>1. CASE e.by # None
            <7>1. e.by = lock[e.lane] /\ e \in Entry
              BY <1>1, <2>2, <6>1 DEF Anchored, Ent
            <7>2. e = v
              BY <4>3, <5>2, <6>1, <7>1, EntriesDiffer
            <7> QED
              BY <2>4, <5>1, <7>2
          <6> QED
            BY <6>1
        <5>4. e = Committed(v.lane)
          BY <2>2, <4>3, <5>3, EntriesDiffer DEF Ent
        <5> QED
          BY <5>1, <5>4
      <4> QED
        BY <4>4, <4>5
    <3> QED
      BY <3>1, <3>2, <3>3
  <2> QED
    BY <2>3, <2>4
<1>6. ASSUME NEW w \in Worker, NEW l \in Lane, Stamp(w, l) \in Ent(Q)
      PROVE  Stamp(w, l) \in Ent(order)
  <2>1. PICK e \in K : Stamp(w, l) = Kept(done, e)
    BY <1>2, <1>6
  <2>2. Stamp(w, l).by # None /\ e.lane \in Lane /\ e \in Ent(order)
    BY <1>4, EntriesDiffer DEF Writer
  <2>3. Stamp(w, l) = e
    BY <1>4, <2>1, <2>2, EntriesDiffer
  <2> QED
    BY <2>2, <2>3
<1> QED
  BY <1>2, <1>3, <1>5, <1>6 DEF Steady

-----------------------------------------------------------------------------
(* The invariant.                                                          *)

LEMMA InitRotationInv == Init => RotationInv
<1> SUFFICES ASSUME Init PROVE RotationInv
  OBVIOUS
<1>1. Chain(order) /\ Anchored(order, lock)
  BY DEF Init, Chain, Anchored, Ent
<1>2. PagesAreLocked
  BY DEF Init, PagesAreLocked
<1>3. TypeOK
  BY <1>1, TypeIsChain, RotationAssumption DEF Init
<1> QED
  BY <1>2, <1>3 DEF RotationInv

\* The pages are locked as they were when no worker loses a lock and no lane its
\* value.
LEMMA PagesStay ==
  ASSUME RotationInv, Steady(order'), page' = page,
         \A w \in Worker, l \in Lane : lock[l] = w => lock'[l] = w
  PROVE  PagesAreLocked'
<1>1. \A w \in Worker : \A i \in DOMAIN page[w] : page[w][i] \in Lane
  BY DEF RotationInv, TypeOK
<1>2. \A w \in Worker, l \in Lane :
        Waits(order, lock, w, l) => Waits(order', lock', w, l)
  BY DEF Waits, Steady
<1> QED
  BY <1>1, <1>2 DEF RotationInv, PagesAreLocked

\* A step that changes neither order nor locks.
LEMMA StaysSteady ==
  ASSUME order' = order
  PROVE  Steady(order')
BY DEF Steady

\* An insertion or a renewal takes or leaves a lane that no worker holds.
LEMMA OtherKeepsInv ==
  ASSUME RotationInv, NEW l \in Lane, NEW holder \in {Insertion, Renewal, None},
         lock[l] \notin Worker, lock' = [lock EXCEPT ![l] = holder],
         Chain(order'), Anchored(order', lock'), Steady(order'),
         heads' \subseteq Lane, UNCHANGED <<open, page, claims, leased, faults>>
  PROVE  RotationInv'
<1>1. TypeOK
  BY DEF RotationInv
<1>2. /\ lock' \in [Lane -> Worker \cup {Insertion, Renewal, None}]
      /\ \A m \in Lane : lock'[m] = IF m = l THEN holder ELSE lock[m]
  BY <1>1 DEF TypeOK
<1>3. \A w \in Worker, m \in Lane : lock[m] = w => lock'[m] = w
  BY <1>2
<1>4. TypeOK'
  BY <1>1, <1>2, TypeIsChainNext DEF TypeOK
<1> QED
  BY <1>3, <1>4, PagesStay DEF RotationInv

LEMMA MaterializeKeepsInv ==
  ASSUME RotationInv, NEW l \in Lane, Materialize(l)
  PROVE  RotationInv'
<1> DEFINE s == Stamp(Insertion, l)
<1>1. TypeOK /\ Chain(order) /\ Anchored(order, lock) /\ Entries = Ent(order)
  BY TypeIsChain, WrittenIsEnt DEF RotationInv
<1>2. /\ UNCHANGED <<open, page, claims, leased, faults>>
      /\ heads' \subseteq Lane /\ lock[l] = None /\ lock[l] \notin Worker
      /\ lock' = [lock EXCEPT ![l] = Insertion]
      /\ \A m \in Lane : lock'[m] = IF m = l THEN Insertion ELSE lock[m]
  BY <1>1, RotationAssumption DEF Materialize, TypeOK
<1>3. \A e \in Ent(order) : e.by \in {None, lock'[e.lane]}
  <2>1. \A e \in Ent(order) : e.lane \in Lane /\ e.by \in {None, lock[e.lane]}
    BY <1>1, EntriesDiffer DEF Anchored, Ent
  <2> QED
    BY <1>2, <2>1
<1>4. Chain(order') /\ Anchored(order', lock') /\ Steady(order')
  <2>1. CASE Registered(l)
    <3>1. order' = order
      BY <2>1 DEF Materialize
    <3> QED
      BY <1>1, <1>3, <3>1, StaysSteady DEF Anchored
  <2>2. CASE ~Registered(l)
    <3>1. s \in Entry /\ s.lane = l /\ s.by = Insertion /\ Committed(l) \notin Ent(order)
      BY <2>2, WrittenIsEnt, EntriesDiffer DEF Writer
    <3>2. s \notin Ent(order)
      BY <1>2, StampedByLocker, EntriesDiffer DEF Writer
    <3>3. order' = order \cup {<<f, s>> : f \in Ent(order) \cup {s}}
      BY <1>1, <2>2 DEF Materialize, Latest
    <3>4. /\ Chain(order')
          /\ Ent(order') = Ent(order) \cup {s}
          /\ \A f, g : <<f, g>> \in order' <=>
               <<f, g>> \in order \/ (g = s /\ f \in Ent(order) \cup {s})
      <4> HIDE DEF s
      <4> QED
        BY <1>1, <3>1, <3>2, <3>3, ChainGrows
    <3>5. \A m \in Lane : Committed(m) # s
      BY <3>1, EntriesDiffer
    <3>6. Anchored(order', lock')
      <4> HIDE DEF s
      <4> SUFFICES ASSUME NEW e \in Ent(order')
                   PROVE  /\ e.by \in {None, lock'[e.lane]}
                          /\ IF e.by = Insertion THEN Committed(e.lane) \notin Ent(order')
                                                 ELSE <<Committed(e.lane), e>> \in order'
        BY DEF Anchored
      <4>1. CASE e = s
        BY <1>2, <3>1, <3>4, <3>5, <4>1
      <4>2. CASE e # s
        <5>1. e \in Ent(order) /\ e.lane \in Lane
          BY <3>4, <4>2, EntriesDiffer DEF Ent
        <5> QED
          BY <1>1, <1>3, <3>4, <3>5, <5>1 DEF Anchored
      <4> QED
        BY <4>1, <4>2
    <3>7. \A w \in Worker, m \in Lane : Stamp(w, m) # s
      BY <3>1, EntriesDiffer DEF Writer
    <3> QED
      BY <3>4, <3>6, <3>7 DEF Steady
  <2> QED
    BY <2>1, <2>2
<1> QED
  BY <1>2, <1>4, OtherKeepsInv

\* The end of an insertion or a renewal, and the renewal's lock.
LEMMA ReleaseKeepsInv ==
  ASSUME RotationInv, NEW l \in Lane, RenewLock(l) \/ Release(l)
  PROVE  RotationInv'
<1> DEFINE s == Stamp(Insertion, l)
<1>1. TypeOK /\ Chain(order) /\ Anchored(order, lock) /\ Entries = Ent(order)
  BY TypeIsChain, WrittenIsEnt DEF RotationInv
<1>2. ASSUME NEW holder \in {Renewal, None}, lock[l] \notin Worker,
             lock' = [lock EXCEPT ![l] = holder],
             \A e \in Entries : e.by = lock[e.lane] /\ e.lane = l => e = s /\ lock[l] = Insertion
      PROVE  Holders({s}, lock')
  <2>1. \A m \in Lane : m # l => lock'[m] = lock[m]
    BY <1>1, <1>2 DEF TypeOK
  <2>2. \A e \in Entries : e.lane \in Lane /\ e.by \in {None, lock[e.lane]}
    BY <1>1, EntriesDiffer DEF Anchored, Ent
  <2> QED
    BY <1>2, <2>1, <2>2 DEF Holders
<1>3. ASSUME NEW e \in Entries, e.lane = l, e.by # None
      PROVE  e.by = lock[l] /\ e.by \in Writer /\ e = Stamp(e.by, l)
  BY <1>1, <1>3, EntriesDiffer DEF Anchored, Ent
<1>4. s \in Entry /\ s.by # None
  BY EntriesDiffer DEF Writer
<1>5. CASE RenewLock(l)
  <2>1. /\ order' = order /\ heads' \subseteq Lane /\ lock[l] = None /\ lock[l] \notin Worker
        /\ lock' = [lock EXCEPT ![l] = Renewal]
        /\ UNCHANGED <<open, page, claims, leased, faults>>
        /\ \A m \in Lane : m # l => lock'[m] = lock[m]
    BY <1>1, <1>5, RotationAssumption DEF RenewLock, TypeOK
  <2>2. Anchored(order', lock')
    <3>1. \A e \in Ent(order) : e.lane \in Lane
      BY EntriesDiffer DEF Ent
    <3> QED
      BY <1>1, <1>3, <2>1, <3>1 DEF Anchored
  <2> QED
    BY <1>1, <2>1, <2>2, StaysSteady, OtherKeepsInv
<1>6. CASE RenewUnlock(l)
  <2>1. /\ order' = order /\ heads' \subseteq Lane /\ lock[l] = Renewal /\ lock[l] \notin Worker
        /\ lock' = [lock EXCEPT ![l] = None]
        /\ UNCHANGED <<open, page, claims, leased, faults>>
        /\ \A m \in Lane : m # l => lock'[m] = lock[m]
    BY <1>1, <1>6, RotationAssumption DEF RenewUnlock, TypeOK
  <2>2. Anchored(order', lock')
    <3>1. \A e \in Ent(order) : e.lane \in Lane
      BY EntriesDiffer DEF Ent
    <3>2. Renewal \notin Writer
      BY RotationAssumption DEF Writer
    <3> QED
      BY <1>1, <1>3, <2>1, <3>1, <3>2 DEF Anchored
  <2> QED
    BY <1>1, <2>1, <2>2, StaysSteady, OtherKeepsInv
<1>7. CASE CommitMaterialize(l) \/ RollbackMaterialize(l)
  <2>1. /\ heads' \subseteq Lane /\ lock[l] = Insertion /\ lock[l] \notin Worker
        /\ lock' = [lock EXCEPT ![l] = None]
        /\ UNCHANGED <<open, page, claims, leased, faults>>
    BY <1>1, <1>7, RotationAssumption DEF CommitMaterialize, RollbackMaterialize, TypeOK
  <2>2. \A e \in Entries : e.by = lock[e.lane] /\ e.lane = l => e = s /\ lock[l] = Insertion
    <3>1. \A e \in Entries : e.by = Insertion => e.by # None
      BY EntriesDiffer
    <3> QED
      BY <1>3, <2>1, <3>1
  <2>3. Holders({s}, lock') /\ Holders(Entries \cap {s}, lock')
    <3>1. Holders({s}, lock')
      BY <1>2, <2>1, <2>2
    <3>2. Entries \ {s} = Entries \ (Entries \cap {s})
      OBVIOUS
    <3> QED
      BY <3>1, <3>2 DEF Holders
  <2>4. CASE CommitMaterialize(l)
    <3>1. order' = Settled(Entries \cap {s})
      BY <2>4 DEF CommitMaterialize
    <3>2. Chain(order') /\ Anchored(order', lock') /\ Steady(order')
      <4>1. /\ Entries \cap {s} \in SUBSET Entries
            /\ \A e \in Entries \cap {s} : e.by # None
        BY <1>4
      <4> HIDE DEF s
      <4> QED
        BY <2>3, <3>1, <4>1, StampsSettle
    <3> QED
      BY <2>1, <3>2, OtherKeepsInv
  <2>5. CASE RollbackMaterialize(l)
    <3>1. order' = Among(Entries \ {s})
      BY <2>5 DEF RollbackMaterialize
    <3>2. Chain(order') /\ Anchored(order', lock') /\ Steady(order')
      <4> HIDE DEF s
      <4> QED
        BY <1>4, <2>3, <3>1, StampsGo
    <3> QED
      BY <2>1, <3>2, OtherKeepsInv
  <2> QED
    BY <1>7, <2>4, <2>5
<1> QED
  BY <1>5, <1>6, <1>7 DEF Release

LEMMA HeadsKeepInv ==
  ASSUME RotationInv, NEW l \in Lane, Resolve(l) \/ EndLease(l)
  PROVE  RotationInv'
<1>1. /\ UNCHANGED <<order, lock, open, page, claims, faults>>
      /\ heads' \subseteq heads /\ leased' \subseteq leased
  BY DEF Resolve, EndLease
<1>2. TypeOK'
  BY <1>1, TypeIsChain, TypeIsChainNext DEF RotationInv
<1> QED
  BY <1>1, <1>2, PagesStay, StaysSteady DEF RotationInv

\* The lanes of a page are free, and none is there twice.
LEMMA PageIsFree ==
  ASSUME NEW size \in 1..CandidateLimit, NEW lanes \in [1..size -> Free], IsPage(lanes)
  PROVE  /\ \A i \in 1..size : /\ lanes[i] \in Lane /\ Registered(lanes[i])
                               /\ lock[lanes[i]] = None
         /\ \A i, j \in 1..size : lanes[i] = lanes[j] => i = j
<1> USE RotationAssumption
<1>1. \A i, j \in 1..size : i < j => lanes[i] # lanes[j]
  BY DEF IsPage, Precedes
<1>2. \A i, j \in 1..size : i = j \/ i < j \/ j < i
  OBVIOUS
<1> QED
  BY <1>1, <1>2 DEF Free

LEMMA BeginKeepsInv ==
  ASSUME RotationInv, NEW w \in Worker, Begin(w)
  PROVE  RotationInv'
<1> USE RotationAssumption
<1>0. TypeOK /\ UNCHANGED <<order, claims, leased, heads, faults>> /\ open' \subseteq Worker
  BY DEF RotationInv, TypeOK, Begin
<1>1. PICK size \in 1..CandidateLimit : \E lanes \in [1..size -> Free] :
        /\ IsPage(lanes)
        /\ page' = [page EXCEPT ![w] = lanes]
        /\ lock' = [l \in Lane |->
                      IF \E i \in 1..size : lanes[i] = l THEN w ELSE lock[l]]
  BY DEF Begin
<1>2. PICK lanes \in [1..size -> Free] :
        /\ IsPage(lanes)
        /\ page' = [page EXCEPT ![w] = lanes]
        /\ lock' = [l \in Lane |->
                      IF \E i \in 1..size : lanes[i] = l THEN w ELSE lock[l]]
  BY <1>1
<1>3. /\ \A i \in 1..size : /\ lanes[i] \in Lane /\ Registered(lanes[i])
                            /\ lock[lanes[i]] = None
      /\ \A i, j \in 1..size : lanes[i] = lanes[j] => i = j
  BY <1>2, PageIsFree
<1>4. lanes \in Seq(Lane) /\ DOMAIN lanes = 1..size
  <2>1. size \in Nat
    OBVIOUS
  <2> QED
    BY <1>3, <2>1
<1>5. lock' \in [Lane -> Worker \cup {Insertion, Renewal, None}] /\ page' \in [Worker -> Seq(Lane)]
  BY <1>0, <1>2, <1>4 DEF TypeOK
<1>6. \A l \in Lane : /\ lock'[l] \in {lock[l], w}
                      /\ lock[l] # None => lock'[l] = lock[l]
  BY <1>2, <1>3
<1>7. Anchored(order', lock')
  <2>1. Anchored(order, lock)
    BY <1>0, TypeIsChain
  <2>2. \A e \in Ent(order) : e.lane \in Lane
    BY EntriesDiffer DEF Ent
  <2> QED
    BY <1>0, <1>6, <2>1, <2>2 DEF Anchored
<1>8. TypeOK'
  BY <1>0, <1>5, <1>7, TypeIsChain, TypeIsChainNext
<1>9. PagesAreLocked'
  <2> SUFFICES ASSUME NEW v \in Worker
               PROVE  /\ \A i \in DOMAIN page'[v] : Waits(order', lock', v, page'[v][i])
                      /\ \A i, j \in DOMAIN page'[v] : page'[v][i] = page'[v][j] => i = j
    BY DEF PagesAreLocked
  <2>1. CASE v = w
    <3>1. page'[v] = lanes
      BY <1>0, <1>2, <2>1 DEF TypeOK
    <3>2. ASSUME NEW i \in 1..size
          PROVE  Waits(order', lock', v, lanes[i])
      <4>1. lanes[i] \in Lane /\ lock'[lanes[i]] = w
        BY <1>2, <1>3
      <4>2. Stamp(w, lanes[i]) \notin Ent(order)
        BY <1>3, StampedByLocker, EntriesDiffer DEF Writer
      <4>3. Committed(lanes[i]) \in Ent(order)
        BY <1>3, WrittenIsEnt
      <4> QED
        BY <1>0, <2>1, <4>1, <4>2, <4>3 DEF Waits
    <3>3. \A i, j \in 1..size : lanes[i] = lanes[j] => i = j
      BY <1>3
    <3> HIDE DEF Waits
    <3> QED
      BY <1>4, <3>1, <3>2, <3>3
  <2>2. CASE v # w
    <3>1. page'[v] = page[v]
      BY <1>0, <1>2, <2>2 DEF TypeOK
    <3>2. \A i \in DOMAIN page[v] : page[v][i] \in Lane
      BY <1>0 DEF TypeOK
    <3>3. \A l \in Lane : Waits(order, lock, v, l) => Waits(order', lock', v, l)
      BY <1>0, <1>6, EntriesDiffer DEF Waits, Writer
    <3> QED
      BY <3>1, <3>2, <3>3 DEF RotationInv, PagesAreLocked
  <2> QED
    BY <2>1, <2>2
<1> QED
  BY <1>8, <1>9 DEF RotationInv

LEMMA ExamineKeepsInv ==
  ASSUME RotationInv, NEW w \in Worker, Examine(w)
  PROVE  RotationInv'
<1> DEFINE l == Head(page[w])
           s == Stamp(w, l)
           p == page[w]
<1>1. TypeOK /\ Chain(order) /\ Anchored(order, lock) /\ Entries = Ent(order)
  BY TypeIsChain, WrittenIsEnt DEF RotationInv
<1>2. /\ UNCHANGED <<lock, open, leased, heads, faults>>
      /\ page' = [page EXCEPT ![w] = Tail(page[w])] /\ p # <<>> /\ p \in Seq(Lane)
      /\ order' = order \cup {<<f, s>> : f \in Ent(order) \cup {s}}
  BY <1>1 DEF Examine, Latest, TypeOK
<1>3. /\ Tail(p) \in Seq(Lane) /\ Len(p) \in Nat
      /\ DOMAIN Tail(p) = 1..Len(p) - 1
      /\ l = p[1] /\ 1 \in DOMAIN p /\ DOMAIN p = 1..Len(p)
      /\ \A i \in 1..Len(p) - 1 : i + 1 \in DOMAIN p /\ Tail(p)[i] = p[i + 1]
  BY <1>2
<1>4. l \in Lane /\ Waits(order, lock, w, l)
  BY <1>2, <1>3 DEF RotationInv, PagesAreLocked
<1>5. /\ s \in Entry \ Ent(order) /\ s.lane = l /\ s.by = w /\ Committed(l) \in Ent(order)
      /\ s.by # Insertion /\ \A m \in Lane : Committed(m) # s
  <2>1. s \in Entry /\ s.lane = l /\ s.by = w /\ w # None
    BY <1>4, EntriesDiffer DEF Writer
  <2> QED
    BY <1>4, <2>1, EntriesDiffer DEF Waits
<1> HIDE DEF l, s
<1>6. /\ Chain(order')
      /\ Ent(order') = Ent(order) \cup {s}
      /\ \A f, g : <<f, g>> \in order' <=>
           <<f, g>> \in order \/ (g = s /\ f \in Ent(order) \cup {s})
  BY <1>1, <1>2, <1>5, ChainGrows
<1>7. Anchored(order', lock')
  <2> SUFFICES ASSUME NEW e \in Ent(order')
               PROVE  /\ e.by \in {None, lock'[e.lane]}
                      /\ IF e.by = Insertion THEN Committed(e.lane) \notin Ent(order')
                                             ELSE <<Committed(e.lane), e>> \in order'
    BY DEF Anchored
  <2>1. CASE e = s
    BY <1>2, <1>4, <1>5, <1>6, <2>1 DEF Waits
  <2>2. CASE e # s
    <3>1. e \in Ent(order) /\ e.lane \in Lane
      BY <1>6, <2>2, EntriesDiffer DEF Ent
    <3> QED
      BY <1>1, <1>2, <1>5, <1>6, <3>1 DEF Anchored
  <2> QED
    BY <2>1, <2>2
<1>8. page' \in [Worker -> Seq(Lane)] /\ claims' \in [Worker -> SUBSET Lane]
  <2>1. page' \in [Worker -> Seq(Lane)]
    BY <1>1, <1>2, <1>3 DEF TypeOK
  <2>2. claims[w] \cup {l} \in SUBSET Lane
    BY <1>1, <1>4 DEF TypeOK
  <2>3. claims' = claims \/ claims' = [claims EXCEPT ![w] = claims[w] \cup {l}]
    BY DEF Examine, l
  <2>4. claims' \in [Worker -> SUBSET Lane]
    BY <1>1, <2>2, <2>3 DEF TypeOK
  <2> QED
    BY <2>1, <2>4
<1>9. TypeOK'
  BY <1>1, <1>2, <1>6, <1>7, <1>8, TypeIsChain, TypeIsChainNext
<1>10. PagesAreLocked'
  <2>0. \A v \in Worker, m \in Lane :
          Waits(order, lock, v, m) /\ ~(v = w /\ m = l) => Waits(order', lock', v, m)
    <3>1. \A v \in Worker, m \in Lane : Stamp(v, m) = s => v = w /\ m = l
      BY <1>4, EntriesDiffer DEF s, Writer
    <3> QED
      BY <1>2, <1>6, <3>1 DEF Waits
  <2> SUFFICES ASSUME NEW v \in Worker
               PROVE  /\ \A i \in DOMAIN page'[v] : Waits(order', lock', v, page'[v][i])
                      /\ \A i, j \in DOMAIN page'[v] : page'[v][i] = page'[v][j] => i = j
    BY <1>2 DEF PagesAreLocked
  <2>1. /\ \A i \in DOMAIN page[v] : page[v][i] \in Lane /\ Waits(order, lock, v, page[v][i])
        /\ \A i, j \in DOMAIN page[v] : page[v][i] = page[v][j] => i = j
    BY <1>1 DEF RotationInv, PagesAreLocked, TypeOK
  <2>2. CASE v # w
    <3>1. page'[v] = page[v]
      BY <1>1, <1>2, <2>2 DEF TypeOK
    <3> QED
      BY <2>0, <2>1, <2>2, <3>1
  <2>3. CASE v = w
    <3>1. page'[v] = Tail(p)
      BY <1>1, <1>2, <2>3 DEF TypeOK
    <3>2. ASSUME NEW i \in 1..Len(p) - 1
          PROVE  Waits(order', lock', v, Tail(p)[i])
      <4>1. i + 1 \in DOMAIN p /\ Tail(p)[i] = p[i + 1] /\ i + 1 # 1
        BY <1>3
      <4>2. p[i + 1] # l
        BY <1>3, <2>1, <2>3, <4>1
      <4> QED
        BY <2>0, <2>1, <2>3, <4>1, <4>2
    <3>3. ASSUME NEW i \in 1..Len(p) - 1, NEW j \in 1..Len(p) - 1, Tail(p)[i] = Tail(p)[j]
          PROVE  i = j
      <4>1. /\ i + 1 \in DOMAIN p /\ j + 1 \in DOMAIN p
            /\ p[i + 1] = p[j + 1]
        BY <1>3, <3>3
      <4>2. i + 1 = j + 1
        BY <2>1, <2>3, <4>1
      <4> QED
        BY <4>2
    <3>4. DOMAIN page'[v] = 1..Len(p) - 1
      BY <1>3, <3>1
    <3> QED
      BY <3>1, <3>2, <3>3, <3>4
  <2> QED
    BY <2>2, <2>3
<1> QED
  BY <1>9, <1>10 DEF RotationInv

\* The end of a transaction, however it ends: nobody else loses a lock or a page.
LEMMA EndKeepsInv ==
  ASSUME RotationInv, NEW w \in Worker,
         Chain(order'), Anchored(order', lock'),
         lock' = Unlocked(w), open' = open \ {w},
         page' = [page EXCEPT ![w] = <<>>], claims' = [claims EXCEPT ![w] = {}],
         leased' \subseteq Lane, heads' = heads, faults' \in 0..MaxFaults,
         Steady(order')
  PROVE  RotationInv'
<1>1. TypeOK
  BY DEF RotationInv
<1>2. \A l \in Lane : lock'[l] = IF lock[l] = w THEN None ELSE lock[l]
  BY DEF Unlocked
<1>3. TypeOK'
  <2>1. /\ lock' \in [Lane -> Worker \cup {Insertion, Renewal, None}]
        /\ page' \in [Worker -> Seq(Lane)]
        /\ claims' \in [Worker -> SUBSET Lane]
        /\ open' \subseteq Worker /\ heads' \subseteq Lane
    BY <1>1 DEF TypeOK, Unlocked
  <2> QED
    BY <2>1, TypeIsChainNext
<1>4. PagesAreLocked'
  <2> SUFFICES ASSUME NEW v \in Worker
               PROVE  /\ \A i \in DOMAIN page'[v] : Waits(order', lock', v, page'[v][i])
                      /\ \A i, j \in DOMAIN page'[v] : page'[v][i] = page'[v][j] => i = j
    BY DEF PagesAreLocked
  <2>1. CASE v = w
    <3>1. page'[v] = <<>>
      BY <1>1, <2>1 DEF TypeOK
    <3> QED
      BY <3>1
  <2>2. CASE v # w
    <3>1. page'[v] = page[v]
      BY <1>1, <2>2 DEF TypeOK
    <3>2. /\ \A i \in DOMAIN page[v] : page[v][i] \in Lane /\ Waits(order, lock, v, page[v][i])
          /\ \A i, j \in DOMAIN page[v] : page[v][i] = page[v][j] => i = j
      BY <1>1 DEF RotationInv, PagesAreLocked, TypeOK
    <3>3. \A l \in Lane : Waits(order, lock, v, l) => Waits(order', lock', v, l)
      BY <1>2, <2>2 DEF Waits, Steady
    <3> QED
      BY <3>1, <3>2, <3>3
  <2> QED
    BY <2>1, <2>2
<1> QED
  BY <1>3, <1>4 DEF RotationInv

\* Without the stamps of w, its locks are not needed.
LEMMA StampsAreHeld ==
  ASSUME RotationInv, NEW w \in Worker, lock' = Unlocked(w)
  PROVE  /\ Stamps(w) \in SUBSET Entries /\ \A s \in Stamps(w) : s.by # None
         /\ Holders(Stamps(w), lock')
<1>1. \A l \in Lane : lock'[l] = IF lock[l] = w THEN None ELSE lock[l]
  BY DEF Unlocked
<1>2. \A e \in Entries : e.lane \in Lane /\ e.by \in {None, lock[e.lane]}
  <2>1. Anchored(order, lock) /\ Entries = Ent(order)
    BY TypeIsChain, WrittenIsEnt DEF RotationInv
  <2> QED
    BY <2>1, EntriesDiffer DEF Anchored, Entries
<1>3. w # None
  BY RotationAssumption
<1> QED
  BY <1>1, <1>2, <1>3 DEF Stamps, Holders

LEMMA RollbackKeepsInv ==
  ASSUME RotationInv, NEW w \in Worker, Rollback(w)
  PROVE  RotationInv'
<1>1. TypeOK /\ order' = Among(Entries \ Stamps(w)) /\ lock' = Unlocked(w)
  BY DEF RotationInv, Rollback
<1>2. /\ \A s \in Stamps(w) \cap Entries : s.by # None
      /\ Holders(Stamps(w), lock')
  BY <1>1, StampsAreHeld
<1>3. Chain(order') /\ Anchored(order', lock') /\ Steady(order')
  BY <1>1, <1>2, StampsGo
<1>4. /\ faults' \in 0..MaxFaults /\ leased' \subseteq Lane
      /\ heads' = heads /\ open' = open \ {w}
      /\ page' = [page EXCEPT ![w] = <<>>] /\ claims' = [claims EXCEPT ![w] = {}]
  BY <1>1, RotationAssumption DEF Rollback, TypeOK
<1> QED
  BY <1>1, <1>3, <1>4, EndKeepsInv

LEMMA CommitKeepsInv ==
  ASSUME RotationInv, NEW w \in Worker, Commit(w)
  PROVE  RotationInv'
<1>1. TypeOK /\ order' = Settled(Stamps(w)) /\ lock' = Unlocked(w)
  BY DEF RotationInv, Commit
<1>2. Chain(order') /\ Anchored(order', lock') /\ Steady(order')
  <2>1. /\ Stamps(w) \in SUBSET Entries /\ \A s \in Stamps(w) : s.by # None
        /\ Holders(Stamps(w), lock')
    BY <1>1, StampsAreHeld
  <2> QED
    BY <1>1, <2>1, StampsSettle
<1>3. /\ page' = [page EXCEPT ![w] = <<>>] /\ leased' \subseteq Lane
      /\ heads' = heads /\ faults' \in 0..MaxFaults
      /\ open' = open \ {w} /\ claims' = [claims EXCEPT ![w] = {}]
  BY <1>1 DEF Commit, TypeOK
<1> QED
  BY <1>1, <1>2, <1>3, EndKeepsInv

LEMMA NextKeepsInv ==
  ASSUME RotationInv, [Next]_vars
  PROVE  RotationInv'
<1>1. ASSUME NEW l \in Lane,
             Materialize(l) \/ RenewLock(l) \/ Release(l) \/ Resolve(l) \/ EndLease(l)
      PROVE  RotationInv'
  BY <1>1, MaterializeKeepsInv, ReleaseKeepsInv, HeadsKeepInv
<1>2. ASSUME NEW w \in Worker, Acquire(w) \/ Rollback(w)
      PROVE  RotationInv'
  BY <1>2, BeginKeepsInv, ExamineKeepsInv, CommitKeepsInv, RollbackKeepsInv DEF Acquire
<1>3. CASE UNCHANGED vars
  <2>1. UNCHANGED <<order, lock, open, page, claims, leased, heads, faults>>
    BY <1>3 DEF vars
  <2>2. TypeOK'
    BY <2>1, TypeIsChain, TypeIsChainNext DEF RotationInv
  <2> QED
    BY <2>1, <2>2, PagesStay, StaysSteady DEF RotationInv
<1> QED
  BY <1>1, <1>2, <1>3 DEF Next

-----------------------------------------------------------------------------
(* The theorems.                                                           *)

\* The inductive invariant holds of every run of acquire_heads.
THEOREM RotationInvariant == Spec => []RotationInv
<1>1. Init => RotationInv
  BY InitRotationInv
<1>2. RotationInv /\ [Next]_vars => RotationInv'
  BY NextKeepsInv
<1> QED
  BY <1>1, <1>2, PTL DEF Spec

\* The column last_examined_at orders all lanes, with at most one committed value
\* each, and a lane is stamped only by the transaction that holds its row.
THEOREM RotationTypeCorrect == Spec => []TypeOK
<1>1. RotationInv => TypeOK
  BY DEF RotationInv
<1> QED
  BY <1>1, RotationInvariant, PTL

\* A lane comes after another, which it was not behind, only when its own stamp is
\* committed.
LEMMA CommitPutsBehind ==
  ASSUME RotationInv, NEW done \in SUBSET Entries, \A s \in done : s.by # None,
         NEW l \in Lane, NEW m \in Lane, m # l, Registered(l),
         \A s \in done : s.lane # l,
         NEW e \in {Committed(m), Stamp(Insertion, m)},
         <<e, Committed(l)>> \in Settled(done)
  PROVE  \E f \in {Committed(m), Stamp(Insertion, m)} : <<f, Committed(l)>> \in order
<1> DEFINE K == Entries \ {Committed(s.lane) : s \in done}
           Q == Settled(done)
<1>1. Chain(order) /\ Anchored(order, lock) /\ Entries = Ent(order)
  BY TypeIsChain, WrittenIsEnt DEF RotationInv
<1>2. /\ Chain(Q)
      /\ \A x : x \in Ent(Q) <=> \E v \in K : x = Kept(done, v)
      /\ \A v, u \in K : <<Kept(done, v), Kept(done, u)>> \in Q <=> <<v, u>> \in order
  BY SettledIsRenamed
<1>3. PICK v \in K, u \in K : e = Kept(done, v) /\ Committed(l) = Kept(done, u)
  BY <1>2, PairsAreEntries
<1>4. <<v, u>> \in order /\ v \in Entry /\ u \in Entry
  BY <1>2, <1>3 DEF Entries
<1>5. u = Committed(l)
  BY <1>3, ValuesSettle
<1>6. CASE v \in done
  <2>1. e = Committed(v.lane) /\ v.lane \in Lane
    BY <1>3, <1>4, <1>6, EntriesDiffer DEF Kept
  <2>2. v.lane = m
    BY <2>1, EntriesDiffer DEF Writer
  <2>3. CASE v.by = Insertion
    BY <1>4, <1>5, <2>2, <2>3, EntriesDiffer
  <2>4. CASE v.by # Insertion
    <3>1. <<Committed(m), v>> \in order
      BY <1>1, <1>6, <2>2, <2>4 DEF Anchored
    <3>2. Committed(m) \in Ent(order) /\ v \in Ent(order) /\ Committed(l) \in Ent(order)
      BY <1>1, <1>4, <1>5, <3>1, PairsAreEntries
    <3>3. <<Committed(m), Committed(l)>> \in order
      BY <1>1, <1>4, <1>5, <3>1, <3>2 DEF Chain
    <3> QED
      BY <3>3
  <2> QED
    BY <2>3, <2>4
<1>7. CASE v \notin done
  <2>1. v = e
    BY <1>3, <1>7 DEF Kept
  <2> QED
    BY <1>4, <1>5, <2>1
<1> QED
  BY <1>6, <1>7

\* No insertion, no rollback and no acquisition of others costs a lane its turn:
\* it falls behind another, even one that is still being inserted, only when the
\* transaction that examined it commits.
THEOREM TurnsAreKept == Spec => TurnIsLostOnlyByCommit
<1>1. ASSUME RotationInv, [Next]_vars, NEW l \in Lane,
             Registered(l), ~(Turn(l)' \subseteq Turn(l))
      PROVE  \E w \in Worker : lock[l] = w /\ w \notin open' /\ page[w] = <<>>
  <2>1. Chain(order) /\ Anchored(order, lock) /\ Entries = Ent(order)
    BY <1>1, TypeIsChain, WrittenIsEnt DEF RotationInv
  <2>2. PICK m \in Lane \ {l} :
          /\ \E e \in {Committed(m), Stamp(Insertion, m)} : <<e, Committed(l)>> \in order'
          /\ \A e \in {Committed(m), Stamp(Insertion, m)} : <<e, Committed(l)>> \notin order
    BY <1>1 DEF Turn, Committed, Stamp
  <2>3. PICK e \in {Committed(m), Stamp(Insertion, m)} :
          <<e, Committed(l)>> \in order' /\ <<e, Committed(l)>> \notin order
    BY <2>2
  <2>4. order' # order /\ ~(order' \subseteq order)
    BY <2>3
  <2>5. \A w \in Writer, n \in Lane : Stamp(w, n) # Committed(l)
    BY EntriesDiffer
  <2>6. ASSUME NEW n \in Lane, Materialize(n)
        PROVE  FALSE
    <3>1. order' = Latest(Stamp(Insertion, n))
      BY <2>4, <2>6 DEF Materialize
    <3>2. Committed(l) = Stamp(Insertion, n)
      BY <2>3, <3>1 DEF Latest
    <3> QED
      BY <2>5, <3>2 DEF Writer
  <2>7. ASSUME NEW n \in Lane, CommitMaterialize(n)
        PROVE  FALSE
    <3> DEFINE done == Entries \cap {Stamp(Insertion, n)}
    <3>1. order' = Settled(done)
      BY <2>7 DEF CommitMaterialize
    <3>2. done \in SUBSET Entries /\ \A s \in done : s.by # None
      BY EntriesDiffer DEF Writer
    <3>3. \A s \in done : s.lane # l
      <4> SUFFICES ASSUME NEW s \in done, s.lane = l PROVE FALSE
        OBVIOUS
      <4>1. s.by = Insertion /\ s \in Ent(order)
        BY <2>1, EntriesDiffer DEF Writer
      <4> QED
        BY <1>1, <2>1, <4>1, WrittenIsEnt DEF Anchored
    <3> HIDE DEF done
    <3> QED
      BY <1>1, <2>2, <2>3, <3>1, <3>2, <3>3, CommitPutsBehind
  <2>8. ASSUME NEW w \in Worker, Examine(w)
        PROVE  FALSE
    <3>1. Committed(l) = Stamp(w, Head(page[w]))
      BY <2>3, <2>8 DEF Examine, Latest
    <3> QED
      BY <3>1, RotationAssumption DEF Committed, Stamp
  <2>9. ASSUME NEW w \in Worker, Rollback(w)
        PROVE  FALSE
    BY <2>4, <2>9 DEF Rollback, Among
  <2>10. ASSUME NEW w \in Worker, Commit(w)
         PROVE  lock[l] = w /\ w \notin open' /\ page[w] = <<>>
    <3>1. order' = Settled(Stamps(w))
      BY <2>10 DEF Commit
    <3>2. Stamps(w) \in SUBSET Entries /\ \A s \in Stamps(w) : s.by # None
      BY <1>1, <2>10, StampsAreHeld DEF Commit
    <3>3. PICK s \in Stamps(w) : s.lane = l
      BY <1>1, <2>2, <2>3, <3>1, <3>2, CommitPutsBehind
    <3>4. lock[l] = w
      BY <2>1, <3>2, <3>3 DEF Anchored, Stamps
    <3> QED
      BY <2>10, <3>4 DEF Commit
  <2>11. ASSUME NEW n \in Lane, RollbackMaterialize(n)
         PROVE  FALSE
    BY <2>4, <2>11 DEF RollbackMaterialize, Among
  <2> QED
    BY <1>1, <2>4, <2>6, <2>7, <2>8, <2>9, <2>10, <2>11
    DEF Next, Acquire, Begin, Release, RenewLock, RenewUnlock, Resolve, EndLease, vars
<1>2. RotationInv /\ [Next]_vars =>
        [\A l \in Lane : Registered(l) /\ ~(Turn(l)' \subseteq Turn(l)) =>
           \E w \in Worker : lock[l] = w /\ w \notin open' /\ page[w] = <<>>]_vars
  BY <1>1
<1> QED
  BY <1>2, RotationInvariant, PTL DEF Spec, TurnIsLostOnlyByCommit

=============================================================================
