---------------------------- MODULE FencedLease ----------------------------
(***************************************************************************)
(* What delivery leasing promises: in every lane at most one item is       *)
(* leased at a time, every lease carries a token its item never had        *)
(* before, and nobody but time and the owner ends it.  One step may grant  *)
(* or end the leases of several lanes.                                     *)
(***************************************************************************)
EXTENDS Naturals

CONSTANTS Worker, Lane, Item, LaneOf, NoLease

VARIABLES lease,   \* of each lane: [owner, item, token], or NoLease
          issued   \* the last token of each item

vars == <<lease, issued>>

Init ==
  /\ lease = [l \in Lane |-> NoLease]
  /\ issued = [i \in Item |-> 0]

Grant(w, i) ==
  /\ lease[LaneOf[i]] = NoLease
  /\ issued'[i] = issued[i] + 1
  /\ lease'[LaneOf[i]] = [owner |-> w, item |-> i, token |-> issued'[i]]

\* The owner completes its claim, or the lease expires.
End(l) == lease[l] # NoLease /\ lease'[l] = NoLease

Next ==
  /\ \A l \in Lane : \/ lease'[l] = lease[l]
                     \/ End(l)
                     \/ \E w \in Worker, i \in Item : LaneOf[i] = l /\ Grant(w, i)
  /\ \A i \in Item : issued'[i] = issued[i] \/ \E w \in Worker : Grant(w, i)

Spec == Init /\ [][Next]_vars
=============================================================================
