---------------------- MODULE WebSocketBroadcastProofs ----------------------
(***************************************************************************)
(* The safety of WebSocketBroadcast for any number of connections and      *)
(* broadcasters and any timeouts.                                          *)
(*                                                                         *)
(* NoEntryIsLeaked is inductive with the type invariant.  CountIsHonest    *)
(* needs that whoever was sent to has been registered before and cannot    *)
(* be again (Snapshot), and SteadyClientsAreReached that a steady client   *)
(* is registered and there, and either waits for the message or was        *)
(* counted (Steady).                                                       *)
(***************************************************************************)
EXTENDS WebSocketBroadcast, TLAPS

TypeInv ==
  /\ endpoint \in [Client -> {"absent", "accepting", "greeting", "receiving",
                              "ponging", "closed"}]
  /\ registered \subseteq Client
  /\ broadcasting \subseteq Broadcaster
  /\ todo \in [Broadcaster -> SUBSET Client]
  /\ counted \in [Broadcaster -> SUBSET Client]
  /\ failed \in [Broadcaster -> SUBSET Client]
  /\ reached \in [Broadcaster -> SUBSET Client]
  /\ steady \in [Broadcaster -> SUBSET Client]

\* Who has been registered once.
Known == {c \in Client : endpoint[c] \notin {"absent", "accepting"}}

\* A broadcast sends to those of its snapshot only, and starts with nothing.
Snapshot ==
  \A b \in Broadcaster :
    /\ todo[b] \cup reached[b] \subseteq Known
    /\ b \notin broadcasting => todo[b] \cup counted[b] \cup reached[b] = {}

Steady ==
  \A b \in Broadcaster :
    /\ steady[b] \subseteq registered \ gone
    /\ b \in broadcasting => steady[b] \subseteq todo[b] \cup counted[b]

Inv == TypeInv /\ NoEntryIsLeaked /\ CountIsHonest /\ Snapshot /\ Steady

-----------------------------------------------------------------------------
\* What an endpoint, the cleanup, a client or the clock does to the broadcasts:
\* the rest of Inv is about registered, gone and endpoint.
Around ==
  /\ UNCHANGED <<broadcasting, todo, counted, failed, reached>>
  /\ steady' = [b \in Broadcaster |-> (steady[b] \cap registered') \ gone']

\* A step that registers nobody new, but perhaps one that was accepting, keeps Inv
\* if it leaves no entry behind.
LEMMA AroundKeepsInv ==
  ASSUME Inv, Around, endpoint' \in [Client -> {"absent", "accepting", "greeting",
                                       "receiving", "ponging", "closed"}],
         NoEntryIsLeaked', registered' \subseteq Client, Known \subseteq Known',
         registered' \cap Known \subseteq registered
  PROVE  Inv'
<1>1. TypeInv'
  BY DEF Inv, TypeInv, Around
<1>2. CountIsHonest'
  <2> SUFFICES ASSUME NEW b \in Broadcaster
               PROVE  /\ counted[b] \subseteq reached[b]
                      /\ (reached[b] \ counted[b]) \cap registered' = {}
    BY DEF CountIsHonest, Around
  <2>1. /\ counted[b] \subseteq reached[b]
        /\ (reached[b] \ counted[b]) \cap registered = {}
        /\ reached[b] \subseteq Known
    BY DEF Inv, CountIsHonest, Snapshot
  <2> QED
    BY <2>1
<1>3. Snapshot'
  <2> SUFFICES ASSUME NEW b \in Broadcaster
               PROVE  /\ todo[b] \cup reached[b] \subseteq Known'
                      /\ b \notin broadcasting => todo[b] \cup counted[b] \cup reached[b] = {}
    BY DEF Snapshot, Around
  <2> QED
    BY DEF Inv, Snapshot
<1>4. Steady'
  <2> SUFFICES ASSUME NEW b \in Broadcaster
               PROVE  /\ steady'[b] \subseteq registered' \ gone'
                      /\ b \in broadcasting => steady'[b] \subseteq todo[b] \cup counted[b]
    BY DEF Steady, Around
  <2>1. steady'[b] = (steady[b] \cap registered') \ gone'
    BY DEF Around
  <2> QED
    BY <2>1 DEF Inv, Steady
<1> QED
  BY <1>1, <1>2, <1>3, <1>4 DEF Inv

\* A step of one connection moves its endpoint within or into the known states,
\* and whoever is registered afterwards has an endpoint that will remove it.
LEMMA EndpointKeepsInv ==
  ASSUME Inv, Around, NEW c \in Client,
         NEW s \in {"accepting", "greeting", "receiving", "ponging", "closed"},
         endpoint' = [endpoint EXCEPT ![c] = s],
         s = "accepting" => endpoint[c] = "absent",
         registered' \subseteq registered \cup {c},
         c \in registered' => s \in {"greeting", "receiving", "ponging"},
         c \in registered' \ registered => endpoint[c] = "accepting"
  PROVE  Inv'
<1>1. endpoint' \in [Client -> {"absent", "accepting", "greeting", "receiving",
                                "ponging", "closed"}]
  BY DEF Inv, TypeInv
<1>2. NoEntryIsLeaked'
  BY DEF Inv, TypeInv, NoEntryIsLeaked
<1>3. registered' \subseteq Client
  BY DEF Inv, TypeInv
<1>4. Known \subseteq Known'
  BY DEF Inv, TypeInv, Known
<1>5. registered' \cap Known \subseteq registered
  BY DEF Known
<1> QED
  BY <1>1, <1>2, <1>3, <1>4, <1>5, AroundKeepsInv

\* A step that moves no endpoint and registers nobody.
LEMMA DepartureKeepsInv ==
  ASSUME Inv, Around, endpoint' = endpoint, registered' \subseteq registered
  PROVE  Inv'
<1>1. NoEntryIsLeaked' /\ registered' \subseteq Client
  BY DEF Inv, TypeInv, NoEntryIsLeaked
<1>2. endpoint' \in [Client -> {"absent", "accepting", "greeting", "receiving",
                                "ponging", "closed"}]
  BY DEF Inv, TypeInv
<1>3. Known' = Known
  BY DEF Known
<1> QED
  BY <1>1, <1>2, <1>3, AroundKeepsInv

LEMMA CloseKeepsInv ==
  ASSUME Inv, NEW c \in Client, endpoint[c] # "absent", Close(c)
  PROVE  Inv'
<1>1. Around
  BY DEF Close, EndpointStep, Observe, Around, broadcasts
<1>2. endpoint' = [endpoint EXCEPT ![c] = "closed"] /\ registered' = registered \ {c}
  BY DEF Close, Disconnect
<1> QED
  BY <1>1, <1>2, EndpointKeepsInv

-----------------------------------------------------------------------------
\* The steps of a broadcast.
LEMMA BeginKeepsInv ==
  ASSUME Inv, NEW b \in Broadcaster, Begin(b)
  PROVE  Inv'
<1> USE DEF Begin, connections
<1>1. TypeInv'
  BY DEF Inv, TypeInv
<1>2. NoEntryIsLeaked' /\ CountIsHonest'
  BY DEF Inv, NoEntryIsLeaked, CountIsHonest
<1>3. Snapshot'
  <2>1. registered \subseteq Known
    BY DEF Inv, TypeInv, NoEntryIsLeaked, Known
  <2>2. Known' = Known
    BY DEF Known
  <2> QED
    BY <2>1, <2>2 DEF Inv, TypeInv, Snapshot
<1>4. Steady'
  BY DEF Inv, TypeInv, Steady
<1> QED
  BY <1>1, <1>2, <1>3, <1>4 DEF Inv

LEMMA DeliverKeepsInv ==
  ASSUME Inv, NEW b \in Broadcaster, NEW c \in Client, Deliver(b, c)
  PROVE  Inv'
<1> USE DEF Deliver, Count, connections
<1>1. TypeInv'
  BY DEF Inv, TypeInv
<1>2. NoEntryIsLeaked'
  BY DEF Inv, NoEntryIsLeaked
<1>3. CountIsHonest'
  BY DEF Inv, TypeInv, CountIsHonest
<1>4. Snapshot'
  <2>1. Known' = Known
    BY DEF Known
  <2>2. b \in broadcasting /\ c \in Known
    BY DEF Inv, Snapshot
  <2> QED
    BY <2>1, <2>2 DEF Inv, TypeInv, Snapshot
<1>5. Steady'
  \* A steady client is registered, so that what it was sent is counted.
  BY DEF Inv, TypeInv, Steady
<1> QED
  BY <1>1, <1>2, <1>3, <1>4, <1>5 DEF Inv

LEMMA DeliveryRaisesKeepsInv ==
  ASSUME Inv, NEW b \in Broadcaster, NEW c \in Client, DeliveryRaises(b, c)
  PROVE  Inv'
<1> USE DEF DeliveryRaises, Others, connections
<1>1. TypeInv'
  BY DEF Inv, TypeInv
<1>2. NoEntryIsLeaked' /\ CountIsHonest'
  BY DEF Inv, NoEntryIsLeaked, CountIsHonest
<1>3. Snapshot'
  <2>1. Known' = Known
    BY DEF Known
  <2> QED
    BY <2>1 DEF Inv, TypeInv, Snapshot
<1>4. Steady'
  \* Who failed is gone, and a steady client is not.
  BY DEF Inv, TypeInv, Steady
<1> QED
  BY <1>1, <1>2, <1>3, <1>4 DEF Inv

LEMMA FinishKeepsInv ==
  ASSUME Inv, NEW b \in Broadcaster, Finish(b)
  PROVE  Inv'
<1>1. registered' \subseteq registered /\ Known' = Known
  BY DEF Finish, Disconnect, Known
<1>2. TypeInv'
  BY <1>1 DEF Inv, TypeInv, Finish
<1>3. NoEntryIsLeaked'
  BY <1>1 DEF Inv, NoEntryIsLeaked, Finish
<1>4. CountIsHonest'
  <2> SUFFICES ASSUME NEW a \in Broadcaster
               PROVE  /\ counted'[a] \subseteq reached'[a]
                      /\ (reached'[a] \ counted'[a]) \cap registered' = {}
    BY DEF CountIsHonest
  <2>1. CASE a = b
    BY <2>1 DEF Inv, TypeInv, Finish
  <2>2. CASE a # b
    BY <1>1, <2>2 DEF Inv, TypeInv, CountIsHonest, Finish
  <2> QED
    BY <2>1, <2>2
<1>5. Snapshot'
  BY <1>1 DEF Inv, TypeInv, Snapshot, Finish
<1>6. Steady'
  <2> SUFFICES ASSUME NEW a \in Broadcaster
               PROVE  /\ steady'[a] \subseteq registered' \ gone'
                      /\ a \in broadcasting' => steady'[a] \subseteq todo'[a] \cup counted'[a]
    BY DEF Steady
  <2>1. CASE a = b
    BY <2>1 DEF Inv, TypeInv, Finish
  <2>2. CASE a # b
    BY <2>2 DEF Inv, TypeInv, Steady, Finish
  <2> QED
    BY <2>1, <2>2
<1> QED
  BY <1>2, <1>3, <1>4, <1>5, <1>6 DEF Inv

-----------------------------------------------------------------------------
LEMMA InitHasInv ==
  Init => Inv
BY DEF Init, Inv, TypeInv, NoEntryIsLeaked, CountIsHonest, Snapshot, Steady

\* What one connection does by itself.
LEMMA ConnectionKeepsInv ==
  ASSUME Inv, NEW c \in Client,
         Endpoint(c) \/ Raise(c) \/ Vanish(c) \/ ReceivePing(c) \/ ReceiveOther(c)
  PROVE  Inv'
<1> USE DEF EndpointStep, Observe, Around, broadcasts
<1>1. CASE Open(c)
  <2> USE <1>1 DEF Open
  <2>1. Around /\ registered' = registered
    OBVIOUS
  <2>2. c \notin registered
    BY DEF Inv, NoEntryIsLeaked
  <2> QED
    BY <2>1, <2>2, EndpointKeepsInv
<1>2. CASE Register(c)
  BY <1>2, EndpointKeepsInv DEF Register
<1>3. CASE Greeted(c)
  <2>1. Around /\ registered' \subseteq registered
    BY <1>3 DEF Greeted, Disconnect
  <2> QED
    BY <1>3, <2>1, EndpointKeepsInv DEF Greeted
<1>4. CASE Ponged(c)
  <2>1. Around /\ registered' = registered
    BY <1>4 DEF Ponged, Touch
  <2> QED
    BY <1>4, <2>1, EndpointKeepsInv DEF Ponged
<1>5. CASE TimeOut(c)
  BY <1>5, CloseKeepsInv DEF TimeOut
<1>6. CASE Raise(c)
  BY <1>6, CloseKeepsInv DEF Raise
<1>7. CASE Vanish(c)
  BY <1>7, DepartureKeepsInv DEF Vanish
<1>8. CASE ReceivePing(c)
  BY <1>8, EndpointKeepsInv DEF ReceivePing
<1>9. CASE ReceiveOther(c)
  BY <1>9, DepartureKeepsInv DEF ReceiveOther
<1> QED
  BY <1>1, <1>2, <1>3, <1>4, <1>5, <1>6, <1>7, <1>8, <1>9 DEF Endpoint

LEMMA CleanupKeepsInv ==
  ASSUME Inv, Cleanup
  PROVE  Inv'
<1>1. Around /\ endpoint' = endpoint /\ registered' \subseteq registered
  BY DEF Cleanup, Disconnect, EndpointStep, Observe, Around, broadcasts
<1> QED
  BY <1>1, DepartureKeepsInv

LEMMA TickKeepsInv ==
  ASSUME Inv, Tick
  PROVE  Inv'
<1>1. Around /\ endpoint' = endpoint /\ registered' \subseteq registered
  BY DEF Tick, EndpointStep, Observe, Around, broadcasts
<1> QED
  BY <1>1, DepartureKeepsInv

LEMMA StepKeepsInv ==
  Inv /\ [Next]_vars => Inv'
<1> SUFFICES ASSUME Inv, [Next]_vars PROVE Inv'
  OBVIOUS
<1>1. CASE UNCHANGED vars
  BY <1>1 DEF vars, connections, broadcasts, Inv, TypeInv, NoEntryIsLeaked,
              CountIsHonest, Snapshot, Steady, Known
<1>2. CASE Next
  <2>1. ASSUME NEW c \in Client,
               Endpoint(c) \/ Raise(c) \/ Vanish(c) \/ ReceivePing(c) \/ ReceiveOther(c)
        PROVE  Inv'
    BY <2>1, ConnectionKeepsInv
  <2>2. ASSUME NEW b \in Broadcaster, Begin(b) \/ Send(b) \/ Finish(b)
        PROVE  Inv'
    BY <2>2, BeginKeepsInv, DeliverKeepsInv, DeliveryRaisesKeepsInv, FinishKeepsInv DEF Send
  <2>3. CASE Cleanup
    BY <2>3, CleanupKeepsInv
  <2>4. CASE Tick
    BY <2>4, TickKeepsInv
  <2> QED
    BY <1>2, <2>1, <2>2, <2>3, <2>4 DEF Next
<1> QED
  BY <1>1, <1>2

\* Connections, snapshots and what each broadcast has counted fit together at every
\* await of any number of endpoints and broadcasters (ConnectionManager).
THEOREM BroadcastInvariant ==
  Spec => []Inv
<1>1. Inv /\ [Next]_vars => Inv'
  BY StepKeepsInv
<1> QED
  BY InitHasInv, <1>1, PTL DEF Spec

\* No order of awaits leaves a connection in the manager that no endpoint will
\* remove (disconnect in the finally branch of the endpoint).
THEOREM NoEntryLeaks ==
  Spec => []NoEntryIsLeaked
BY BroadcastInvariant, PTL DEF Inv

\* successful_sends counts sockets that took the message, and misses only clients
\* that were disconnected meanwhile.
THEOREM HonestCount ==
  Spec => []CountIsHonest
BY BroadcastInvariant, PTL DEF Inv

\* When a broadcast has sent to its last recipient, everybody who was connected all
\* the while has the message.
THEOREM SteadyReached ==
  Spec => []SteadyClientsAreReached
<1>1. Inv => SteadyClientsAreReached
  <2> SUFFICES ASSUME Inv, NEW b \in broadcasting, todo[b] = {}
               PROVE  steady[b] \subseteq counted[b]
    BY DEF SteadyClientsAreReached
  <2> QED
    BY DEF Inv, TypeInv, Steady
<1> QED
  BY BroadcastInvariant, <1>1, PTL
=============================================================================
