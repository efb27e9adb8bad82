------------------------ MODULE WebSocketBroadcast -------------------------
(***************************************************************************)
(* WebSocket connections of one legacy application instance: the           *)
(* ConnectionManager (src/app/websockets/manager.py), the endpoint         *)
(* coroutine of each connection (src/app/api/websocket.py), the cleanup    *)
(* task (src/app/workers/cleanup.py) and the broadcasts of the dispatcher  *)
(* and of the internal endpoint.                                           *)
(*                                                                         *)
(* Coroutines of one event loop interleave at awaits only, so an action is *)
(* what runs from one await to the next.  active_connections and           *)
(* connection_metadata change together and are the set registered.  A      *)
(* client stands for one connection: its id is a fresh UUID.               *)
(***************************************************************************)
EXTENDS Naturals, FiniteSets

CONSTANTS
  Client,
  Broadcaster,     \* tasks that broadcast: the dispatcher, internal requests
  IdleLimit,       \* heartbeat_interval * 2, in ticks
  StaleLimit       \* connection_timeout, in ticks

ASSUME ConstantsAssumption ==
  /\ IdleLimit \in Nat
  /\ StaleLimit \in Nat

VARIABLES
  endpoint,        \* what the coroutine of each connection awaits
  gone,            \* clients that are closed, or whose peer is: a send may raise
  registered,
  idle,            \* ticks the endpoint has waited for a message
  age,             \* ticks since last_ping, 0 without metadata
  broadcasting,
  todo,            \* recipients of the snapshot not yet sent to
  counted,         \* successful_sends
  failed,          \* failed_clients
  reached,         \* history: whose socket took the message
  steady           \* history: connected, and there, since the broadcast began

connections == <<endpoint, gone, registered, idle, age>>
broadcasts == <<broadcasting, todo, counted, failed, reached>>
vars == <<connections, broadcasts, steady>>

Init ==
  /\ endpoint = [c \in Client |-> "absent"]
  /\ gone = {}
  /\ registered = {}
  /\ idle = [c \in Client |-> 0]
  /\ age = [c \in Client |-> 0]
  /\ broadcasting = {}
  /\ todo = [b \in Broadcaster |-> {}]
  /\ counted = [b \in Broadcaster |-> {}]
  /\ failed = [b \in Broadcaster |-> {}]
  /\ reached = [b \in Broadcaster |-> {}]
  /\ steady = [b \in Broadcaster |-> {}]

\* Whoever leaves during a broadcast is not steady.
Observe == steady' = [b \in Broadcaster |-> (steady[b] \cap registered') \ gone']

EndpointStep == Observe /\ UNCHANGED broadcasts

\* Mutant: the socket is closed first, which raises if its peer has vanished.
DisconnectAfterClosing(clients) ==
  /\ registered' = registered \ (clients \ gone)
  /\ age' = [c \in Client |-> IF c \in clients \ gone THEN 0 ELSE age[c]]

\* disconnect removes a connection and its metadata.
Disconnect(clients) ==
  /\ registered' = registered \ clients
  /\ age' = [c \in Client |-> IF c \in clients THEN 0 ELSE age[c]]

-----------------------------------------------------------------------------
(* The endpoint of a connection.                                           *)

Open(c) ==
  /\ endpoint[c] = "absent"
  /\ endpoint' = [endpoint EXCEPT ![c] = "accepting"]
  /\ UNCHANGED <<gone, registered, idle, age>>
  /\ EndpointStep

\* websocket.accept returns: the connection is registered, and greeted.
Register(c) ==
  /\ endpoint[c] = "accepting"
  /\ endpoint' = [endpoint EXCEPT ![c] = "greeting"]
  /\ registered' = registered \cup {c}
  /\ UNCHANGED <<gone, idle, age>>
  /\ EndpointStep

\* The message of send_to_client is out, or raised: a failure, also that of the
\* metadata lookup, disconnects, and the endpoint goes on to receive.
Greeted(c) ==
  /\ endpoint[c] = "greeting"
  /\ endpoint' = [endpoint EXCEPT ![c] = "receiving"]
  /\ \/ UNCHANGED <<registered, age>>
     \/ c \in gone /\ Disconnect({c})
  /\ UNCHANGED <<gone, idle>>
  /\ EndpointStep

ReceivePing(c) ==
  /\ endpoint[c] = "receiving"
  /\ c \notin gone
  /\ endpoint' = [endpoint EXCEPT ![c] = "ponging"]
  /\ idle' = [idle EXCEPT ![c] = 0]
  /\ UNCHANGED <<gone, registered, age>>
  /\ EndpointStep

\* Mutant: touch puts back a connection it does not find.
TouchOrRegister(c) == age' = [age EXCEPT ![c] = 0] /\ registered' = registered \cup {c}

\* touch does nothing to a connection without metadata.
Touch(c) == age' = [age EXCEPT ![c] = 0] /\ UNCHANGED registered

\* The pong is out.
Ponged(c) ==
  /\ endpoint[c] = "ponging"
  /\ endpoint' = [endpoint EXCEPT ![c] = "receiving"]
  /\ Touch(c)
  /\ UNCHANGED <<gone, idle>>
  /\ EndpointStep

\* "subscribe:" and anything else only restarts the wait.
ReceiveOther(c) ==
  /\ endpoint[c] = "receiving"
  /\ c \notin gone
  /\ idle' = [idle EXCEPT ![c] = 0]
  /\ UNCHANGED <<endpoint, gone, registered, age>>
  /\ EndpointStep

\* The finally branch.
Close(c) ==
  /\ endpoint' = [endpoint EXCEPT ![c] = "closed"]
  /\ gone' = gone \cup {c}
  /\ idle' = [idle EXCEPT ![c] = 0]
  /\ Disconnect({c})
  /\ EndpointStep

\* accept, the pong or receive_text raises, the last also on a binary message.
Raise(c) ==
  /\ \/ endpoint[c] = "receiving"
     \/ endpoint[c] \in {"accepting", "ponging"} /\ c \in gone
  /\ Close(c)

\* asyncio.wait_for gives up and the loop breaks.
TimeOut(c) ==
  /\ endpoint[c] = "receiving"
  /\ idle[c] = IdleLimit
  /\ Close(c)

-----------------------------------------------------------------------------
(* The cleanup task, and what happens around the application.              *)

Stale == {c \in registered : age[c] > StaleLimit}

\* cleanup_stale_connections forgets a connection and leaves its socket open.
Cleanup ==
  /\ Stale # {}
  /\ Disconnect(Stale)
  /\ UNCHANGED <<endpoint, gone, idle>>
  /\ EndpointStep

\* A client closes, or its network does.
Vanish(c) ==
  /\ endpoint[c] \notin {"absent", "closed"}
  /\ c \notin gone
  /\ gone' = gone \cup {c}
  /\ UNCHANGED <<endpoint, registered, idle, age>>
  /\ EndpointStep

\* Clocks stop where nothing tells later times apart.
Tick ==
  /\ idle' = [c \in Client |-> IF endpoint[c] = "receiving" /\ idle[c] < IdleLimit
                                 THEN idle[c] + 1 ELSE idle[c]]
  /\ age' = [c \in Client |-> IF c \in registered /\ age[c] <= StaleLimit
                                THEN age[c] + 1 ELSE age[c]]
  /\ UNCHANGED <<endpoint, gone, registered>>
  /\ EndpointStep

-----------------------------------------------------------------------------
(* broadcast.                                                              *)

\* The snapshot of the connections; a broadcast without any returns 0 at once.
Begin(b) ==
  /\ b \notin broadcasting
  /\ registered # {}
  /\ broadcasting' = broadcasting \cup {b}
  /\ todo' = [todo EXCEPT ![b] = registered]
  /\ steady' = [steady EXCEPT ![b] = registered \ gone]
  /\ UNCHANGED <<connections, counted, failed, reached>>

\* Mutant: a failed recipient ends the loop.
NobodyElse(b, c) == {}

\* Who is still sent to after a failure.
Others(b, c) == todo[b] \ {c}

\* The message count is kept with the metadata, which may be gone by now: then
\* the KeyError makes a failure of what was sent.
Count(b, c) ==
  IF c \in registered
    THEN counted' = [counted EXCEPT ![b] = @ \cup {c}] /\ UNCHANGED failed
    ELSE failed' = [failed EXCEPT ![b] = @ \cup {c}] /\ UNCHANGED counted

Deliver(b, c) ==
  /\ c \in todo[b]
  /\ todo' = [todo EXCEPT ![b] = @ \ {c}]
  /\ reached' = [reached EXCEPT ![b] = @ \cup {c}]
  /\ Count(b, c)
  /\ UNCHANGED <<connections, broadcasting, steady>>

DeliveryRaises(b, c) ==
  /\ c \in todo[b]
  /\ c \in gone
  /\ todo' = [todo EXCEPT ![b] = Others(b, c)]
  /\ failed' = [failed EXCEPT ![b] = @ \cup {c}]
  /\ UNCHANGED <<connections, broadcasting, counted, reached, steady>>

\* The failed clients are disconnected and the count is returned; the
\* dispatcher marks its event delivered whatever the count is.
Finish(b) ==
  /\ b \in broadcasting
  /\ todo[b] = {}
  /\ broadcasting' = broadcasting \ {b}
  /\ Disconnect(failed[b])
  /\ counted' = [counted EXCEPT ![b] = {}]
  /\ failed' = [failed EXCEPT ![b] = {}]
  /\ reached' = [reached EXCEPT ![b] = {}]
  /\ steady' = [a \in Broadcaster |-> IF a = b THEN {} ELSE steady[a] \cap registered']
  /\ UNCHANGED <<endpoint, gone, idle, todo>>

-----------------------------------------------------------------------------
Endpoint(c) ==
  Open(c) \/ Register(c) \/ Greeted(c) \/ Ponged(c) \/ TimeOut(c)

Send(b) == \E c \in Client : Deliver(b, c) \/ DeliveryRaises(b, c)

Next ==
  \/ \E c \in Client : \/ Endpoint(c) \/ Raise(c) \/ Vanish(c)
                       \/ ReceivePing(c) \/ ReceiveOther(c)
  \/ \E b \in Broadcaster : Begin(b) \/ Send(b) \/ Finish(b)
  \/ Cleanup
  \/ Tick

Spec == Init /\ [][Next]_vars

\* Coroutines that can run do, and time passes; clients do as they please, and
\* nobody has to notice that one has vanished.
FairSpec ==
  /\ Spec
  /\ WF_vars(Tick)
  /\ WF_vars(Cleanup)
  /\ \A c \in Client : WF_vars(Register(c) \/ Greeted(c) \/ Ponged(c) \/ TimeOut(c))
  /\ \A b \in Broadcaster : WF_vars(Send(b)) /\ WF_vars(Finish(b))

-----------------------------------------------------------------------------
(* Properties.                                                             *)

\* Every connection the manager keeps has an endpoint that will remove it: no
\* order of disconnects, failures and cleanups leaves an entry behind.
NoEntryIsLeaked ==
  \A c \in registered : endpoint[c] \in {"greeting", "receiving", "ponging"}

\* The count of a broadcast never exceeds the sockets that took the message, and
\* falls short only by clients that were disconnected while it was sent.
CountIsHonest ==
  \A b \in Broadcaster :
    /\ counted[b] \subseteq reached[b]
    /\ (reached[b] \ counted[b]) \cap registered = {}

\* When a broadcast returns, and its event is marked delivered, everybody who
\* was connected all the while has the message; it has reached nobody only if
\* nobody was.
SteadyClientsAreReached ==
  \A b \in broadcasting : todo[b] = {} => steady[b] \subseteq counted[b]

\* A client that has vanished is forgotten, even if its socket never says so
\* (the receive timeout and the cleanup of stale connections).
VanishedIsForgotten ==
  \A c \in Client : c \in gone ~> c \notin registered
=============================================================================
