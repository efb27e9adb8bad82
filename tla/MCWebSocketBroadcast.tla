----------------------- MODULE MCWebSocketBroadcast ------------------------
(* A finite instance of WebSocketBroadcast for TLC.                        *)
EXTENDS WebSocketBroadcast

CONSTANTS c1, c2, dispatcher, internal

TwoClients == {c1, c2}
TwoBroadcasters == {dispatcher, internal}
=============================================================================
