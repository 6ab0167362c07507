------------------------- MODULE MCWebSocketSession -------------------------
(* WebSocketSession with a queue of two, which three commands overflow.    *)
EXTENDS WebSocketSession
=============================================================================
