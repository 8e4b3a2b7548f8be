----------------------------- MODULE WebClients -----------------------------
(***************************************************************************)
(* The client of a web socket before and around its frames: one TLS        *)
(* connection (WebSocketTls) and one handshake (HttpHead), side by side.   *)
(* The frames are the matter of WebSocket.                                 *)
(***************************************************************************)
EXTENDS WebSocketTls, HttpHead

\* What is queued for a client of the TLS web socket survives its callbacks; and a
\* request for a web socket is accepted when it has come whole if and only if it
\* may be, however it is cut into reads.
WebClientsSound == QueueSurvives /\ HandshakeDecided
=============================================================================
