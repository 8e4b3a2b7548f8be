---------------------------- MODULE MCWebSocket -----------------------------
(***************************************************************************)
(* A small instance of WebSocket for a peer that goes away in the middle   *)
(* of a payload (the others are in MCReceives).                            *)
(***************************************************************************)
EXTENDS WebSocket

Cut == {"cut"}
=============================================================================
