------------------------ MODULE MCUnixSocketReceive ------------------------
(***************************************************************************)
(* A small instance of UnixSocketReceive for payloads that arrive in parts *)
(* (the others are in MCReceives).                                         *)
(***************************************************************************)
EXTENDS UnixSocketReceive

Split == {{"split"}}
=============================================================================
