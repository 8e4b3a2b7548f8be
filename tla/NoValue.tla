------------------------------- MODULE NoValue -------------------------------
(***************************************************************************)
(* NULL, and the other values that stand for nothing: shared by the        *)
(* modules that are checked side by side in MCServer.                      *)
(***************************************************************************)
CONSTANT Nil
=============================================================================
