----------------------------- MODULE MCRenderer -----------------------------
(***************************************************************************)
(* Small instances of Renderer: two endpoint names of one application.     *)
(***************************************************************************)
EXTENDS Renderer

CONSTANTS n1, n2, app

SameApp == [n \in Names |-> app]
EachLiberty == {{}, {"endings"}, {"restarts"}, {"dups", "blank"}}
Endings == {{"endings"}}

\* Two requests are enough where a session is forgotten: one pended before, one after.
TwoOrThree == [e \in EachLiberty |-> IF "restarts" \in e THEN 2 ELSE 3]
Two == [e \in Endings |-> 2]
=============================================================================
