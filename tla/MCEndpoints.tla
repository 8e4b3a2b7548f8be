---------------------------- MODULE MCEndpoints -----------------------------
(***************************************************************************)
(* Small instances of Endpoints for TLC.  The C constants 90, 30, 10 and 5 *)
(* seconds become 1, 0, 2 and 1: an endpoint silent for a second is pinged *)
(* and not removed, one silent for two is removed by a sweep of its        *)
(* period, and in the other seconds the dangling sweep is due instead.     *)
(***************************************************************************)
EXTENDS Endpoints, TLC

NoLiberty == {{}}
Once == {{}, {"duplicate"}}     \* one startSession per connection
All == {AllLiberties}

\* Endpoints and names are only compared for equality, and the one CHOOSE of
\* the specification is over a set of at most one element.
Symmetry == Permutations(Endpoint) \cup Permutations(Name)
=============================================================================
