----------------------------- MODULE SendStream -----------------------------
(***************************************************************************)
(* What the write side of a connection promises, whatever the transport:   *)
(* the bytes the server writes wait until the kernel takes them, all of    *)
(* them, each once and in order; when the connection breaks, nothing more  *)
(* is sent.  The transports are checked to implement this under a          *)
(* refinement mapping.                                                     *)
(***************************************************************************)
EXTENDS SequencesExt

VARIABLES
    accepted,   \* the bytes the server has written on this connection
    delivered,  \* those the kernel has taken
    waiting,    \* those it has not
    state       \* "open", "broken", or "closed"

streamVars == <<accepted, delivered, waiting, state>>

Start ==
    /\ accepted = <<>>
    /\ delivered = <<>>
    /\ waiting = <<>>
    /\ state = "open"

\* A callback may write and flush, and close the connection (or find it broken
\* and close it) at its end.
Transfer ==
    /\ state = "open"
    /\ state' \in {"open", "broken", "closed"}
    /\ IsPrefix(accepted, accepted')
    /\ IsPrefix(delivered, delivered')
    /\ IF state' = "open"
       THEN accepted' = delivered' \o waiting'
       ELSE IsPrefix(delivered', accepted')

\* The callers may not know yet that the connection is broken.
GiveUp ==
    /\ state = "broken"
    /\ state' \in {"broken", "closed"}
    /\ IsPrefix(accepted, accepted')
    /\ UNCHANGED delivered

Reconnect == state = "closed" /\ Start'

StreamNext == Transfer \/ GiveUp \/ Reconnect

StreamSpec == Start /\ [][StreamNext]_streamVars
=============================================================================
