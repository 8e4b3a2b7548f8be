------------------------------ MODULE MCSends -------------------------------
(***************************************************************************)
(* The write sides of the two transports of the server, Unix and web       *)
(* sockets: a behaviour is that of one connection, of one of the two.  The *)
(* side that is not chosen keeps its initial state.                        *)
(***************************************************************************)
EXTENDS UnixSocketSend, WebSocket

VARIABLE side       \* what the behaviour is about

mcVars == <<side, vars, wsVars>>

FullOrShort == {{"full"}, {"full", "nomem"}}
Slow == {"slow"}

UnixIdle ==
    env = {} /\ usc = NewClient /\ endpoint = "ready" /\ peer = "up" /\ phase = "open"

OnUnix(A) == side = "unix" /\ A /\ UNCHANGED <<side, wsVars>>
OnWeb(A) == side = "web" /\ A /\ UNCHANGED <<side, vars>>

SendsInit ==
    \/ side = "unix" /\ Init /\ WsInit
    \/ side = "web" /\ UnixIdle /\ WsInit
SendsNext == OnUnix(Next) \/ OnWeb(WsNext)

\* With the fairness of UnixSocketSend.
SendsSpec == SendsInit /\ [][SendsNext]_mcVars /\ WF_mcVars(OnUnix(HandleWrites))
=============================================================================
