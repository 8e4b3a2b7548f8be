----------------------------- MODULE MCReceives -----------------------------
(***************************************************************************)
(* The read sides of the two transports of the server, Unix and web        *)
(* sockets: a behaviour is that of one connection, of one of the two.  The *)
(* side that is not chosen keeps its initial state.                        *)
(***************************************************************************)
EXTENDS UnixSocketReceive, WebSocket

VARIABLE side       \* what the behaviour is about

mcVars == <<side, vars, wsVars>>

\* A peer that keeps to the protocol and whose payloads arrive whole, and one
\* that does as it likes.
PeaceOrDisorder == {{}, {"disorder", "nomem", "split"}}
Wrong == {"wrong"}

UnixIdle ==
    /\ env = {} /\ usc = NewClient
    /\ link = <<>> /\ socket = <<>> /\ sent = <<>> /\ delivered = <<>>
    /\ frames = [data |-> 0, control |-> 0]
    /\ phase = "open"

OnUnix(A) == side = "unix" /\ A /\ UNCHANGED <<side, wsVars>>
OnWeb(A) == side = "web" /\ A /\ UNCHANGED <<side, vars>>

ReadsInit ==
    \/ side = "unix" /\ Init /\ WsInit
    \/ side = "web" /\ UnixIdle /\ WsInit
ReadsNext == OnUnix(Next) \/ OnWeb(WsNext)

\* With the fairness of UnixSocketReceive and of WebSocket.
ReadsSpec ==
    /\ ReadsInit /\ [][ReadsNext]_mcVars
    /\ WF_mcVars(OnUnix(HandleReads))
    /\ WF_mcVars(OnUnix(Network))
    /\ WF_mcVars(OnWeb(WsHandleReads))
    /\ WF_mcVars(OnWeb(WsHandleWrites))
    /\ WF_mcVars(OnWeb(WsNetwork))

-----------------------------------------------------------------------------
\* Every packet and message a peer has sent is handled in the end, or its
\* connection is closed; and a web socket whose peer has gone is closed.
AllServed == AllHandled /\ WsAllHandled /\ GoneIsClosed
=============================================================================
