---------------------------- MODULE WebSocketTls ----------------------------
(***************************************************************************)
(* One client of the web socket server with TLS: what the calls of OpenSSL *)
(* come to, the action that is left pending (sslstatus), and the callbacks *)
(* that take it up (websocket.c).  What is read and what is sent is the    *)
(* matter of WebSocket; here a read gives data or does not, and what is    *)
(* queued is counted.                                                      *)
(*                                                                         *)
(* OpenSSL leaves errno as it was when it does not call the system.  After *)
(* a cleanup there is no SSL structure; when it is used nevertheless the   *)
(* program crashes.                                                        *)
(***************************************************************************)
EXTENDS Naturals, FiniteSets, NoValue

CONSTANTS
    MaxTlsQueue,    \* bound on what is queued
    MaxDepth,       \* bound on the calls that are on the stack
    TlsLiberties    \* sets of "renegotiates", "breaks"

(***************************************************************************)
(* "renegotiates"  a read may want to write, and a write to read;           *)
(* "breaks"        the peer may go away.                                   *)
(***************************************************************************)
ASSUME TlsAssumption ==
    /\ MaxTlsQueue \in Nat /\ MaxDepth \in Nat
    /\ TlsLiberties \subseteq SUBSET {"renegotiates", "breaks"}

VARIABLES
    liberties,
    tls_client, \* the WSClient, see NewTlsClient
    call,       \* the callback that runs, how deep, and the events left
    dropped,    \* whether bytes that were queued have been forgotten
    crashed

tlsVars == <<liberties, tls_client, call, dropped, crashed>>

\* ssl: whether there is an SSL structure; accepted: whether SSL_accept was
\* successful; up: whether the peer is there.
NewTlsClient == [status |-> {}, sslstatus |-> {"ACCEPTING"}, ssl |-> FALSE, accepted |-> FALSE,
                 queue |-> 0, armed |-> FALSE, open |-> TRUE, up |-> TRUE]
Returned == [fn |-> Nil, depth |-> 0, events |-> {}]

TlsInit ==
    /\ liberties \in TlsLiberties
    /\ tls_client = NewTlsClient
    /\ call = Returned
    /\ dropped = FALSE /\ crashed = FALSE

-----------------------------------------------------------------------------
(***************************************************************************)
(* The calls of OpenSSL.                                                   *)
(***************************************************************************)
Results(c, other) ==
    (IF c.up THEN {"done", "again"} ELSE {"error"})
      \cup (IF "renegotiates" \in liberties /\ c.up THEN {other} ELSE {})

SetStatus(c, status) == [c EXCEPT !.status = status]

\* accept_ssl: both WANT_READ and WANT_WRITE leave it pending.
accept_ssl(c) ==
    {CASE r = "done" -> [c EXCEPT !.sslstatus = @ \ {"ACCEPTING"}, !.accepted = TRUE]
       [] r = "error" -> SetStatus([c EXCEPT !.sslstatus = @ \ {"ACCEPTING"}], {"ERR", "CLOSE"})
       [] OTHER -> [c EXCEPT !.sslstatus = {"ACCEPTING"}] : r \in Results(c, "again")}

handle_accept_ssl(c) == accept_ssl([c EXCEPT !.ssl = TRUE])

\* read_ssl_socket: pairs of the client and whether there is data.
read_ssl_socket(c) ==
    {CASE r = "done" -> [c |-> c, data |-> TRUE]
       [] r = "again" -> [c |-> c, data |-> FALSE]
       [] r = "write" -> [c |-> [c EXCEPT !.sslstatus = {"READING"}], data |-> FALSE]
       [] OTHER -> [c |-> SetStatus(c, {"ERR", "CLOSE"}), data |-> FALSE] :
       r \in IF c.accepted THEN Results(c, "write") ELSE {"error"}}

\* send_ssl_buffer: the client, how many of n bytes were sent, or -1 and whether
\* errno says EAGAIN.
Sent(c, n) == [c |-> c, sent |-> n, minus |-> FALSE, eagain |-> FALSE]
NotSent(c, eagain) == [c |-> c, sent |-> 0, minus |-> TRUE, eagain |-> eagain]
send_ssl_buffer(c, n) ==
    UNION {CASE r = "done" -> {Sent(c, k) : k \in 1..n}
             [] r = "again" -> {NotSent(c, TRUE)}
             [] r = "read" -> {NotSent([c EXCEPT !.sslstatus = {"WRITING"}], FALSE)}
             [] OTHER -> {NotSent(SetStatus(c, {"ERR", "CLOSE"}), FALSE)} :
             r \in IF c.accepted THEN Results(c, "read") ELSE {"error"}}

\* shutdown_ssl: 0 only if the peer has shut down, too.
shutdown_ssl(c) ==
    {CASE r = "done" -> [c |-> SetStatus(c, {"CLOSE"}), zero |-> TRUE]
       [] r = "again" -> [c |-> [c EXCEPT !.sslstatus = {"SHUTTING"}], zero |-> FALSE]
       [] OTHER -> [c |-> SetStatus(c, {"ERR", "CLOSE"}), zero |-> FALSE] :
       r \in IF c.up THEN {"done", "again"} ELSE {"done", "error"}}

-----------------------------------------------------------------------------
(***************************************************************************)
(* Sending: pairs of a client and whether queued bytes were dropped.       *)
(***************************************************************************)
Kept(c) == [c |-> c, dropped |-> FALSE]

\* ws_respond_data: what was not sent is queued, whatever the reason was.
Queued(c, n) ==
    [c EXCEPT !.queue = n, !.status = @ \cup {"SENDING"}, !.armed = @ \/ "CLOSE" \notin c.status]
RespondData(c, n) ==
    {Kept(IF r.sent = n THEN r.c ELSE Queued(r.c, n - r.sent)) : r \in send_ssl_buffer(c, n)}

ws_clear_queue(c) ==
    [c EXCEPT !.queue = 0,
              !.status = IF {"CLOSE", "SENDING"} \subseteq @ THEN {"CLOSE"} ELSE @]

\* ws_respond_cache: -1 without EAGAIN counts as all that is queued.
RespondCache(c) ==
    {IF r.minus /\ r.eagain THEN Kept(r.c)
     ELSE IF r.sent = c.queue \/ r.minus THEN [c |-> ws_clear_queue(r.c), dropped |-> r.minus]
     ELSE Kept([r.c EXCEPT !.queue = @ - r.sent]) : r \in send_ssl_buffer(c, c.queue)}

TlsRespond(c, n) ==
    IF c.queue = 0 THEN (IF n = 0 THEN {Kept(c)} ELSE RespondData(c, n))
    ELSE IF n > 0 /\ c.queue + n <= MaxTlsQueue THEN {Kept([c EXCEPT !.queue = @ + n])}
    ELSE RespondCache(c)

\* ws_cleanup_client: after an error the queue is cleared, else it stays.
CleanedUp(c) == [c EXCEPT !.open = FALSE, !.armed = FALSE, !.ssl = FALSE]
ws_cleanup_client(c) ==
    {CleanedUp(IF "ERR" \in r.c.status THEN ws_clear_queue(r.c) ELSE r.c) :
       r \in IF c.ssl THEN shutdown_ssl(c) ELSE {[c |-> c, zero |-> TRUE]}}

handle_ws_read_close(c) == IF "SENDING" \in c.status THEN {c} ELSE ws_cleanup_client(c)

-----------------------------------------------------------------------------
(***************************************************************************)
(* The callbacks.  A callback that returns leaves the other event of the   *)
(* socket to be served, also if the client was closed.                     *)
(***************************************************************************)
TlsGoes(c, lost) ==
    /\ tls_client' = c /\ dropped' = (dropped \/ (lost /\ c.status \cap {"ERR", "CLOSE"} = {}))
    /\ call' = IF "out" \in call.events THEN [fn |-> "writes", depth |-> 1, events |-> {}]
               ELSE Returned
    /\ UNCHANGED <<liberties, crashed>>

Running(fn) == call.fn = fn /\ ~crashed

\* The events that epoll reports; writing is reported if it is asked for.
TlsEvent(events) ==
    /\ call = Returned /\ ~crashed /\ tls_client.open
    /\ events # {} /\ ("out" \in events => tls_client.armed)
    /\ call' = IF "in" \in events
               THEN [fn |-> "reads", depth |-> 1, events |-> events \ {"in"}]
               ELSE [fn |-> "writes", depth |-> 1, events |-> {}]
    /\ UNCHANGED <<liberties, tls_client, dropped, crashed>>

\* Anything that is done with an SSL structure that is gone.
Crash ==
    /\ call.fn # Nil /\ ~crashed /\ ~tls_client.open
    /\ crashed' = TRUE
    /\ UNCHANGED <<liberties, tls_client, call, dropped>>

\* handle_ssl_pending_rw, called by either callback
PendingAccept ==
    /\ call.fn # Nil /\ tls_client.open /\ "ACCEPTING" \in tls_client.sslstatus
    /\ \E c \in handle_accept_ssl(tls_client) : TlsGoes(c, FALSE)

PendingCall(fn) ==
    /\ call' = [call EXCEPT !.fn = fn, !.depth = @ + 1]
    /\ UNCHANGED <<liberties, tls_client, dropped, crashed>>

PendingRead ==
    /\ call.fn # Nil /\ tls_client.open /\ call.depth < MaxDepth
    /\ "READING" \in tls_client.sslstatus /\ PendingCall("reads")
PendingWrite ==
    /\ call.fn # Nil /\ tls_client.open /\ call.depth < MaxDepth
    /\ "WRITING" \in tls_client.sslstatus /\ PendingCall("writes")

PendingShutdown ==
    /\ call.fn # Nil /\ tls_client.open /\ "SHUTTING" \in tls_client.sslstatus
    /\ \E r \in shutdown_ssl(tls_client) :
         \E c \in IF r.zero THEN handle_ws_read_close(r.c) ELSE {r.c} : TlsGoes(c, FALSE)

\* ws_handle_reads: what is read may be answered, at once or in on_packet; when
\* the read fails an error is sent.
TlsHandleReads ==
    /\ Running("reads") /\ tls_client.open /\ tls_client.sslstatus = {}
    /\ \E r \in read_ssl_socket(tls_client) :
         \E s \in IF r.data THEN {Kept(r.c)} \cup TlsRespond(SetStatus(r.c, {}), 1)
                  ELSE IF "CLOSE" \in r.c.status THEN TlsRespond(r.c, 1) ELSE {Kept(r.c)} :
           \E c \in IF "CLOSE" \in s.c.status THEN handle_ws_read_close(s.c) ELSE {s.c} :
             TlsGoes(c, s.dropped)

\* ws_handle_writes, and the loop that stops asking for EPOLLOUT
TlsHandleWrites ==
    /\ Running("writes") /\ tls_client.open /\ tls_client.sslstatus = {}
    /\ \E s \in TlsRespond(tls_client, 0) :
         LET d == IF s.c.queue = 0 THEN SetStatus(s.c, s.c.status \ {"SENDING"}) ELSE s.c
         IN  \E c \in IF "CLOSE" \in d.status /\ "SENDING" \notin d.status
                      THEN ws_cleanup_client(d)
                      ELSE {[d EXCEPT !.armed = @ /\ d.status \cap {"SENDING", "CLOSE"} # {}]} :
               TlsGoes(c, s.dropped)

\* An event is posted to the client.
SendPacket(n) ==
    /\ call = Returned /\ ~crashed /\ tls_client.open /\ tls_client.accepted
    /\ tls_client.queue + n <= MaxTlsQueue
    /\ \E s \in TlsRespond(tls_client, n) :
         /\ tls_client' = s.c
         /\ dropped' = (dropped \/ (s.dropped /\ s.c.status \cap {"ERR", "CLOSE"} = {}))
    /\ UNCHANGED <<liberties, call, crashed>>

PeerGoes ==
    /\ "breaks" \in liberties /\ tls_client.up /\ call = Returned
    /\ tls_client' = [tls_client EXCEPT !.up = FALSE]
    /\ UNCHANGED <<liberties, call, dropped, crashed>>

\* The next client.
NextClient ==
    /\ ~tls_client.open /\ call = Returned
    /\ tls_client' = NewTlsClient
    /\ UNCHANGED <<liberties, call, dropped, crashed>>

TlsNext ==
    \/ \E events \in SUBSET {"in", "out"} : TlsEvent(events)
    \/ Crash \/ PendingAccept \/ PendingRead \/ PendingWrite \/ PendingShutdown
    \/ TlsHandleReads \/ TlsHandleWrites \/ \E n \in 1..MaxTlsQueue : SendPacket(n)
    \/ PeerGoes \/ NextClient

TlsSpec == TlsInit /\ [][TlsNext]_tlsVars
-----------------------------------------------------------------------------
(* Properties                                                              *)

\* If the peer does not renegotiate, no byte that was queued is forgotten while
\* the client is not being closed, and no callback calls another.
QueueSurvives == "renegotiates" \notin liberties => ~dropped /\ call.depth <= 1

\* "On success, the TLS/SSL pending action is called and 0 is returned" (of
\* handle_ssl_pending_rw): it does not call itself again and again.
PendingIsCalled == call.depth <= 3
=============================================================================
