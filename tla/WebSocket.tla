----------------------------- MODULE WebSocket ------------------------------
(***************************************************************************)
(* One client of the web socket server (purcmc/websocket.c), without TLS,  *)
(* with the part of purcmc_rdrsrv_check that serves it: the handshake,     *)
(* frames read in pieces and joined to messages, control frames, and the   *)
(* queue of what the kernel did not take.  Reading and writing share one   *)
(* word of status flags, which most functions overwrite (ws_set_status).   *)
(*                                                                         *)
(* What the peer sends is a sequence of units: two for the request of the  *)
(* handshake, two for a frame header, and the bytes of payload.  What the  *)
(* server sends is a sequence of bytes <<call, k>>, the k-th byte of the   *)
(* call-th ws_respond; a send() takes any number of them.                  *)
(***************************************************************************)
EXTENDS SocketWrites, FiniteSetsExt

CONSTANTS
    MaxWsInmem,     \* PCRDR_MAX_INMEM_PAYLOAD_SIZE
    Replies,        \* lengths of the frames on_packet and others send
    MaxWsCalls,     \* bound on the calls of ws_respond on a connection
    DataSizes,      \* lengths of the payloads of the peer's data frames
    ControlSizes,   \* lengths of those of its control frames
    MaxWsFrames,    \* bound on its data frames on a connection
    MaxWsControls,  \* bound on its control frames
    Liberties       \* of the peer and the network, see below

(***************************************************************************)
(*  "slow"     send() may take a part of a buffer, or nothing (EAGAIN);    *)
(*  "http"     the request of the handshake may arrive in two parts;       *)
(*  "pong"     a PONG frame may come between two frames of a message;      *)
(*  "cut"      the peer may go away in the middle of a frame;              *)
(*  "wrong"    the peer may send a wrong request, an unmasked frame, or a  *)
(*             message that is too long for the renderer.                  *)
(***************************************************************************)
ASSUME WebSocketAssumption ==
    /\ MaxWsInmem \in Nat
    /\ Replies \subseteq Nat \ {0}
    /\ DataSizes \subseteq Nat \ {0} /\ ControlSizes \subseteq Nat
    /\ MaxWsCalls \in Nat /\ MaxWsFrames \in Nat /\ MaxWsControls \in Nat
    /\ Liberties \subseteq {"slow", "http", "pong", "cut", "wrong"}

VARIABLES
    wsc,            \* the WSClient
    ws_peer,        \* the other end: what it sent, and whether it is still there
    ws_link,        \* units on their way
    ws_socket,      \* units in the receive buffer
    ws_delivered,   \* messages given to on_packet
    ws_phase        \* "open" or "closed"

wsVars == <<wsc, ws_peer, ws_link, ws_socket, ws_delivered, ws_phase>>

NoFrame == [got |-> 0, op |-> "none", fin |-> TRUE, len |-> 0, masked |-> TRUE]
NoMessage == [fragmented |-> FALSE, payload |-> <<>>, buflen |-> 0]

(***************************************************************************)
(* status, queue (sockqueue), headers, frame and message are the fields of *)
(* WSClient; a frame or message that is NULL and one that was allocated    *)
(* and not filled are the same.  frame.got counts the units of its header  *)
(* read so far.  armed: EPOLLOUT is asked for; accepted counts the calls   *)
(* of on_accepted.  calls (the lengths given to ws_respond), lost (the     *)
(* calls a throttled client loses) and wire are what the properties        *)
(* compare.                                                                *)
(***************************************************************************)
NewWsClient ==
    [status |-> {}, queue |-> <<>>, headers |-> 0, frame |-> NoFrame,
     message |-> NoMessage, armed |-> FALSE, accepted |-> 0,
     calls |-> <<>>, lost |-> {}, wire |-> <<>>]

\* ended: the peer has sent a CLOSE frame, or broken the protocol.
NewPeer == [up |-> TRUE, asked |-> FALSE, ended |-> FALSE, frames |-> 0, controls |-> 0,
            part |-> <<>>, sent |-> <<>>]

WsInit ==
    /\ wsc = NewWsClient
    /\ ws_peer = NewPeer
    /\ ws_link = <<>> /\ ws_socket = <<>> /\ ws_delivered = <<>>
    /\ ws_phase = "open"

-----------------------------------------------------------------------------
(***************************************************************************)
(* Writing.                                                                *)
(***************************************************************************)
SetStatus(c, s) == [c EXCEPT !.status = s]

\* How many of len bytes send() takes.
Taken(len) == IF "slow" \in Liberties THEN 0..len ELSE {len}

\* ws_respond_data, with ws_queue_sockbuf for what was not taken.
RespondData(c, call, len) ==
    IF ~ws_peer.up THEN {SetStatus(c, {"ERR", "CLOSE"})}
    ELSE {IF n = len THEN [c EXCEPT !.wire = @ \o Bytes(call, 1, n)]
          ELSE OnPending([c EXCEPT !.wire = @ \o Bytes(call, 1, n),
                                   !.queue = Bytes(call, n + 1, len),
                                   !.status = @ \cup {"SENDING"}]) : n \in Taken(len)}

ClearQueue(c) ==
    LET s == c.status \ {"THROTTLING"}
    IN  [c EXCEPT !.queue = <<>>,
                  !.status = IF {"CLOSE", "SENDING"} \subseteq s THEN {"CLOSE"} ELSE s]

\* ws_respond_cache sends n bytes of the queue.
RespondCache(c, n) ==
    LET d == [c EXCEPT !.wire = @ \o SubSeq(c.queue, 1, n),
                       !.queue = SubSeq(@, n + 1, Len(@))]
    IN  IF ~ws_peer.up THEN SetStatus(c, {"ERR", "CLOSE"})
        ELSE IF n = Len(c.queue) THEN ClearQueue(d) ELSE d

\* ws_realloc_send_buf.
AppendToQueue(c, call, len) ==
    [c EXCEPT !.queue = @ \o Bytes(call, 1, len),
              !.status = @ \cup (IF Len(c.queue) + len >= Threshold
                                 THEN {"THROTTLING"} ELSE {})]

\* Mutant: what is sent goes around what is queued.
RespondAround(c, len) == RespondData([c EXCEPT !.calls = Append(@, len)], Len(c.calls) + 1, len)

Respond(c, len) ==
    LET call == Len(c.calls) + 1
        d    == [c EXCEPT !.calls = Append(@, len)] \* unless send() fails at once
    IN  IF c.queue = <<>> THEN RespondData(IF ws_peer.up THEN d ELSE c, call, len)
        ELSE IF "THROTTLING" \notin c.status THEN {AppendToQueue(d, call, len)}
        ELSE {RespondCache([d EXCEPT !.lost = @ \cup {call}], n) : n \in Taken(Len(d.queue))}

\* ws_respond without data, when the socket takes some.
RespondNothing(c) ==
    IF c.queue = <<>> THEN RespondData(c, 0, 0)
    ELSE {RespondCache(c, n) : n \in 1..Len(c.queue)}

RespondAll(cs, len) == UNION {Respond(c, len) : c \in cs}

\* ws_handle_err and ws_handle_close: the flags first, then a CLOSE frame.
CloseWithFrame(c) == Respond(SetStatus(c, {"ERR", "CLOSE"}), 1)

-----------------------------------------------------------------------------
(***************************************************************************)
(* Reading.  Each operator gives pairs of a client and the units left.  A  *)
(* read that finds nothing sets READING, or ERR and CLOSE if the peer has  *)
(* gone.                                                                   *)
(***************************************************************************)
Result(c, units, messages) == [c |-> c, rest |-> units, messages |-> messages]
Rest(units, n) == SubSeq(units, n + 1, Len(units))

\* ws_get_handshake, and on_accepted, which sends the initial response.  It is
\* called whenever the handshake has not failed, also when it is not complete.
OnAccepted(cs) ==
    {[c EXCEPT !.accepted = @ + 1] : c \in RespondAll(cs, 1)}
ReadHandshake(c, units) ==
    LET n   == Len(units)
        d   == [c EXCEPT !.headers = @ + n]
        bad == \E i \in 1..n : units[i].kind = "bad"
    IN  IF n = 0
        THEN {Result(x, units, <<>>) : x \in Respond(SetStatus(c, {"ERR", "CLOSE"}), 1)}
        ELSE IF bad
        THEN {Result(SetStatus(x, {"CLOSE"}), <<>>, <<>>) : x \in Respond(d, 1)}
        ELSE IF d.headers < 2
        THEN {Result(x, <<>>, <<>>) : x \in OnAccepted({SetStatus(d, {"READING"})})}
        ELSE {Result(x, <<>>, <<>>) :
                x \in OnAccepted({SetStatus(y, {}) : y \in Respond(d, 1)})}

\* Mutant: a read of 0 bytes is taken for EAGAIN.
WsReadFailsNever(c, units) == {Result(SetStatus(c, {"READING"}), units, <<>>)}

WsReadFails(c, units) ==
    IF ws_peer.up THEN {Result(SetStatus(c, {"READING"}), units, <<>>)}
    ELSE {Result(x, units, <<>>) : x \in CloseWithFrame(c)}

\* ws_get_frm_header: the first bytes of the header and then the others.
HeaderComplete(c) == c.frame.got = 2
ReadHeader(c, units) ==
    LET n == Min({2 - c.frame.got, Len(units)})
        u == Head(units)
        d == [c EXCEPT !.frame = [got |-> @.got + n, op |-> u.op, fin |-> u.fin,
                                  len |-> u.len, masked |-> u.masked]]
    IN  IF n < 2 - c.frame.got
        THEN WsReadFails(IF n = 0 THEN c ELSE d, Rest(units, n))
        ELSE {Result(IF d.frame.masked THEN SetStatus(d, {})
                     ELSE SetStatus([d EXCEPT !.frame.got = 1], {"ERR", "CLOSE"}),
                     Rest(units, n), <<>>)}

\* What ws_get_frm_payload does with a payload that is complete.
EndFrame(c, units, messages) == Result([c EXCEPT !.frame = NoFrame], units, messages)
FreeMessage(c) == [c EXCEPT !.message = NoMessage]

\* on_packet: the handler of the message may send a response or not.
WsHandleText(c, units) ==
    LET d == [c EXCEPT !.message.buflen = 0, !.message.fragmented = TRUE]
    IN  IF c.message.fragmented /\ c.frame.op # "continuation"
        THEN {EndFrame(SetStatus(c, {"ERR", "CLOSE"}), units, <<>>)}
        ELSE IF ~c.frame.fin THEN {EndFrame(d, units, <<>>)}
        ELSE {EndFrame(FreeMessage(x), units, <<d.message.payload>>) :
                x \in {d} \cup UNION {Respond(d, r) : r \in Replies}}

\* Mutant: a ping with a payload ends the message it comes in.
HandlePingFrees(c, units) == {EndFrame(FreeMessage(x), units, <<>>) : x \in Respond(c, 1)}

HandlePing(c, units) ==
    LET m == c.message
        kept == [m EXCEPT !.payload = SubSeq(@, 1, Len(@) - c.frame.len), !.buflen = 0]
    IN  IF c.frame.len = 0
        THEN {EndFrame(x, units, <<>>) : x \in Respond(c, 1)}
        ELSE {EndFrame([x EXCEPT !.message = IF m.fragmented THEN kept ELSE NoMessage],
                       units, <<>>) : x \in Respond(c, 1)}

HandlePong(c, units) == {EndFrame(FreeMessage(c), units, <<>>)}

HandlePayload(c, units) ==
    CASE c.frame.op = "continuation" ->
            IF c.message.fragmented THEN WsHandleText(c, units)
            ELSE {EndFrame(SetStatus(c, {"ERR", "CLOSE"}), units, <<>>)}
      [] c.frame.op = "text" -> WsHandleText(c, units)
      [] c.frame.op = "pong" -> HandlePong(c, units)
      [] c.frame.op = "ping" -> HandlePing(c, units)
      [] OTHER -> {EndFrame(x, units, <<>>) : x \in CloseWithFrame(c)}

\* ws_realloc_frm_payload checks the size of the whole message.
TooLarge(c) ==
    /\ c.message.payload # <<>> /\ c.message.buflen = 0 /\ c.frame.len > 0
    /\ Len(c.message.payload) + c.frame.len >= MaxWsInmem

\* ws_get_frm_payload.  A read that returns 0, because the peer has gone, is
\* taken for a part of the payload, and READING replaces ERR and CLOSE.
WsReadPayload(c, units) ==
    LET need == c.frame.len - c.message.buflen
        n    == Min({need, Len(units)})
        d    == [c EXCEPT !.message.payload = @ \o SubSeq(units, 1, n),
                          !.message.buflen = @ + n]
    IN  IF TooLarge(c) THEN {Result(SetStatus(c, {"ERR", "CLOSE"}), units, <<>>)}
        ELSE IF n = need THEN HandlePayload(d, Rest(units, n))
        ELSE IF n > 0 THEN {Result(SetStatus(d, {"READING"}), Rest(units, n), <<>>)}
        ELSE IF ws_peer.up THEN {Result(SetStatus(c, {"READING"}), units, <<>>)}
        ELSE {Result(SetStatus(x, {"READING"}), units, <<>>) : x \in CloseWithFrame(c)}

\* ws_get_message.
ReadMessage(c, units) ==
    IF HeaderComplete(c) THEN WsReadPayload(c, units)
    ELSE UNION {IF HeaderComplete(r.c) THEN WsReadPayload(r.c, r.rest) ELSE {r} :
                r \in ReadHeader(c, units)}

ReadClientData(c, units) ==
    IF c.headers < 2 THEN ReadHandshake(c, units) ELSE ReadMessage(c, units)

-----------------------------------------------------------------------------
(***************************************************************************)
(* The callbacks.                                                          *)
(***************************************************************************)
WsCallsLeft(n) == Len(wsc.calls) + n <= MaxWsCalls

\* ws_handle_reads.  A client that is to be closed and still has data to send
\* is left for ws_handle_writes.
WsHandleReads ==
    /\ ws_phase = "open"
    /\ ws_socket # <<>> \/ (~ws_peer.up /\ ws_link = <<>>)
    /\ WsCallsLeft(2)
    /\ \E r \in ReadClientData(wsc, ws_socket) :
        /\ wsc' = r.c
        /\ ws_socket' = r.rest
        /\ ws_delivered' = ws_delivered \o r.messages
        /\ ws_phase' = IF "CLOSE" \in r.c.status /\ "SENDING" \notin r.c.status
                       THEN "closed" ELSE "open"
    /\ UNCHANGED <<ws_peer, ws_link>>

\* ws_handle_writes, and the end of the loop of purcmc_rdrsrv_check.
WsHandleWrites ==
    /\ ws_phase = "open"
    /\ wsc.armed
    /\ \E c \in RespondNothing(wsc) :
        LET d == IF c.queue = <<>> THEN SetStatus(c, c.status \ {"SENDING"}) ELSE c
        IN  IF "CLOSE" \in d.status /\ "SENDING" \notin d.status
            THEN /\ wsc' = d
                 /\ ws_phase' = "closed"
            ELSE /\ wsc' = [d EXCEPT !.armed = "SENDING" \in d.status \/ "CLOSE" \in d.status]
                 /\ UNCHANGED ws_phase
    /\ UNCHANGED <<ws_peer, ws_link, ws_socket, ws_delivered>>

\* A response, an event or a ping of the server (ws_send_packet).
Send(len) ==
    /\ ws_phase = "open"
    /\ wsc.accepted > 0
    /\ WsCallsLeft(1)
    /\ wsc' \in Respond(wsc, len)
    /\ UNCHANGED <<ws_peer, ws_link, ws_socket, ws_delivered, ws_phase>>

\* cleanup_endpoint_client: a sweep or the user removes the endpoint.
WsRemoved ==
    /\ ws_phase = "open"
    /\ ws_phase' = "closed"
    /\ UNCHANGED <<wsc, ws_peer, ws_link, ws_socket, ws_delivered>>

WsAccept ==
    /\ ws_phase = "closed"
    /\ wsc' = NewWsClient
    /\ ws_peer' = NewPeer
    /\ ws_link' = <<>> /\ ws_socket' = <<>> /\ ws_delivered' = <<>>
    /\ ws_phase' = "open"

(***************************************************************************)
(* The peer and the network.                                               *)
(***************************************************************************)
PeerActs == ws_phase = "open" /\ ws_peer.up

PeerAsks(kind) ==
    /\ PeerActs
    /\ ~ws_peer.asked
    /\ kind = "bad" => "wrong" \in Liberties
    /\ ws_peer' = [ws_peer EXCEPT !.asked = TRUE, !.ended = (kind = "bad")]
    /\ ws_link' = ws_link \o <<[kind |-> kind], [kind |-> kind]>>
    /\ UNCHANGED <<wsc, ws_socket, ws_delivered, ws_phase>>

Frame(op, fin, masked, payload) ==
    LET h == [kind |-> "header", op |-> op, fin |-> fin, len |-> Len(payload), masked |-> masked]
    IN  <<h, h>> \o payload

\* A peer sends frames when it has the answer to its request, and none after it
\* has ended.
PeerSends(frame, p) ==
    /\ PeerActs
    /\ wsc.headers = 2
    /\ ~ws_peer.ended
    /\ ws_peer' = p
    /\ ws_link' = ws_link \o frame
    /\ UNCHANGED <<wsc, ws_socket, ws_delivered, ws_phase>>

\* With len more bytes a message, and the control frames between its frames,
\* would pass what the renderer keeps in memory.
TooLong(len) ==
    ws_peer.part # <<>> /\ len > 0 /\ Len(ws_peer.part) + len >= MaxWsInmem

PeerSendsData(len, fin) ==
    LET op == IF ws_peer.part = <<>> THEN "text" ELSE "continuation"
        payload == [i \in 1..len |-> [kind |-> "data", frame |-> ws_peer.frames + 1, pos |-> i]]
        whole == ws_peer.part \o payload
        p == [ws_peer EXCEPT !.frames = @ + 1, !.ended = TooLong(len),
                             !.part = IF fin THEN <<>> ELSE whole]
    IN  /\ ws_peer.frames < MaxWsFrames
        /\ TooLong(len) => "wrong" \in Liberties
        /\ PeerSends(Frame(op, fin, TRUE, payload),
                     IF fin THEN [p EXCEPT !.sent = Append(@, whole)] ELSE p)

WsPeerSendsControl(op, len) ==
    /\ ws_peer.controls < MaxWsControls
    /\ op = "pong" /\ ws_peer.part # <<>> => "pong" \in Liberties
    /\ TooLong(len) => "wrong" \in Liberties
    /\ PeerSends(Frame(op, TRUE, TRUE, [i \in 1..len |-> [kind |-> "echo"]]),
                 [ws_peer EXCEPT !.controls = @ + 1, !.ended = (op = "close" \/ TooLong(len))])

PeerSendsUnmasked ==
    /\ "wrong" \in Liberties
    /\ ws_peer.controls < MaxWsControls
    /\ PeerSends(Frame("text", TRUE, FALSE, <<>>),
                 [ws_peer EXCEPT !.controls = @ + 1, !.ended = TRUE])

PeerGoes ==
    /\ ws_phase = "open"
    /\ ws_peer.up
    /\ ws_peer' = [ws_peer EXCEPT !.up = FALSE]
    /\ ws_link' = IF "cut" \in Liberties THEN <<>> ELSE ws_link
    /\ UNCHANGED <<wsc, ws_socket, ws_delivered, ws_phase>>

WsArrive(n) ==
    /\ ws_phase = "open"
    /\ (ws_link[1].kind = "http" /\ "http" \notin Liberties) => n = 2
    /\ ws_socket' = ws_socket \o SubSeq(ws_link, 1, n)
    /\ ws_link' = Rest(ws_link, n)
    /\ UNCHANGED <<wsc, ws_peer, ws_delivered, ws_phase>>

WsNetwork == \E n \in 1..Len(ws_link) : WsArrive(n)

WsNext ==
    \/ WsHandleReads \/ WsHandleWrites
    \/ \E len \in Replies : Send(len)
    \/ WsRemoved \/ WsAccept
    \/ \E kind \in {"http", "bad"} : PeerAsks(kind)
    \/ \E len \in DataSizes, fin \in BOOLEAN : PeerSendsData(len, fin)
    \/ \E op \in {"ping", "pong", "close"}, len \in ControlSizes : WsPeerSendsControl(op, len)
    \/ PeerSendsUnmasked
    \/ PeerGoes
    \/ WsNetwork

\* epoll is level-triggered and the timer calls purcmc_rdrsrv_check every 10 ms;
\* the network delivers what was sent.
WsFairness == WF_wsVars(WsHandleReads) /\ WF_wsVars(WsHandleWrites) /\ WF_wsVars(WsNetwork)
WsSpec == WsInit /\ [][WsNext]_wsVars /\ WsFairness

-----------------------------------------------------------------------------
\* The fields keep their types.
WsTypeOK ==
    /\ wsc.status \subseteq {"ERR", "CLOSE", "READING", "SENDING", "THROTTLING"}
    /\ wsc.headers \in 0..2 /\ wsc.frame.got \in 0..2
    /\ wsc.message.buflen <= Len(wsc.message.payload)
    /\ Len(wsc.calls) <= MaxWsCalls /\ ws_peer.frames <= MaxWsFrames
    /\ ws_phase \in {"open", "closed"}

\* on_packet gets the messages the peer sent, each once, whole and in order,
\* however they are cut into frames and the frames into reads, and with the
\* payload of no ping among their bytes.
MessagesIntact == IsPrefix(ws_delivered, ws_peer.sent)

\* Each message of a connection is handled, or the connection is closed.
WsAllHandled ==
    \A n \in 1..MaxWsFrames :
        (ws_phase = "open" /\ Len(ws_peer.sent) = n)
            ~> (ws_phase = "closed" \/ Len(ws_delivered) >= n \/ ~WsCallsLeft(2))

\* A connection whose peer has gone is closed in the end.
GoneIsClosed == ~ws_peer.up ~> (ws_phase = "closed" \/ ws_peer.up \/ ~WsCallsLeft(2))

\* A connection is not given up for an error while its peer is there and keeps
\* to the protocol; control frames "in the middle of a fragmented message"
\* (ws_handle_ping) are part of it.
NoFalseError == "ERR" \in wsc.status => ~ws_peer.up \/ ws_peer.ended

\* What the peer of a web socket sends reaches on_packet once, whole and in
\* order, however messages are cut into frames and frames into reads, whatever
\* control frames come between and whatever the peer and the network may do; and
\* a peer that keeps to the protocol is not given up for an error, unless it
\* sends a PONG between two frames of a message (ws_get_message, ws_handle_ping).
MessagesSound ==
    WsTypeOK /\ MessagesIntact /\ ("pong" \notin Liberties => NoFalseError)

\* "did not send all of it... buffer it for a later attempt" (ws_respond_data):
\* while something is queued, EPOLLOUT is asked for, so an attempt will come.
WsWatched == ws_phase = "open" /\ wsc.queue # <<>> => wsc.armed

\* "Accepted after handshake" (read_client_data): one endpoint is made for a
\* connection, and not before the handshake is complete.
AcceptedOnce == wsc.accepted <= (IF wsc.headers = 2 THEN 1 ELSE 0)

\* The write side of a web socket is the stream that the write side of a Unix
\* socket is (ImplementsStream): partial writes, a throttled client, flags that a
\* read overwrites, and a peer that goes lose, repeat or reorder nothing.  A frame
\* that a throttled client loses is lost as a whole (ws_respond, ws_respond_cache,
\* ws_realloc_send_buf).
WsWritten(c) == FlattenSeq(BuffersOf(c.calls, c.lost))
WsStreamState ==
    IF ws_phase = "closed" THEN "closed" ELSE IF ~ws_peer.up THEN "broken" ELSE "open"
WsStream == INSTANCE SendStream WITH
    accepted <- WsWritten(wsc), delivered <- wsc.wire, waiting <- wsc.queue,
    state <- WsStreamState
WebImplementsStream == WsStream!StreamSpec
=============================================================================
