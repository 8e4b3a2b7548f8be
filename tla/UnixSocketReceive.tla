------------------------- MODULE UnixSocketReceive -------------------------
(***************************************************************************)
(* The read side of one client of the Unix socket server: us_handle_reads, *)
(* which runs when epoll reports the socket readable, reads the header of  *)
(* a frame and its payload with read(), and hands a whole packet to        *)
(* on_packet.                                                              *)
(*                                                                         *)
(* A unit of the stream is a frame header or a byte of payload; a byte     *)
(* carries its packet and its place in it.  read() returns what has        *)
(* arrived, up to the size asked for.  my_read repeats a read that returns *)
(* EAGAIN, so while the payload of a header has not arrived the server     *)
(* does nothing else: that is the phase "spinning".                        *)
(***************************************************************************)
EXTENDS UnixFrames, FiniteSetsExt, SequencesExt

CONSTANTS
    MaxInmem,       \* PCRDR_MAX_INMEM_PAYLOAD_SIZE
    Payloads,       \* sizes of packets the peer sends
    MaxFrames,      \* bound on the data frames of a connection
    MaxControls,    \* bound on its control frames
    Word,           \* the number of values of an unsigned int, 2^32
    Announced,      \* payload sizes that only a disorderly peer announces
    Nothing,        \* content of memory that was not written
    Environments    \* sets of liberties of the peer and the network, see below

(***************************************************************************)
(* A connection lives in one of the environments; {} is the well-behaved   *)
(* one.                                                                    *)
(*  "split"    a payload may arrive in pieces.  Otherwise a header or a    *)
(*             payload, which us_send_packet writes in two calls, arrives  *)
(*             whole, and the payload possibly later;                      *)
(*  "disorder" the peer may send data frames of any opcode and size, and   *)
(*             announce more than it sends;                                *)
(*  "nomem"    malloc may fail.                                            *)
(***************************************************************************)
ASSUME ReceiveAssumption ==
    /\ Word \in Nat /\ MaxInmem \in Nat /\ MaxInmem < Word
    /\ Payloads \subseteq Nat \ {0}
    /\ Announced \subseteq 0..(Word - 1)
    /\ MaxFrames \in Nat /\ MaxControls \in Nat
    /\ Environments \subseteq SUBSET {"split", "disorder", "nomem"}

\* The units of a stream.
HeaderUnit == [kind : {"header"}, header : FrameHeader]
DataUnit == [kind : {"data"}, packet : Nat, pos : Nat]
Unit == HeaderUnit \cup DataUnit

ASSUME NothingAssumption == Nothing \notin HeaderUnit /\ Nothing \notin DataUnit

VARIABLES
    env,        \* the environment of the connection
    usc,        \* the fields of USClient for the packet being read
    link,       \* units the peer has sent and the socket has not received
    socket,     \* units in the receive buffer of the socket
    sent,       \* the packets the peer has sent, each the sequence of its bytes
    frames,     \* numbers of data and of control frames the peer has sent
    delivered,  \* the packets given to on_packet
    phase       \* "open", "spinning", "closed", "garbled" once a payload byte was
                \* taken for a header, "overrun" once a read passed the buffer

vars == <<env, usc, link, socket, sent, frames, delivered, phase>>

\* packet is <<>> for NULL.
NewClient ==
    [header |-> ControlFrame("ping"), waiting |-> FALSE,
     packet |-> <<>>, sz_packet |-> 0, sz_read |-> 0]

Init ==
    /\ env \in Environments
    /\ usc = NewClient
    /\ link = <<>> /\ socket = <<>> /\ sent = <<>> /\ delivered = <<>>
    /\ frames = [data |-> 0, control |-> 0]
    /\ phase = "open"

-----------------------------------------------------------------------------
(***************************************************************************)
(* The peer and the network.                                               *)
(***************************************************************************)
Header(h) == [kind |-> "header", header |-> h]
Byte(n, i) == [kind |-> "data", packet |-> n, pos |-> i]
PacketBytes(n, sz) == [i \in 1..sz |-> Byte(n, i)]

\* Packet n, framed as us_send_packet does: a header, and up to MaxFrame bytes.
Units(n, sz) ==
    LET fs == Frames("text", sz)
    IN  [i \in 1..(Len(fs) + sz) |->
            LET f == (i - 1) \div (MaxFrame + 1)
                k == (i - 1) % (MaxFrame + 1)
            IN  IF k = 0 THEN Header(fs[f + 1]) ELSE Byte(n, f * MaxFrame + k)]

\* A peer that follows the protocol.
PeerSendsPacket(sz) ==
    LET n == Len(sent) + 1
    IN  /\ phase \in {"open", "spinning"}
        /\ frames.data + Len(Frames("text", sz)) <= MaxFrames
        /\ frames' = [frames EXCEPT !.data = @ + Len(Frames("text", sz))]
        /\ link' = link \o Units(n, sz)
        /\ sent' = Append(sent, PacketBytes(n, sz))
        /\ UNCHANGED <<env, usc, socket, delivered, phase>>

\* Control frames are left out of disorder, to keep the instances small.
PeerSendsControl(op) ==
    /\ "disorder" \notin env
    /\ phase \in {"open", "spinning"}
    /\ frames.control < MaxControls
    /\ frames' = [frames EXCEPT !.control = @ + 1]
    /\ link' = Append(link, Header(ControlFrame(op)))
    /\ UNCHANGED <<env, usc, socket, sent, delivered, phase>>

\* n bytes follow the header of a frame that announces sz.
PeerSendsAnyFrame(op, fragmented, sz, n) ==
    /\ "disorder" \in env
    /\ phase \in {"open", "spinning"}
    /\ frames.data < MaxFrames
    /\ frames' = [frames EXCEPT !.data = @ + 1]
    /\ link' = link \o <<Header([op |-> op, fragmented |-> fragmented, sz_payload |-> sz])>>
                    \o PacketBytes(0, n)
    /\ UNCHANGED <<env, usc, socket, sent, delivered, phase>>

Arrive(n) ==
    /\ phase \in {"open", "spinning"}
    /\ ("split" \notin env /\ n < Len(link)) =>
            "header" \in {link[n].kind, link[n + 1].kind}
    /\ socket' = socket \o SubSeq(link, 1, n)
    /\ link' = SubSeq(link, n + 1, Len(link))
    /\ UNCHANGED <<env, usc, sent, frames, delivered, phase>>

-----------------------------------------------------------------------------
(***************************************************************************)
(* try_to_read_payload: what one read() of the payload leaves.  A read     *)
(* that returns less than sz_payload is reported as PCRDR_ERROR_IO         *)
(* ("short"), and what it returned is not counted in sz_read.  The sum of  *)
(* two unsigned ints that is compared with sz_packet may wrap; what is     *)
(* then read goes behind the buffer, as far as it arrives, and what comes  *)
(* of that is undefined ("overrun").  A sum that does not wrap is smaller  *)
(* than Word, and so is every sz_read.                                     *)
(***************************************************************************)
StartsPacket(u) == u.header.op \in {"text", "bin"}

ProtocolError(u) ==
    /\ ~StartsPacket(u)
    /\ u.packet = <<>> \/ (u.sz_read + u.header.sz_payload) % Word > u.sz_packet

\* Mutant: every payload goes to the start of the buffer.
TryToReadPayloadAtStart(u, units) ==
    LET at == IF StartsPacket(u) THEN 0 ELSE u.sz_read
        n  == Min({u.header.sz_payload, Len(units)})
        v  == [u EXCEPT !.packet = [i \in DOMAIN @ |-> IF i \in 1..n THEN units[i] ELSE @[i]],
                        !.sz_read = at + n]
    IN  IF ProtocolError(u) \/ n < u.header.sz_payload \/ at + n > u.sz_packet
        THEN [usc |-> u, rest |-> units, result |-> "protocol"]
        ELSE [usc |-> v, rest |-> SubSeq(units, n + 1, Len(units)),
              result |-> IF u.header.op = "end" \/ (StartsPacket(u) /\ u.header.fragmented = 0)
                         THEN "packet" ELSE "more"]

TryToReadPayload(u, units) ==
    LET at == IF StartsPacket(u) THEN 0 ELSE u.sz_read
        n  == Min({u.header.sz_payload, Len(units)})
        v  == [u EXCEPT !.packet = [i \in DOMAIN @ |->
                    IF i - at \in 1..n THEN units[i - at] ELSE @[i]]]
    IN  IF ProtocolError(u)
        THEN [usc |-> u, rest |-> units, result |-> "protocol"]
        ELSE [usc |-> IF n < u.header.sz_payload THEN v
                      ELSE [v EXCEPT !.sz_read = at + n],
              rest |-> SubSeq(units, n + 1, Len(units)),
              result |-> IF at + n > u.sz_packet THEN "overrun"
                         ELSE IF n < u.header.sz_payload THEN "short"
                         ELSE IF \/ (StartsPacket(u) /\ u.header.fragmented = 0)
                                 \/ u.header.op = "end"
                         THEN "packet" ELSE "more"]

\* The ends of us_handle_reads.  on_packet may report an error, and then the
\* connection is closed, as after an error of the transport.
Close == phase' = "closed" /\ UNCHANGED delivered
GotPacket(u) ==
    /\ usc' = [u EXCEPT !.packet = <<>>, !.sz_packet = 0, !.sz_read = 0]
    /\ delivered' = Append(delivered, SubSeq(u.packet, 1, u.sz_read))
    /\ phase' \in {"open", "closed"}

\* "retry": a short read is remembered in US_WATING_FOR_PAYLOAD; else, when it
\* was waiting already, it is an error.
ReadPayload(u, units, retry) ==
    LET r == TryToReadPayload(u, units)
    IN  /\ socket' = r.rest
        /\ \/ /\ r.result = "packet"
              /\ GotPacket(r.usc)
           \/ /\ r.result = "more"
              /\ usc' = r.usc
              /\ phase' = "open"
              /\ UNCHANGED delivered
           \/ /\ r.result = "short" /\ retry
              /\ usc' = [r.usc EXCEPT !.waiting = TRUE]
              /\ phase' = "open"
              /\ UNCHANGED delivered
           \/ /\ r.result = "protocol" \/ (r.result = "short" /\ ~retry)
              /\ usc' = r.usc
              /\ Close
           \/ /\ r.result = "overrun"
              /\ usc' = u
              /\ phase' = "overrun"
              /\ UNCHANGED delivered

\* The payload is read at once; my_read waits if none of it has arrived.
ReadPayloadOrSpin(u, units) ==
    IF units = <<>> /\ ~ProtocolError(u)
    THEN usc' = u /\ socket' = units /\ phase' = "spinning" /\ UNCHANGED delivered
    ELSE ReadPayload(u, units, TRUE)

-----------------------------------------------------------------------------
(***************************************************************************)
(* us_handle_reads.                                                        *)
(***************************************************************************)
Readable == phase = "open" /\ socket # <<>>
NextHeader == Head(socket).header
HeaderRead == [usc EXCEPT !.header = NextHeader]

HandleWaiting ==
    /\ Readable
    /\ usc.waiting
    /\ ReadPayload([usc EXCEPT !.waiting = FALSE], socket, FALSE)
    /\ UNCHANGED <<env, link, sent, frames>>

\* A PING is answered (see UnixSocketSend) and a PONG is logged.
HandleControl ==
    /\ Readable /\ ~usc.waiting /\ Head(socket).kind = "header"
    /\ NextHeader.op \in {"ping", "pong", "close"}
    /\ usc' = HeaderRead
    /\ socket' = Tail(socket)
    /\ IF NextHeader.op = "close" THEN Close ELSE UNCHANGED <<phase, delivered>>
    /\ UNCHANGED <<env, link, sent, frames>>

PacketSize(h) == IF h.fragmented > h.sz_payload THEN h.fragmented ELSE h.sz_payload

\* A text or binary frame starts a packet in a new buffer.
HandleText ==
    /\ Readable /\ ~usc.waiting /\ Head(socket).kind = "header"
    /\ NextHeader.op \in {"text", "bin"}
    /\ LET sz == PacketSize(NextHeader)
           u  == [HeaderRead EXCEPT !.sz_packet = sz]
       IN  \/ /\ sz > MaxInmem \/ NextHeader.sz_payload = 0 \/ "nomem" \in env
              /\ usc' = u /\ socket' = Tail(socket) /\ Close
           \/ /\ sz <= MaxInmem /\ NextHeader.sz_payload > 0
              /\ ReadPayloadOrSpin([u EXCEPT !.packet = [i \in 1..sz |-> Nothing]], Tail(socket))
    /\ UNCHANGED <<env, link, sent, frames>>

HandleContinuation ==
    /\ Readable /\ ~usc.waiting /\ Head(socket).kind = "header"
    /\ NextHeader.op \in {"continuation", "end"}
    /\ IF NextHeader.sz_payload = 0
       THEN usc' = HeaderRead /\ socket' = Tail(socket) /\ Close
       ELSE ReadPayloadOrSpin(HeaderRead, Tail(socket))
    /\ UNCHANGED <<env, link, sent, frames>>

\* What is read as a header is a part of a payload: it may be any header.
HandleGarbled ==
    /\ Readable /\ ~usc.waiting /\ Head(socket).kind = "data"
    /\ phase' = "garbled"
    /\ UNCHANGED <<env, usc, link, socket, sent, frames, delivered>>

\* The read() that my_read repeats returns.
SpinEnds ==
    /\ phase = "spinning"
    /\ socket # <<>>
    /\ ReadPayload(usc, socket, TRUE)
    /\ UNCHANGED <<env, link, sent, frames>>

\* The peer closes, so that the next reads return 0 and fail, or a sweep or the
\* user closes the connection; while the server spins only the peer can.
Disconnect ==
    /\ phase \in {"open", "spinning"}
    /\ phase' = "closed"
    /\ UNCHANGED <<env, usc, link, socket, sent, frames, delivered>>

\* A new client is accepted.
Accept ==
    /\ phase \notin {"open", "spinning"}
    /\ env' \in Environments
    /\ usc' = NewClient
    /\ link' = <<>> /\ socket' = <<>> /\ sent' = <<>> /\ delivered' = <<>>
    /\ frames' = [data |-> 0, control |-> 0]
    /\ phase' = "open"

HandleReads ==
    \/ HandleWaiting \/ HandleControl \/ HandleText \/ HandleContinuation
    \/ HandleGarbled \/ SpinEnds

Network == \E n \in 1..Len(link) : Arrive(n)

Next ==
    \/ \E sz \in Payloads : PeerSendsPacket(sz)
    \/ \E op \in {"ping", "pong", "close"} : PeerSendsControl(op)
    \/ \E f \in {0, MaxInmem + 1} \cup Payloads, sz \in 0..MaxFrame :
            PeerSendsAnyFrame("text", f, sz, sz)
    \/ \E op \in {"continuation", "end"} :
         \/ \E sz \in 0..MaxFrame : PeerSendsAnyFrame(op, 0, sz, sz)
         \/ \E sz \in Announced, n \in {0, MaxFrame} : PeerSendsAnyFrame(op, 0, sz, n)
    \/ Network
    \/ HandleReads
    \/ Disconnect
    \/ Accept

\* epoll is level-triggered: a readable socket is reported until it is read.
Spec == Init /\ [][Next]_vars /\ WF_vars(HandleReads) /\ WF_vars(Network)

-----------------------------------------------------------------------------
\* The fields keep their types; the buffer is as long as sz_packet says.
TypeOK ==
    /\ usc.header \in FrameHeader
    /\ usc.waiting \in BOOLEAN
    /\ usc.packet # <<>> /\ phase # "closed" => Len(usc.packet) = usc.sz_packet
    /\ phase \in {"open", "spinning", "closed", "garbled", "overrun"}

\* on_packet gets the packets the peer sent: the same bytes, in the order they
\* were sent, however they were cut into frames and whatever control frames and
\* pauses come between them.
PacketsIntact == env = {} => IsPrefix(delivered, sent)

\* Every packet a peer has sent is handled, or its connection is closed.
AllHandled ==
    \A n \in 1..MaxFrames :
        (env = {} /\ phase = "open" /\ Len(sent) = n)
            ~> (phase = "closed" \/ env # {} \/ Len(delivered) >= n)

\* A payload is read past the buffer that the first frame made only if what a
\* later frame announces wraps the sum that is compared with the buffer's size,
\* and no peer that keeps to the protocol announces that; no other sequence of
\* opcodes and sizes, and no short read, gets there.
NoOverrun ==
    phase = "overrun" =>
        /\ env # {} /\ ~StartsPacket(usc)
        /\ usc.sz_read + usc.header.sz_payload >= Word

\* on_packet never gets memory that was not read from the socket.
NoHoles == \A i \in DOMAIN delivered : Nothing \notin ToSet(delivered[i])

\* What the reader of one client promises, of a peer that keeps to the protocol
\* and of one that does not (us_handle_reads, try_to_read_payload).
ReceiveSound == TypeOK /\ PacketsIntact /\ NoOverrun /\ NoHoles

\* try_to_read_payload: "1: got packet".  With a payload that arrives in two
\* parts, the first part is read and forgotten and the second is read in its
\* place with what follows it.
GotPacketIsSent == \A i \in DOMAIN delivered : i \in DOMAIN sent /\ delivered[i] = sent[i]
=============================================================================
