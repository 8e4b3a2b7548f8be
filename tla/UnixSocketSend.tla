--------------------------- MODULE UnixSocketSend ---------------------------
(***************************************************************************)
(* The write side of one client of the Unix socket server                  *)
(* (purcmc/unixsocket.c) with the part of purcmc_rdrsrv_check that flushes *)
(* it: us_write hands a buffer to the kernel, queues what the kernel does  *)
(* not take, and asks for EPOLLOUT; us_handle_writes flushes the queue     *)
(* when the kernel has room.                                               *)
(*                                                                         *)
(* A byte is a pair <<call, k>>: the k-th byte of the buffer of a call of  *)
(* us_write, calls being numbered from 1 on a connection; k = 0 stands for *)
(* the byte before the buffer.  A write() takes any number of bytes.  What *)
(* a us_... function may do to a client is a set of clients here, so that  *)
(* a handler composes the calls in the order of the code.                  *)
(***************************************************************************)
EXTENDS UnixFrames, SocketWrites, FiniteSetsExt

CONSTANTS
    HeaderSize,     \* sizeof (USFrameHeader)
    SizeWord,       \* width of sz_pending, a size_t
    Payloads,       \* sizes of packets the server sends
    MaxCalls,       \* bound on the calls of us_write on one connection
    Environments    \* sets of liberties of the kernel, see below

(***************************************************************************)
(* A connection lives in one of the environments.                          *)
(*  "full"   write() may answer EAGAIN although nothing is queued: the     *)
(*           write before has just filled the socket buffer;               *)
(*  "nomem"  malloc may fail.                                              *)
(***************************************************************************)
ASSUME SendAssumption ==
    /\ HeaderSize \in Nat \ {0}
    /\ SizeWord \in Nat \ {0}
    /\ Payloads \subseteq Nat \ {0}
    /\ MaxCalls \in Nat
    /\ Environments \subseteq SUBSET {"full", "nomem"}

\* The longest buffer given to us_write, a header or the payload of a frame.
LongestBuffer == Max({HeaderSize} \cup {IF sz < MaxFrame THEN sz ELSE MaxFrame : sz \in Payloads})

\* The word holds all that a connection queues in its calls of us_write, each
\* with the byte before its buffer (UsWriteData).
ASSUME WordAssumption == MaxCalls * (LongestBuffer + 1) < SizeWord

VARIABLES
    env,        \* the environment of the connection
    usc,        \* the USClient, with what the kernel and the server hold for it
    endpoint,   \* status of the endpoint: "ready" or "closing" (ES_CLOSING)
    peer,       \* "up", or "gone" once it closed its end
    phase       \* "open", "freed", or what was done with the freed client:
                \* "flushed" by us_handle_writes, "read" by its caller

vars == <<env, usc, endpoint, peer, phase>>

(***************************************************************************)
(* pending, sz_pending and status are the fields of USClient; a node of    *)
(* pending holds the bytes next..last of a call.  armed: EPOLLOUT is asked *)
(* for.  failed: the last us_write returned -1.  calls (the lengths of the *)
(* buffers given to us_write), lost (the calls whose buffer was forgotten  *)
(* because the client is throttled) and wire (the bytes the kernel took)   *)
(* are what the properties compare.                                        *)
(***************************************************************************)
NewClient ==
    [pending |-> <<>>, sz_pending |-> 0, status |-> {}, armed |-> FALSE,
     failed |-> FALSE, calls |-> <<>>, lost |-> {}, wire |-> <<>>]

Left(node) == node.last - node.next + 1
Unsent(node) == Bytes(node.call, node.next, node.last)
UnsentBytes(nodes) == FlattenSeq([i \in 1..Len(nodes) |-> Unsent(nodes[i])])
SumLeft(nodes) == Len(UnsentBytes(nodes))

-----------------------------------------------------------------------------
(***************************************************************************)
(* The functions of unixsocket.c.                                          *)
(***************************************************************************)
\* Mutant: an error that does not ask for the connection to be closed.
BrokenNotClosed(c) == [c EXCEPT !.status = {"ERR"}, !.failed = TRUE]

Broken(c) == [c EXCEPT !.status = {"ERR", "CLOSE"}, !.failed = TRUE]

UsQueueData(c, call, from, to) ==
    LET size == (c.sz_pending + (to - from + 1)) % SizeWord
    IN  {[c EXCEPT !.pending = Append(@, [call |-> call, next |-> from, last |-> to]),
                   !.sz_pending = size,
                   !.status = @ \cup {"SENDING"}
                              \cup (IF size >= Threshold THEN {"THROTTLING"} ELSE {})]}
        \cup (IF "nomem" \in env
              THEN {[c EXCEPT !.pending = <<>>, !.sz_pending = 0,
                              !.status = {"ERR", "CLOSE"}]}
              ELSE {})

\* On EAGAIN write() has returned -1, and "buffer + bytes, len - bytes" is one
\* byte more than the buffer, from the byte before it on.
UsWriteData(c, call, len) ==
    IF peer = "gone" THEN {Broken(c)}
    ELSE (UNION {LET d == [c EXCEPT !.wire = @ \o Bytes(call, 1, n), !.failed = FALSE]
                 IN  IF n = len THEN {d}
                     ELSE {OnPending(q) : q \in UsQueueData(d, call, n + 1, len)} :
                 n \in 1..len})
         \cup (IF "full" \in env
               THEN {OnPending(q) : q \in UsQueueData([c EXCEPT !.failed = TRUE], call, 0, len)}
               ELSE {})

\* The first k nodes go whole, and p bytes of the next one; sz_pending is
\* decreased only by the write that finishes a node, not by one that stops in
\* its middle.
UsWritePending(c, k, p) ==
    IF peer = "gone" THEN (IF c.pending = <<>> THEN [c EXCEPT !.failed = FALSE] ELSE Broken(c))
    ELSE LET done == SubSeq(c.pending, 1, k)
             rest == SubSeq(c.pending, k + 1, Len(c.pending))
             part == IF rest = <<>> THEN <<>>
                     ELSE Bytes(rest[1].call, rest[1].next, rest[1].next + p - 1)
         IN  [c EXCEPT
                !.pending = IF rest = <<>> THEN <<>>
                            ELSE <<[rest[1] EXCEPT !.next = @ + p]>> \o Tail(rest),
                !.sz_pending = (@ - SumLeft(done)) % SizeWord,
                !.wire = @ \o UnsentBytes(done) \o part,
                !.failed = rest # <<>> /\ p = 0]

\* Where writing of the pending nodes can stop.
StoppingPoints(c) ==
    {<<Len(c.pending), 0>>}
    \cup UNION {{<<k, p>> : p \in 0..(Left(c.pending[k + 1]) - 1)} :
                k \in 0..(Len(c.pending) - 1)}

\* Mutant: the queue is not looked at before the kernel is tried.
UsWriteAround(c, len) ==
    UsWriteData([c EXCEPT !.calls = Append(@, len)], Len(c.calls) + 1, len)
UsWrite(c, len) ==
    LET call == Len(c.calls) + 1
        d    == [c EXCEPT !.calls = Append(@, len)]
    IN  IF c.pending = <<>> THEN UsWriteData(d, call, len)
        ELSE IF c.sz_pending < Threshold
        THEN UsQueueData([d EXCEPT !.failed = FALSE], call, 1, len)
        ELSE {UsWritePending([d EXCEPT !.lost = @ \cup {call}], s[1], s[2]) :
                s \in StoppingPoints(d)}

\* Two calls of us_write for every frame; what they return is not looked at.
UsSendPacket(c, sz) ==
    LET frames == Frames("text", sz)
        length(i) == IF i % 2 = 1 THEN HeaderSize ELSE frames[i \div 2].sz_payload
        clients[i \in 0..2 * Len(frames)] ==
            IF i = 0 THEN {c} ELSE UNION {UsWrite(d, length(i)) : d \in clients[i - 1]}
    IN  clients[2 * Len(frames)]

-----------------------------------------------------------------------------
(***************************************************************************)
(* The callbacks.                                                          *)
(***************************************************************************)
Init ==
    /\ env \in Environments
    /\ usc = NewClient
    /\ endpoint = "ready"
    /\ peer = "up"
    /\ phase = "open"

CallsLeft(n) == Len(usc.calls) + n <= MaxCalls

\* do_send_message: a response or an event, when the endpoint is not closing.
SendMessage(sz) ==
    /\ phase = "open"
    /\ endpoint = "ready"
    /\ CallsLeft(2 * Len(Frames("text", sz)))
    /\ usc' \in UsSendPacket(usc, sz)
    /\ endpoint' = IF "ERR" \in usc'.status THEN "closing" ELSE "ready"
    /\ UNCHANGED <<env, peer, phase>>

\* us_ping_client, called by check_no_responding_endpoints.
Ping ==
    /\ phase = "open"
    /\ CallsLeft(1)
    /\ usc' \in UsWrite(usc, HeaderSize)
    /\ UNCHANGED <<env, endpoint, peer, phase>>

\* us_cleanup_client in us_handle_reads: if the same event says that the
\* client can be written, us_handle_writes runs with the freed client.
CleanupInRead(c) == phase' \in (IF c.armed THEN {"freed", "flushed"} ELSE {"freed"})

\* us_handle_reads gets a PING frame and answers it.
Pong ==
    /\ phase = "open"
    /\ peer = "up"
    /\ CallsLeft(1)
    /\ usc' \in UsWrite(usc, HeaderSize)
    /\ IF usc'.failed THEN CleanupInRead(usc') ELSE UNCHANGED phase
    /\ UNCHANGED <<env, endpoint, peer>>

\* us_handle_reads fails: the peer has closed, a frame is wrong, or on_packet
\* reports an error.  on_error sends a last packet, if it still can.
ReadFails(sz) ==
    /\ phase = "open"
    /\ CallsLeft(2 * Len(Frames("text", sz)))
    /\ usc' \in UsSendPacket(usc, sz)
    /\ CleanupInRead(usc')
    /\ UNCHANGED <<env, endpoint, peer>>

\* cleanup_endpoint_client: a sweep or the user removes the endpoint.
Removed ==
    /\ phase = "open"
    /\ phase' = "freed"
    /\ UNCHANGED <<env, usc, endpoint, peer>>

\* us_handle_writes, and the end of the loop of purcmc_rdrsrv_check, which
\* reads the status of the client also after it was cleaned up.
HandleWrites ==
    /\ phase = "open"
    /\ usc.armed
    /\ \E s \in StoppingPoints(usc) :
        /\ usc.pending # <<>> => s # <<0, 0>>    \* the kernel has room
        /\ LET c == UsWritePending(usc, s[1], s[2])
               d == IF c.pending = <<>> THEN [c EXCEPT !.status = @ \ {"SENDING"}] ELSE c
           IN  IF "CLOSE" \in d.status /\ "SENDING" \notin d.status
               THEN /\ usc' = d
                    /\ phase' = "read"
               ELSE /\ usc' = [d EXCEPT !.armed = "SENDING" \in d.status \/ "CLOSE" \in d.status]
                    /\ UNCHANGED phase
    /\ UNCHANGED <<env, endpoint, peer>>

PeerCloses ==
    /\ phase = "open"
    /\ peer = "up"
    /\ peer' = "gone"
    /\ UNCHANGED <<env, usc, endpoint, phase>>

\* us_handle_accept and EPOLL_CTL_ADD, after the last client has gone.  The
\* initial response fits into the buffer of a new socket and is left out.
Accept ==
    /\ phase # "open"
    /\ env' \in Environments
    /\ usc' = NewClient
    /\ endpoint' = "ready"
    /\ peer' = "up"
    /\ phase' = "open"

Next ==
    \/ \E sz \in Payloads : SendMessage(sz) \/ ReadFails(sz)
    \/ Ping \/ Pong
    \/ Removed
    \/ HandleWrites
    \/ PeerCloses
    \/ Accept

\* epoll reports a writable client again until it is served, and the timer
\* calls purcmc_rdrsrv_check every 10 ms.
Spec == Init /\ [][Next]_vars /\ WF_vars(HandleWrites)

-----------------------------------------------------------------------------
Status == {"ERR", "CLOSE", "SENDING", "THROTTLING"}
\* What waits in the queue of a client, and what us_write took to send.
Queued(c) == UnsentBytes(c.pending)
Written(c) == FlattenSeq(BuffersOf(c.calls, c.lost))
\* Without the bytes before a buffer.
OfBuffers(bytes) ==
    FlattenSeq([i \in 1..Len(bytes) |-> IF bytes[i][2] > 0 THEN <<bytes[i]>> ELSE <<>>])

\* The fields keep their types; sz_pending stays in its word.
TypeOK ==
    /\ usc.sz_pending \in 0..(SizeWord - 1)
    /\ usc.status \subseteq Status
    /\ {usc.armed, usc.failed} \subseteq BOOLEAN
    /\ Len(usc.calls) <= MaxCalls
    /\ \A i \in DOMAIN usc.pending :
        LET n == usc.pending[i] IN n.call \in DOMAIN usc.calls /\ n.next <= n.last
    /\ endpoint \in {"ready", "closing"}
    /\ peer \in {"up", "gone"}
    /\ phase \in {"open", "freed", "flushed", "read"}

\* Queued data is never forgotten: while the connection is not to be closed,
\* its socket is watched for room and marked as sending, whatever sequence of
\* partial writes, flushes and refusals came before.
Watched ==
    phase = "open" /\ usc.pending # <<>> /\ "CLOSE" \notin usc.status
        => usc.armed /\ "SENDING" \in usc.status

\* sz_pending may be too large, because us_write_pending does not count a part
\* of a node, but it is never less than what is queued, so it never wraps and
\* the queue is bounded by the throttle.
SizeCovers == usc.sz_pending >= SumLeft(usc.pending)

\* The memory queued for a slow client is bounded: a buffer is queued only
\* below the threshold.
Bounded == SumLeft(usc.pending) < Threshold + LongestBuffer + 1

\* The bookkeeping of the write side: it covers what is queued, bounds it, and
\* watches the socket for as long as something is (us_write and its helpers).
SendSound == TypeOK /\ SizeCovers /\ Bounded /\ Watched

\* The write side is a stream: partial writes, buffers queued behind others, a
\* throttled client and a peer that goes lose, repeat or reorder nothing of the
\* buffers us_write took.  The byte before a buffer (UsWriteData) is left out,
\* and so is a connection on which malloc may fail: us_queue_data then drops
\* the queue, and us_send_packet goes on writing.
Streams == "nomem" \notin env
Accepted == IF Streams THEN Written(usc) ELSE <<>>
Delivered == IF Streams THEN OfBuffers(usc.wire) ELSE <<>>
Waiting == IF Streams THEN OfBuffers(Queued(usc)) ELSE <<>>
StreamState ==
    IF phase # "open" THEN "closed"
    ELSE IF Streams /\ "ERR" \in usc.status THEN "broken" ELSE "open"
Stream == INSTANCE SendStream WITH
    accepted <- Accepted, delivered <- Delivered, waiting <- Waiting, state <- StreamState
ImplementsStream == Stream!StreamSpec

\* Queued data is sent in the end, or the connection is given up: the oldest
\* byte in the queue does not stay there while the client is connected.  (When
\* malloc fails, us_send_packet may queue more for a client that is marked to be
\* closed, and nothing watches it.)
Drains ==
    \A n \in 1..MaxCalls :
        (Streams /\ phase = "open" /\ usc.pending # <<>> /\ usc.pending[1].call = n)
            ~> (phase # "open" \/ ~Streams \/ usc.pending = <<>> \/ usc.pending[1].call > n)

-----------------------------------------------------------------------------
(***************************************************************************)
(* What comments say and the code does not do.                             *)
(***************************************************************************)
\* us_send_packet: "return zero on success; none-zero on error".  It returns 0
\* unless US_ERR is set, so then every byte should be sent or queued.
ZeroMeansSent ==
    phase = "open" /\ "ERR" \notin usc.status => usc.lost = {}

\* us_write_data: "did not send all of it... buffer it for a later attempt".
\* Only bytes of the buffers should be queued.
OnlyTheBuffer ==
    \A i \in DOMAIN usc.pending : usc.pending[i].next >= 1

\* us_write: "On error, -1 is returned and the connection status is set as
\* error."
MinusOneIsError ==
    phase = "open" /\ usc.failed => "ERR" \in usc.status

\* UpperEntity: "the size of memory used by the socket layer" is computed from
\* sz_pending, which should be 0 when nothing is queued.
SizeIsMemory ==
    usc.pending = <<>> => usc.sz_pending = 0

\* us_handle_writes: "0: ok; <0: socket closed".  The caller does not look at
\* what it returns and uses the client.
NoUseAfterClose == phase # "read"
=============================================================================
