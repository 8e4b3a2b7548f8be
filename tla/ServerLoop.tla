----------------------------- MODULE ServerLoop -----------------------------
(***************************************************************************)
(* The loop over the sockets of both servers (purcmc/server.c), with the   *)
(* accepting and closing of clients and the limit on their number          *)
(* (unixsocket.c, websocket.c).  What a client says is the matter of the   *)
(* modules of the transports; here a read is answered or not, what is      *)
(* queued is there or not, and of the status words SENDING and CLOSE are   *)
(* kept, which say what is watched and who is closed.                      *)
(*                                                                         *)
(* epoll gives the addresses of the clients that were ready; select() the  *)
(* numbers of their descriptors, for which the clients are looked up when  *)
(* their turn comes.  The address of a client of the Unix socket is given  *)
(* to another once it was freed; a WSClient is never freed.  A descriptor  *)
(* is the smallest number that is free.  Using what was freed, and an      *)
(* assertion that fails, end the behaviour; `wrong' says which.            *)
(***************************************************************************)
EXTENDS Integers, Functions, FiniteSetsExt, SequencesExt, NoValue

CONSTANTS
    Clients,        \* addresses
    MaxEvents,      \* MAX_EVENTS
    Limit,          \* MAX_CLIENTS_EACH
    Multiplexers,   \* a subset of {"epoll", "select"}
    LoopLiberties   \* sets of the following

(***************************************************************************)
(* "breaks"       a peer goes while there is something to send to it;       *)
(* "both"         a client is readable and writable at once;                *)
(* "confirms"     a request makes the user close other clients;             *)
(* "full"         the first answer to a client does not go at once;         *)
(* "blocking"     a socket cannot be made non-blocking;                     *)
(* "nomem"        there is no memory for a queue;                           *)
(* "accesslog"    there is an access log.                                   *)
(***************************************************************************)
ASSUME LoopAssumption ==
    /\ IsFiniteSet(Clients) /\ Nil \notin Clients
    /\ MaxEvents \in Nat \ {0} /\ Limit \in Nat \ {0}
    /\ Multiplexers \subseteq {"epoll", "select"}
    /\ LoopLiberties \subseteq
         SUBSET {"breaks", "both", "confirms", "full", "blocking", "nomem", "accesslog"}
    /\ Nil \notin {"pending", "event", "status", "queue", "headers", "descriptor 0"}

Types == {"unix", "web"}
Listeners == [unix |-> 1, web |-> 2]
Fds == 3..(Cardinality(Clients) + 2)

VARIABLES
    lib,        \* the liberties taken
    mode,       \* the multiplexer
    client,     \* the client at each address
    nr_clients, \* of each server
    watch,      \* descriptors watched, with the client and whether for writing
    batch,      \* the events that are left of those waited for
    wrong

loopVars == <<lib, mode, client, nr_clients, watch, batch, wrong>>

Free == [ct |-> Nil, fd |-> 0, open |-> FALSE, entity |-> FALSE, queued |-> FALSE, status |-> {}]

\* prepare_server
LoopInit ==
    /\ lib \in LoopLiberties /\ mode \in Multiplexers
    /\ client = [c \in Clients |-> Free]
    /\ nr_clients = [ct \in Types |-> 0]
    /\ watch = [fd \in {1, 2} |-> [ptr |-> Nil, out |-> FALSE]]
    /\ batch = <<>> /\ wrong = Nil

ClientsOf(cs, ct) == {c \in Clients : cs[c].open /\ cs[c].ct = ct}
FreeFd == Min(Fds \ {client[c].fd : c \in {d \in Clients : client[d].open}})

-----------------------------------------------------------------------------
(***************************************************************************)
(* Callbacks of the servers, on the record of all that they change.        *)
(***************************************************************************)
Server == [client |-> client, nr |-> nr_clients, watch |-> watch, wrong |-> wrong]

Becomes(s) ==
    /\ client' = s.client /\ nr_clients' = s.nr /\ watch' = s.watch /\ wrong' = s.wrong
    /\ UNCHANGED <<lib, mode>>

\* listen_new_client, and EPOLL_CTL_ADD
Listen(s, c, out) ==
    LET fd == s.client[c].fd
    IN  [s EXCEPT !.watch = [f \in DOMAIN s.watch \cup {fd} |->
                               IF f = fd THEN [ptr |-> c, out |-> out] ELSE s.watch[f]]]

\* on_pending: a client that is not watched yet cannot be modified, and one that
\* is cannot be inserted once more.
on_pending(s, c) ==
    IF mode = "select" \/ s.client[c].fd \notin DOMAIN s.watch THEN [s EXCEPT !.wrong = "pending"]
    ELSE [s EXCEPT !.watch[s.client[c].fd].out = TRUE]

\* Mutant: the descriptor stays in fd2clients.
KeepListening(s, c) == s

\* on_close: remove_listening_client, and EPOLL_CTL_DEL
on_close(s, c) ==
    [s EXCEPT !.watch = Restrict(@, DOMAIN @ \ {s.client[c].fd})]

\* us_cleanup_client and ws_cleanup_client
Cleanup(s, c) ==
    LET d == on_close(s, c)
        ct == s.client[c].ct
    IN  [d EXCEPT !.client[c] = IF ct = "unix" THEN Free ELSE [Free EXCEPT !.ct = ct],
                  !.nr[ct] = @ - 1]

-----------------------------------------------------------------------------
(***************************************************************************)
(* Sending.  What is queued is as long as it happens to be: a write to a   *)
(* client that has a queue is added to it or, above the threshold, tries   *)
(* to send what is there.                                                  *)
(***************************************************************************)
WithStatus(s, c, status) == [s EXCEPT !.client[c].status = status]

\* us_write_data and ws_respond_data, when some of the buffer has to wait.
Queue(s, c) ==
    LET t == [s EXCEPT !.client[c].queued = TRUE, !.client[c].status = @ \cup {"SENDING"}]
    IN  IF "CLOSE" \in s.client[c].status THEN t ELSE on_pending(t, c)

\* us_queue_data sets SENDING once more, ws_realloc_send_buf does not.
Extend(s, c) ==
    IF s.client[c].ct = "web" THEN s
    ELSE WithStatus(s, c, s.client[c].status \cup {"SENDING"})

\* us_write_pending and ws_respond_cache, when all that was queued has gone:
\* EPOLLOUT stays as it is, and so does SENDING but for a web client that is to
\* be closed (ws_clear_queue).
Flush(s, c) ==
    LET t == [s EXCEPT !.client[c].queued = FALSE]
        both == {"SENDING", "CLOSE"}
    IN  IF s.client[c].ct = "web" /\ both \subseteq s.client[c].status
        THEN WithStatus(t, c, {"CLOSE"})
        ELSE t

\* The queue is cleared, but a new queue of a web client is not looked at.
NoMemory(s, c) ==
    IF s.client[c].ct = "web" /\ ~s.client[c].queued THEN [s EXCEPT !.wrong = "queue"]
    ELSE WithStatus([s EXCEPT !.client[c].queued = FALSE], c, {"CLOSE"})

\* us_write and ws_respond: nothing has to wait, or nothing of the queue goes; and
\* so on.
Write(s, c) ==
    {s} \cup (IF s.client[c].queued THEN {Extend(s, c), Flush(s, c)} ELSE {Queue(s, c)})
        \cup (IF "breaks" \in lib THEN {WithStatus(s, c, {"CLOSE"})} ELSE {})
        \cup (IF "nomem" \in lib THEN {NoMemory(s, c)} ELSE {})

\* us_send_packet writes a header and a payload, ws_send_packet a frame or more.
\* More than two writes come to what further packets come to.
Sends(s, c) ==
    UNION {IF t.wrong = Nil THEN Write(t, c) ELSE {t} :
             t \in IF s.wrong = Nil THEN Write(s, c) ELSE {s}}

\* The end of a read of a web client waits while SENDING is set.
CloseRead(s, c) ==
    IF "SENDING" \in s.client[c].status THEN s ELSE Cleanup(s, c)

-----------------------------------------------------------------------------
(* Waiting                                                                 *)

Ready(fd) == {ev \in SUBSET {"in", "out"} :
                /\ ev # {} /\ ("out" \in ev => watch[fd].out)
                /\ ev = {"in", "out"} => "both" \in lib}

Event(fd, ev) == [fd |-> fd, ptr |-> watch[fd].ptr, ev |-> ev]

\* The events come in any order, or in that of the descriptors.
Orders(fds) ==
    {order \in SetToSeqs(fds) :
       mode = "epoll" \/ \A i, j \in DOMAIN order : i < j => order[i] < order[j]}

Wait ==
    /\ batch = <<>> /\ wrong = Nil
    /\ \E fds \in SUBSET DOMAIN watch :
         /\ fds # {} /\ (mode = "epoll" => Cardinality(fds) <= MaxEvents)
         /\ \E order \in Orders(fds), ready \in [fds -> SUBSET {"in", "out"}] :
              /\ \A fd \in fds : ready[fd] \in Ready(fd)
              /\ batch' = [i \in DOMAIN order |-> Event(order[i], ready[order[i]])]
    /\ UNCHANGED <<lib, mode, client, nr_clients, watch, wrong>>

\* Without an event the sweeps of the registry may drop a client; between two
\* turns of the loop an event may be posted to one.
IdleSecond(c) ==
    /\ batch = <<>> /\ wrong = Nil /\ client[c].open /\ client[c].entity
    /\ \/ Becomes(Cleanup(Server, c))
       \/ \E s \in Sends(Server, c) : Becomes(s)
    /\ UNCHANGED batch

-----------------------------------------------------------------------------
(* Accepting                                                               *)

Event1 == batch[1]
Pop == batch' = Tail(batch)
Fails(what) ==
    wrong' = what /\ UNCHANGED <<lib, mode, client, nr_clients, watch, batch>>

Accepting(ct) == batch # <<>> /\ wrong = Nil /\ Event1.fd = Listeners[ct]

New(ct, c) ==
    [Server EXCEPT !.client[c] = [Free EXCEPT !.ct = ct, !.fd = FreeFd, !.open = TRUE],
                   !.nr[ct] = @ + 1]

\* The peer has given up.
NoClient(ct) ==
    Accepting(ct) /\ Pop /\ UNCHANGED <<lib, mode, client, nr_clients, watch, wrong>>

\* us_handle_accept.  A client above the limit, or without memory for an
\* endpoint, is told so and cleaned up.
us_handle_accept(c) ==
    LET s == New("unix", c)
        e == [s EXCEPT !.client[c].entity = TRUE]
    IN  /\ Accepting("unix") /\ client[c] = Free
        /\ \/ s.nr["unix"] <= Limit /\ Becomes(Listen(e, c, FALSE))
           \/ Becomes(Cleanup(s, c))
           \/ "full" \in lib /\ Becomes(Queue(e, c))
           \/ /\ "blocking" \in lib
              /\ Becomes([Server EXCEPT !.nr["unix"] = @ - 1, !.wrong = "descriptor 0"])
        /\ Pop

\* ws_handle_accept.  The endpoint is made with the handshake.
ws_handle_accept(c) ==
    LET s == New("web", c)
    IN  /\ Accepting("web") /\ client[c] = Free
        /\ IF s.nr["web"] <= Limit THEN Becomes(Listen(s, c, FALSE))
           ELSE IF "accesslog" \in lib THEN Becomes([s EXCEPT !.wrong = "headers"])
           ELSE \/ Becomes(Cleanup(s, c))
                \/ "full" \in lib /\ Becomes(Queue(s, c))
        /\ Pop

-----------------------------------------------------------------------------
(* Reading and writing                                                     *)

\* The client the event is for: with select() the one that is found now.
Served ==
    IF mode = "epoll" THEN Event1.ptr
    ELSE IF Event1.fd \in DOMAIN watch THEN watch[Event1.fd].ptr ELSE Nil

Serving(what) ==
    batch # <<>> /\ wrong = Nil /\ Event1.fd \notin {1, 2} /\ what \in Event1.ev

Stale == IF Served = Nil THEN TRUE ELSE ~client[Served].open

\* The address is that of nothing, or the descriptor closed.
ServesNothing ==
    /\ \E what \in {"in", "out"} : Serving(what)
    /\ Stale /\ Fails("event")

\* Whoever is closed in the loop of a question during a request.
Closings(s, c) ==
    LET others == {d \in Clients \ {c} : s.client[d].open /\ s.client[d].entity}
    IN  {s} \cup (IF "confirms" \in lib THEN {Cleanup(s, d) : d \in others} ELSE {})

\* us_handle_reads answers, and closes the client after an error.
UnixReads(s, c) ==
    UNION {{t} \cup (IF t.wrong = Nil THEN {Cleanup(t, c)} ELSE {}) : t \in Sends(s, c)}

\* read_client_data of websocket.c: the status is that of the last read, whatever
\* it was (ws_set_status), before and after what is sent; then ws_handle_reads
\* looks whether to close.
ReadStatus(s, c) == {s, WithStatus(s, c, {}), WithStatus(s, c, {"CLOSE"})}
WebReads(s, c) ==
    LET before == UNION {ReadStatus(t, c) : t \in Sends(s, c)}
        after  == UNION {UNION {ReadStatus(u, c) : u \in Sends(t, c)} : t \in before}
    IN  {IF t.wrong = Nil /\ "CLOSE" \in t.client[c].status THEN CloseRead(t, c) ELSE t :
           t \in after}

\* us_handle_reads and ws_handle_reads
HandleReads ==
    /\ Serving("in") /\ ~Stale
    /\ \E s \in Closings([Server EXCEPT !.client[Served].entity = TRUE], Served) :
         \E t \in IF client[Served].ct = "unix" THEN UnixReads(s, Served)
                 ELSE WebReads(s, Served) : Becomes(t)
    /\ batch' = IF "out" \in Event1.ev THEN [batch EXCEPT ![1].ev = {"out"}] ELSE Tail(batch)

\* What is queued goes, some of it or nothing; on a web socket nothing is sent
\* if nothing is queued, and that finds out too that the peer has gone.
SendsPending(c) ==
    {Server, Flush(Server, c)}
    \cup (IF "breaks" \in lib /\ (client[c].queued \/ client[c].ct = "web")
          THEN {WithStatus(Server, c, {"CLOSE"})} ELSE {})

\* us_handle_writes and ws_handle_writes, and what the loop does with the status
\* of the client then.
HandleWrites ==
    LET c == Served
        Ends(s) == IF client[c].ct = "unix" THEN [Cleanup(s, c) EXCEPT !.wrong = "status"]
                   ELSE Cleanup(s, c)
        Done(s) == IF s.client[c].queued THEN s
                   ELSE WithStatus(s, c, s.client[c].status \ {"SENDING"})
        Looked(s) ==
            IF s.client[c].status = {"CLOSE"} THEN Ends(s)
            ELSE IF s.client[c].status = {} THEN [s EXCEPT !.watch[client[c].fd].out = FALSE]
            ELSE s
    IN  /\ Serving("out") /\ ~Serving("in") /\ ~Stale
        /\ \E s \in SendsPending(c) : Becomes(Looked(Done(s)))
        /\ Pop

LoopNext ==
    \/ Wait
    \/ \E ct \in Types : NoClient(ct)
    \/ \E c \in Clients : IdleSecond(c) \/ us_handle_accept(c) \/ ws_handle_accept(c)
    \/ ServesNothing \/ HandleReads \/ HandleWrites

LoopSpec == LoopInit /\ [][LoopNext]_loopVars
-----------------------------------------------------------------------------
(* Properties                                                              *)

\* Between two turns of the loop every client is watched on its descriptor and
\* by its own address.  It is watched for writing while SENDING is set, unless it
\* is to be closed; a queue that nobody waits to send is that of a client to be
\* closed or of a web client, whose reads overwrite SENDING; and a Unix client is
\* not watched for writing once nothing is left to do.  Each server counts its
\* clients and keeps to its limit.  An event is for a client that is there, but
\* for those a request has closed or the two events of a client.
LoopSound ==
    /\ wrong = Nil =>
         /\ \A fd \in DOMAIN watch \ {1, 2} :
              watch[fd].ptr # Nil /\ client[watch[fd].ptr].open /\ client[watch[fd].ptr].fd = fd
         /\ \A c \in Clients : client[c].open =>
              LET fd == client[c].fd
                  closes == "CLOSE" \in client[c].status
              IN /\ fd \in DOMAIN watch
                 /\ "SENDING" \in client[c].status => watch[fd].out \/ closes
                 /\ client[c].queued => watch[fd].out \/ closes \/ client[c].ct = "web"
                 /\ watch[fd].out => client[c].status # {} \/ client[c].ct = "web"
         /\ \A ct \in Types : nr_clients[ct] = Cardinality(ClientsOf(client, ct))
                                /\ nr_clients[ct] <= Limit
    /\ wrong = "event" => lib \cap {"both", "confirms"} # {}
    /\ wrong = "status" => lib \cap {"breaks", "nomem"} # {}
    /\ wrong = "queue" => "nomem" \in lib
    /\ wrong = "pending" => mode = "select" \/ "full" \in lib
    /\ wrong = "headers" => "accesslog" \in lib
    /\ wrong = "descriptor 0" => "blocking" \in lib
=============================================================================
