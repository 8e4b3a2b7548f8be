------------------------------ MODULE Endpoints ------------------------------
(***************************************************************************)
(* The endpoint registry of the PURCMC server (purcmc/server.c and         *)
(* purcmc/endpoint.c): who is connected, who waits for authentication, who *)
(* is registered under which name, when each was last heard of, and which  *)
(* session each owns.                                                      *)
(*                                                                         *)
(* The server is one thread: purcmc_rdrsrv_check is called from the GLib   *)
(* main loop every 10 ms and runs one callback to its end before the next, *)
(* so an action is a whole callback.  What interleaves is the order of the *)
(* callbacks: packets and disconnections of several clients, the user's    *)
(* clicks, the once-a-second sweeps and the clock.                         *)
(*                                                                         *)
(* An element of Endpoint is the address of a purcmc_endpoint together     *)
(* with its socket client (they are allocated and freed together); an      *)
(* address is reused after it was freed, as malloc does.  The functions    *)
(* the C code calls on the_server are operators here from a registry       *)
(* record to a registry record, so that an action composes them in the     *)
(* order of the code.                                                      *)
(***************************************************************************)
EXTENDS Integers, FiniteSets

CONSTANTS
    Endpoint,           \* addresses of endpoint objects
    Name,               \* normalised names @host/app/runner
    Session,            \* addresses of purcmc_session objects
    NoEndpoint, NoName, NoSession,
    NoRespondingTime,   \* PCRDR_MAX_NO_RESPONDING_TIME
    PingTime,           \* PCRDR_MAX_PING_TIME
    NoRespondingPeriod, \* the 10 of "t_elapsed % 10"
    DanglingPeriod,     \* the 5 of "t_elapsed % 5"
    Timeouts,           \* values of timeoutSeconds clients send
    TimeWord,           \* 2^64: width of t_start_session + timeout_seconds
    CountWord,          \* 2^32: width of nr_endpoints
    MaxTime,            \* bound on the clock
    Liberties           \* the sets of liberties clients and user may take

(***************************************************************************)
(* What clients and user may do beyond the usual:                          *)
(*  "duplicate"     clients may send startSession with duplicate: true;    *)
(*  "restart"       a client may send startSession again on a connection;  *)
(*  "pickUnstarted" the user may pick, in the hbdrun://dupchoose page, an  *)
(*                  endpoint that has not sent startSession yet.           *)
(***************************************************************************)
AllLiberties == {"duplicate", "restart", "pickUnstarted"}

ASSUME ConstantsAssumption ==
    /\ NoEndpoint \notin Endpoint
    /\ NoName \notin Name
    /\ NoSession \notin Session
    /\ IsFiniteSet(Endpoint) /\ IsFiniteSet(Name)
    /\ NoRespondingTime \in Nat
    /\ PingTime \in 0..NoRespondingTime
    /\ NoRespondingPeriod \in Nat \ {0}
    /\ DanglingPeriod \in Nat \ {0}
    /\ TimeWord \in Nat \ {0}
    /\ Timeouts \subseteq 0..(TimeWord - 1)
    /\ CountWord \in Nat \ {0}
    /\ MaxTime \in Nat \ {0}
    /\ Liberties \subseteq SUBSET AllLiberties

VARIABLES
    reg,        \* the registry, a record of the fields below
    now,        \* purc_get_monotoic_time(), in seconds
    lastIdle,   \* t_start + t_elapsed_last: the second of the last idle sweep
    phase,      \* "running", "stopped", or "undefined" once freed memory or
                \* an uninitialised buffer has been read: nothing the source
                \* says bounds what the program does from then on
    liberties   \* those that clients and user of this behaviour take

vars == <<reg, now, lastIdle, phase, liberties>>

-----------------------------------------------------------------------------
(***************************************************************************)
(* purcmc_endpoint.  "asked" is not a field of the code: it remembers that *)
(* the client has sent a startSession on this connection.                  *)
(***************************************************************************)
EndpointRec ==
    [alive : BOOLEAN, type : {"unix", "web"}, name : Name \cup {NoName},
     t_created : Nat, t_living : Nat, t_start_session : Nat,
     timeout_seconds : Nat, session : Session \cup {NoSession},
     asked : BOOLEAN]

FreedEndpoint ==
    [alive |-> FALSE, type |-> "unix", name |-> NoName,
     t_created |-> 0, t_living |-> 0, t_start_session |-> 0,
     timeout_seconds |-> 0, session |-> NoSession, asked |-> FALSE]

NewEndpoint(t) == [FreedEndpoint EXCEPT !.alive = TRUE, !.type = t,
                                        !.t_created = now, !.t_living = now]

(***************************************************************************)
(* the_server.  "living" is living_avl: for an endpoint in the tree, the   *)
(* value of t_living its node was inserted by, which fixes the node's      *)
(* place in the iteration; NotInTree otherwise (avl.key is NULL).          *)
(***************************************************************************)
NotInTree == -1

Registry ==
    [ep : [Endpoint -> EndpointRec],
     dangling : SUBSET Endpoint,                    \* dangling_endpoints
     list : [Name -> Endpoint \cup {NoEndpoint}],   \* endpoint_list
     living : [Endpoint -> Nat \cup {NotInTree}],   \* living_avl
     nr : 0..(CountWord - 1),                       \* nr_endpoints
     sessions : SUBSET Session]                     \* sessions not removed

InTree(r, e) == r.living[e] # NotInTree

Tree(r) == {e \in Endpoint : InTree(r, e)}

Listed(r) == {n \in Name : r.list[n] # NoEndpoint}

EmptyRegistry ==
    [ep |-> [e \in Endpoint |-> FreedEndpoint],
     dangling |-> {},
     list |-> [n \in Name |-> NoEndpoint],
     living |-> [e \in Endpoint |-> NotInTree],
     nr |-> 0,
     sessions |-> {}]

-----------------------------------------------------------------------------
(* The helpers of the registry. *)

\* gslist_insert_append(head, e) makes a node, links it behind the head and
\* returns it; store_dangling_endpoint makes it the new head, so the node
\* that was the head is no longer reachable.  No more than one node ever is
\* (AtMostOneDangling), so the order of the list does not matter.
InsertAppend(D, e) ==
    IF D = {} THEN {e} ELSE (D \ {CHOOSE h \in D : TRUE}) \cup {e}

StoreDangling(r, e) == [r EXCEPT !.dangling = InsertAppend(@, e)]

RemoveDangling(r, e) == [r EXCEPT !.dangling = @ \ {e}]

\* del_endpoint that frees an endpoint and leaves its node in the tree.
DelAllKeepingNodes(r, R) ==
    [r EXCEPT !.ep = [e \in Endpoint |-> IF e \in R THEN FreedEndpoint ELSE @[e]],
              !.sessions = @ \ {r.ep[e].session : e \in R}]

\* del_endpoint for each endpoint of R: its session is removed, its node is
\* taken out of the tree if it has a name, its memory is freed.
DelAll(r, R) ==
    [r EXCEPT !.ep = [e \in Endpoint |-> IF e \in R THEN FreedEndpoint ELSE @[e]],
              !.living = [e \in Endpoint |->
                             IF e \in R /\ r.ep[e].name # NoName
                             THEN NotInTree ELSE @[e]],
              !.sessions = @ \ {r.ep[e].session : e \in R}]

\* kvlist_delete by the name of each endpoint of R.
Unlist(r, R) ==
    [r EXCEPT !.list = [n \in Name |-> IF \E e \in R : r.ep[e].name = n
                                       THEN NoEndpoint ELSE @[n]]]

\* nr_endpoints as a signed integer.
DecreaseSigned(r, k) == [r EXCEPT !.nr = @ - k]

Decrease(r, k) == [r EXCEPT !.nr = (@ - k) % CountWord]

\* make_endpoint_ready, for an endpoint found in the dangling list: its entry
\* replaces whatever the list held under the name.
MakeReady(r, e, n) ==
    [r EXCEPT !.dangling = @ \ {e},
              !.list[n] = e,
              !.ep[e].t_living = now,
              !.living[e] = now,
              !.nr = (@ + 1) % CountWord]

\* on_close that decreases nr_endpoints for waiting endpoints too.
OnCloseAlwaysCounts(r, e) ==
    DelAll(Decrease(RemoveDangling(Unlist(r, {e}), e), 1), {e})

\* on_close: the connection of e is gone.  The entry under e's name is
\* deleted whatever endpoint it refers to.
OnClose(r, e) ==
    LET n == r.ep[e].name
        r1 == IF n # NoName /\ r.list[n] # NoEndpoint
              THEN Decrease(Unlist(r, {e}), 1)
              ELSE RemoveDangling(r, e)
    IN  DelAll(r1, {e})

\* remove_endpoint that forgets kvlist_delete.
RemoveEndpointOnly(r, e) == Decrease(DelAll(r, {e}), 1)

\* remove_endpoint: nr_endpoints is decreased even if no entry was deleted.
RemoveEndpoint(r, e) == Decrease(DelAll(Unlist(r, {e}), {e}), 1)

\* Sending a response to the request being handled: when it fails, the
\* transport closes the connection before it returns.
Sent(r, e) == {r, OnClose(r, e)}

\* update_endpoint_living_time that leaves the node where it is.
TouchInPlace(r, e) ==
    IF InTree(r, e) THEN [r EXCEPT !.ep[e].t_living = now] ELSE r

\* update_endpoint_living_time, called before a packet is read.
Touch(r, e) ==
    IF InTree(r, e) /\ r.ep[e].t_living # now
    THEN [r EXCEPT !.ep[e].t_living = now, !.living[e] = now]
    ELSE r

\* cbs.create_session: a new session for e, or none when it fails.
CreateSession(r, e) ==
    {[r EXCEPT !.ep[e].session = NoSession]} \cup
    {[r EXCEPT !.ep[e].session = s, !.sessions = @ \cup {s}] :
        s \in Session \ r.sessions}

\* A client that may send startSession on its connection.
MayStart(e) == ~reg.ep[e].asked \/ "restart" \in liberties

-----------------------------------------------------------------------------
(* The actions. *)

Init ==
    /\ reg = EmptyRegistry
    /\ now = 1
    /\ lastIdle = 1
    /\ phase = "running"
    /\ liberties \in Liberties

Handle(e) == /\ phase = "running"
             /\ reg.ep[e].alive
             /\ UNCHANGED <<now, lastIdle, phase, liberties>>

\* on_accepted: a client connects, an endpoint is made for it and the initial
\* response is sent; if that fails the connection is closed again.
Accept(e, t) ==
    /\ phase = "running"
    /\ ~reg.ep[e].alive
    /\ LET r == StoreDangling([reg EXCEPT !.ep[e] = NewEndpoint(t)], e)
       IN  reg' \in Sent(r, e)
    /\ UNCHANGED <<now, lastIdle, phase, liberties>>

\* The packet of a startSession request, read after update_endpoint_living_time.
Asked(e) == [Touch(reg, e) EXCEPT !.ep[e].asked = TRUE]

\* on_start_session without "duplicate", refused by authenticate_endpoint
\* (bad data, declined by the user, name taken, or not in the dangling list).
\* A session the endpoint already had is forgotten, not removed.
StartSessionRefused(e) ==
    /\ Handle(e)
    /\ MayStart(e)
    /\ LET r == [Asked(e) EXCEPT !.ep[e].session = NoSession]
       IN  reg' \in Sent(r, e)

\* authenticate_endpoint that does not look for the name in the list.
MayAuthenticateAnyway(r, e, n) == e \in r.dangling

\* What authenticate_endpoint requires of the registry.
MayAuthenticate(r, e, n) == r.list[n] = NoEndpoint /\ e \in r.dangling

\* on_start_session without "duplicate", accepted.
StartSession(e, n) ==
    /\ Handle(e)
    /\ MayStart(e)
    /\ MayAuthenticate(reg, e, n)
    /\ LET r == [MakeReady(Asked(e), e, n) EXCEPT !.ep[e].name = n]
       IN  \E r1 \in CreateSession(r, e) : reg' \in Sent(r1, e)

\* parse_session_data that looks for the name in the dangling list only.
NameUnclaimed(r, n) == \A d \in r.dangling : r.ep[d].name # n

\* parse_session_data: the name must be neither registered nor claimed by an
\* endpoint of the dangling list (e itself included).
NameFree(r, n) ==
    /\ r.list[n] = NoEndpoint
    /\ \A d \in r.dangling : r.ep[d].name # n

\* What parse_session_data stores in the endpoint.
Claim(r, e, n, t) ==
    [r EXCEPT !.ep[e].name = n, !.ep[e].timeout_seconds = t]

\* The first endpoint to register, if local, needs no consent of the user.
AutoAccepted(r, e) == Listed(r) = {} /\ r.ep[e].type = "unix"

\* Entries of the list, and nodes of the dangling list, that refer to freed
\* memory.
StaleEntry(r) == \E n \in Listed(r) : ~r.ep[r.list[n]].alive

StaleDangling(r) == \E d \in r.dangling : ~r.ep[d].alive

\* A callback that walks the list (UserCloses, Stop) or the dangling list
\* (the sweeps, parse_session_data, the dupchoose page) reads freed memory.
ReadsFreed ==
    /\ phase = "running"
    /\ StaleEntry(reg) \/ StaleDangling(reg)
    /\ phase' = "undefined"
    /\ UNCHANGED <<reg, now, lastIdle, liberties>>

MayDuplicate(e, n) ==
    /\ "duplicate" \in liberties
    /\ MayStart(e)
    /\ ~StaleDangling(reg)
    /\ NameFree(reg, n)

\* on_start_session_duplicate, refused by parse_session_data.
DuplicateRefused(e) ==
    /\ Handle(e)
    /\ "duplicate" \in liberties
    /\ MayStart(e)
    /\ reg' \in Sent(Asked(e), e)

\* on_start_session_duplicate, accepted at once.
DuplicateAutoAccepted(e, n, t) ==
    /\ Handle(e)
    /\ MayDuplicate(e, n)
    /\ AutoAccepted(reg, e)
    /\ LET r == Claim(Asked(e), e, n, t)
       IN  IF e \in r.dangling
           THEN \E r1 \in CreateSession(MakeReady(r, e, n), e) : reg' \in Sent(r1, e)
           ELSE reg' \in Sent(r, e)

\* on_start_session_duplicate, left for the user to accept: no response yet.
DuplicateWaits(e, n, t) ==
    /\ Handle(e)
    /\ MayDuplicate(e, n)
    /\ ~AutoAccepted(reg, e)
    /\ LET r == Claim(Asked(e), e, n, t)
       IN  reg' = [r EXCEPT !.ep[e].t_start_session = now]

\* accept_endpoint, called when the user pulls the screen of the only dangling
\* endpoint or picks one in the dupchoose page.  A failure to send the
\* response does not close the connection here.
UserAccepts(e) ==
    /\ Handle(e)
    /\ e \in reg.dangling
    /\ reg.ep[e].name # NoName
    /\ reg' \in CreateSession(MakeReady(reg, e, reg.ep[e].name), e)

\* accept_endpoint of an endpoint with no name: the uninitialised buffer
\* endpoint_name becomes a key, and the absent request_id is used as a string.
UserAcceptsUnstarted(e) ==
    /\ phase = "running"
    /\ "pickUnstarted" \in liberties
    /\ e \in reg.dangling
    /\ reg.ep[e].name = NoName
    /\ phase' = "undefined"
    /\ UNCHANGED <<reg, now, lastIdle, liberties>>

\* on_end_session that leaves the pointer to the removed session.
EndSessionKeepsPointer(e) ==
    Handle(e) /\ reg' = [Touch(reg, e) EXCEPT !.sessions = @ \ {reg.ep[e].session}]

\* on_end_session: no response.
EndSession(e) ==
    /\ Handle(e)
    /\ LET r == Touch(reg, e)
       IN  reg' = [r EXCEPT !.ep[e].session = NoSession,
                            !.sessions = @ \ {reg.ep[e].session}]

\* Any other packet or control frame: it changes the registry by its arrival
\* only, and may end in an error that closes the connection.
Packet(e) == Handle(e) /\ reg' \in Sent(Touch(reg, e), e)

\* The peer closes, or a pending write finds the connection broken.
Disconnect(e) == Handle(e) /\ reg' = OnClose(reg, e)

\* The user closes the duplicated screen of a registered endpoint
\* (show_dup_close_confirm_window looks through the list for the newest).
UserCloses(e) ==
    /\ phase = "running"
    /\ \E n \in Name : reg.list[n] = e
    /\ ~StaleEntry(reg)
    /\ reg' = RemoveEndpoint(reg, e)
    /\ UNCHANGED <<now, lastIdle, phase, liberties>>

-----------------------------------------------------------------------------
(* The sweeps of an idle second. *)

\* check_no_responding_endpoints walks the tree from the oldest node, removes
\* the endpoints not heard of for NoRespondingTime, pings those not heard of
\* for PingTime and stops at the first that is neither.
NoResponding(r) ==
    {e \in Tree(r) :
        /\ now > r.ep[e].t_living + NoRespondingTime
        /\ \A f \in Tree(r) : r.living[f] <= r.living[e]
                              => now > r.ep[f].t_living + PingTime}

CheckNoResponding(r) ==
    LET R == NoResponding(r)
    IN  Decrease(DelAll(Unlist(r, R), R), Cardinality(R))

RemoveAllDangling(r, R) == DelAll([r EXCEPT !.dangling = @ \ R], R)

CheckDangling(r) ==
    RemoveAllDangling(r, {e \in r.dangling :
                             now > r.ep[e].t_created + NoRespondingTime})

\* The second after which a waiting endpoint is given up.  The fields are 0
\* in an endpoint that has not sent startSession.
StartDeadline(r, e) ==
    (r.ep[e].t_start_session + r.ep[e].timeout_seconds) % TimeWord

CheckTimeoutDangling(r) ==
    RemoveAllDangling(r, {e \in r.dangling : now > StartDeadline(r, e)})

Elapsed == now - 1      \* t_elapsed: the server starts at second 1

NoRespondingDue == Elapsed % NoRespondingPeriod = 0

\* purcmc_rdrsrv_check with no event pending, once in a second.
IdleCheck ==
    /\ phase = "running"
    /\ now # lastIdle
    /\ ~StaleDangling(reg)
    /\ LET r == IF NoRespondingDue THEN CheckNoResponding(reg)
                ELSE IF Elapsed % DanglingPeriod = 0 THEN CheckDangling(reg)
                ELSE reg
       IN  reg' = CheckTimeoutDangling(r)
    /\ lastIdle' = now
    /\ UNCHANGED <<now, phase, liberties>>

\* deinit_server: the endpoints of the list and of the dangling list are
\* deleted, each entry of the list decreasing nr_endpoints.
Deinit(r) ==
    LET R == {r.list[n] : n \in Listed(r)}
        r1 == [r EXCEPT !.living = [e \in Endpoint |-> NotInTree],
                        !.dangling = {},
                        !.list = [n \in Name |-> NoEndpoint]]
    IN  Decrease(DelAll(r1, R \cup r.dangling), Cardinality(Listed(r)))

Stop ==
    /\ phase = "running"
    /\ ~StaleEntry(reg) /\ ~StaleDangling(reg)
    /\ phase' = "stopped"
    /\ reg' = Deinit(reg)
    /\ UNCHANGED <<now, lastIdle, liberties>>

\* Time passes; a busy or blocked server may miss the idle check of a second.
Tick ==
    /\ phase = "running"
    /\ now < MaxTime
    /\ now' = now + 1
    /\ UNCHANGED <<reg, lastIdle, phase, liberties>>

\* Nothing happens after the server has stopped.
Stopped == phase # "running" /\ UNCHANGED vars

ClientStep(e) ==
    \/ \E t \in {"unix", "web"} : Accept(e, t)
    \/ StartSessionRefused(e)
    \/ DuplicateRefused(e)
    \/ \E n \in Name : StartSession(e, n)
    \/ \E n \in Name, t \in Timeouts : DuplicateAutoAccepted(e, n, t)
    \/ \E n \in Name, t \in Timeouts : DuplicateWaits(e, n, t)
    \/ EndSession(e)
    \/ Packet(e)
    \/ Disconnect(e)

UserStep(e) == UserAccepts(e) \/ UserAcceptsUnstarted(e) \/ UserCloses(e)

Next ==
    \/ \E e \in Endpoint : ClientStep(e) \/ UserStep(e)
    \/ IdleCheck
    \/ ReadsFreed
    \/ Stop
    \/ Tick
    \/ Stopped

Spec == Init /\ [][Next]_vars

-----------------------------------------------------------------------------
(***************************************************************************)
(* Invariants that hold whatever clients and user do.                      *)
(***************************************************************************)

\* Types of the state.
TypeOK ==
    /\ reg \in Registry
    /\ now \in 1..MaxTime
    /\ lastIdle \in 1..MaxTime
    /\ phase \in {"running", "stopped", "undefined"}
    /\ liberties \in Liberties

\* The dangling list has at most one node: store_dangling_endpoint makes the
\* node it appends the head (endpoint.c:286).  This is what the user
\* interface and the sweeps find in it, and what hides the lack of a check
\* in accept_endpoint (see DanglingNameFree).
AtMostOneDangling == \A d, f \in reg.dangling : d = f

\* The name a waiting endpoint claims is not registered, so accept_endpoint,
\* which does not look, cannot replace another endpoint's entry.  Also
\* on_close, which tries the list first, then takes the waiting endpoint out
\* of the dangling list and not another's entry out of the list.
DanglingNameFree ==
    \A d \in reg.dangling :
        reg.ep[d].name # NoName => reg.list[reg.ep[d].name] = NoEndpoint

\* A node of the living tree belongs to a live endpoint, was placed by that
\* endpoint's present t_living (else the walk of the sweep, which stops at
\* the first responding endpoint, could miss one behind it), and will be
\* found by del_endpoint, which skips endpoints that have no name.
TreeCurrent ==
    \A e \in Tree(reg) :
        /\ reg.ep[e].alive
        /\ reg.ep[e].name # NoName
        /\ reg.living[e] = reg.ep[e].t_living
        /\ reg.living[e] <= now

\* remove_session is never called for a session that was removed before, nor
\* for one of another endpoint.
SessionsSound ==
    /\ \A e \in Endpoint :
           reg.ep[e].session # NoSession
           => reg.ep[e].alive /\ reg.ep[e].session \in reg.sessions
    /\ \A e, f \in Endpoint :
           reg.ep[e].session = reg.ep[f].session /\ reg.ep[e].session # NoSession
           => e = f

\* After the check of no responding endpoints (server.c:459), no endpoint is
\* left in the tree that was not heard of for NoRespondingTime, although the
\* walk stops early.
SweepComplete ==
    [][lastIdle' # lastIdle /\ NoRespondingDue
       => \A e \in Tree(reg') : now <= reg'.ep[e].t_living + NoRespondingTime]_vars

\* kvlist_set replaces an entry without a word: no registration ever takes a
\* name from another endpoint.
NoOverwrite ==
    [][\A n \in Name : reg.list[n] # NoEndpoint
                        => reg'.list[n] \in {reg.list[n], NoEndpoint}]_vars

(***************************************************************************)
(* Properties of clients that send one startSession per connection.        *)
(***************************************************************************)

\* The sweeps and the dupchoose page follow the pointers of the dangling
\* list: none of them refers to a freed endpoint, and no endpoint waits and
\* is registered at once, or two sweeps would free it.
DanglingAlive == \A d \in reg.dangling : reg.ep[d].alive /\ ~InTree(reg, d)

\* Every entry of endpoint_list refers to a live endpoint that bears the
\* entry's name and is swept when it goes silent.
EntriesLive ==
    \A n \in Listed(reg) :
        LET e == reg.list[n]
        IN  reg.ep[e].alive /\ reg.ep[e].name = n /\ InTree(reg, e)

\* No session is leaked: the endpoint that owns it can still be closed.
SessionsOwned ==
    phase = "running"
    => \A s \in reg.sessions : \E e \in Endpoint : reg.ep[e].session = s

\* No freed endpoint and no uninitialised name is ever used.
Defined == phase # "undefined"

\* No list of the registry refers to a freed endpoint, no endpoint waits and is
\* registered at once, no session is left without the endpoint that closes it,
\* and no freed endpoint or uninitialised name is ever used (endpoint.c).
RegistryLive ==
    liberties \subseteq {"duplicate"} =>
    DanglingAlive /\ DanglingNameFree /\ EntriesLive /\ SessionsOwned /\ Defined

(***************************************************************************)
(* Properties that need, besides, that no client asks for a duplicate.     *)
(***************************************************************************)

\* Without duplicates an entry of the list goes only with its endpoint: no other
\* endpoint's close or sweep unregisters a client that still talks.
EntryDiesWithEndpoint ==
    [][liberties = {} =>
       \A n \in Listed(reg) : reg'.list[n] = NoEndpoint => ~reg'.ep[reg.list[n]].alive]_vars

\* nr_endpoints, decreased by several paths whether or not an entry was
\* found, is the number of the entries.
CountExact == reg.nr = Cardinality(Listed(reg)) % CountWord

\* An endpoint in the tree is in the list under its name: each sweep finds
\* the entry it deletes, and no endpoint outlives its registration.
TreeListed == \A e \in Tree(reg) : reg.list[reg.ep[e].name] = e

\* Without duplicates nr_endpoints is the number of the entries, although several
\* paths decrease it whether or not an entry was found, and an endpoint in the
\* tree is in the list under its name.
Bookkeeping == liberties = {} => CountExact /\ TreeListed

(***************************************************************************)
(* What comments and assertions of the code say and the code does not do.  *)
(***************************************************************************)

\* server.h, of dangling_endpoints: "The accepted endpoints but waiting for
\* authentification".
WaitingAreDangling ==
    phase = "running" =>
    \A e \in Endpoint : reg.ep[e].alive /\ ~InTree(reg, e) => e \in reg.dangling

\* server.c:957, in deinit_server: assert(the_server.nr_endpoints == 0).
NoEndpointLeft == phase = "stopped" => reg.nr = 0

\* server.c:465, of check_timeout_dangling_endpoints: "startSession timeout".
\* A client that has not sent startSession is given the time that
\* check_dangling_endpoints gives it.
TimeoutIsOfStartSession ==
    [][lastIdle' # lastIdle =>
       \A d \in reg.dangling :
           ~reg.ep[d].asked /\ now <= reg.ep[d].t_created + NoRespondingTime
           => reg'.ep[d].alive]_vars

\* server.h, of endpoint_list: "The KV list using endpoint name as the key,
\* and purcmc_endpoint* as the value".
ValuesAreEndpoints ==
    \A n \in Listed(reg) : reg.ep[reg.list[n]].alive /\ reg.ep[reg.list[n]].name = n

=============================================================================
