------------------------------ MODULE Renderer ------------------------------
(***************************************************************************)
(* The GTK renderer behind the server: sessions, the plain windows they    *)
(* open, the requests they pass on to web pages, and the callbacks by      *)
(* which WebKit reports later what the pages did.                          *)
(*                                                                         *)
(* A request is answered at once, or pended under its requestId in its     *)
(* session until the page answers.  A callback carries the address of the  *)
(* session it was registered for; sessions and web views are therefore     *)
(* named here by the place in memory they occupy, which may be given to    *)
(* another one later.  What happens through the address of a session that  *)
(* was freed is undefined: the renderer crashes, the callback finds        *)
(* nothing, or it finds the session that took the place.                   *)
(*                                                                         *)
(* Of the layouter there is only whether a workspace has one; widgets, the *)
(* coroutines that own a page and the windows of the layouter are not      *)
(* here.                                                                   *)
(***************************************************************************)
EXTENDS Naturals, Sequences, FiniteSets

CONSTANTS
    Names,          \* endpoint names, edpt://<host>/<app>/<runner>
    Apps,           \* applications
    AppOf,          \* the application of a name
    Slots,          \* addresses of sessions
    Views,          \* addresses of web views, each with its window
    Pages,          \* page identifiers of plain windows
    Ids,            \* request identifiers
    NoReturn,       \* PCRDR_REQUESTID_NORETURN, one of Ids
    None,           \* NULL
    MaxConns,       \* bound on the connections that register
    MaxRequests,    \* bound on the requests not answered at once
    Environments,   \* sets of liberties of the clients, see below
    RequestBound    \* the bound on the requests in each of them

(***************************************************************************)
(* "endings"   a connection or a session ends while windows it opened are  *)
(*             there, and a client goes on after endSession;               *)
(* "restarts"  a client sends startSession twice, and goes on;             *)
(* "dups"      a client uses a requestId again before it was answered;     *)
(* "blank"     a client updates a window with an empty object.             *)
(***************************************************************************)
ASSUME RendererAssumption ==
    /\ AppOf \in [Names -> Apps]
    /\ NoReturn \in Ids
    /\ None \notin Names \cup Slots \cup Views
    /\ MaxConns \in Nat /\ MaxRequests \in Nat
    /\ Environments \subseteq SUBSET {"endings", "restarts", "dups", "blank"}
    /\ RequestBound \in [Environments -> 0..MaxRequests]

VARIABLES
    env,        \* the liberties of the clients in this behaviour
    endpoints,  \* per name, the registered connection (0: none) and its session
    conns,      \* number of connections that have registered
    sessions,   \* contents of the session addresses
    owners,     \* kv_app_workspace: per application, page_owners
    layouter,   \* kv_app_workspace: per application, whether it has a layouter
    views,      \* contents of the web view addresses
    flights,    \* messages that pages have not answered: view, session, request
    requests,   \* the requests not answered at once, and the answers each was given
    strays,     \* connections an event was posted to for a window of another
    crashed     \* the renderer is gone

vars == <<env, endpoints, conns, sessions, owners, layouter, views, flights,
          requests, strays, crashed>>

\* The content of an address that was freed, or never used.
FreeSession == [name |-> None, handles |-> {}, pending |-> [r \in Ids |-> 0]]
FreeView    == [state |-> "none", sess |-> None, page |-> None, loading |-> 0, conn |-> 0]

Live(s)   == s # None /\ sessions[s].name # None
Opened(v) == views[v].state # "none"

\* The clients take none of these liberties.
Without(liberties) == env \cap liberties = {}

Init ==
    /\ env \in Environments
    /\ endpoints = [n \in Names |-> [conn |-> 0, sess |-> None]]
    /\ conns = 0
    /\ sessions = [s \in Slots |-> FreeSession]
    /\ owners = [a \in Apps |-> [p \in Pages |-> None]]
    /\ layouter = [a \in Apps |-> FALSE]
    /\ views = [v \in Views |-> FreeView]
    /\ flights = {} /\ requests = <<>> /\ strays = {}
    /\ crashed = FALSE

Crash ==
    /\ crashed' = TRUE
    /\ UNCHANGED <<env, endpoints, conns, sessions, owners, layouter, views,
                   flights, requests, strays>>

-----------------------------------------------------------------------------
(***************************************************************************)
(* Sessions.                                                               *)
(***************************************************************************)
\* calloc may give any free address, one that had a session before included.
StartSession(n, s) ==
    /\ endpoints[n].conn = 0
    /\ ~Live(s)
    /\ conns < MaxConns
    /\ conns' = conns + 1
    /\ sessions' = [sessions EXCEPT ![s] = [FreeSession EXCEPT !.name = n]]
    /\ endpoints' = [endpoints EXCEPT ![n] = [conn |-> conns', sess |-> s]]
    /\ UNCHANGED <<env, owners, layouter, views, flights, requests, strays, crashed>>

\* authenticate_endpoint refuses the name, or make_endpoint_ready the endpoint, but
\* on_start_session has forgotten its session by then.
RestartSession(n) ==
    /\ "restarts" \in env
    /\ endpoints[n].conn # 0
    /\ endpoints' = [endpoints EXCEPT ![n].sess = None]
    /\ UNCHANGED <<env, conns, sessions, owners, layouter, views, flights, requests, strays,
                   crashed>>

\* The windows of the workspace that on_each_ostack closes.
OwnPages(s) ==
    {v \in sessions[s].handles :
        \E p \in Pages : owners[AppOf[sessions[s].name]][p] = v}

\* WebKit closes a view later, see ViewClosed.  The layouter is the workspace's.
RemoveSession(s) ==
    /\ views' = [v \in Views |->
                    IF v \in OwnPages(s) THEN [views[v] EXCEPT !.state = "closing"] ELSE views[v]]
    /\ layouter' = [layouter EXCEPT ![AppOf[sessions[s].name]] = FALSE]
    /\ sessions' = [sessions EXCEPT ![s] = FreeSession]

MayEnd(s) == "endings" \in env \/ \A v \in Views : views[v].sess # s

\* endSession: the endpoint stays registered.
EndSession(n) ==
    LET s == endpoints[n].sess
    IN  /\ s # None
        /\ MayEnd(s)
        /\ RemoveSession(s)
        /\ endpoints' = [endpoints EXCEPT ![n].sess = None]
        /\ UNCHANGED <<env, conns, owners, flights, requests, strays, crashed>>

\* Mutant: the session is left behind.
DelEndpointOnly(n) ==
    /\ endpoints[n].conn # 0
    /\ endpoints[n].sess # None => MayEnd(endpoints[n].sess)
    /\ endpoints' = [endpoints EXCEPT ![n] = [conn |-> 0, sess |-> None]]
    /\ UNCHANGED <<env, conns, sessions, owners, layouter, views, flights, requests, strays,
                   crashed>>

\* del_endpoint, whatever the reason.
DelEndpoint(n) ==
    LET s == endpoints[n].sess
    IN  /\ endpoints[n].conn # 0
        /\ IF s = None
           THEN UNCHANGED <<sessions, views, layouter>>
           ELSE MayEnd(s) /\ RemoveSession(s)
        /\ endpoints' = [endpoints EXCEPT ![n] = [conn |-> 0, sess |-> None]]
        /\ UNCHANGED <<env, conns, owners, flights, requests, strays, crashed>>

-----------------------------------------------------------------------------
(***************************************************************************)
(* Requests.  A request of connection c with identifier r is about view v. *)
(***************************************************************************)
NewRequest(c, r, v) == [conn |-> c, id |-> r, view |-> v, gone |-> FALSE, answers |-> <<>>]

\* The handler sends the response itself.  Such a request is not kept in requests.
AnswerNow == UNCHANGED requests

\* gtk_pend_response: a request whose identifier is pending already is dropped.
PendResponse(pending, r, q) ==
    IF r = NoReturn \/ pending[r] # 0 THEN pending ELSE [pending EXCEPT ![r] = q]

Pend(n, r, v) ==
    LET s == endpoints[n].sess
        q == Len(requests) + 1
    IN  /\ requests' = Append(requests, NewRequest(endpoints[n].conn, r, v))
        /\ sessions' = [sessions EXCEPT ![s].pending = PendResponse(@, r, q)]

Unanswered(c, r) ==
    \E q \in 1..Len(requests) :
        requests[q].conn = c /\ requests[q].id = r /\ requests[q].answers = <<>>

\* A client may send a request: the handlers do not look whether there is a session.
MaySend(n, r) ==
    /\ endpoints[n].conn # 0
    /\ Len(requests) < RequestBound[env]
    /\ "dups" \in env \/ r = NoReturn \/ ~Unanswered(endpoints[n].conn, r)

RequestWithoutSession(n, r) ==
    /\ ~Without({"endings", "restarts"})
    /\ MaySend(n, r)
    /\ endpoints[n].sess = None
    /\ Crash

\* gtk_find_page: in the whole workspace.
FindPage(n, p) == owners[AppOf[n]][p]

\* gtk_create_plainwin, where it makes a window.
CreatePlainwin(n, r, p, v) ==
    LET s == endpoints[n].sess
        q == Len(requests) + 1
    IN  /\ ~Opened(v)
        /\ owners' = [owners EXCEPT ![AppOf[n]][p] = v]
        /\ views' = [views EXCEPT ![v] = [state |-> "open", sess |-> s, page |-> p,
                                         loading |-> q, conn |-> endpoints[n].conn]]
        /\ requests' = Append(requests, NewRequest(endpoints[n].conn, r, v))
        /\ sessions' = [sessions EXCEPT ![s].handles = @ \cup {v},
                                       ![s].pending = PendResponse(@, r, q)]

\* on_create_plain_window.  A page that is found is the answer, and what page_owners says
\* of it is followed even when that window was closed.  A grouped window takes a layouter,
\* which may not make it.
CreatePlainWindow(n, r, p, grouped, v) ==
    LET found == FindPage(n, p)
    IN  /\ MaySend(n, r)
        /\ endpoints[n].sess # None
        /\ \/ /\ found # None \/ grouped
              /\ AnswerNow
              /\ UNCHANGED <<sessions, owners, views, crashed>>
           \/ /\ found # None /\ ~Opened(found)
              /\ crashed' = TRUE
              /\ UNCHANGED <<sessions, owners, views, requests>>
           \/ /\ found = None
              /\ grouped => layouter[AppOf[n]]
              /\ CreatePlainwin(n, r, p, v)
              /\ UNCHANGED crashed
        /\ UNCHANGED <<env, endpoints, conns, layouter, flights, strays>>

\* A reserved name, for which get_special_plainwin follows every entry of page_owners;
\* the request is answered with what it found, NULL included.
SpecialPlainWindow(n, r) ==
    LET listed == {owners[AppOf[n]][p] : p \in Pages} \ {None}
    IN  /\ MaySend(n, r)
        /\ endpoints[n].sess # None
        /\ crashed' \in (IF \E v \in listed : ~Opened(v) THEN BOOLEAN ELSE {FALSE})
        /\ AnswerNow
        /\ UNCHANGED <<env, endpoints, conns, sessions, owners, layouter, views, flights, strays>>

\* gtk_update_plainwin: its result is not initialized when the object has no member, and
\* may then be 0, which makes the handler pend the request.
MayReturnZero(s, v, blank) == v \in sessions[s].handles /\ blank /\ "blank" \in env

\* on_update_plain_window.
UpdatePlainWindow(n, r, v, blank) ==
    /\ MaySend(n, r)
    /\ endpoints[n].sess # None
    /\ \/ AnswerNow /\ UNCHANGED sessions
       \/ MayReturnZero(endpoints[n].sess, v, blank) /\ Pend(n, r, v)
    /\ UNCHANGED <<env, endpoints, conns, owners, layouter, views, flights, strays, crashed>>

\* gtk_destroy_plainwin and destroy_plainwin: WebKit closes the view later.
DestroyPlainwin(s, v) ==
    views' = IF v \in sessions[s].handles
             THEN [views EXCEPT ![v].state = "closing"] ELSE views

\* on_destroy_plain_window.
DestroyPlainWindow(n, r, v) ==
    /\ MaySend(n, r)
    /\ endpoints[n].sess # None
    /\ DestroyPlainwin(endpoints[n].sess, v)
    /\ AnswerNow
    /\ UNCHANGED <<env, endpoints, conns, sessions, owners, layouter, flights, strays, crashed>>

\* webkit_web_view_send_message_to_page, as in gtk_load_or_write.
SendToPage(s, v) ==
    flights' = flights \cup {[view |-> v, sess |-> s, req |-> Len(requests) + 1]}

\* The requests that are passed on to the page: load, loadFromURL, the writes, the updates
\* of the DOM, callMethod, getProperty and setProperty.
AskPage(n, r, v) ==
    LET s == endpoints[n].sess
    IN  /\ MaySend(n, r)
        /\ s # None
        /\ IF v \in sessions[s].handles
           THEN SendToPage(s, v) /\ Pend(n, r, v)
           ELSE AnswerNow /\ UNCHANGED <<sessions, flights>>
        /\ UNCHANGED <<env, endpoints, conns, owners, layouter, views, strays, crashed>>

\* on_set_page_groups; the layouter may refuse the contents.
SetPageGroups(n, r) ==
    /\ MaySend(n, r)
    /\ endpoints[n].sess # None
    /\ AnswerNow
    /\ \E set \in BOOLEAN : layouter' = [layouter EXCEPT ![AppOf[n]] = @ \/ set]
    /\ UNCHANGED <<env, endpoints, conns, sessions, owners, views, flights, strays, crashed>>

-----------------------------------------------------------------------------
(***************************************************************************)
(* Callbacks of WebKit, each with the address s of a session.              *)
(***************************************************************************)
\* purcmc_get_endpoint_by_session: by the name in the session.
EndpointOf(s) == endpoints[sessions[s].name].conn

GiveAnswer(q, to, reply) ==
    IF to = 0 THEN requests
    ELSE [requests EXCEPT ![q].answers = Append(@, [to |-> to, reply |-> reply])]

\* Mutant: the entry is kept.
FinishResponseKept(s, reply) ==
    LET r == requests[reply].id
        q == sessions[s].pending[r]
    IN  /\ IF r = NoReturn \/ q = 0 THEN UNCHANGED requests
           ELSE requests' = GiveAnswer(q, EndpointOf(s), reply)
        /\ UNCHANGED sessions

\* Mutant: the entry is dropped only if somebody is there to be told.
FinishResponseIfEndpoint(s, reply) ==
    LET r == requests[reply].id
        q == sessions[s].pending[r]
    IN  IF r = NoReturn \/ q = 0 \/ EndpointOf(s) = 0
        THEN UNCHANGED <<sessions, requests>>
        ELSE /\ requests' = GiveAnswer(q, EndpointOf(s), reply)
             /\ sessions' = [sessions EXCEPT ![s].pending[r] = 0]

\* handle_response_from_webpage and finish_response: a page replies to the request numbered
\* reply; what is answered is the request q that is pending under the same identifier.
FinishResponse(s, reply) ==
    LET r == requests[reply].id
        q == sessions[s].pending[r]
    IN  IF r = NoReturn \/ q = 0
        THEN UNCHANGED <<sessions, requests>>
        ELSE /\ requests' = GiveAnswer(q, EndpointOf(s), reply)
             /\ sessions' = [sessions EXCEPT ![s].pending[r] = 0]

\* A callback that reads a session that was freed and not replaced.
Freed(s) == ~Live(s)

\* Mutant: a page says more than once that it is ready.
PageReadyAgain(v) ==
    LET s == views[v].sess
        q == views[v].loading
    IN  /\ Opened(v) /\ q # 0
        /\ UNCHANGED views
        /\ IF Freed(s)
           THEN crashed' \in BOOLEAN /\ UNCHANGED <<sessions, requests>>
           ELSE FinishResponse(s, q) /\ UNCHANGED crashed
        /\ UNCHANGED <<env, endpoints, conns, owners, layouter, flights, strays>>

\* user_message_received_callback for "page-ready", from handle_response_from_webpage.
PageReady(v) ==
    LET s == views[v].sess
        q == views[v].loading
    IN  /\ Opened(v) /\ q # 0
        /\ views' = [views EXCEPT ![v].loading = 0]
        /\ IF Freed(s)
           THEN crashed' \in BOOLEAN /\ UNCHANGED <<sessions, requests>>
           ELSE FinishResponse(s, q) /\ UNCHANGED crashed
        /\ UNCHANGED <<env, endpoints, conns, owners, layouter, flights, strays>>

\* request_ready_callback with a message.
PageAnswers(f) ==
    /\ f \in flights
    /\ flights' = flights \ {f}
    /\ IF Freed(f.sess)
       THEN crashed' \in BOOLEAN /\ UNCHANGED <<sessions, requests>>
       ELSE FinishResponse(f.sess, f.req) /\ UNCHANGED crashed
    /\ UNCHANGED <<env, endpoints, conns, owners, layouter, views, strays>>

\* Mutant: the endpoint is not looked at.
PostEventAnyway(s, v) ==
    strays' = strays \cup ({EndpointOf(s)} \ {views[v].conn})

PostEvent(s, v) ==
    strays' = strays \cup ({EndpointOf(s)} \ {0, views[v].conn})

\* user_message_received_callback for "event".
PageEvent(v) ==
    /\ Opened(v)
    /\ IF Freed(views[v].sess)
       THEN crashed' \in BOOLEAN /\ UNCHANGED strays
       ELSE PostEvent(views[v].sess, v) /\ UNCHANGED crashed
    /\ UNCHANGED <<env, endpoints, conns, sessions, owners, layouter, views, flights, requests>>

\* The user asks for the window to be closed.
UserCloses(v) ==
    /\ views[v].state = "open"
    /\ views' = [views EXCEPT ![v].state = "closing"]
    /\ UNCHANGED <<env, endpoints, conns, sessions, owners, layouter, flights, requests,
                   strays, crashed>>

\* Mutants: the view stays among the handles; its page stays in page_owners.
OnWebviewCloseKeepsHandle(s, v) ==
    IF v \in sessions[s].handles
    THEN /\ UNCHANGED sessions
         /\ owners' = [owners EXCEPT ![AppOf[sessions[s].name]][views[v].page] = None]
         /\ PostEvent(s, v)
    ELSE UNCHANGED <<sessions, owners, strays>>

OnWebviewCloseKeepsOwner(s, v) ==
    IF v \in sessions[s].handles
    THEN /\ sessions' = [sessions EXCEPT ![s].handles = @ \ {v}]
         /\ UNCHANGED owners
         /\ PostEvent(s, v)
    ELSE UNCHANGED <<sessions, owners, strays>>

\* on_webview_close.
OnWebviewClose(s, v) ==
    IF v \in sessions[s].handles
    THEN /\ sessions' = [sessions EXCEPT ![s].handles = @ \ {v}]
         /\ owners' = [owners EXCEPT ![AppOf[sessions[s].name]][views[v].page] = None]
         /\ PostEvent(s, v)
    ELSE UNCHANGED <<sessions, owners, strays>>

\* The page has agreed to be closed.  Then the view is released, and its messages in
\* flight come back without an answer.
ViewClosed(v) ==
    /\ views[v].state = "closing"
    /\ views' = [views EXCEPT ![v] = FreeView]
    /\ flights' = {f \in flights : f.view # v}
    /\ requests' = [q \in 1..Len(requests) |->
          IF requests[q].view = v /\ requests[q].answers = <<>>
          THEN [requests[q] EXCEPT !.gone = TRUE] ELSE requests[q]]
    /\ IF Freed(views[v].sess)
       THEN crashed' \in BOOLEAN /\ UNCHANGED <<sessions, owners, strays>>
       ELSE OnWebviewClose(views[v].sess, v) /\ UNCHANGED crashed
    /\ UNCHANGED <<env, endpoints, conns, layouter>>

-----------------------------------------------------------------------------
Request(n, r) ==
    \/ RequestWithoutSession(n, r) \/ SpecialPlainWindow(n, r) \/ SetPageGroups(n, r)
    \/ \E p \in Pages, grouped \in BOOLEAN, v \in Views :
          CreatePlainWindow(n, r, p, grouped, v)
    \/ \E v \in Views, blank \in BOOLEAN : UpdatePlainWindow(n, r, v, blank)
    \/ \E v \in Views : DestroyPlainWindow(n, r, v) \/ AskPage(n, r, v)

Next ==
    /\ ~crashed
    /\ \/ \E n \in Names, s \in Slots : StartSession(n, s)
       \/ \E n \in Names : RestartSession(n) \/ EndSession(n) \/ DelEndpoint(n)
       \/ \E n \in Names, r \in Ids : Request(n, r)
       \/ \E v \in Views : PageReady(v) \/ PageEvent(v) \/ UserCloses(v) \/ ViewClosed(v)
       \/ \E f \in flights : PageAnswers(f)

\* Every page loads, and goes on to answer the messages it was sent.
Fairness ==
    \A v \in Views :
        /\ WF_vars(~crashed /\ PageReady(v))
        /\ WF_vars(~crashed /\ \E f \in flights : f.view = v /\ PageAnswers(f))

Spec == Init /\ [][Next]_vars /\ Fairness

-----------------------------------------------------------------------------
RequestType ==
    [conn : 1..MaxConns, id : Ids, view : Views, gone : BOOLEAN,
     answers : Seq([to : 1..MaxConns, reply : 1..MaxRequests])]

\* The type of every variable.
TypeOK ==
    /\ env \in Environments
    /\ endpoints \in [Names -> [conn : 0..MaxConns, sess : Slots \cup {None}]]
    /\ conns \in 0..MaxConns
    /\ sessions \in [Slots -> [name : Names \cup {None}, handles : SUBSET Views,
                              pending : [Ids -> 0..MaxRequests]]]
    /\ owners \in [Apps -> [Pages -> Views \cup {None}]]
    /\ layouter \in [Apps -> BOOLEAN]
    /\ views \in [Views -> [state : {"none", "open", "closing"}, sess : Slots \cup {None},
                           page : Pages \cup {None}, loading : 0..MaxRequests,
                           conn : 0..MaxConns]]
    /\ flights \subseteq [view : Views, sess : Slots, req : 1..MaxRequests]
    /\ requests \in Seq(RequestType) /\ Len(requests) <= MaxRequests
    /\ strays \subseteq 1..MaxConns
    /\ crashed \in BOOLEAN

\* No request is answered twice, whatever requestIds clients use, in whatever order
\* pages answer, and whichever session a late answer finds at its address.
AnsweredOnce ==
    \A q \in 1..Len(requests) : Len(requests[q].answers) <= 1

\* What finish_response and the events send goes to the connection that asked, or that
\* opened the window, although the connection is looked up by its name and may have been
\* replaced.  (Answers: unless a client starts a session twice.  Events: and unless
\* sessions end before their windows.)
MessagesGoHome ==
    Without({"restarts"}) =>
        /\ \A q \in 1..Len(requests) : \A i \in 1..Len(requests[q].answers) :
              requests[q].answers[i].to = requests[q].conn
        /\ Without({"endings"}) => strays = {}

\* What a page replies to a request answers that request and no other under the same
\* requestId, if a client does not use one twice at a time and its session outlives its
\* windows.
AnsweredByItsReply ==
    Without({"dups", "endings"}) =>
        \A q \in 1..Len(requests) : \A i \in 1..Len(requests[q].answers) :
            requests[q].answers[i].reply = q

\* What validate_handle accepts is a window that is there and that this session opened.
HandlesOpen ==
    \A s \in Slots : \A v \in sessions[s].handles :
        Live(s) /\ Opened(v) /\ views[v].sess = s

\* If no session ends before its windows and none is started twice, no callback finds its
\* session gone, and no request finds a closed window in page_owners.
NoCrash ==
    Without({"endings", "restarts"}) => ~crashed

\* The comment at purcmc_get_endpoint_by_session provides for callbacks after the endpoint
\* was deleted: every view that is there has a session to call back.
CallbacksHaveSessions ==
    \A v \in Views : Opened(v) => Live(views[v].sess)

Outstanding(q) ==
    /\ \E s \in Slots, r \in Ids : sessions[s].pending[r] = q
    /\ ~requests[q].gone

\* A pended request does not stay pending once its page has answered: it is answered, or
\* its window or its session goes, unless an update with an empty object pended it.
Answered ==
    \A q \in 1..MaxRequests :
        (Without({"blank"}) /\ Outstanding(q)) ~> (crashed \/ ~Outstanding(q))
=============================================================================
