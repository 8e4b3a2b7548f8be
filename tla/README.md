# A verification project for xGUI Pro

xGUI Pro is the graphical renderer of HVML: a process that interpreters connect to
over a Unix or web socket, and that creates windows and pages (WebKit views), writes
documents into them, and sends events back, as the PurCMC protocol says.  This
directory models that process in TLA+: the server side of the protocol, the renderers it
calls, the questions it asks the user and the libraries it is built from.  TLC checks the
models on small instances and TLAPS proves the properties that matter most for every
instance.  Paths below are relative to `source/` of the repository
(`src/source/` in `PROJECT.json`).

## 1. Inventory

### 1.1 Components

| component | files | state it keeps | operations |
|---|---|---|---|
| Endpoint registry | `bin/purcmc/endpoint.c`, `server.h` | one `purcmc_endpoint` per connection; `dangling_endpoints`, `endpoint_list`, `living_avl`, `nr_endpoints` | accept, start and end a session, accept by the user, close, three periodic sweeps |
| Server loop | `bin/purcmc/server.c` | epoll set, `t_elapsed`, callbacks of the transports | `purcmc_rdrsrv_check` (10 ms timer), `on_accepted`, `on_packet`, `on_pending`, `on_close`, `on_error`, start, stop |
| Unix socket transport | `bin/purcmc/unixsocket.c` | per client: pending writes, status flags, the packet being read | accept, read frames, write or queue, flush, ping, close |
| Web socket transport | `bin/purcmc/websocket.c` | the same and the HTTP handshake | the same, RFC 6455 framing |
| Request handlers | `bin/purcmc/endpoint.c` 1037-2858 | none of their own | find the handler, validate, call back, respond now or pend |
| Renderer callbacks | `bin/gtk/PurcmcCallbacks.c`, `bin/minigui/PurcmcCallbacks.c` | sessions, workspaces, widgets and pages by handle, pending responses | create, update, destroy workspaces, windows, pages, widgets; load, write, update DOM, call, get, set |
| Layouter | `bin/layouter/*.c` | a DOM of the workspace's layout, page groups, widgets | add and remove page groups, create and destroy widgets, relayout |
| Windows | `bin/gtk/Browser*.c`, `bin/minigui/*Window*.c` | GTK or MiniGUI widgets, tabs | open, close, switch, resize |
| URI schemas | `bin/schema/*.c` | none | `hvml://` pages, `hbdrun://` pages and actions |
| Web extension | `bin/webext/` | injected scripts, message handlers in the page | forward requests to `hvml.js`, responses and events back |
| User dialogs | `bin/utils/utils.c` | confirm information | authentication, duplicate and close confirmations |
| Service discovery | `bin/sd/sd.c`, `server.c` | discovered renderers | browse, register |
| Containers | `lib/utils/*.c` | AVL tree, key-value list, singly linked list, sorted array | insert, find, delete, iterate |

### 1.2 How they interact

The process has one thread.  A GLib timeout calls `purcmc_rdrsrv_check` every 10 ms; it
polls the sockets without waiting and runs a callback of a transport for each event of a
batch, or the work of an idle second when there is none.  A transport reads a frame, and for a
whole packet calls `on_packet`, which parses a message and dispatches it to a handler; a
handler that returns an error makes the transport close the connection, and `on_close`
deletes the endpoint.  Handlers call the renderer's callbacks (`srv->cbs`), which create
GTK objects and send messages to web processes; an answer that comes later is sent by
`finish_response` from a WebKit callback.  Clicks, timers and WebKit callbacks are other
sources of the same main loop, so they run between two calls of `purcmc_rdrsrv_check`;
a modal confirmation runs a nested loop,
in which everything runs but `purcmc_rdrsrv_check`.  Shared state is what these sources leave to
each other: pointers to endpoints kept in lists, in pages and in timers, sessions kept
in WebKit callbacks, pending responses, queued writes.

### 1.3 What is hard

* Order of callbacks.  Every connection, user click and sweep may come between any two
  others; several of them keep a pointer over such a gap.
* One name, several holders.  An endpoint claims a name before it is registered under
  it; lists are keyed by name, and removals go by name.
* Time.  Three sweeps with different clocks (`t_created`, `t_living`,
  `t_start_session + timeout_seconds`) share two periods.
* Partial I/O.  Non-blocking sockets accept or deliver a part of a frame, queues are
  throttled, connections break between two writes of one packet.
* Late answers.  A web page answers after its session or window was removed.
* Nested loops.  A function that asks the user goes on, when he has answered, with
  pointers it had before; meanwhile other questions are asked and clients go.
* Several tables for one thing.  A widget is known to the document, to `sa_widget`, to
  `all_handles` and to `page_owners`; different code keeps each of them.
* Counters and widths: `nr_endpoints`, `sz_pending`, `nr_clients`, `nrViews`.

### 1.4 What makes each component correct

* Registry: an entry refers to a live endpoint that bears its name and is swept when it
  goes silent; no registration takes a name from another; each endpoint is freed once,
  its session removed once and not leaked; the count is exact; a sweep misses nobody.
* Transport: what a peer receives is what was sent, in order, whole frames only; queued
  data has the socket watched for writing; the queue is bounded and its size exact; a
  packet delivered to the server is one the peer sent, and no byte is read outside a
  packet unless a sum of sizes wraps.
* Handlers: each request is answered exactly once, or pended and then answered.
* Renderer: a handle resolves to an object of the session that asks; what a session owns
  goes with it, and only that.
* Layouter and windows: the document, its maps and the widgets agree; who opened a page,
  or the user, closes it; a window stands as long as its pages.
* Owners of a page: each coroutine that is pushed away is told, and only one is on top.
* Dialogs: what is read after a nested loop is still there; who is asked about is
  accepted only with a consent, and who is accepted with no question is one of those the
  code means so; a question does not stop the server for ever.
* Server loop: each client is watched, counted once and found at its event; what is to be
  sent is waited for, but where reads of a web socket forget it.
* URIs and assets: taking apart undoes putting together; a request is answered once, with
  bytes that were read.
* Containers: the set or map they claim to be; order and balance of the tree.

The hazards these properties aim at are listed one by one, at their lines, in
`PROJECT.json`.

## 2. Plan

The order is that of importance: what every client meets first comes first.

| step | modules | what | state |
|---|---|---|---|
| 1 | `Endpoints` | the registry, all sources of its changes | done, proved |
| 2 | `UnixFrames`, `SendStream`, `UnixSocketSend`, `UnixSocketReceive` | the default transport, both directions, against an abstract stream | done, proved |
| 3 | `SocketWrites`, `WebSocket` | the other transport, against the same stream | done, proved |
| 4 | `Renderer` | sessions, plain windows, pending responses, callbacks of WebKit | done, proved |
| 5 | `Requests`, `Pages` | every handler on every message, the owners of a page, the life of its script | done, proved |
| 6 | `Workspace` | page groups and widgets of a workspace, the document they are kept in, the GTK windows made for them | done |
| 7 | `MiniguiRenderer` | sessions, windows and late replies under MiniGUI | done, proved |
| 8 | `OrderedBag`, `AvlTree`, `SortedArray` | the containers, against an ordered bag | done |
| 9 | `Dialogs` | questions to the user, nested loops, other renderers | done, proved |
| 10 | `ServerLoop`, `HttpHead`, `WebSocketTls`, `WebClients` | batches of events and the count of clients; the handshake; TLS | done, proved |
| 11 | `Uris`, `Assets` | URIs of both schemes; what the hvml scheme serves | done, `Assets` proved |
| 12 | proofs about `Workspace` | handles and the document are sound | left |

Composition.  `UnixSocketSend` and `UnixSocketReceive` share `UnixFrames`; `SendStream`
is what a connection's write side promises, and both transports are proved to implement
it; what their write sides have in common is in `SocketWrites`.  `Pages` extends `Requests`: a handler's answer is what the
callbacks of a page make of it.  `OrderedBag` is what the users of a container take it
for; the tree and the array implement it.  `Endpoints` takes of a transport only what its
callbacks take (that a client is accepted, that a packet arrives, that a connection
ends), so that it holds for both; `Renderer` and `MiniguiRenderer` take of the registry
that sessions start and end; `Dialogs` takes of it that endpoints wait, are listed and go.

An MC module sets parts that do not share state side by side: a behaviour chooses one of
them at its start and the others stay as they are.  A run of it therefore checks the
properties of each part on the states of that part, exactly as runs of their own would.
A module about which there are theorems is extended by its MC module, so that TLC checks
its properties, its next-state relation and its assumptions as they are proved about;
the others are instantiated.  An idle part stays in one of its initial states.
`NoValue` holds the null value that modules set side by side share.

Theorems worth having: the registry's invariant, in full for restricted clients; the
renderers' invariants on handles, sessions, windows and answers, and that a reply answers
its own request; owners of pages; questions in nested loops; the loop over sockets; the
serving of files (all done, section 5); those of step 12.

## 3. Modules and code

### 3.1 `Endpoints`

`reg` is `the_server` as far as it concerns endpoints: `ep` the endpoint objects by
address (`alive` is FALSE before `new_endpoint` and after `del_endpoint`), `dangling`,
`list` and `living` the three containers, `nr` the counter, `sessions` what the
renderer's `create_session` made.  `now` is the clock in seconds and `lastIdle` the
second of the last idle check.  The phase "undefined" is entered when the program reads
freed memory or an uninitialised name: no statement is made from there on, and `Defined`
says where it is not entered.

An action is one callback from start to end: `Accept` is `on_accepted`; `StartSession`,
`DuplicateWaits`, `DuplicateAutoAccepted`, `DuplicateRefused`, `StartSessionRefused`,
`EndSession` and `Packet` are what `on_packet` may come to; `Disconnect` is a close by
the transport; `UserAccepts`, `UserCloses` are the user's answers; `IdleCheck` is
the idle branch of `purcmc_rdrsrv_check` with its three sweeps in their order; `Stop` is
`purcmc_rdrsrv_deinit`.  The shared helpers (`make_endpoint_ready`, `on_close`,
`del_endpoint`, `remove_endpoint`, `update_endpoint_living_time`) are operators from a
registry to a registry.  Times of PurC (90, 30, 10, 5 seconds) are constants.

### 3.2 `UnixSocketSend`, `UnixSocketReceive`, `UnixFrames`

A byte is known by the call of `us_write` that brought it and its place in the buffer, so
that loss, repetition and reordering show.  `usc` has the fields of `USClient`; every
`us_...` function is an operator from a client to the set of clients it may leave, and a
handler composes them in the order of the code.  `armed` says that EPOLLOUT is asked for.
What the kernel may do to a connection is its environment `env`: to answer EAGAIN at
once ("full"), to refuse memory ("nomem").

On the read side a unit is a header or a byte of payload.  `my_read` waits for the first
byte of a payload, which is the phase "spinning", and returns what is there; a header
that is read out of payload bytes ends in "garbled".  A connection's environment is
either {}, a peer that frames packets as `us_send_packet` does on a link that delivers
payloads whole, or one with liberties ("disorder", "split", "nomem"); the properties of
delivery are about the first, those of memory about all.

The test of a later frame against the packet (unixsocket.c:467) adds what was read and
what the frame announces in 32 bits.  `ProtocolError` takes that sum modulo `Word`, and `Announced`
are the sizes beyond any buffer that a peer may announce: with one of them the sum wraps,
the frame passes, and `my_read` is asked for more than there is room for.  How much of it
is written is the peer's choice; the phase "overrun" is entered, where nothing more is
said.  `NoOverrun` says that this is the only way into it.

### 3.3 `WebSocket`

One client without TLS (TLS is 3.12, the head of its handshake 3.11).  Reading goes
through `ReadClientData`, which gives all the triples of a client, the units left and the
messages delivered that `read_client_data` may come to: `ReadHandshake`, `ReadHeader`,
`WsReadPayload` and the handlers of the opcodes, each returning where the code returns, with `ws_set_status` replacing the whole
status as it does.  Writing is `Respond` and what it calls.  `WsHandleReads`,
`WsHandleWrites`, `Send` and `WsRemoved` are the callbacks (the prefix tells names from
those of the Unix socket, since one module extends both).  Masking, UTF-8 and header
syntax are data here; "wrong" stands for all requests and headers that are refused, and
for messages that are longer than the renderer keeps in memory.  `TooLong` is the peer's
side of the test in `ws_realloc_frm_payload`: a peer that sends such a message has ended
its connection.

### 3.4 `SendStream`

What a connection's write side promises: the bytes accepted are those taken by the
kernel followed by those waiting, until the connection breaks; then what was taken is a
prefix of what was accepted, and nothing more is taken.

### 3.5 `Renderer`

The GTK renderer as the handlers of `endpoint.c` use it.  `endpoints` has of an endpoint
what matters here, its connection and `session`; `sessions` is the memory of
`purcmc_session` by address, with `all_handles` and `pending_responses`; `owners` and
`layouter` are the fields of the workspace, one per application; `views` are the web
views with their windows, and `loading` the request a view will report page-ready for.
`flights` are messages sent to a page that it has not answered; `requests` is history:
each request that was not answered at once, and what it was answered.

`StartSession`, `RestartSession`, `EndSession` and `DelEndpoint` are what `Endpoints` does
to a session.  The handlers are `CreatePlainWindow`, `SpecialPlainWindow`,
`UpdatePlainWindow`, `DestroyPlainWindow`, `SetPageGroups` and, for all requests that are
passed on to the page, `AskPage`.  WebKit's callbacks are `PageReady`, `PageEvent`,
`PageAnswers` and `ViewClosed`; `UserCloses` is a click.  Since callbacks carry a
session's address, a session that is gone may be found at it, or its successor, or
freed memory, which either crashes or is taken for an empty session.

Of WebKit the model takes this: `webkit_web_view_try_close` lets the page run and closes
the view later; a page says page-ready once (`WebExtensionHVML.c`, hvml-js-injected);
messages a closed view has not answered come back without an answer.

### 3.6 `Requests`, `Pages`

`Requests` has no state: each handler of `endpoint.c` is an operator from a message, and
the callbacks a renderer has, to what it answers at once or which callback it calls.  A
handler is the conjunction of its tests in their order (`Given`), so that what a test
lets through is seen by the callback.  `find_request_handler` is the table.

`Pages` executes the outcome for the pages of one session.  `pages` are the windows and
widgets with `stack`, the owner stack of `page.c`; `web` is what the web process keeps:
whether the page loads and for which request, the messages it has not handled, and the
instance of the page (`info`), which is made when the window object is cleared, hears
when the document is loaded and is freed when the JavaScript object is.  `pending` are
the pended requests, `told` and `visible` what the client has heard about owners.
`Request` is any message a client may send; `gtk_register_crtn`, `gtk_revoke_crtn` and
`gtk_load_or_write` change the stack and answer or pend with the suppressed coroutine;
`finish_response` tells it.  `WindowObjectCleared`, `DocumentLoaded`, `DestroyedNotify`
and `MessageHandled` are the callbacks of the web extension with the script's `onrequest`.

### 3.7 `Workspace`

`layouter` is the document with its identifier map (`ids`), the widget of each element
(`user`) and `sa_widget`; `widgets` are the addresses; `handles` is `all_handles` of each
session and `owners` is `page_owners`.  The helpers of `layouter.c` and `dom-ops.c` are
operators on a document (`l`) or on all of this (`w`, a world), composed as in the code:
`ws_layouter_add_widget` finds a page element, makes its ancestors' widgets from the
window inwards, and appends.  A widget gets the lowest or highest free address (`place`),
so that addresses are used again.  `DestroyWidget` tells WebKit to close; `ViewClosed` is
its callback, where the widgets go.  Assertions, which the default build omits, are
collected in `failed`; use of what is gone ends the behaviour and `stale` says what it was.
Boxes are external (csseng, domruler); what remains is whether there are any.

### 3.8 `MiniguiRenderer`

`sess_list` is the list as `store_to_sess_list` leaves it, `mem` the sessions by address,
`pages`, `hosts` and `window` the views, containers and the tabbed window with its count
`nrViews`.  Unlike GTK's, the close handlers destroy the windows themselves:
`webViewClose`, `browserPaneWebViewClose`, `browserTabWebViewClose` and
`DestroyTabbedWindow` follow them.  Late replies are in `flights`;
`handle_response_from_webpage` looks their session up in the list.  `strays` collects
requests answered for another's.  What requests do to a page is 3.6, for both toolkits.

### 3.9 `Dialogs`

`stack` are the functions that wait for an answer in a nested loop, innermost last, each
with the endpoint it has a pointer to (`Ref`, its address and birth); `dialogs` the pages
that ask, with their countdown, the user's click and the answer posted; `chooser`,
`timer` and `runners` what else keeps a pointer or a list.  `Ask` begins a question;
`Countdown`, `UserAnswers`, `on_hbdrun_action`, `PageCloses` and `UserClosesFrame` are
its page and window; `xgutils_show_confirm_window` and its two siblings are the return
of the innermost wait, where the caller goes on (`accept_endpoint`, or the close).
`LoopReadsFreed` is a loop that polls a view that is gone.  `Blocked` says that the
callback which polls the sockets waits itself: GLib does not run it twice, so no
client is served meanwhile.  `misread` says what was read after it had gone, where the
behaviour ends; `manners` are the liberties that the user and the network take in it, and
`NothingFreedIsRead` says which of them each such read needs.  `consents` is history.

`via` of an endpoint says how it came into the list.  The code has five ways: with no
signature, with a signature and the user's consent, now or remembered, ("unsigned",
"signed"); picked from those that wait, with a question ("picked"); as the first
duplicate of the Unix socket, with no question (`StartDuplicate`, the block
AUTO_ACCEPT_FIRST_CONN; "first"); and by `xgutils_pull_screen_cast`, with no question
("pulled").  The last has no caller in `src/`: it is the liberty "pull", and so is not
part of what the process does by itself; `xgutils_close_screen_cast`, which has none
either, does what `show_dup_close_confirm_window` does.  `OnlyConsented` is about the
consents of those that are asked about, and about who may be listed with no question.

### 3.10 `ServerLoop`

`client` are the clients by address (`Free` where there is none; a `WSClient` is never
freed, its address stays with `open` false), `watch` the epoll set or `fd2clients`,
`batch` the events left of those waited for, `nr_clients` the counters.  `Wait` fills a
batch in any order; `us_handle_accept`, `ws_handle_accept`, `HandleReads` and
`HandleWrites` serve its first event; `ServesNothing` is an event select() gave for a
descriptor that is gone.  `Cleanup`, `on_close`, `on_pending` and `Listen` are the
callbacks from the transports.

Three things say that there is something to send, and the code looks at each of them
somewhere: `queued` (the queue, which the functions that send look at), `status` (its
words SENDING and CLOSE, which server.c:532 and 557 and `handle_ws_read_close` look at)
and `out` of `watch` (EPOLLOUT).  `Write` is one call of `us_write` or `ws_respond`: it
queues (`Queue`, which arms EPOLLOUT), adds to a queue (`Extend`), empties it (`Flush`, which leaves
EPOLLOUT and SENDING), finds the peer gone, or has no memory (`NoMemory`).  `ReadStatus`
is `ws_set_status` of a read, which forgets SENDING.  `HandleWrites` sends, clears SENDING if
the queue is empty, and disarms if the status has neither word.  A callback of a
client sends up to two writes (`Sends`); a third leaves what one of the two did, since a
write depends on `queued` and `status` alone.  `wrong` says what was used after it had
gone, and `LoopSound` says under which liberty each may be and that otherwise none is; it
says too how far queue, status and watching agree, and where they do not.

### 3.11 `HttpHead`

`text` is the request as lines in two halves, `taken` how much was read, `headers` the
`WSHeaders`, `replies` the status lines sent.  `ws_get_handshake` collects, looks for the
empty line with the string functions (`Visible`: a NUL ends the string), parses line by
line (the recursive function `after`) and verifies.  `Acceptable` says of a whole request whether it may be accepted, on
its lines alone; `HandshakeDecided` compares.

### 3.12 `WebSocketTls`, `WebClients`

`tls_client` has the two sets of status flags, the SSL structure, the queue and whether
EPOLLOUT is asked for; `call` is the callback that runs and how deep it is nested.  Each
call of OpenSSL has the results it may have (`Results`), "renegotiates" letting a read
want to write; `handle_ssl_pending_rw` calls the callbacks that call it
(`PendingRead`, `PendingWrite`).  After a cleanup there is no SSL structure; its use is
`Crash`.  `WebClients` sets this module and `HttpHead` side by side; they share no state.

### 3.13 `Uris`, `Assets`

In `Uris` a behaviour is a URI being typed, a character at a time: a state is an input.
The functions are over positions, as the pointers of the code: `Begins` and `Span` for
the parts of a path, `locate_query_value` for keys.  `PathsSound` says that
`hvml_uri_split` and `hbdrun_uri_split` undo `hvml_uri_assemble` and its sibling inside
the memory they reserve, `QueriesFound` that a key has the value of its own pair.

`Assets` is the handler of `hvml://` step by step, since other processes write the files
it reads: `Open`, `FStat`, `Read` for a file served from a descriptor or memory, `FOpen`,
`FRead`, `RemoveFile` for one asked for with once=yes.  `handler` is the request in
progress with the results so far; `Write` comes between any two steps.  What the file
system may do besides is `faults`: a read that gives fewer bytes than the file is long
(an error, a directory, a file the kernel makes up), also of the picture that
`load_app_runner_asset_content` puts on the blank page, and a file that cannot be
removed, which the code does not look at.

### 3.14 `OrderedBag`, `AvlTree`, `SortedArray`

`OrderedBag` is what a container promises: items in the order of their keys, one of which
each step adds, removes or moves, or a prefix of which it removes.  `AvlTree` has the list,
the links, the stored balances and the leaders of equal keys; `avl_insert`, `avl_delete`,
`avl_rotate`, `post_insert` and `avl_post_delete` are operators in the shape of the code;
`avl_for_each_element_safe` is the walk that endpoints are swept with, deleting as it
goes.  `kvlist_set` and `kvlist_delete` are made of them.  `SortedArray` is the
search by halves and the array that grows.  `TreeSound` says order, balance and that list
and tree hold the same; `ImplementBags` is the refinement.

## 4. What the runs check

| run | instance | shows |
|---|---|---|
| `endpoints_any` | 2 endpoints, 2 names, all liberties | what holds of the registry whatever clients and user do |
| `endpoints_once` | 3 endpoints, 2 names; with duplicates or without | no reference to a freed endpoint, no leaked session; without duplicates an exact count, and entries die only with their endpoint |
| `endpoints_waiting` | 2 endpoints | refutes server.h:214 (finding) |
| `renderer_any` | 2 names of 1 application, 2 session addresses, 2 views, 3 requests | answers: at most one, to who asked, by the reply meant, eventually; handles |
| `renderer_callbacks` | the same, sessions end before their windows | refutes PurcmcCallbacks.c:104 (finding) |
| `transports_send` | Unix: packets of 1 and 3 units in frames of 2, threshold 3, 6 calls; web: frames of 1 and 2, the same threshold, 4 calls, a slow socket | both write sides are the stream of `SendStream`; counted, bounded and watched queue; it drains |
| `transports_receive` | Unix: packets of 1 and 3 frames, 3 data and 2 control frames; web: 2 data frames of up to 2 bytes, too long together, 1 control frame | packets and messages intact and all handled; whatever a peer sends, nothing is read outside a packet but after a sum that wraps |
| `unix_split` | payloads in parts | refutes unixsocket.c:440 (finding) |
| `ws_cut` | peer goes inside a frame | refutes websocket.c:2044 (finding) |
| `server` | 2 pages and 2 coroutines; 2 endpoints of 2 applications, 2 questions, 2 births; 3 clients, batches of 2, limit 1; a TLS client; 214 handshakes | requests, owners of pages; what is read after a nested loop is there, who is listed as the user or the code accepted, clients are served again; the loop, TLS, the handshake |
| `windows` | MiniGUI: 3 pages, 3 sessions; GTK: 7 elements, 7 addresses, 2 sessions | windows, handles, names and the document |
| `libraries` | 12 names, 5 endpoints; arrays of 5; paths of 9, queries of 8; files of 2, 2 requests | containers, URIs, assets |

Several of the properties stand for more than one statement, each a definition of the
module it is about:

* `RegistryLive`: `DanglingAlive`, `DanglingNameFree`, `EntriesLive`, `SessionsOwned`,
  `Defined`; `Bookkeeping`: `CountExact`, `TreeListed` (`Endpoints`).
* `SendSound`: `TypeOK`, `SizeCovers`, `Bounded`, `Watched` of `UnixSocketSend`;
  `ReceiveSound`: `TypeOK`, `PacketsIntact`, `NoOverrun`, `NoHoles` of
  `UnixSocketReceive`; `MessagesSound`: `WsTypeOK`, `MessagesIntact`, `NoFalseError` of
  `WebSocket`.
* `ImplementsStream` and `WebImplementsStream` are `StreamSpec` of `SendStream` under the
  mappings of the two transports.
* `AllServed`: `AllHandled` of both transports and `GoneIsClosed` of `WebSocket`.
* `OwnersSound`: `OwnersTold`, `VisibleIsTop` (`Pages`); `PagesSound`:
  `WindowOfItsPages`, `NamesOfOpenPages` (`MiniguiRenderer`); `TablesSound`: `IdsSound`,
  `DocumentCurrent`, `HandlesSound` (`Workspace`).
* `RepliesSafe`, `LoopSound` and `NothingFreedIsRead` say for each `wrong` or `misread`
  under which liberties alone it may be entered.
* `WebClientsSound` (`WebClients`): `QueueSurvives` (`WebSocketTls`), `HandshakeDecided`
  (`HttpHead`).
* `PartsSound`: `TreeSound`, `ArraySound`, `PathsSound`, `QueriesFound`.

Bounds and why they are enough.

* Endpoints: every hazard listed involves at most two endpoints that share a name and a
  third that comes between; addresses are reused, so that more connections than
  addresses occur.  Three seconds let each of the sweeps run
  alone and together before and after each deadline, with three endpoints as with two.  With `endpoints_any` two
  endpoints are enough, since its properties relate pairs.  Symmetry is over endpoints
  and names, which are only compared.
* Transports: a packet of one frame and one of two or three; a threshold that one packet
  passes, so that queueing, throttling and recovery happen on one connection; a call
  bound that lets a throttled queue drain and fill again; and `Accept` starts a new
  connection, so no behaviour has to end.  `MaxFrames` and `MaxWsFrames` cover a message that is begun,
  interrupted by a control frame and finished; `MaxWsInmem` is 4, so that a message of two
  frames of 2 bytes is too long and others are not.  `Word` is 16 and `Announced` {15}: a
  frame that announces 15 wraps the sum with what was read of any packet, and no sum of
  sizes that fit does.
* Renderer: two names of one application share the workspace; with two session
  addresses and two views, one session's windows outlive it while another takes its
  address; one page name makes the clients meet on it; one requestId besides
  `noreturn` makes requests share it.  What clients may do beyond the protocol comes as
  environments ({}, endings, restarts, dups and blank), explored side by side in one run.
  Two requests are enough with restarts, where the session is lost at once.
* Pages: two coroutines, since what is pushed from the top of a stack is pushed by
  another; two pages for a client that keeps to the protocol, so that messages meet the
  wrong page, and one for those that do not; a queue of two messages.
* Dialogs: two clients and two questions are the least in which one question is asked
  while another waits; two births at two addresses let an address be used again.  Which
  address and application come first is settled (`FirstClient`), since they are only
  compared.
* Server loop: a limit of one client and batches of two events among three clients, so
  that a client is refused and an event waits in a batch while another is served.  The
  liberties are taken one at a time.  TLS:
  three units queued; a depth of four shows that calls nest at all.
* Handshake: the whole request of eight lines, and each request with one line less, more
  or other, in halves of lines; the buffer holds the whole request and one half more.
* MiniGUI: three pages make two in one container and one in another; a third session
  where sessions end, so that one takes the address of another while a third lives.
* Workspace: seven elements and seven addresses hold a tabbed window, two containers and
  their pages with one freed address to be given out low or high.
* Containers: a tree of twelve names is the smallest in which one deletion rotates at two
  levels; five endpoints at three times give groups of equal keys in the middle and at
  both ends.  Arrays grow twice.
* URIs: a path of nine characters holds five parts, empty ones included; a query of eight
  two pairs with keys of which one is a prefix of the other.
* Assets: two writes and two requests, so that a file is written, asked for, written
  while it is served and asked for again; the file system has one fault at most in a
  behaviour.

Fairness.  `WF(HandleWrites)`, `WF(HandleReads)`: epoll is level-triggered and GLib calls
`purcmc_rdrsrv_check` every 10 ms, so a callback that stays enabled runs.  `WF(Network)`:
bytes that were sent arrive while the connection stands.  `WF(PageReady)` and weak
fairness of some answer of each view: a page loads, runs its scripts and answers what it
was sent.  `WF(LoopStep)` and `WF(PageStep)` of `Dialogs`: a nested loop that has its
answer returns, and the script of a question counts down, which its page does in a timer
of its own.  Nothing is assumed of peers, of the user, of sweeps, of the closing of views
or of the server's own sends.

Deadlock is checked in the runs of `Endpoints` and of the transports; `Endpoints` has an
explicit last step (`Stopped`) for a process that has ended.  It is not in those of the
renderers, of the server and of the libraries, whose behaviours stop when memory that is
gone has been used, when a bound is used up, or when a URI or a request is complete.

## 5. What is proved

Eight modules hold proofs, each about one component or two.  A theorem holds for every value of
the constants that satisfies the named `ASSUME` of the module it is about, and for
behaviours of any length; what a run checks of the same property it checks on one
instance.  The proofs have one shape: an inductive invariant `IInv` (the property with
the strengthening it needs), a lemma for each helper and for each action, `NextIInv`, and
theorems that derive the properties from it.  Below, what each invariant adds and why.

### 5.1 `EndpointsProofs`

For all sets of endpoints, names and sessions, all timeouts, periods and widths, under
`ConstantsAssumption`.

* `Invariance`: `RegistryInv` strengthens `TypeOK`, `AtMostOneDangling`,
  `DanglingNameFree` and `TreeCurrent` by `DanglingOut`: a dangling endpoint is not in the
  living tree.  Without it the tree part is not inductive, because `StartSession` and
  `UserAccepts` put an endpoint of the dangling list into the tree and rename it, and a
  node whose endpoint changes its name or `t_living` in place would break `TreeCurrent`.
* `TypeCorrect`, `DanglingSound`, `TreeSound` follow; `NeverOverwritten` is the action
  property `NoOverwrite`: `accept_endpoint` writes an entry without looking, and it is
  `DanglingFree` that keeps it harmless.
* `LifeInvariance` adds what depends on the clients, in three layers.  `SessionInv`, for
  all: a session belongs to one live endpoint that dangles no more (`SessionsOwnedOnce`).
  `OnceInv`, where a connection sends one startSession: what the lists refer to is alive,
  an entry's endpoint bears its name and is in the tree, who has not asked yet has neither
  name nor session, and each session has an owner (`RegistryStaysLive`).  `PlainInv`,
  where nobody asks for a duplicate: names, tree, list and count agree (`BooksBalance`);
  the count is a residue, so that it rests on lemmas about `%` with a symbolic width.
* `SweepsComplete` is about the walk from the oldest that stops at the first endpoint which
  is not due: the tree is ordered by time, and a deletion on the way does not disturb
  what is to come.  `EntriesDieWithEndpoints` is the action property of the same name.

### 5.2 `RendererProofs`

For all sets of names, applications, addresses, pages and identifiers, under
`RendererAssumption`, in layers that differ in what clients do.

* `IInv` holds whatever they do (`Invariance`); `TypeCorrect`, `NeverAnsweredTwice` and
  `HandlesSound` follow.  To `TypeOK`, `AnsweredOnce` and `HandlesOpen` it adds that what
  is pending is an unanswered request under its own identifier (`PendingSound`) and
  pending in one session only (`PendingOnce`): otherwise the entry that `finish_response`
  removes need not be the last one for a request.  `RepliesKnown` says that pages reply to
  requests that were made, so that the type of an answer is kept, and `SessionsKnown` that
  an endpoint's session bears its name, so that a session is created and removed for the
  endpoint that has it.
* `HomeInv`, where no session is started twice: a live session is the one its name's
  endpoint refers to, so looking an endpoint up by a session's name finds the connection
  whose requests are pending there (`SessionsReachable`), and answers go home.
* `OwnedInv`, where sessions outlive their windows too: every view belongs to a live
  session, has a handle in it and is of its endpoint's connection, messages in flight
  belong to the session of their view, and `page_owners` lists views that are open under
  that page and application.  Then no callback meets a freed session, no handler a closed
  window, and events go home.
* `AskedInv`, where no requestId is used twice at a time and sessions outlive their
  windows: the request a view loads for, and each request in flight to a page, is the one
  that is pending under its identifier in the session of that view.  This is what makes a
  reply the reply to the request it answers (`OwnReplyAnswers`); none of the other layers
  implies it, since they say of an entry that it is a request, not which.

`GoHome` and `NeverCrashes` combine the layers.  The steps are grouped by what they do to
sessions and requests: `Pended` for the requests that are pended, `FinishResponse` for
answers, `FreedStep` for callbacks that find their session freed, `Steady` for the rest.

### 5.3 `MiniguiProofs`

For any number of sessions, addresses, names, containers and pages, under
`MiniguiAssumption`.  `Sound` says who refers to whom while nothing freed was read:
endpoints and sessions (`Connected`), handles and what they are of (`HandlesOwn`), pages
and their containers (`HostsInWindow`), the count of the window (`WindowCounts`), and,
by liberty, that a page has its container to itself (`Alone`) and its session outlives it
(`Outlived`).  `nrViews` is shown to be a cardinality, which needs the pages that are
there as a set (`There`): a close takes one element of it.  `RepliesAreSafe`,
`HandlesAreOpen` and `PagesAreSound` follow.  What `sess_list` reaches is one session
at most, and it is there (`ListSound`): this is why a late reply meets no freed session in
any environment.

### 5.4 `PagesProofs`

For any number of pages, coroutines, identifiers and any set of callbacks that has those
which are called without a test and lacks those which no renderer has (`Untested`,
`Absent`), under `PagesAssumption`.  Besides the four properties that the run checks,
`IInv` has that a coroutine is in a stack once (`Once`: otherwise a revocation leaves it
there), that nobody waits for or owns a page that was not made (`PagesMade`), that a page
which hears is not loading and nobody asks one that does not (`PagesHear`), and that the
answers pending for a page name its present owner or nobody (`OwnerNamed`).
`NeverCrashes` is over all messages: the handlers of `endpoint.c` let nothing through that
a callback cannot read.  `WaitsForItsPage` and `OwnersAreTold` follow.

### 5.5 `ServerProofs`: `Dialogs`

For any number of endpoints, births, questions and timeouts, under `DialogsAssumption`.
`ListedAsAllowed` and `FreedIsReadOnlyByLiberty` rest on the chain from a click to
the function that waits: a page stands for the question of its function or its window was
closed (`PagesAsk`), it has an answer only if the user gave it to the name it shows
(`AnswersMeant`; both are `AnswersAreForTheQuestion`), and a reference that was kept is
still the endpoint's or nobody's (`RefsFresh`, `ChosenBegun`) unless the allocator gives
the address out again.  `OneQuestion` says what is the case while only one question is
open at a time.  Each way into the list has its part of `Unasked` or of the consents; that
one endpoint at most was the first with no question is an invariant because such a one
finds the list empty and none leaves the list but for good.

### 5.6 `ServerProofs`: `ServerLoop`

For any finite set of clients, any limit, any size of a batch, with epoll or select,
under `LoopAssumption`.  The server between two steps of a callback is `Good(s, new)`:
each client has a descriptor of its own and is watched on it, but for those accepted and
not yet watched (`OwnDescriptor`); the counters are cardinalities (`Counted`); a Unix
client has CLOSE only where a peer may go or memory may lack (`EndsMeant`).  How
a client is watched is `Armed`: with SENDING it is watched for writing or to be closed;
with a queue also, unless it is a web client, whose reads forget SENDING; and a Unix
client that is watched for writing has a word in its status, so that the loop will look at
it.  Nothing stronger holds of the code: a queue of a web client may stay unwatched, and
a send that empties a queue leaves EPOLLOUT.  Each write takes a client to one that
`Remains` so, or ends the behaviour for a reason (`Breaks`).  There is always a free
descriptor (a pigeonhole argument), so that accepting never meets a watched one.  The rest
of a batch has events of different descriptors which are watched as they were, unless a
request closes other clients (`Current`): `EventsFindTheirClients` is `LoopSound`, with the
liberty that each use of a client that is gone needs.

### 5.7 `ServerProofs`: `WebClients`

For any lengths of the queue and of the stack of calls and any liberties, under
`TlsAssumption`: without renegotiation neither a read nor a write is ever pending in
`sslstatus` (`Calm`), so that `handle_ssl_pending_rw` calls no callback, and a write that
forgets what is queued leaves CLOSE in the status (`Excused`), which each of the functions
after it in a callback keeps (`Follows`).  `QueuesSurvive` follows.

For any requests and any room for them, under `HeadAssumption` (among it that Nil is no
header): `HeadInv` says that a client is still read, with headers that hold nothing but
the count of bytes (`StillRead`), or was answered 400 (`TurnedDown`), or 101 (`LetIn`).  The
step between them needs what the loop of `parse_headers` comes to for any lines: by
induction on the lines, it failed at one of them, or the headers have just the fields
that the lines set and the origin of the last line that gives one (`Described`).  For a
request that fits, the first empty line is found when, and only when, all has come
(`FitsEnds`), and the verdict on those headers is that of `Acceptable` on the lines
(`FitsVerified`).  `HandshakesDecided` follows, and `WebClientsAreSound` is both.

### 5.8 `AssetsProofs`

For any sets of sessions, clients, URIs and descriptors and any sizes, under
`AssetsAssumption` and `NoFile` (no file is the null value).  A loading is a sequence of
calls, between any two of which the files may be written; `StepsInOrder` says what each
call relies on of the earlier ones, among them that the file is still there and, before
the read of `load_asset_content`, that it is as long as it was or was made shorter
meanwhile.  Descriptors that are open are those of streams and the one of the file being
loaded (`DescriptorsKept`); where files can be removed, one that was loaded with once is
gone or about to be removed (`GivenOnce`).  Nothing is assumed of the file system: a read
that fails may come at any time, and what `AnswersAreSound` then says is that this alone,
or a file made shorter meanwhile, is why the freed buffer is written.  `AnswersAreSound` and `ServedAtMostOnce` follow.

### 5.9 `ReceiveProofs`

Both transports.  Unix sockets: for any packets, frames of any length and any peer, under `ReceiveAssumption` and
`NothingAssumption` (what was not read is no byte).  `IInv` has three parts for all
peers: the types (`TypeInv`), and what a reader's packet and count of bytes are between
two frames (`BufferInv`: the packet is as long as was announced, what is before
`sz_read` was received), which keeps `try_to_read_payload` inside it but for the sum
that wraps: `LEMMA` `OverrunWraps` is where the proof splits.  For a peer that
frames as `us_send_packet` does, `StreamInv` says that what is on the link and in the
socket are the units of what was sent, from some unit of some packet on, with control
frames between frames only; and `ReaderInv` that the reader stands where that packet is
read up to.  It is these two that make a control frame between two frames, or a read that
finds only the header, harmless.  The frames of a packet are arithmetic on positions
(`Units` gives the unit at a position by division), so that the lemmas about them need
no induction.  `PacketsAreReceived` follows.

Web sockets: for any frames, replies, limits and liberties, under `WebSocketAssumption`.
`WsReadInv` says that there is a sequence `fs` of the frames the peer has sent since the
handshake (`Table`): each knows where it starts in the stream of units, what part of its
message came before and how many messages were complete; and that what has been received
and is on the way is that stream from some position c on, up to its end while the peer is
there (`OnWay`).  The reader stands at c in frame j (`ReaderAt`): before its header, behind
the first bytes of it, or in its payload, with a message that is the part before that frame
and what was read of the frame (`MessageAt`); a PING's payload is read to the end of the
same buffer and cut off again.  A PONG inside a message frees it, which `MessageAt` allows
under the liberty "pong" only.  Whoever has sent the last frame (`IsLast`: a CLOSE, one
without a mask, one that makes its message too long) may find the reader behind it with any
message, or the connection closed.  The frames are a witness, not a function of the state:
one more frame is appended to them (`InStreamGrows`), units arrive, or are lost when the
peer goes, and each read is followed through `ReadMessage` (`ReadMessageWell`).  Before the
handshake is complete, no more than its two units are received and sent (`Handshaking`).
`MessagesAreReceived` follows.

### 5.10 `SendProofs`

Both transports.  Unix sockets: for any threshold, length of frames, payloads and number
of calls, under `ThresholdAssumption`, `SendAssumption` and `WordAssumption`: `sz_pending` is a `size_t`, and a connection that queued as many
bytes as there are addresses could not have had the memory for them.  `IInv` says of the
client (`Good`) that each node is a part of a buffer given to `us_write`
(`Typed`), that `sz_pending` covers what the nodes still have (`Counted`), and that
SENDING, `armed` and the queue agree (`IsWatched`); and, while memory lasts and the
connection stands, that the bytes in the wire followed by those queued are the bytes of
the calls that were not lost (`Flows`).  `SendIsSound` follows from the first part.

`Refinement` is from the second: each operator takes a client to one that `Follows` it
(what was written and what was accepted only grow, and `Flows` is kept), a break leaves
what was written a prefix of what was accepted, and a handler, which is a sequence of
such operators, is one `Transfer`, `GiveUp` or `Reconnect` of `SendStream`.  The bytes of
a queue are a flattened sequence of nodes, which is recursive.  What is needed of it (that
flattening an appended sequence appends, that the sum of lengths is the length) is proved by
induction over sets of numbers, taken from the well-foundedness of < instead of from
an induction theorem with an operator as parameter; the recursive functions
of `us_send_packet` and of flattening are shown to exist in the same way.

Web sockets: for any threshold, frames, replies and liberties, under `ThresholdAssumption`
and `WebSocketAssumption`.  `WsIInv` says only `WsFlows`: while the peer is there, the wire
followed by the queue is what was given to `ws_respond` and not lost as a whole.  Nothing
is said of the status flags: the refinement needs nothing of them, which is why it holds
although a read may clear SENDING or THROTTLING (only liveness suffers).  Each function
that writes takes a client to one that is `WsServed`, the relation is transitive, and
the readers, which answer through `ws_respond` and change flags and messages around it,
are compositions (`ReadServed`).  `WebRefinement` reads off a step of `SendStream`:
`Transfer` while the peer is there, `GiveUp` after.

### 5.11 What is only model-checked

* Liveness (`Drains`, `AllServed`, `Answered`, `ServesAgain`): it needs
  fairness and ENABLED.
* `ClosedByOwner` and `TablesSound`: the document of `Workspace`, whose paths and walks
  are recursive, and whose invariant speaks of the ancestors of an element.
* `PartsSound`, `ImplementBags`: trees, rotations and URIs are recursive, and what they
  compute for every input needs an induction over trees or texts.

## 6. Deviations seen while modelling

Four have a run (the findings of `PROJECT.json`).  The models contain the others as
they are in the code; the definition named can be added to a cfg of the module to see a
trace.

* endpoint.c:447: the start-session deadline is taken of endpoints that have not sent
  startSession (`TimeoutIsOfStartSession`): a fresh client is dropped by the next idle
  second.
* server.c:194 and endpoint.c:360: a close deletes the entry under the endpoint's name
  even if it is another's and decreases `nr_endpoints` in any case; after duplicates the
  assertion at server.c:957 can fail (`NoEndpointLeft`).
* endpoint.c:838: a registered endpoint that sends a duplicate startSession is renamed,
  and its old entry outlives it (`ValuesAreEndpoints`).
* unixsocket.c:412: `us_send_packet` returns 0 for packets a throttled client loses
  (`ZeroMeansSent`); header and payload are separate calls, so one of them may be lost
  alone.
* unixsocket.c:335: after EAGAIN the byte before the buffer is queued too
  (`OnlyTheBuffer`), and unixsocket.c:343 returns -1 without an error status
  (`MinusOneIsError`).
* unixsocket.c:373: `sz_pending` is not decreased by a partial write (`SizeIsMemory`;
  what does hold is `SizeCovers`).
* server.c:526 and 532: the client is used after the callback that may have freed it
  (`NoUseAfterClose` of `UnixSocketSend`).
* websocket.c:1501 and 2004: a read clears SENDING while data is queued, and the queue
  may then stay (`WsWatched` of `WebSocket`, liberty "slow").
* unixsocket.c:467: the size a later frame announces is added in 32 bits, and a sum that
  wraps lets `my_read` write past the packet (phase "overrun" of `UnixSocketReceive`).
* server.c:557: EPOLLOUT is taken away by the status, not by the queue.  A web client whose
  SENDING a read overwrote (websocket.c:1500, 2003) is not watched with data queued; a send
  that flushes the queue (unixsocket.c:416, websocket.c:1240) leaves EPOLLOUT armed with
  none (`Flush` and `HandleWrites` of `ServerLoop`).  A client that a flush closed is asked for
  its status after it was freed (`wrong` "status").
* websocket.c: the node of a queue that there is no memory for is dereferenced (`wrong`
  "queue" of `ServerLoop`).
* websocket.c:2117: `on_accepted` runs for each part of the handshake request
  (`AcceptedOnce`, liberty "http").
* websocket.c:1710: a PONG between the frames of a message discards it (`NoFalseError`,
  liberty "pong").
* PurcmcCallbacks.c (gtk):139: a request whose requestId is pending already is dropped
  without an answer.
* PurcmcCallbacks.c (gtk):469: requests pended for a session or a window that goes are
  dropped, never answered (`Answered` of `Renderer` allows it).
* endpoint.c:967 and 1018: a client that goes on after endSession, or after a second
  startSession, crashes the renderer (`RequestWithoutSession`).
* PurcmcCallbacks.c (gtk):1036: the result of an update with an empty object is
  uninitialized (`MayReturnZero`).
* endpoint.c:1421: a reserved page name for which there is no window is answered OK with
  the handle 0 (`SpecialPlainWindow`); a page found by name may be another session's, and
  every later request about it then gets NOT_FOUND.
* endpoint.c:1099 and 1161: `on_update_workspace` and `on_destroy_workspace` refuse the
  renderers that have the callback and call it in those that have not; no toolkit has it.
* PurcmcCallbacks.c (minigui): `mg_call_method_in_session` takes the length of a missing
  method name (liberty "blank" of `Pages`).
* endpoint.c, comment of on_load_from_url ("PURCMC-120"): the answer says Ok before the
  page navigates, and the loader is not registered as owner (`LoaderIsOwner` of `Pages`).
  A failed load stays owner, and a load without an answer never tells the coroutine it
  suppresses.  A message that arrives between the clearing of the window object and the
  loading of the document is never answered; the destruction of the old JavaScript object
  frees the new instance (`DestroyedNotify`).
* layouter.c, `create_tabbed_window`: a tabbed window that closed with its last page is
  still the widget of its element, and pages are put into it (`WindowIsThere` of
  `Workspace`).  `ws_layouter_remove_widget_group` leaves the entries of the window's
  children in `sa_widget`; the walkers visit descendants but not the root.
* LayouterWidgets.c (gtk):482 asserts a kind of handle that panes are never registered
  with; BrowserTabbedWindow.c (gtk): the guard of `browser_tabbed_window_append_view_tab`
  is inverted; layouter.c:848: a plain window asked for in a list of pages collides with
  an item (`failed` of `Workspace` collects them; the default build has no assertions).
* PurcmcCallbacks.c (gtk): `on_webview_close` removes the owner stack of plain windows
  only; the end of any session deletes the layouter, also for the others of its
  application; a pane in another session's tabbed window cannot be destroyed by request.
* PurcmcCallbacks.c (minigui), `store_to_sess_list`: the list keeps the latest session
  only, although server.h:220 calls it the list of sessions (`SessionsListed` of
  `MiniguiRenderer`): replies for the others are dropped.  Close handlers do not look
  the session up at all, and an address used again lets a late reply answer the successor.
* Under MiniGUI a pane's close destroys its parent with the other panes in it; a container
  keeps its place among closed children; closing a tabbed window by its frame asks no
  page, so that their names stay taken.
* websocket.c, comment of `handle_ssl_pending_rw`: READING and WRITING are never cleared,
  so that it and the callback call each other without end once a read wants to write
  (`PendingIsCalled` of `WebSocketTls`).  A write that fails without EAGAIN counts as
  having sent all; an accept that wants to write waits for EPOLLIN only.
* websocket.c, handshake: a field with "GET " in its value is parsed as a request line,
  bytes behind the empty line in the same read are refused, and the value of Upgrade is
  not looked at (`HttpHead` contains all three).
* server.c:441: a batch may hold events of a client that another event has closed
  (`wrong` "event" of `ServerLoop`); with select() `on_pending` always fails; the access
  log of a refused client dereferences NULL; a socket that cannot be made non-blocking
  closes descriptor 0 and decreases the count it did not increase.
* endpoint.c:845: with AUTO_ACCEPT_FIRST_CONN, which endpoint.c:830 defines, a duplicate
  over the Unix socket that finds the list empty is listed, and utils.c:564
  (`xgutils_pull_screen_cast`) lists an endpoint that waits, neither with a question (`via` "first"
  and "pulled" of `Dialogs`).
* utils.c:428: a timer keeps the pointer of an endpoint that may be gone, and other
  functions go on with such pointers after a nested loop (`misread` of `Dialogs` under
  "meanwhile", "gone", "frames").  An address given out again is accepted on a consent for
  its predecessor (liberty "reuse").  The page for other renderers offers to switch
  whatever `allow_switching_rdr` says.
* hvml-uri.h:42: the group is documented as optional, but `hvml_uri_split_alloc` refuses
  a URI without (`GroupIsOptional` of `Uris`).  `hbdrun_uri_split` reads behind the end of
  a string with fewer than two separators; a key without "=" swallows the next pair.
* load-asset.c:128: after a short read, for which a read error or a directory is enough,
  the buffer is freed and then written, and `load_app_runner_asset_content`
  (HVMLURISchema.c:275) does the same for the picture of the blank page (faults "short" of
  `Assets`).  load-asset.c:140: nobody looks at what `remove` returns, so that a file that
  cannot be removed is served with once=yes again (faults "unremovable").  With once=yes a
  file that could not be loaded is removed all the same, and what is written between
  reading and removing is lost.  HVMLURISchema.c: the session of a view is looked up after
  it may have ended; without a cover page names are read uninitialised.
* sorted-array.h says that a search finds the first of equal members; the code finds any.

## 7. Not modelled

* Drawing, geometry, transitions, menus, toolbars, downloads and full screen of the
  windows of both toolkits, and the stand-alone browser window (`BrowserWindow.c`, the
  command line of `main.c`): they have little state of their own and none the protocol
  sees.
* What `hvml.js` does to a document, and the HTML of the `hbdrun://` pages but for the
  scripts that count down, post an answer and close.
* Masking, base64, SHA-1 and UTF-8 of the transports: functions of bytes without state.
* Set-up of listeners and of the SSL context; DNS-SD but for the list of
  renderers.
* MiniGUI's floating windows, idle timer, special page names and updates of titles.
* `list.h` and the walks of `gslist.c` by themselves, the WTF headers, build system and
  packaging.
