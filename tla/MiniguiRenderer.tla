--------------------------- MODULE MiniguiRenderer ---------------------------
(***************************************************************************)
(* The renderer under MiniGUI as far as it differs from GTK's: the list of *)
(* sessions that late replies are checked against, and the windows, which  *)
(* are destroyed by the code itself: plain windows with one page, and a    *)
(* tabbed window with its containers, lists of panes ("ol") and property   *)
(* sheets ("ul").  What requests do to a page is in Pages, the document    *)
(* that lays out the tabbed window in Workspace; its groups are laid out   *)
(* here from the beginning.                                                *)
(*                                                                         *)
(* A session is known by its address, which malloc may give out again;     *)
(* pages are numbered as they are made.  WebKit is as in Renderer: a view  *)
(* closes some time after it was told to, and answers nothing then.        *)
(* MiniGUI destroys the children of a window with it.  What is read after  *)
(* it was freed makes the outcome undefined: the behaviour ends there and  *)
(* `wrong' says by what.                                                   *)
(***************************************************************************)
EXTENDS Naturals, SequencesExt, FiniteSetsExt

CONSTANTS
    Nil,
    Names,          \* names of endpoints, of one application
    Addresses,      \* addresses of sessions
    PageNames,      \* names of pages clients use
    Lists, Sheets,  \* the containers of the tabbed window
    Ids,            \* request identifiers
    MaxPages,       \* bound on the pages of a behaviour
    StartBound,     \* bound on the sessions of a behaviour in each environment
    MaxFlights,     \* bound on the messages pages have not answered
    Environments    \* sets of liberties of clients and user

(***************************************************************************)
(* "endings"   a client goes while it has windows;                         *)
(* "siblings"  clients put several pages into one container;               *)
(* "again"     they ask for pages in a container or a window that closed;  *)
(* "frames"    the user closes the tabbed window by its frame.             *)
(***************************************************************************)
ASSUME MiniguiAssumption ==
    /\ {MaxPages, MaxFlights} \subseteq Nat /\ StartBound \in [Environments -> Nat]
    /\ Environments \subseteq SUBSET {"endings", "siblings", "again", "frames"}
    /\ Lists \cap Sheets = {}
    /\ Nil \notin Names \cup Addresses \cup PageNames \cup Lists \cup Sheets
    /\ Nil \notin {"plain", "pane", "tab", "open", "closing", "closed", "gone",
                  "clear", "container", "reply", "event", "close", "window"}

Hosts == Lists \cup Sheets
Numbers == 1..MaxPages

VARIABLES
    env,        \* the liberties taken in this behaviour
    conn,       \* the session of each endpoint that is connected
    mem,        \* the sessions by address
    sess_list,  \* the nodes that are reached from srv->sess_list
    starts,     \* sessions started so far
    owners,     \* page_owners: the page under each name
    pages,      \* the pages that were made
    window,     \* the tabbed window
    hosts,      \* its containers
    flights,    \* messages sent to pages
    strays,     \* requests that were answered for another session's
    wrong       \* Nil, or what read freed memory

vars == <<env, conn, mem, sess_list, starts, owners, pages, window, hosts, flights,
          strays, wrong>>

FreeSession ==
    [live |-> FALSE, name |-> Nil, born |-> 0, pages |-> {}, hosts |-> {},
     window |-> FALSE, pending |-> {}]
NoPage ==
    [kind |-> Nil, name |-> Nil, sess |-> Nil, host |-> Nil, idx |-> 0, hwnd |-> FALSE,
     view |-> Nil, heard |-> FALSE]
NoWindow == [state |-> Nil, sess |-> Nil, nrViews |-> 0]
NoHost == [open |-> FALSE, sheet |-> <<>>]

Init ==
    /\ env \in Environments
    /\ conn = [n \in Names |-> Nil]
    /\ mem = [a \in Addresses |-> FreeSession]
    /\ sess_list = <<>> /\ starts = 0
    /\ owners = [name \in PageNames |-> 0]
    /\ pages = [p \in Numbers |-> NoPage]
    /\ window = NoWindow
    /\ hosts = [h \in Hosts |-> NoHost]
    /\ flights = {} /\ strays = {} /\ wrong = Nil

Live(a) == mem[a].live
Open(p) == pages[p].view \in {"open", "closing"}

-----------------------------------------------------------------------------
(***************************************************************************)
(* The list of sessions.  gslist_insert_append puts the new node behind    *)
(* the head and returns it, and it becomes the head: the old head is in    *)
(* the list no more.                                                       *)
(***************************************************************************)
store_to_sess_list(list, a) == IF list = <<>> THEN <<a>> ELSE <<a>> \o Tail(list)
remove_from_sess_list(list, a) == RemoveFirst(list, a)
is_in_sess_list(a) == Contains(sess_list, a)

\* mg_create_session.
StartSession(n) ==
    /\ conn[n] = Nil /\ starts < StartBound[env]
    /\ \E a \in Addresses :
        /\ ~Live(a)
        /\ conn' = [conn EXCEPT ![n] = a]
        /\ mem' = [mem EXCEPT ![a] =
                     [FreeSession EXCEPT !.live = TRUE, !.name = n, !.born = starts + 1]]
        /\ sess_list' = store_to_sess_list(sess_list, a)
    /\ starts' = starts + 1
    /\ UNCHANGED <<env, owners, pages, window, hosts, flights, strays, wrong>>

\* webkit_web_view_try_close on some views.
TryClose(ps) == [p \in Numbers |-> IF p \in ps /\ Open(p) THEN [pages[p] EXCEPT !.view = "closing"]
                                   ELSE pages[p]]

PagesOf(h) == {p \in Numbers : pages[p].host = h}
Tabbed == {p \in Numbers : pages[p].host # Nil}

\* on_each_ostack finds the pages of the session and listens to them no more.
OwnPages(a) == {p \in Range(owners) \ {0} : p \in mem[a].pages}

\* What refers to a session by its address.
Refers(a) ==
    \/ \E p \in Numbers : Open(p) /\ pages[p].sess = a
    \/ window.state = "open" /\ window.sess = a

\* mg_remove_session.  ws_layouter_delete closes the plain windows of the
\* session once more, and if the window is the session's, what is in it: its
\* list of containers has those that are gone too.
mg_remove_session(n) ==
    LET a == conn[n]
        clears == mem[a].window /\ window.state = "open"
        silenced == [p \in Numbers |->
                       IF p \in OwnPages(a) THEN [pages[p] EXCEPT !.heard = FALSE] ELSE pages[p]]
        closing == OwnPages(a) \cup (IF clears THEN Tabbed ELSE {})
    IN /\ "endings" \in env \/ ~Refers(a)
       /\ conn' = [conn EXCEPT ![n] = Nil]
       /\ sess_list' = remove_from_sess_list(sess_list, a)
       /\ mem' = [mem EXCEPT ![a] = FreeSession]
       /\ pages' = [p \in Numbers |-> [silenced[p] EXCEPT !.view = TryClose(closing)[p].view]]
       /\ wrong' = IF clears /\ \E h \in Hosts : ~hosts[h].open THEN "clear" ELSE wrong
       /\ UNCHANGED <<env, starts, owners, window, hosts, flights, strays>>

EndSession(n) == conn[n] # Nil /\ mg_remove_session(n)

-----------------------------------------------------------------------------
(* Pages                                                                   *)

New == Min({p \in Numbers : pages[p].kind = Nil})
MayMake == \E p \in Numbers : pages[p].kind = Nil

\* What mg_create_plainwin and mg_create_widget do once there is a page: its
\* address says which request its page-ready answers.
Made(n, name, kind, h, idx, r) ==
    LET a == conn[n]
    IN /\ owners[name] = 0
       /\ r \notin mem[a].pending
       /\ pages' = [pages EXCEPT ![New] =
                      [kind |-> kind, name |-> name, sess |-> a, host |-> h, idx |-> idx,
                       hwnd |-> TRUE, view |-> "open", heard |-> TRUE]]
       /\ owners' = [owners EXCEPT ![name] = New]
       /\ flights' = flights \cup {[page |-> New, sess |-> a, born |-> mem[a].born, id |-> r,
                                    loads |-> TRUE]}

Handled(a, p, r) == [mem EXCEPT ![a].pages = @ \cup {p}, ![a].pending = @ \cup {r}]

mg_create_plainwin(n, name, r) ==
    /\ conn[n] # Nil /\ MayMake
    /\ Made(n, name, "plain", Nil, 0, r)
    /\ mem' = Handled(conn[n], New, r)
    /\ UNCHANGED <<env, conn, sess_list, starts, window, hosts, strays, wrong>>

\* Mutant: the window does not count the pages in its sheets.
CountPanes(w, h) == IF h \in Lists THEN [w EXCEPT !.nrViews = @ + 1] ELSE w

\* browser_tabbed_window_append_view_pane and _tab.
append_view(w, h) == [w EXCEPT !.nrViews = @ + 1]

\* mg_create_widget in a window that is not there yet, which is made with all
\* its containers.
OpenTabbedWindow(n, name, h, r) ==
    /\ conn[n] # Nil /\ MayMake
    /\ window.state = Nil
    /\ Made(n, name, IF h \in Lists THEN "pane" ELSE "tab", h, 0, r)
    /\ window' = append_view([state |-> "open", sess |-> conn[n], nrViews |-> 0], h)
    /\ hosts' = [x \in Hosts |->
                   [open |-> TRUE, sheet |-> IF x = h /\ h \in Sheets THEN <<New>> ELSE <<>>]]
    /\ mem' = [Handled(conn[n], New, r) EXCEPT ![conn[n]].window = TRUE,
                                               ![conn[n]].hosts = Hosts]
    /\ UNCHANGED <<env, conn, sess_list, starts, strays, wrong>>

\* browser_tab_new: PSM_ADDPAGE gives the next index.
NextIndex(h) == Len(hosts[h].sheet)

\* In a container of an open window.
mg_create_widget(n, name, h, r) ==
    /\ conn[n] # Nil /\ MayMake
    /\ window.state = "open" /\ hosts[h].open
    /\ "siblings" \in env \/ \A p \in PagesOf(h) : ~Open(p)
    /\ Made(n, name, IF h \in Lists THEN "pane" ELSE "tab", h, NextIndex(h), r)
    /\ window' = append_view(window, h)
    /\ hosts' = [hosts EXCEPT ![h].sheet = IF h \in Sheets THEN Append(@, New) ELSE @]
    /\ mem' = Handled(conn[n], New, r)
    /\ UNCHANGED <<env, conn, sess_list, starts, strays, wrong>>

\* The elements of the document still name the window and the container.
CreateInClosed(n, h) ==
    /\ "again" \in env /\ conn[n] # Nil /\ MayMake
    /\ window.state = "gone" \/ (window.state = "open" /\ ~hosts[h].open)
    /\ wrong' = "container"
    /\ UNCHANGED <<env, conn, mem, sess_list, starts, owners, pages, window, hosts, flights,
                   strays>>

\* A request that sends a message to its page, and is pended.
AskPage(n, p, r) ==
    LET a == conn[n]
    IN /\ a # Nil
       /\ p \in mem[a].pages /\ Open(p)
       /\ r \notin mem[a].pending
       /\ Cardinality(flights) < MaxFlights
       /\ flights' = flights \cup {[page |-> p, sess |-> a, born |-> mem[a].born, id |-> r,
                                    loads |-> FALSE]}
       /\ mem' = [mem EXCEPT ![a].pending = @ \cup {r}]
       /\ UNCHANGED <<env, conn, sess_list, starts, owners, pages, window, hosts, strays, wrong>>

\* The owner stacks of coroutines are in Pages.
mg_load_or_write(n, p, r) == AskPage(n, p, r)

\* A name of a property that is no token is refused before the page hears of it.
mg_update_dom(n, p, r) == AskPage(n, p, r)
mg_get_property_in_dom(n, p, r) == AskPage(n, p, r)
mg_set_property_in_dom(n, p, r) == AskPage(n, p, r)
mg_call_method_in_dom(n, p, r) == AskPage(n, p, r)

\* The view is told to close; the window goes when it has.
DestroyPage(n, p) ==
    /\ conn[n] # Nil
    /\ p \in mem[conn[n]].pages
    /\ pages' = TryClose({p})
    /\ UNCHANGED <<env, conn, mem, sess_list, starts, owners, window, hosts, flights, strays,
                   wrong>>

mg_destroy_plainwin(n, p) == pages[p].kind = "plain" /\ DestroyPage(n, p)

\* Only in a tabbed window of the session.
mg_destroy_widget(n, p) ==
    /\ pages[p].kind \in {"pane", "tab"}
    /\ conn[n] # Nil /\ mem[conn[n]].window
    /\ DestroyPage(n, p)

-----------------------------------------------------------------------------
(***************************************************************************)
(* Replies.  The callbacks carry the address of the session.               *)
(***************************************************************************)
\* Mutant: a session that is gone is not told from one that is there.
AnswerAnyway(f) ==
    /\ wrong' = IF Live(f.sess) THEN wrong ELSE "reply"
    /\ mem' = [mem EXCEPT ![f.sess].pending = @ \ {f.id}]
    /\ strays' = strays

handle_response_from_webpage(f) ==
    IF ~is_in_sess_list(f.sess) THEN UNCHANGED <<mem, strays, wrong>>
    ELSE /\ wrong' = IF Live(f.sess) THEN wrong ELSE "reply"
         /\ mem' = [mem EXCEPT ![f.sess].pending = @ \ {f.id}]
         /\ strays' = IF f.id \in mem[f.sess].pending /\ mem[f.sess].born # f.born
                      THEN strays \cup {f.id} ELSE strays

\* The page of a closed view does not answer.
Answered(f, hears) ==
    /\ flights' = flights \ {f}
    /\ IF Open(f.page) /\ hears THEN handle_response_from_webpage(f)
       ELSE UNCHANGED <<mem, strays, wrong>>
    /\ UNCHANGED <<env, conn, sess_list, starts, owners, pages, window, hosts>>

\* page-ready, which comes to the session only while it listens.
user_message_received_callback(f) == f.loads /\ Answered(f, pages[f.page].heard)

request_ready_callback(f) == ~f.loads /\ Answered(f, TRUE)

\* browser_plain_window_post_activate_event: the window gets or loses the focus,
\* or is idle, and reads the session from its view.
PostEvent(p) ==
    /\ pages[p].kind = "plain" /\ pages[p].hwnd
    /\ ~Live(pages[p].sess)
    /\ wrong' = "event"
    /\ UNCHANGED <<env, conn, mem, sess_list, starts, owners, pages, window, hosts, flights,
                   strays>>

-----------------------------------------------------------------------------
(***************************************************************************)
(* Closing.  First the handlers of the session's, then those of the        *)
(* window.  A record `world' has what they change.                         *)
(***************************************************************************)
World == [mem |-> mem, pages |-> pages, owners |-> owners, window |-> window,
          hosts |-> hosts, wrong |-> wrong]

Fails(world, why) == [world EXCEPT !.wrong = IF @ = Nil THEN why ELSE @]

on_webview_close(world, p) ==
    LET a == pages[p].sess
    IN IF ~Live(a) THEN Fails(world, "close")
       ELSE IF p \notin mem[a].pages THEN world
       ELSE [world EXCEPT !.mem[a].pages = @ \ {p}, !.owners[pages[p].name] = 0]

Destroyed(world, ps) ==
    [world EXCEPT !.pages = [p \in Numbers |-> IF p \in ps THEN [@[p] EXCEPT !.hwnd = FALSE]
                                               ELSE @[p]]]

\* Mutant: the handles of the containers stay.
DestroyContainerKeepingHandle(world, hs) ==
    IF ~Live(window.sess) THEN Fails(world, "close")
    ELSE [Destroyed(world, UNION {PagesOf(h) : h \in hs}) EXCEPT
            !.hosts = [h \in Hosts |-> [world.hosts[h] EXCEPT !.open = @ /\ h \notin hs]]]

\* Containers are destroyed, with what is in them, one after the other; for each,
\* on_destroy_container.
on_destroy_container(world, hs) ==
    IF ~Live(window.sess) THEN Fails(world, "close")
    ELSE [Destroyed(world, UNION {PagesOf(h) : h \in hs}) EXCEPT
            !.hosts = [h \in Hosts |-> [world.hosts[h] EXCEPT !.open = @ /\ h \notin hs]],
            !.mem[window.sess].hosts = @ \ hs]

\* DestroyAllControls and DestroyMainWindow; on_destroy_tabbed_window.
DestroyTabbedWindow(world) ==
    LET emptied == on_destroy_container(world, {h \in Hosts : world.hosts[h].open})
    IN IF ~Live(window.sess) THEN emptied
       ELSE [emptied EXCEPT !.window.state = "gone", !.mem[window.sess].window = FALSE]

\* A pane takes the container it is in with it.
browserPaneWebViewClose(world, p) ==
    CASE world.window.state = "open" /\ world.window.nrViews = 1 -> DestroyTabbedWindow(world)
      [] /\ world.window.state = "open" /\ world.window.nrViews # 1
         /\ world.hosts[pages[p].host].open ->
           [on_destroy_container(world, {pages[p].host}) EXCEPT !.window.nrViews = @ - 1]
      [] OTHER -> Fails(world, "window")

\* PSM_REMOVEPAGE takes the page that has the index now.
browserTabWebViewClose(world, p) ==
    LET h == pages[p].host
        sheet == world.hosts[h].sheet
        i == pages[p].idx + 1
        removed == IF i \in DOMAIN sheet THEN {sheet[i]} ELSE {}
    IN CASE world.window.state = "open" /\ world.window.nrViews = 1 -> DestroyTabbedWindow(world)
         [] world.window.state = "open" /\ world.window.nrViews # 1 ->
              [Destroyed(world, {p} \cup removed) EXCEPT
                 !.window.nrViews = @ - 1,
                 !.hosts[h].sheet = IF removed = {} THEN @ ELSE RemoveAt(@, i)]
         [] OTHER -> Fails(world, "window")

\* webViewClose of a plain window; on_destroy_plain_window finds no handle.
webViewClose(world, p) ==
    IF ~Live(pages[p].sess) THEN Fails(world, "close") ELSE Destroyed(world, {p})

ViewClosed(p) ==
    /\ pages[p].view = "closing"
    /\ LET closed == [World EXCEPT !.pages[p].view = "closed"]
           told == on_webview_close(closed, p)
           world == CASE pages[p].kind = "plain" -> webViewClose(told, p)
                      [] pages[p].kind = "pane" -> browserPaneWebViewClose(told, p)
                      [] OTHER -> browserTabWebViewClose(told, p)
       IN /\ mem' = world.mem /\ pages' = world.pages /\ owners' = world.owners
          /\ window' = world.window /\ hosts' = world.hosts /\ wrong' = world.wrong
    /\ UNCHANGED <<env, conn, sess_list, starts, flights, strays>>

\* MSG_CLOSE of a plain window, or the script of any page closes it.
UserCloses(p) ==
    /\ pages[p].view = "open"
    /\ pages' = TryClose({p})
    /\ UNCHANGED <<env, conn, mem, sess_list, starts, owners, window, hosts, flights, strays,
                   wrong>>

\* MSG_CLOSE of a tabbed window does not ask its pages.
BrowserTabbedWindowProc ==
    /\ "frames" \in env
    /\ window.state = "open"
    /\ LET world == DestroyTabbedWindow(World)
       IN /\ mem' = world.mem /\ pages' = world.pages /\ hosts' = world.hosts
          /\ window' = world.window /\ wrong' = world.wrong
    /\ UNCHANGED <<env, conn, sess_list, starts, owners, flights, strays>>

Next ==
    /\ wrong = Nil
    /\ \/ \E n \in Names :
            \/ StartSession(n) \/ EndSession(n)
            \/ \E name \in PageNames, r \in Ids :
                 \/ mg_create_plainwin(n, name, r)
                 \/ \E h \in Hosts : OpenTabbedWindow(n, name, h, r) \/ mg_create_widget(n, name, h, r)
            \/ \E h \in Hosts : CreateInClosed(n, h)
            \/ \E p \in Numbers : mg_destroy_plainwin(n, p) \/ mg_destroy_widget(n, p)
            \/ \E p \in Numbers, r \in Ids :
                 \/ mg_load_or_write(n, p, r) \/ mg_update_dom(n, p, r)
                 \/ mg_get_property_in_dom(n, p, r) \/ mg_set_property_in_dom(n, p, r)
                 \/ mg_call_method_in_dom(n, p, r)
       \/ \E f \in flights : user_message_received_callback(f) \/ request_ready_callback(f)
       \/ \E p \in Numbers : PostEvent(p) \/ ViewClosed(p) \/ UserCloses(p)
       \/ BrowserTabbedWindowProc

Spec == Init /\ [][Next]_vars
-----------------------------------------------------------------------------
(* Properties                                                              *)

\* Whenever sessions end and their addresses are given out again, a reply that
\* comes late reads no session that was freed; and where clients close their
\* windows before they go, nothing does, and no reply answers for another's.
RepliesSafe ==
    /\ wrong # "reply"
    /\ env = {} => wrong = Nil /\ strays = {}

\* What a handle of a session names is there: validate_handle lets no request
\* through to a window that was destroyed.
HandlesOpen ==
    wrong = Nil => \A a \in Addresses : Live(a) =>
        /\ mem[a].window => window.state = "open"
        /\ \A h \in mem[a].hosts : hosts[h].open
        /\ env \cap {"siblings", "frames"} = {} => \A p \in mem[a].pages : pages[p].hwnd

\* The tabbed window stands as long as one of its pages, and no longer.
WindowOfItsPages ==
    wrong = Nil =>
    LET there == {p \in Tabbed : Open(p)}
    IN /\ window.state = "open" => window.nrViews = Cardinality(there) /\ there # {}
       /\ window.state = "gone" /\ "frames" \notin env => there = {}

\* A name is taken exactly as long as its page is open, so that a page that
\* closed can be made again.
NamesOfOpenPages ==
    wrong = Nil /\ env \cap {"endings", "frames"} = {} =>
        /\ \A name \in PageNames : owners[name] # 0 => Open(owners[name])
        /\ \A p \in Numbers : Open(p) => owners[pages[p].name] = p

\* Both: the windows that are there are those of the pages that are open, and the
\* names that are taken those of the pages.
PagesSound == WindowOfItsPages /\ NamesOfOpenPages

\* server.h: sess_list is the session list.
SessionsListed == \A a \in Addresses : Live(a) => is_in_sess_list(a)
=============================================================================
