------------------------------- MODULE Pages -------------------------------
(***************************************************************************)
(* The pages of one session: the requests for them as the handlers pass    *)
(* them on (Requests), the renderer's callbacks with the stack of the      *)
(* coroutines that own a page (PurcmcCallbacks.c), and the web extension   *)
(* that hands messages to the script in the page and its replies back      *)
(* (WebExtensionHVML.c, hvml.js).                                          *)
(*                                                                         *)
(* A page p has two handles: its window or widget, and its web view.       *)
(* Pages are numbered in the order of their birth.  WebKit delivers the    *)
(* messages for a page in the order they were sent; a page handles one and *)
(* its reply reaches the renderer in one step here.  The handles, requests *)
(* and windows of several sessions are in Renderer and Workspace.          *)
(***************************************************************************)
EXTENDS Requests, SequencesExt, FiniteSetsExt

CONSTANTS
    Callbacks,      \* the renderers: sets of callbacks that are not NULL
    Coroutines,     \* handles of coroutines, numbers that are no page's handle
    Ids,            \* request identifiers
    NoReturn,       \* PCRDR_REQUESTID_NORETURN
    Names, Groups,  \* names of pages and groups that clients use
    MaxPages,       \* bound on the pages of a behaviour
    MaxQueue,       \* bound on the messages a page has not handled
    Environments,   \* sets of liberties of the client and of pages
    PageBound       \* the bound on the pages in each of them

(***************************************************************************)
(* "pipelines" the client sends a request before the last was answered;    *)
(* "careless"  it sends incomplete and ill-formed messages;                *)
(* "urls"      it uses loadFromURL;                                        *)
(* "blank"     it updates a window with an empty object, or calls a method *)
(*             of the workspace without an element;                        *)
(* "closes"    the user closes pages.                                      *)
(***************************************************************************)
Numbers == 1..MaxPages

\* What is kept for a request that waits: its page, the owner that the response
\* names, and the coroutine that the request suppressed.
Pendings == [page : Numbers, owner : Nat \cup {Nil}, plain : Nat]

\* The callbacks that handlers call without asking whether they are there, which
\* both renderers have, and those that neither has.
Untested == {"create_plainwin", "update_plainwin", "destroy_plainwin", "load", "load_from_url",
             "write", "register_crtn", "revoke_crtn", "update_dom"}
Absent == {"create_workspace", "get_property_in_session", "set_property_in_session"}

ASSUME PagesAssumption ==
    /\ MaxPages \in Nat /\ MaxQueue \in Nat
    /\ Coroutines \subseteq Nat \ 0..2 * MaxPages /\ Coroutines # {}
    /\ Environments \subseteq SUBSET {"pipelines", "careless", "urls", "blank", "closes"}
    /\ PageBound \in [Environments -> 0..MaxPages]
    /\ \A cb \in Callbacks : Untested \subseteq cb /\ cb \cap Absent = {}
    /\ Nil \notin Ids /\ NoReturn \notin Ids
    /\ Nil \notin Nat /\ Nil \notin {"plainwin", "widget", "deaf", "hears", "freed"}
    /\ Nil \notin Pendings

VARIABLES
    env,        \* the liberties taken in this behaviour
    cbs,        \* the callbacks of the renderer
    layouter,   \* the workspace has a layouter
    pages,      \* the pages that were created, with their owner stacks
    web,        \* what the web process keeps for each page
    pending,    \* pending_responses
    told,       \* per page, coroutines told of their suppression since they last asked
    visible,    \* per page, the coroutine the client takes for its owner
    crash       \* Nil, or the reason why the renderer is gone

vars == <<env, cbs, layouter, pages, web, pending, told, visible, crash>>

Container(p) == 2 * p - 1
View(p) == 2 * p
\* A number that is no page's handle.
Unknown == CHOOSE c \in Coroutines : TRUE

NoPage == [kind |-> Nil, name |-> Nil, group |-> Nil, closed |-> FALSE, stack |-> <<>>]
\* The object `hvml-instance' of a page: without or with onrequest, or freed.
NoWeb == [info |-> Nil, irId |-> Nil, loading |-> FALSE, old |-> FALSE, queue |-> <<>>]

Init ==
    /\ env \in Environments
    /\ cbs \in Callbacks
    /\ layouter = FALSE
    /\ pages = [p \in Numbers |-> NoPage]
    /\ web = [p \in Numbers |-> NoWeb]
    /\ pending = [r \in Ids |-> Nil]
    /\ told = [p \in Numbers |-> {}]
    /\ visible = [p \in Numbers |-> 0]
    /\ crash = Nil

-----------------------------------------------------------------------------
(* What the renderer looks up                                              *)

Open(p) == pages[p].kind # Nil /\ ~pages[p].closed

\* all_handles has the two handles of a page as long as it is open.
validate_handle(handle) ==
    LET found == {p \in Numbers : Open(p) /\ handle \in {Container(p), View(p)}}
    IN IF found = {} THEN 0 ELSE CHOOSE p \in found : TRUE

\* The pages that the functions which look for a special page go through.
InGroup(kind, group) ==
    {p \in Numbers : Open(p) /\ pages[p].kind = kind /\ pages[p].group = group}

\* Any page, or none, may have the focus.
Special(kind, group, name) ==
    LET all == InGroup(kind, group)
    IN CASE name = "_first"  -> {IF all = {} THEN 0 ELSE Container(Min(all))}
         [] name = "_last"   -> {IF all = {} THEN 0 ELSE Container(Max(all))}
         [] name = "_active" -> {0} \cup {Container(p) : p \in all}

\* gtk_find_page: the owner stack of a closed window is gone; that of a closed
\* widget is not, and such a name is not used again here (see Workspace).
find_page(kind, group, name) ==
    LET same == {p \in InGroup(kind, group) : pages[p].name = name}
    IN IF same = {} THEN {0} ELSE {Container(p) : p \in same}

\* The pages `found' may be in the handler of the message.
Found(m) ==
    LET kind == IF m.op = "createWidget" THEN "widget" ELSE "plainwin"
    IN IF m.etype # "id" THEN {0}
       ELSE IF IsReserved(m) THEN Special(kind, m.element.group, m.element.name)
       ELSE find_page(kind, m.element.group, m.element.name)

-----------------------------------------------------------------------------
(***************************************************************************)
(* Responses.  The client learns from them which coroutine owns a page.    *)
(***************************************************************************)
Waiting == {r \in Ids : pending[r] # Nil}

\* The client has given up requests for pages that were closed.
Idle == \A r \in Waiting : ~Open(pending[r].page)

\* A response that the handler sends itself.
Respond == UNCHANGED <<web, pending>>

\* Mutant: what the request suppressed is not kept for its response.
PendWithoutPlain(m, page, owner, suppressed) ==
    pending' = IF m.id = NoReturn THEN pending
               ELSE [pending EXCEPT ![m.id] =
                        [page |-> page, owner |-> owner, plain |-> 0]]

\* gtk_pend_response; `suppressed' goes with the load and write requests, 0 if
\* it is empty.
Pend(m, page, owner, suppressed) ==
    pending' = IF m.id = NoReturn THEN pending
               ELSE [pending EXCEPT ![m.id] =
                        [page |-> page, owner |-> owner, plain |-> suppressed]]

\* finish_response: the answer of a page, with the coroutine that its request
\* suppressed.  NULL stands for the owner where a request does not change it.
finish_response(r) ==
    IF r = Nil \/ r = NoReturn \/ pending[r] = Nil
    THEN UNCHANGED <<pending, told, visible>>
    ELSE LET q == pending[r]
         IN /\ pending' = [pending EXCEPT ![r] = Nil]
            /\ told' = [told EXCEPT ![q.page] = @ \cup ({q.plain} \ {0})]
            /\ visible' = [visible EXCEPT ![q.page] = IF q.owner = Nil THEN @ ELSE q.owner]

-----------------------------------------------------------------------------
(***************************************************************************)
(* The stack of the owners of a page, purc_page_ostack (external): who     *)
(* registered last is on top, and the next one to be suppressed.  A       *)
(* coroutine is in it once.                                                *)
(***************************************************************************)
Top(stack) == IF stack = <<>> THEN 0 ELSE stack[Len(stack)]
purc_page_ostack_register(stack, c) ==
    IF Top(stack) = c THEN stack ELSE Append(RemoveFirst(stack, c), c)
Suppressed(stack, c) == IF Top(stack) = c THEN 0 ELSE Top(stack)
purc_page_ostack_revoke(stack, c) == RemoveFirst(stack, c)
ToReload(stack, c) ==
    IF Top(stack) = c THEN Top(purc_page_ostack_revoke(stack, c)) ELSE 0

gtk_register_crtn(m, p) ==
    LET c == NumberOf(m)
        suppressed == Suppressed(pages[p].stack, c)
    IN /\ pages' = [pages EXCEPT ![p].stack = purc_page_ostack_register(@, c)]
       /\ told' = [told EXCEPT ![p] = (@ \ {c}) \cup ({suppressed} \ {0})]
       /\ visible' = [visible EXCEPT ![p] = c]
       /\ Respond
       /\ UNCHANGED <<layouter, crash>>

gtk_revoke_crtn(m, p) ==
    LET c == NumberOf(m)
        to_reload == ToReload(pages[p].stack, c)
    IN /\ pages' = [pages EXCEPT ![p].stack = purc_page_ostack_revoke(@, c)]
       /\ told' = [told EXCEPT ![p] = @ \ {to_reload}]
       /\ visible' = [visible EXCEPT ![p] =
                        IF to_reload # 0 THEN to_reload ELSE IF @ = c THEN 0 ELSE @]
       /\ Respond
       /\ UNCHANGED <<layouter, crash>>

\* webkit_web_view_send_message_to_page.
SendMessageToPage(m, p) ==
    web' = [web EXCEPT ![p].queue = Append(@, [leaves |-> m.op = "loadFromURL", id |-> m.id])]

\* loadFromURL is not one of the operations that take the page over.
gtk_load_or_write(m, p) ==
    LET takes == m.op \in {"load", "writeBegin"}
        c == NumberOf(m)
        suppressed == IF takes THEN Suppressed(pages[p].stack, c) ELSE 0
        owner == IF m.op \in {"load", "writeBegin", "loadFromURL"} THEN c ELSE Nil
    IN /\ SendMessageToPage(m, p)
       /\ Pend(m, p, owner, suppressed)
       /\ pages' = IF takes
                   THEN [pages EXCEPT ![p].stack = purc_page_ostack_register(@, c)]
                   ELSE pages
       /\ told' = IF takes THEN [told EXCEPT ![p] = @ \ {c}] ELSE told
       /\ UNCHANGED <<layouter, visible, crash>>

\* gtk_update_dom, gtk_call_method_in_dom, gtk_get_property_in_dom and
\* gtk_set_property_in_dom.
AskPage(m, p) ==
    /\ IF m.property = "bad" /\ m.op # "callMethod"
       THEN Respond
       ELSE SendMessageToPage(m, p) /\ Pend(m, p, Nil, 0)
    /\ UNCHANGED <<layouter, pages, told, visible, crash>>

-----------------------------------------------------------------------------
(* The other callbacks                                                     *)

Refused == Respond /\ UNCHANGED <<layouter, pages, told, visible, crash>>
Crashes(reason) ==
    /\ crash' = reason
    /\ UNCHANGED <<layouter, pages, web, pending, told, visible>>

\* gtk_create_plainwin and gtk_create_widget.  A page in a group takes a
\* layouter, which may not make it.  The request is answered when the document
\* of the page, whose URI has its identifier, is ready.
CreatePage(m, kind) ==
    LET p == Min({q \in Numbers : pages[q].kind = Nil})
        made == [kind |-> kind, name |-> m.element.name, group |-> m.element.group,
                 closed |-> FALSE, stack |-> <<>>]
    IN \/ m.element.group # Nil /\ Refused
       \/ /\ m.element.group # Nil => layouter
          /\ \E q \in 1..PageBound[env] : pages[q].kind = Nil
          /\ m.id # NoReturn
          /\ pages' = [pages EXCEPT ![p] = made]
          /\ web' = [web EXCEPT ![p] = [NoWeb EXCEPT !.irId = m.id, !.loading = TRUE]]
          /\ Pend(m, p, Nil, 0)
          /\ UNCHANGED <<layouter, told, visible, crash>>

\* Mutant: an update of a window waits like an update of a document.
UpdatePlainwinPends(m, p) ==
    /\ Pend(m, p, Nil, 0)
    /\ UNCHANGED <<layouter, pages, web, told, visible, crash>>

\* The result is not initialized when there is an object without members, or
\* none: if it is 0, the handler pends the request.
gtk_update_plainwin(m, p) ==
    \/ Refused
    \/ /\ m.property = "none" /\ m.data # "object"
       /\ Pend(m, p, Nil, 0)
       /\ UNCHANGED <<layouter, pages, web, told, visible, crash>>

\* gtk_destroy_plainwin and gtk_destroy_widget: the page closes, which is one
\* step here.  Another kind of page is left alone.
DestroyPage(handle, kind) ==
    LET p == validate_handle(handle)
    IN IF p # 0 /\ handle = Container(p) /\ pages[p].kind = kind
       THEN /\ pages' = [pages EXCEPT ![p].closed = TRUE]
            /\ Respond
            /\ UNCHANGED <<layouter, told, visible, crash>>
       ELSE Refused

\* mg_call_method_in_session reads the element's identifier without a test.
mg_call_method_in_session(m) ==
    IF m.target = "workspace" /\ m.etype = "void" THEN Crashes("element") ELSE Refused

\* What a callback that is reached reads without a test of its own.
Reads(m, callback) ==
    \/ /\ callback \in {"load", "load_from_url", "write", "set_page_groups", "add_page_groups"}
       /\ m.data # "text"
    \/ callback = "call_method_in_dom" /\ m.data # "method"
    \/ callback \in {"get_property_in_dom", "set_property_in_dom"} /\ m.property = "none"

Call(m, out) ==
    LET p == validate_handle(out.page)
        onPage == {"update_plainwin", "load", "load_from_url", "write", "register_crtn",
                   "revoke_crtn", "update_dom", "call_method_in_dom",
                   "get_property_in_dom", "set_property_in_dom"}
    IN IF out.call \notin cbs THEN Crashes("callback")
       ELSE IF out.call \in onPage /\ p = 0 THEN Refused
       ELSE IF Reads(m, out.call) THEN Crashes("argument")
       ELSE
       CASE out.call = "set_page_groups" ->
              /\ layouter' \in {layouter, TRUE}
              /\ Respond /\ UNCHANGED <<pages, told, visible, crash>>
         [] out.call \in {"add_page_groups", "remove_page_group", "update_widget"} -> Refused
         [] out.call = "create_plainwin" -> CreatePage(m, "plainwin")
         [] out.call = "create_widget" -> CreatePage(m, "widget")
         [] out.call = "update_plainwin" -> gtk_update_plainwin(m, p)
         [] out.call = "destroy_plainwin" -> DestroyPage(out.page, "plainwin")
         [] out.call = "destroy_widget" -> DestroyPage(out.page, "widget")
         [] out.call \in {"load", "load_from_url", "write"} -> gtk_load_or_write(m, p)
         [] out.call = "register_crtn" -> gtk_register_crtn(m, p)
         [] out.call = "revoke_crtn" -> gtk_revoke_crtn(m, p)
         [] out.call = "call_method_in_session" -> mg_call_method_in_session(m)
         [] OTHER -> AskPage(m, p)

-----------------------------------------------------------------------------
(***************************************************************************)
(* The messages a client sends: complete ones, and with "careless" those   *)
(* with one field that does not fit.                                       *)
(***************************************************************************)
Message(op, target, value, etype, element, dtype, data, property) ==
    [op |-> op, target |-> target, value |-> value, etype |-> etype, element |-> element,
     dtype |-> dtype, data |-> data, property |-> property, id |-> NoReturn]

ByNumber(n) == Element(Nil, Nil, n)
WindowNames == {Element(n, g, Nil) : n \in Names \cup Reserved, g \in Groups \cup {Nil}}
WidgetNames == {e \in WindowNames : e.group # Nil}
\* Pages whose creation was answered.
Created == {p \in Numbers : web[p].info \in {"hears", "freed"} \/ web[p].old}
Windows == {Container(p) : p \in Created}
Views == {View(p) : p \in Created}

OnGroups ==
    {Message(op, "workspace", 0, "void", NoElement, "html", "text", "none")
        : op \in {"setPageGroups", "addPageGroups"}}
    \cup {Message("removePageGroup", "workspace", 0, "id", Element(g, Nil, Nil),
                  "void", "none", "none") : g \in Groups}
    \cup {Message(op, "session", 0, "handle", ByNumber(Unknown), "json", "object", "title")
            : op \in {"createWorkspace", "updateWorkspace", "destroyWorkspace"}}

OnWindows ==
    {Message("createPlainWindow", "workspace", 0, "id", e, "void", "none", "none")
        : e \in WindowNames}
    \cup {Message("createWidget", "workspace", 0, "id", e, "void", "none", "none")
            : e \in WidgetNames}
    \cup {Message(op, "workspace", 0, "handle", ByNumber(h), "json", "object", "title")
            : op \in {"updatePlainWindow", "updateWidget", "destroyPlainWindow",
                      "destroyWidget"}, h \in Windows}
    \cup {Message("updatePlainWindow", "workspace", 0, "id", e, "json", "object", "none")
            : e \in WindowNames}

OnContents ==
    {Message(op, "plainwindow", h, "handle", ByNumber(c), "plain", "text", "none")
        : op \in {"load", "register", "revoke"} \cup WriteOperations
                  \cup (IF "urls" \in env THEN {"loadFromURL"} ELSE {}),
          h \in Windows, c \in Coroutines}
    \cup {Message(op, "dom", h, "id", Element("e", Nil, Nil), "plain", "text", "title")
            : op \in {"append", "erase", "getProperty", "setProperty"}, h \in Views}
    \cup {Message("callMethod", t, h, "id", Element("e", Nil, Nil), "json", "method", "none")
            : t \in {"dom", "workspace"}, h \in Views}

Changed(m) ==
    {[m EXCEPT !.target = t] : t \in {"session", "workspace", "widget", "dom", "user"}}
    \cup {[m EXCEPT !.value = n] : n \in {0, Unknown}}
    \cup {[m EXCEPT !.etype = "void", !.element = NoElement],
          [m EXCEPT !.etype = "handle", !.element = ByNumber(0)],
          [m EXCEPT !.etype = "handle", !.element = ByNumber(Unknown)],
          [m EXCEPT !.etype = "id", !.element = Element("_other", Nil, Nil)],
          [m EXCEPT !.dtype = "void", !.data = "none"],
          [m EXCEPT !.dtype = "json", !.data = "object"],
          [m EXCEPT !.dtype = "plain", !.data = "empty"]}
    \cup {[m EXCEPT !.property = x] : x \in {"none", "bad"}}

Blank(m) == m.data = "blank" \/ (m.target = "workspace" /\ m.etype = "void")

Messages ==
    LET proper == OnGroups \cup OnWindows \cup OnContents
        blank == {[m EXCEPT !.dtype = "json", !.data = "blank", !.property = "none"]
                    : m \in {x \in OnWindows : x.op = "updatePlainWindow"}}
        changed == UNION {Changed(m) : m \in proper}
    IN proper \cup (IF "blank" \in env THEN blank ELSE {})
              \cup (IF "careless" \notin env THEN {}
                    ELSE IF "blank" \in env THEN changed
                    ELSE {m \in changed : m.op # "callMethod" \/ ~Blank(m)})

\* Requests that take no identifier: the client does not wait for them.
MayBeSilent(m) == m.op \in DomOperations \cup {"callMethod", "setProperty"}

\* on_got_message.
Request(m) ==
    /\ "pipelines" \in env \/ Idle
    /\ m.id \in Ids => pending[m.id] = Nil
    /\ m.id = NoReturn => MayBeSilent(m)
    /\ \A p \in Numbers : Len(web[p].queue) < MaxQueue
    /\ \E found \in Found(m) :
         LET out == find_request_handler(cbs, m, found)
         IN IF out.call = Nil THEN Refused ELSE Call(m, out)
    /\ UNCHANGED <<env, cbs>>

-----------------------------------------------------------------------------
(***************************************************************************)
(* The web process.                                                        *)
(***************************************************************************)
\* window_object_cleared_callback: the page gets a new instance.  The object of
\* the old document, if there was one, is finalized at some time.
WindowObjectCleared(p) ==
    /\ Open(p) /\ web[p].loading /\ web[p].info # "freed"
    /\ web' = [web EXCEPT ![p].info = "deaf", ![p].old = @ \/ web[p].info # Nil]
    /\ web[p].info # "deaf"
    /\ UNCHANGED <<env, cbs, layouter, pages, pending, told, visible, crash>>

\* document_loaded_callback injects hvml.js, which sets onrequest, and tells
\* the view that the page is ready, with the identifier from its URI.
DocumentLoaded(p) ==
    /\ Open(p) /\ web[p].loading /\ web[p].info = "deaf"
    /\ web' = [web EXCEPT ![p].info = "hears", ![p].irId = Nil, ![p].loading = FALSE]
    /\ finish_response(web[p].irId)
    /\ UNCHANGED <<env, cbs, layouter, pages, crash>>

\* destroyed_notify of the old object takes the instance of the page, which is
\* the new one by now.
DestroyedNotify(p) ==
    /\ Open(p) /\ web[p].old /\ web[p].info # "freed"
    /\ web' = [web EXCEPT ![p].info = "freed", ![p].old = FALSE]
    /\ UNCHANGED <<env, cbs, layouter, pages, pending, told, visible, crash>>

\* user_message_received_callback, onrequest of hvml.js, and
\* request_ready_callback with its reply.  Without onrequest there is none.
\* With loadFromURL the script replies and then leaves for another document.
MessageHandled(p) ==
    LET m == Head(web[p].queue)
    IN /\ Open(p) /\ web[p].queue # <<>> /\ web[p].info \in {"deaf", "hears"}
       /\ web' = [web EXCEPT ![p].queue = Tail(@),
                    ![p].loading = @ \/ (m.leaves /\ web[p].info = "hears"),
                    ![p].irId = IF m.leaves /\ web[p].info = "hears" THEN m.id ELSE @]
       /\ IF web[p].info = "hears" THEN finish_response(m.id)
          ELSE UNCHANGED <<pending, told, visible>>
       /\ UNCHANGED <<env, cbs, layouter, pages, crash>>

UserCloses(p) ==
    /\ "closes" \in env /\ Open(p)
    /\ pages' = [pages EXCEPT ![p].closed = TRUE]
    /\ UNCHANGED <<env, cbs, layouter, web, pending, told, visible, crash>>

Next ==
    /\ crash = Nil
    /\ \/ \E m \in Messages, r \in Ids \cup {NoReturn} : Request([m EXCEPT !.id = r])
       \/ \E p \in Numbers :
            \/ WindowObjectCleared(p) \/ DocumentLoaded(p) \/ DestroyedNotify(p)
            \/ MessageHandled(p) \/ UserCloses(p)

Spec == Init /\ [][Next]_vars
-----------------------------------------------------------------------------
(* Properties                                                              *)

\* However a message is made, no callback is called that the renderer does not
\* have, nor with an argument missing that it reads.
NoCrash == crash # Nil => "blank" \in env

\* A request waits only for a page that was asked: its message is on its way or
\* the page is still loading for it, unless the page was closed.
WaitsForPage ==
    env \cap {"urls", "blank"} = {} =>
        \A r \in Waiting :
            LET p == pending[r].page
            IN \/ ~Open(p)
               \/ web[p].loading /\ web[p].irId = r
               \/ \E i \in DOMAIN web[p].queue : web[p].queue[i].id = r

\* A coroutine that another one has pushed from the top of a page was told so
\* since it last asked for the page, or will be by a response that is pending.
OwnersTold ==
    \A p \in Numbers :
        Open(p) =>
            \A i \in 1..Len(pages[p].stack) - 1 :
                LET c == pages[p].stack[i]
                IN \/ c \in told[p]
                   \/ \E r \in Waiting : pending[r].page = p /\ pending[r].plain = c
                   \/ c = 0

\* A client that waits for its answers knows the owner of every page from them.
VisibleIsTop ==
    "pipelines" \notin env /\ "urls" \notin env /\ Idle =>
        \A p \in Numbers : Open(p) => visible[p] = Top(pages[p].stack)

\* Both: a coroutine that was pushed from the top of a page was told so or will
\* be, and a client knows the owners of its pages from the answers.
OwnersSound == OwnersTold /\ VisibleIsTop

\* endpoint.c: on_load_from_url returns the coroutine that is suppressed.
LoaderIsOwner ==
    "pipelines" \notin env /\ Idle =>
        \A p \in Numbers : Open(p) => visible[p] = Top(pages[p].stack)
=============================================================================
