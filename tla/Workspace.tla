----------------------------- MODULE Workspace -----------------------------
(***************************************************************************)
(* The workspace of one application under GTK: the document that lays out  *)
(* its pages (layouter.c, dom-ops.c), the widgets made for the elements of *)
(* the document (LayouterWidgets.c, BrowserTabbedWindow.c), the handles by *)
(* which sessions know them, and page_owners.                              *)
(*                                                                         *)
(* Four tables refer to each other and are kept by different code: an      *)
(* element names its widget (user), sa_widget leads from a widget to its   *)
(* element, all_handles says of what kind a widget is, and page_owners     *)
(* leads from a page to its view.  Widgets are named by the address they   *)
(* occupy, which may be given to another one later; a page's view and its  *)
(* window, pane or tab come and go together and share one name.  WebKit    *)
(* closes a view some time after webkit_web_view_try_close.                *)
(*                                                                         *)
(* Assertions are not compiled into the default build: `failed' collects   *)
(* those that would not hold.  When a widget or an element is used that is *)
(* gone the outcome is undefined: the behaviour ends there, `stale' says   *)
(* what was used.                                                          *)
(***************************************************************************)
EXTENDS Integers, SequencesExt, FiniteSetsExt

CONSTANTS
    Sessions,
    Nil,            \* NULL
    Addresses,      \* addresses of widgets, a set of numbers
    MaxElement,     \* bound on the elements of the document
    Template,       \* the contents for setPageGroups, see Fragment
    Addition,       \* the contents for addPageGroups
    Groups,         \* the group identifiers clients use
    Names,          \* the page names clients use
    Environments    \* sets of liberties of clients and user

(***************************************************************************)
(* "shares"  a second session uses the workspace;                          *)
(* "closes"  the user closes pages, and destroyPlainWindow is used on a    *)
(*           grouped window;                                               *)
(* "again"   a client destroys the last page of a tabbed window, and asks  *)
(*           for pages in that window, or pages that were there before;    *)
(* "groups"  a group with an open tabbed window is removed: the window's     *)
(*           element is forgotten before those of its containers and pages, *)
(*           whose entries in sa_widget stay;                              *)
(* "mixes"   a plain window is asked for in a group of pages.              *)
(***************************************************************************)
WorkspaceAssumption ==
    /\ Addresses \subseteq Nat \ {0}
    /\ MaxElement \in Nat
    /\ Environments \subseteq SUBSET {"shares", "closes", "again", "groups", "mixes"}
    /\ \A fragment \in {Template, Addition} : \A i \in DOMAIN fragment : fragment[i].parent < i

VARIABLES
    env,        \* the liberties taken in this behaviour
    sessions,   \* the sessions of the application
    layouter,   \* NULL, or the document with its two tables
    widgets,    \* the contents of the widget addresses
    handles,    \* all_handles of each session
    owners,     \* page_owners: the view of each page
    failed,     \* assertions that would have failed
    stale       \* Nil, or what was used after it had gone

vars == <<env, sessions, layouter, widgets, handles, owners, failed, stale>>

Body == 0
\* "%s-%s" for a page; a group has an identifier with one part.
PageId(group, name) == Append(group, name)
NoWidget == [kind |-> Nil, session |-> Nil, window |-> Nil, page |-> Nil, closing |-> Nil]
\* A page identifier has a prefix for its kind; the identifier of its element has not.
Pages == {"plainwin", "widget"} \X {PageId(group, name) : group \in Groups, name \in Names}
Without(f, x) == [y \in DOMAIN f \ {x} |-> f[y]]
Given(f, x, y) == [z \in DOMAIN f \cup {x} |-> IF z = x THEN y ELSE f[z]]

Init ==
    /\ env \in Environments
    /\ sessions = {}
    /\ layouter = Nil
    /\ widgets = [a \in Addresses |-> NoWidget]
    /\ handles = [s \in Sessions |-> [a \in Addresses |-> Nil]]
    /\ owners = [p \in Pages |-> Nil]
    /\ failed = {} /\ stale = Nil

-----------------------------------------------------------------------------
(***************************************************************************)
(* The document.  Elements are numbered in document order, as nothing is   *)
(* ever inserted before an element; 0 is the body.                         *)
(***************************************************************************)
RECURSIVE Path(_, _)
Path(dom, e) == IF e = Body THEN <<Body>> ELSE <<e>> \o Path(dom, dom[e].parent)

\* The nearest of an element and its ancestors that has one of the tags.
Nearest(dom, e, tags) ==
    LET found == SelectSeq(Path(dom, e), LAMBDA x : dom[x].tag \in tags)
    IN IF found = <<>> THEN Nil ELSE Head(found)

find_article_ancestor(dom, e) == Nearest(dom, dom[e].parent, {"ARTICLE"})

\* The walkers visit the descendants, in document order, and not the root.
Descendants(dom, e) ==
    SelectSeq([i \in 1..MaxElement |-> i],
              LAMBDA x : x \in DOMAIN dom \ {e} /\ Contains(Path(dom, x), e))

find_window_of_widget(dom, e) ==
    LET top == Nearest(dom, e, {"FIGURE", "ARTICLE"})
    IN IF top = Nil THEN Nil ELSE dom[top].user

is_layout_tag(tag) == tag \in {"ASIDE", "DIV", "FOOTER", "HEADER", "MAIN", "MENU", "NAV"}

get_widget_type_from_element(dom, e) ==
    LET tag == dom[e].tag
    IN CASE tag = "FIGURE" -> "plainwindow"
         [] tag = "ARTICLE" -> "tabbedwindow"
         [] is_layout_tag(tag) -> "container"
         [] tag = "OL" -> "panedpage"
         [] tag = "UL" -> "tabhost"
         [] tag = "LI" /\ dom[dom[e].parent].tag = "OL" -> "panedpage"
         [] tag = "LI" /\ dom[dom[e].parent].tag = "UL" -> "tabbedpage"
         [] OTHER -> Nil

\* The element sorted_array_find gives for an identifier.
dom_get_element_by_id(l, id) == IF id \in DOMAIN l.ids THEN l.ids[id] ELSE Nil

\* Elements without a layout yet have no bounding box.
Element(tag, parent, id) ==
    [tag |-> tag, parent |-> parent, id |-> id, user |-> Nil, laid |-> FALSE]

\* The identifier map takes the new identifiers; it refuses those it has.
dom_append_subtree_to_element(l, e, fragment) ==
    LET first == Max(DOMAIN l.dom) + 1
        number(i) == IF i = 0 THEN e ELSE first + i - 1
        new == [x \in first..first + Len(fragment) - 1 |->
                  LET f == fragment[x - first + 1] IN Element(f.tag, number(f.parent), f.id)]
        dom == [x \in DOMAIN l.dom \cup DOMAIN new |->
                  IF x \in DOMAIN new THEN new[x] ELSE l.dom[x]]
        added == {new[x].id : x \in DOMAIN new} \ ({Nil} \cup DOMAIN l.ids)
    IN [l EXCEPT !.dom = dom,
          !.ids = [id \in DOMAIN @ \cup added |->
                     IF id \in added THEN Min({x \in DOMAIN new : new[x].id = id}) ELSE @[id]]]

\* Mutant: only the element's own identifier is taken out.
EraseOwnId(l, e) ==
    LET gone == {e} \cup ToSet(Descendants(l.dom, e))
    IN [l EXCEPT !.dom = [x \in DOMAIN @ \ gone |-> @[x]], !.ids = Without(@, l.dom[e].id)]

\* Identifiers are taken out of the map by their text.  The identifier of the
\* erased element itself is read after the element went back to the document's
\* memory pool, which has not given it out again by then.
dom_erase_element(l, e) ==
    LET gone == {e} \cup ToSet(Descendants(l.dom, e))
    IN [l EXCEPT !.dom = [x \in DOMAIN @ \ gone |-> @[x]],
          !.ids = [id \in DOMAIN @ \ {l.dom[x].id : x \in gone} |-> @[id]]]

\* The whole document is laid out, whatever the subtree; gtk_imp_update_widget,
\* called for the widgets in it, does nothing.
relayout(l) == [l EXCEPT !.dom = [x \in DOMAIN @ |-> [@[x] EXCEPT !.laid = TRUE]]]

-----------------------------------------------------------------------------
(***************************************************************************)
(* Widgets.  An operation works on the layouter, the widgets, the handles  *)
(* and the two flags together: w is a record of them.                      *)
(***************************************************************************)
World == [l |-> layouter, widgets |-> widgets, handles |-> handles,
          failed |-> failed, stale |-> stale]

Becomes(w) ==
    /\ layouter' = w.l /\ widgets' = w.widgets /\ handles' = w.handles
    /\ failed' = w.failed /\ stale' = w.stale

Asserted(w, holds, name) == IF holds THEN w ELSE [w EXCEPT !.failed = @ \cup {name}]

\* WebKit closes these pages later.
try_close(w, s, pages) ==
    [w EXCEPT !.widgets = [a \in Addresses |->
        IF a \in pages /\ @[a].closing = Nil THEN [@[a] EXCEPT !.closing = s] ELSE @[a]]]

PagesIn(w, window) == {a \in Addresses : w.widgets[a].window = window
                                           /\ w.widgets[a].kind \in {"pane", "tab"}}

\* Mutant: any session may close the window.
DestroyAnyPlainwin(w, s, a) == try_close(w, s, {a})

destroy_plainwin(w, s, a) ==
    IF w.handles[s][a] = "HT_PLAINWIN" THEN try_close(w, s, {a}) ELSE w

\* A layout container holds no page directly, and a notebook never gets a tab:
\* only the clearing of the whole window closes anything.
browser_tabbed_window_clear_container(w, s, window, a) ==
    IF a = window THEN try_close(w, s, PagesIn(w, window)) ELSE w

browser_tabbed_window_clear_pane_or_tab(w, s, a) ==
    IF w.widgets[a].kind \in {"pane", "tab"} THEN try_close(w, s, {a}) ELSE w

WindowAsserted(w, s, window, known) ==
    Asserted(w, ~known \/ w.handles[s][window] = "HT_TABBEDWIN", "tabbedwin")

destroy_container_in_tabbedwin(w, s, window, a) ==
    LET known == w.handles[s][window] # Nil /\ w.handles[s][a] # Nil
        checked == Asserted(WindowAsserted(w, s, window, known),
                      ~known \/ a = window \/ w.handles[s][a] = "HT_CONTAINER", "container")
    IN IF known THEN browser_tabbed_window_clear_container(checked, s, window, a) ELSE checked

\* A pane host comes here too, and nothing is done for it.
destroy_pane_or_tab_in_tabbedwin(w, s, window, a) ==
    LET known == w.handles[s][window] # Nil /\ w.handles[s][a] # Nil
        checked == Asserted(WindowAsserted(w, s, window, known),
                      ~known \/ w.handles[s][a] = "HT_CONTAINER", "pane_or_tab")
    IN IF known THEN browser_tabbed_window_clear_pane_or_tab(checked, s, a) ELSE checked

gtk_imp_destroy_widget(w, s, window, a, type) ==
    CASE type = "plainwindow" -> destroy_plainwin(w, s, a)
      [] type \in {"tabbedwindow", "container", "tabhost"} ->
            destroy_container_in_tabbedwin(w, s, window, a)
      [] type \in {"panedpage", "tabbedpage"} ->
            destroy_pane_or_tab_in_tabbedwin(w, s, window, a)
      [] OTHER -> w

destroy_widget_for_element(w, s, e) ==
    LET a == w.l.dom[e].user
        window == find_window_of_widget(w.l.dom, e)
    IN IF a = Nil \/ window = Nil THEN w
       ELSE gtk_imp_destroy_widget([w EXCEPT !.l.sa = Without(@, a)], s, window, a,
                                   get_widget_type_from_element(w.l.dom, e))

destroy_widget_walker(w, s, e) ==
    IF w.l.dom[e].user = Nil THEN w
    ELSE [destroy_widget_for_element(w, s, e) EXCEPT !.l.dom[e].user = Nil]

DestroyBelow(w, s, e) ==
    FoldLeft(LAMBDA v, x : destroy_widget_walker(v, s, x), w, Descendants(w.l.dom, e))

\* A new widget gets the lowest or the highest free address: one that another
\* widget had before, or another one.
Free(w) == {a \in Addresses : w.widgets[a].kind = Nil}
Allocated(w, place) == IF place = "low" THEN Min(Free(w)) ELSE Max(Free(w))
Alive(w, a, kinds) == a # Nil /\ w.widgets[a].kind \in kinds

New(w, s, a, kind, window) ==
    [w EXCEPT !.widgets[a] = [NoWidget EXCEPT !.kind = kind, !.session = s, !.window = window]]

\* NULL and the window stand for the window's main area, any other parent must
\* be a GtkFixed.
browser_tabbed_window_create_container(w, s, a, kind, window, parent) ==
    CASE ~Alive(w, window, {"tabbedwin"}) \/ (parent # Nil /\ w.widgets[parent].kind = Nil) ->
            [w EXCEPT !.stale = "widget"]
      [] /\ parent \notin {Nil, window}
         /\ w.widgets[parent].kind \notin {"container", "panehost"} -> w
      [] OTHER -> New(w, s, a, kind, window)

browser_tabbed_window_append_view_pane(w, s, a, window, parent) ==
    IF ~Alive(w, window, {"tabbedwin"}) \/ ~Alive(w, parent, {"panehost"})
    THEN [w EXCEPT !.stale = "widget"]
    ELSE New(w, s, a, "pane", window)

\* The test for a notebook is the wrong way round: every notebook is refused.
browser_tabbed_window_append_view_tab(w, window, parent) ==
    IF ~Alive(w, window, {"tabbedwin"}) \/ ~Alive(w, parent, {"tabhost"})
    THEN [w EXCEPT !.stale = "widget"]
    ELSE w

create_plainwin(w, s, a) == New(w, s, a, "plainwin", a)

create_tabbedwin(w, s, a) ==
    [New(w, s, a, "tabbedwin", a) EXCEPT !.handles[s][a] = "HT_TABBEDWIN"]

\* create_layout_container, create_pane_container and create_tab_container.
create_container(w, s, a, kind, window, parent) ==
    LET made == browser_tabbed_window_create_container(w, s, a, kind, window, parent)
    IN IF made.widgets[a].kind = Nil THEN made
       ELSE [made EXCEPT !.handles[s][a] = "HT_CONTAINER"]

gtk_imp_create_widget(w, s, a, type, window, parent) ==
    CASE type = "plainwindow" -> create_plainwin(w, s, a)
      [] type = "tabbedwindow" -> create_tabbedwin(w, s, a)
      [] type \in {"container", "panehost", "tabhost"} ->
            create_container(w, s, a, type, window, parent)
      [] type = "panedpage" ->
            browser_tabbed_window_append_view_pane(w, s, a, window, parent)
      [] type = "tabbedpage" -> browser_tabbed_window_append_view_tab(w, window, parent)

\* The pair is not stored when sa_widget has an entry for the address already.
create_widget_for_element(w, s, place, e, type, window, parent) ==
    LET a == Allocated(w, place)
        made == gtk_imp_create_widget(w, s, a, type, window, parent)
    IN IF ~w.l.dom[e].laid THEN w
       ELSE IF made.widgets[a].kind = Nil THEN made
       ELSE [made EXCEPT !.l.dom[e].user = a,
                         !.l.sa = IF a \in DOMAIN @ THEN @ ELSE Given(@, a, e)]

create_widget_walker(w, s, e, window) ==
    LET tag == w.l.dom[e].tag
        type == CASE is_layout_tag(tag) -> "container" [] tag = "OL" -> "panehost"
                  [] tag = "UL" -> "tabhost" [] OTHER -> Nil
    IN IF w.l.dom[e].user # Nil \/ type = Nil \/ w.stale # Nil THEN w
       ELSE create_widget_for_element(w, s, "low", e, type, window,
                                      w.l.dom[w.l.dom[e].parent].user)

create_tabbed_window(w, s, article) ==
    LET opened ==
          IF w.l.dom[article].user # Nil THEN w
          ELSE create_widget_for_element(w, s, "low", article, "tabbedwindow", Nil, Nil)
        window == opened.l.dom[article].user
    IN IF window = Nil THEN opened
       ELSE FoldLeft(LAMBDA v, x : create_widget_walker(v, s, x, window), opened,
                     Descendants(w.l.dom, article))

-----------------------------------------------------------------------------
(***************************************************************************)
(* The operations of the layouter.                                         *)
(***************************************************************************)
HasSection(fragment) ==
    \E i \in DOMAIN fragment : fragment[i].parent = 0 /\ fragment[i].tag = "SECTION"

\* The body keeps the place of an element without an identifier.
ws_layouter_new(contents) ==
    relayout(dom_append_subtree_to_element(
        [dom |-> [x \in {Body} |-> Element("BODY", Body, Nil)],
         ids |-> [x \in {} |-> Nil], sa |-> [x \in {} |-> Nil]], Body, contents))

\* The widgets of the document are destroyed as far as the session knows them.
ws_layouter_delete(w, s) == [DestroyBelow(w, s, Body) EXCEPT !.l = Nil]

\* Without a new layout: the elements of the new group have no boxes yet.
ws_layouter_add_widget_groups(w, fragment) ==
    IF fragment[1].tag = "SECTION"
    THEN [w EXCEPT !.l = dom_append_subtree_to_element(@, Body, fragment)]
    ELSE w

ws_layouter_remove_widget_group(w, s, group) ==
    LET e == dom_get_element_by_id(w.l, group)
        below == DestroyBelow(w, s, e)
        all == destroy_widget_for_element(below, s, e)
        erased == dom_erase_element(all.l, e)
        destroyed == \E x \in {e} \cup ToSet(Descendants(w.l.dom, e)) : w.l.dom[x].user # Nil
    IN IF e = Nil THEN w ELSE [all EXCEPT !.l = IF destroyed THEN relayout(erased) ELSE erased]

find_page_element(l, group, name) == dom_get_element_by_id(l, PageId(group, name))

ws_layouter_add_plain_window(w, s, place, group, name) ==
    LET e == dom_get_element_by_id(w.l, group)
        l == dom_append_subtree_to_element(w.l, e,
               <<[tag |-> "FIGURE", parent |-> 0, id |-> PageId(group, name)]>>)
        figure == find_page_element(l, group, name)
    IN IF e = Nil \/ Nearest(w.l.dom, e, {"SECTION"}) = Nil THEN w
       ELSE create_widget_for_element(
              Asserted([w EXCEPT !.l = relayout(l)], l.dom[figure].tag = "FIGURE", "figure"),
              s, place, figure, "plainwindow", Nil, Nil)

ws_layouter_add_widget(w, s, place, group, name) ==
    LET e == dom_get_element_by_id(w.l, group)
        tag == w.l.dom[e].tag
        article == find_article_ancestor(w.l.dom, e)
        l == dom_append_subtree_to_element(w.l, e,
               <<[tag |-> "LI", parent |-> 0, id |-> PageId(group, name)]>>)
        opened == create_tabbed_window([w EXCEPT !.l = l], s, article)
        window == opened.l.dom[article].user
        container == opened.l.dom[e].user
        li == find_page_element(opened.l, group, name)
    IN IF e = Nil \/ tag \notin {"OL", "UL"} \/ article = Nil THEN w
       ELSE IF opened.stale # Nil \/ window = Nil \/ container = Nil THEN opened
       ELSE create_widget_for_element([opened EXCEPT !.l = relayout(@)], s, place,
              li, IF tag = "OL" THEN "panedpage" ELSE "tabbedpage", window, container)

\* The page's element is forgotten whether or not the session could close it.
ws_layouter_remove_widget_by_handle(w, s, a) ==
    LET e == w.l.sa[a]
        destroyed == destroy_widget_for_element(w, s, e)
    IN IF a \notin DOMAIN w.l.sa \/ w.l.dom[e].tag # "LI" THEN w
       ELSE [destroyed EXCEPT !.l = relayout(dom_erase_element(@, e))]

\* sa_widget can lead to an element that was erased with its group.
Erased(a) == a \in DOMAIN layouter.sa /\ layouter.sa[a] \notin DOMAIN layouter.dom

ws_layouter_retrieve_widget(l, a) ==
    IF a \in DOMAIN l.sa THEN get_widget_type_from_element(l.dom, l.sa[a]) ELSE Nil

-----------------------------------------------------------------------------
(***************************************************************************)
(* The requests of a session s.  What they answer is not here.             *)
(***************************************************************************)
Stale(what) ==
    /\ stale' = what
    /\ UNCHANGED <<env, sessions, layouter, widgets, handles, owners, failed>>

SetPageGroups(s) ==
    /\ layouter = Nil /\ HasSection(Template)
    /\ layouter' = ws_layouter_new(Template)
    /\ UNCHANGED <<env, sessions, widgets, handles, owners, failed, stale>>

Room(n) == Max(DOMAIN layouter.dom) + n <= MaxElement

AddPageGroups(s) ==
    /\ layouter # Nil /\ Room(Len(Addition))
    /\ Addition[1].id \notin DOMAIN layouter.ids
    /\ Becomes(ws_layouter_add_widget_groups(World, Addition))
    /\ UNCHANGED <<env, sessions, owners>>

\* A page stays in every tabbed window that a request closes pages in, or its
\* element goes too.
WindowsStay ==
    \/ "again" \in env
    \/ \A e \in DOMAIN layouter'.dom :
         layouter'.dom[e].tag = "ARTICLE" /\ layouter'.dom[e].user # Nil
            => \E a \in PagesIn(World, layouter'.dom[e].user) : widgets'[a].closing = Nil

RemovePageGroup(s, group) ==
    /\ layouter # Nil /\ dom_get_element_by_id(layouter, group) # Nil
    /\ Becomes(ws_layouter_remove_widget_group(World, s, group))
    /\ WindowsStay
    /\ "groups" \in env \/ ~\E e \in DOMAIN layouter.dom \ DOMAIN layouter'.dom :
                              layouter.dom[e].tag = "ARTICLE" /\ layouter.dom[e].user # Nil
    /\ UNCHANGED <<env, sessions, owners>>

\* The owner stack of a page leads to its view.
OwnerGone(p) == owners[p] # Nil /\ widgets[owners[p]].page # p

\* gtk_find_page finds no view, and the client has not used the name before.
MayCreate(kind, group, name) ==
    /\ owners[<<kind, PageId(group, name)>>] = Nil
    /\ "again" \in env \/ dom_get_element_by_id(layouter, PageId(group, name)) = Nil

\* The new page gets an owner stack and, with its view, handles.
Opened(w, s, p, handle) ==
    LET made == {a \in Addresses :
                   Alive(w, a, {"plainwin", "pane"}) /\ w.widgets[a].page = Nil}
    IN /\ Becomes([w EXCEPT
            !.widgets = [a \in Addresses |->
                           IF a \in made THEN [@[a] EXCEPT !.page = p] ELSE @[a]],
            !.handles[s] = [a \in Addresses |-> IF a \in made THEN handle ELSE @[a]]])
       /\ owners' = [owners EXCEPT ![p] = IF made = {} THEN @ ELSE CHOOSE a \in made : TRUE]

\* Addresses for all that a request may make.
Memory ==
    LET containers == {i \in DOMAIN Template : Template[i].tag \notin {"SECTION", "ARTICLE"}}
    IN Cardinality(Free(World)) >= 2 + Cardinality(containers)

CreatePlainwin(s, place, group, name) ==
    /\ layouter # Nil /\ Room(1) /\ Memory
    /\ MayCreate("plainwin", group, name)
    /\ dom_get_element_by_id(layouter, group) # Nil
    /\ \/ layouter.dom[dom_get_element_by_id(layouter, group)].tag \notin {"OL", "UL"}
       \/ "mixes" \in env
    /\ Opened(ws_layouter_add_plain_window(World, s, place, group, name), s,
              <<"plainwin", PageId(group, name)>>, "HT_PLAINWIN")
    /\ UNCHANGED <<env, sessions>>

\* gtk_destroy_plainwin does not ask the layouter.
DestroyPlainwin(s, a) ==
    /\ handles[s][a] = "HT_PLAINWIN" /\ "closes" \in env
    /\ Becomes(gtk_imp_destroy_widget(World, s, a, a, "plainwindow"))
    /\ UNCHANGED <<env, sessions, owners>>

\* The tabbed window of a group has closed since.
WindowGone(group) ==
    LET e == dom_get_element_by_id(layouter, group)
        article == find_article_ancestor(layouter.dom, e)
    IN /\ layouter.dom[e].tag \in {"OL", "UL"} /\ article # Nil
       /\ layouter.dom[article].user # Nil
       /\ widgets[layouter.dom[article].user].kind # "tabbedwin"

CreateWidget(s, place, group, name) ==
    /\ layouter # Nil /\ Room(1) /\ Memory
    /\ dom_get_element_by_id(layouter, group) # Nil
    /\ MayCreate("widget", group, name)
    /\ "again" \in env \/ ~WindowGone(group)
    /\ Opened(ws_layouter_add_widget(World, s, place, group, name), s,
              <<"widget", PageId(group, name)>>, "HT_PANE_TAB")
    /\ UNCHANGED <<env, sessions>>

\* gtk_find_page asks the view that the owner stack leads to for its container.
FindPageGone(s, p) ==
    /\ "again" \in env
    /\ OwnerGone(p)
    /\ Stale("view")

UpdateWidget(s, a) ==
    /\ handles[s][a] = "HT_PANE_TAB" /\ layouter # Nil
    /\ \/ Erased(a) /\ Stale("element")
       \/ /\ ~Erased(a)
          /\ ws_layouter_retrieve_widget(layouter, a) \in {"panedpage", "tabbedpage"}
          /\ layouter' = relayout(layouter)
          /\ UNCHANGED <<env, sessions, widgets, handles, owners, failed, stale>>

DestroyWidget(s, a) ==
    /\ handles[s][a] = "HT_PANE_TAB" /\ layouter # Nil
    /\ \/ Erased(a) /\ Stale("element")
       \/ /\ ~Erased(a)
          /\ ws_layouter_retrieve_widget(layouter, a) \in {"panedpage", "tabbedpage"}
          /\ Becomes(ws_layouter_remove_widget_by_handle(World, s, a))
          /\ WindowsStay
          /\ UNCHANGED <<env, sessions, owners>>

StartSession(s) ==
    /\ s \notin sessions
    /\ sessions = {} \/ "shares" \in env
    /\ sessions' = sessions \cup {s}
    /\ UNCHANGED <<env, layouter, widgets, handles, owners, failed, stale>>

\* gtk_remove_session, when nothing the session made is left: otherwise the
\* callbacks of its widgets would find it freed.  The layouter is the workspace's.
EndSession(s) ==
    /\ s \in sessions
    /\ \A a \in Addresses : widgets[a].session # s
    /\ sessions' = sessions \ {s}
    /\ Becomes(IF layouter = Nil THEN World ELSE ws_layouter_delete(World, s))
    /\ UNCHANGED <<env, owners>>

-----------------------------------------------------------------------------
(***************************************************************************)
(* The user, and WebKit.                                                   *)
(***************************************************************************)
UserCloses(a) ==
    /\ "closes" \in env
    /\ widgets[a].page # Nil /\ widgets[a].closing = Nil
    /\ widgets' = [widgets EXCEPT ![a].closing = "user"]
    /\ UNCHANGED <<env, sessions, layouter, handles, owners, failed, stale>>

\* The widgets that go with a page: the tabbed window and all in it with its last one.
GoesWith(a) ==
    LET window == widgets[a].window
    IN IF widgets[a].kind = "pane" /\ PagesIn(World, window) = {a}
       THEN {b \in Addresses : widgets[b].window = window} \cup {window}
       ELSE {a}

\* Mutant: the handles of the containers in a closed window stay.
GoesAlone(a) == {a}

\* The handles of the view and its container, and those that the destroy
\* signals of the other widgets take away.
HandlesGone(a) == GoesWith(a)

\* on_webview_close, then webViewClose.  Only a plain window takes its owner
\* stack along.
ViewClosed(a) ==
    /\ widgets[a].page # Nil /\ widgets[a].closing # Nil
    /\ widgets' = [b \in Addresses |-> IF b \in GoesWith(a) THEN NoWidget ELSE widgets[b]]
    /\ handles' = [s \in Sessions |->
                     [b \in Addresses |-> IF b \in HandlesGone(a) THEN Nil ELSE handles[s][b]]]
    /\ owners' = [owners EXCEPT ![widgets[a].page] =
                    IF widgets[a].kind = "plainwin" THEN Nil ELSE @]
    /\ UNCHANGED <<env, sessions, layouter, failed, stale>>

Request(s) ==
    \/ SetPageGroups(s) \/ AddPageGroups(s) \/ EndSession(s)
    \/ \E group \in Groups : RemovePageGroup(s, group)
    \/ \E place \in {"low", "high"}, group \in Groups, name \in Names :
          CreatePlainwin(s, place, group, name) \/ CreateWidget(s, place, group, name)
    \/ \E p \in Pages : FindPageGone(s, p)
    \/ \E a \in Addresses : DestroyPlainwin(s, a) \/ UpdateWidget(s, a) \/ DestroyWidget(s, a)

Next ==
    /\ stale = Nil
    /\ \/ \E s \in Sessions : StartSession(s)
       \/ \E s \in sessions : Request(s)
       \/ \E a \in Addresses : UserCloses(a) \/ ViewClosed(a)

Spec == Init /\ [][Next]_vars
-----------------------------------------------------------------------------
(* Properties                                                              *)

\* Whatever was appended, shadowed and erased, an identifier leads to an element
\* of the document that has it: dom_get_element_by_id returns no erased element.
IdsSound ==
    layouter # Nil =>
        \A id \in DOMAIN layouter.ids :
            /\ layouter.ids[id] \in DOMAIN layouter.dom
            /\ layouter.dom[layouter.ids[id]].id = id

KindsOf(handle) ==
    CASE handle = "HT_PLAINWIN" -> {"plainwin"}
      [] handle = "HT_TABBEDWIN" -> {"tabbedwin"}
      [] handle = "HT_CONTAINER" -> {"container", "panehost", "tabhost"}
      [] handle = "HT_PANE_TAB" -> {"pane"}

\* A handle says what the widget at its address is, whatever closed in between
\* and whoever got the address next; an open page has its handle, and an open
\* plain window its owner stack.
HandlesSound ==
    /\ \A s \in Sessions, a \in Addresses :
         handles[s][a] # Nil =>
            /\ widgets[a].session = s
            /\ widgets[a].kind \in KindsOf(handles[s][a])
    /\ \A a \in Addresses :
         widgets[a].page # Nil =>
            /\ handles[widgets[a].session][a] # Nil
            /\ owners[widgets[a].page] = a

\* A page is closed by the user or by the session that opened it, although
\* sessions share groups and tabbed windows and remove each other's.
ClosedByOwner ==
    \A a \in Addresses : widgets[a].closing \in {Nil, "user", widgets[a].session}

\* As long as windows close only through the layouter, sa_widget and the
\* elements say the same, and the element of an open page is the page's.
DocumentCurrent ==
    layouter # Nil /\ env \subseteq {"shares"} =>
        /\ \A a \in DOMAIN layouter.sa :
              /\ layouter.sa[a] \in DOMAIN layouter.dom
              /\ layouter.dom[layouter.sa[a]].user = a
              /\ widgets[a].kind # Nil
              /\ widgets[a].page # Nil => widgets[a].page[2] = layouter.dom[layouter.sa[a]].id
        /\ \A e \in DOMAIN layouter.dom :
              layouter.dom[e].user # Nil =>
                /\ layouter.dom[e].user \in DOMAIN layouter.sa
                /\ layouter.sa[layouter.dom[e].user] = e

\* BrowserTabbedWindow.c: the window that pages and containers are put into is
\* a tabbed window.
WindowIsThere == stale # "widget"
=============================================================================
