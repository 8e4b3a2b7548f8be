----------------------------- MODULE MCWindows ------------------------------
(***************************************************************************)
(* What the renderers show, in two instances side by side: a behaviour is  *)
(* one of the windows of the MiniGUI renderer (MiniguiRenderer) or of the  *)
(* workspace of the GTK renderer and its layouter (Workspace).  The other  *)
(* part stays as it is.                                                    *)
(***************************************************************************)
EXTENDS MiniguiRenderer

VARIABLES
    part, sessions, layouter, widgets, handles, ws_owners, failed, stale    \* Workspace

windowVars ==
    <<conn, mem, sess_list, starts, owners, pages, window, hosts, flights, strays, wrong>>
workspaceVars == <<sessions, layouter, widgets, handles, ws_owners, failed, stale>>
mcVars == <<part, env, windowVars, workspaceVars>>

\* A document with a section of plain windows and, in an article of another, a
\* list of panes; a group added later brings a list of tabs.
Item(tag, parent, id) == [tag |-> tag, parent |-> parent, id |-> id]

\* <section id="g"><article><div><ol id="o"></div></article></section>
Contents == <<Item("SECTION", 0, <<"g">>), Item("ARTICLE", 1, Nil), Item("DIV", 2, Nil), Item("OL", 3, <<"o">>)>>

\* <section id="h"><article><ul id="u"></article></section>
Group == <<Item("SECTION", 0, <<"h">>), Item("ARTICLE", 1, Nil), Item("UL", 2, <<"u">>)>>

\* The names of the endpoints serve as sessions, and their addresses as names
\* of pages.
WS == INSTANCE Workspace WITH
    owners <- ws_owners,
    Sessions <- Names, Names <- Addresses,
    Addresses <- 1..7, MaxElement <- 7, Template <- Contents, Addition <- Group,
    Groups <- {<<"g">>, <<"o">>, <<"u">>},
    Environments <- {{"shares"}, {"closes"}, {"again"}, {"groups"}, {"mixes"}}

\* A third session matters if the first ones end.
Manners == {{}, {"endings"}, {"siblings"}, {"again"}, {"frames"}}
Starts == [e \in Manners |-> IF "endings" \in e THEN 3 ELSE 2]

ASSUME WS!WorkspaceAssumption

Permuted == Permutations(Names) \cup Permutations(Addresses) \cup Permutations(PageNames)

-----------------------------------------------------------------------------
WindowsIdle ==
    /\ conn = [n \in Names |-> Nil] /\ mem = [a \in Addresses |-> FreeSession]
    /\ sess_list = <<>> /\ starts = 0
    /\ owners = [name \in PageNames |-> 0] /\ pages = [p \in Numbers |-> NoPage]
    /\ window = NoWindow /\ hosts = [h \in Hosts |-> NoHost]
    /\ flights = {} /\ strays = {} /\ wrong = Nil
WorkspaceIdle ==
    /\ sessions = {} /\ layouter = Nil /\ widgets = Nil /\ handles = Nil /\ ws_owners = Nil
    /\ failed = {} /\ stale = Nil

MCInit ==
    \/ part = "minigui" /\ Init /\ WorkspaceIdle
    \/ part = "workspace" /\ WS!Init /\ WindowsIdle

MCNext ==
    \/ part = "minigui" /\ Next /\ UNCHANGED <<part, workspaceVars>>
    \/ part = "workspace" /\ WS!Next /\ UNCHANGED <<part, windowVars>>

MCSpec == MCInit /\ [][MCNext]_mcVars

-----------------------------------------------------------------------------
\* Workspace: the four tables agree.  An identifier leads to an element of the
\* document that has it, sa_widget and the elements say the same, a handle of a
\* session says what the widget at its address is, and an open page has its
\* handle and owner (layouter.c, dom-ops.c, all_handles of PurcmcCallbacks.c).
TablesSound == part = "workspace" => WS!IdsSound /\ WS!DocumentCurrent /\ WS!HandlesSound

\* Workspace: a page is closed by the user or by the session that opened it.
ClosedByOwner == part = "workspace" => WS!ClosedByOwner
=============================================================================
