------------------------------ MODULE MCServer ------------------------------
(***************************************************************************)
(* What a client of the server meets, in instances side by side: a         *)
(* behaviour is one of the pages and the requests about them (Pages), of   *)
(* the questions to the user (Dialogs), of the loop that serves the        *)
(* sockets (ServerLoop), of one TLS connection (WebSocketTls), or of one   *)
(* handshake (HttpHead).  The other parts stay as they are.                *)
(***************************************************************************)
EXTENDS Pages, Dialogs, ServerLoop, WebClients

VARIABLE part

mcVars == <<part, vars, dialogsVars, loopVars, tlsVars, headVars>>

-----------------------------------------------------------------------------
\* Pages: two coroutines, both renderers, two pages of an orderly client and one
\* of the others.
Gtk == {"find_page", "get_special_plainwin", "create_plainwin", "update_plainwin",
        "destroy_plainwin", "set_page_groups", "add_page_groups", "remove_page_group",
        "get_special_widget", "create_widget", "update_widget", "destroy_widget", "load",
        "load_from_url", "write", "register_crtn", "revoke_crtn", "update_dom",
        "call_method_in_dom", "get_property_in_dom", "set_property_in_dom"}
MiniGUI == Gtk \cup {"call_method_in_session"}

MCCallbacks == {Gtk, MiniGUI}
MCEnvironments == {{"careless"}, {"pipelines", "closes"}, {"careless", "blank"}, {"urls"}, {}}
MCPageBound == [e \in MCEnvironments |-> IF e = {} THEN 2 ELSE 1]

\* Dialogs: two clients, another renderer, two questions at a time.
MCManners ==
    {{"crowd"}, {"meanwhile"}, {"frames"}, {"gone"}, {"crowd", "unstarted"}, {"crowd", "reuse"},
     {"crowd", "pull"}, {"renderers"}}

\* Addresses and applications are only compared: which of them comes first is
\* settled, instead of a symmetry, which liveness does not admit.
FirstClient ==
    births = 0 /\ births' = 1 =>
        ep'[CHOOSE e \in Addresses : TRUE].app = CHOOSE app \in Apps : TRUE

\* ServerLoop: three clients, one more than is served of a kind and one more than
\* fit into a batch of events.
MCLoopLiberties ==
    {{}, {"breaks"}, {"both"}, {"confirms"}, {"full"}, {"blocking"}, {"nomem"},
     {"accesslog"}}

\* WebSocketTls: a queue of three bytes, callbacks that call each other.
MCTlsLiberties == SUBSET {"renegotiates", "breaks"}

\* HttpHead: the whole request, and those with a line less, more, or another.
Request8 == <<"get", "host", "upgrade", "connection", "key", "version", "origin", "empty">>
Heads ==
    {Request8} \cup {RemoveAt(Request8, i) : i \in 1..8}
    \cup {InsertAt(Request8, i, k) : i \in 1..9, k \in LineKinds}
    \cup {ReplaceAt(Request8, i, k) : i \in 1..8, k \in LineKinds}
-----------------------------------------------------------------------------
\* A part that is idle stays in one of its initial states.
PagesIdle ==
    /\ env = {} /\ cbs = {} /\ layouter = FALSE
    /\ pages = [p \in Numbers |-> NoPage] /\ web = [p \in Numbers |-> NoWeb]
    /\ pending = [r \in Ids |-> Nil] /\ told = [p \in Numbers |-> {}]
    /\ visible = [p \in Numbers |-> 0] /\ crash = Nil
DialogsIdle == DialogsInit /\ manners = {"crowd"}
LoopIdle == LoopInit /\ lib = {} /\ mode = "epoll"
TlsIdle == TlsInit /\ liberties = {}
HeadIdle == HeadInit /\ text = Request8 /\ config = FALSE

MCInit ==
    \/ part = "pages" /\ Init /\ DialogsIdle /\ LoopIdle /\ TlsIdle /\ HeadIdle
    \/ part = "dialogs" /\ DialogsInit /\ PagesIdle /\ LoopIdle /\ TlsIdle /\ HeadIdle
    \/ part = "loop" /\ LoopInit /\ PagesIdle /\ DialogsIdle /\ TlsIdle /\ HeadIdle
    \/ part = "tls" /\ TlsInit /\ PagesIdle /\ DialogsIdle /\ LoopIdle /\ HeadIdle
    \/ part = "head" /\ HeadInit /\ PagesIdle /\ DialogsIdle /\ LoopIdle /\ TlsIdle

DialogsDo(A) == part = "dialogs" /\ A /\ UNCHANGED <<part, vars, loopVars, tlsVars, headVars>>

MCNext ==
    \/ part = "pages" /\ Next /\ UNCHANGED <<part, dialogsVars, loopVars, tlsVars, headVars>>
    \/ DialogsDo(DialogsNext /\ FirstClient)
    \/ part = "loop" /\ LoopNext /\ UNCHANGED <<part, vars, dialogsVars, tlsVars, headVars>>
    \/ part = "tls" /\ TlsNext /\ UNCHANGED <<part, vars, dialogsVars, loopVars, headVars>>
    \/ part = "head" /\ HeadNext /\ UNCHANGED <<part, vars, dialogsVars, loopVars, tlsVars>>

\* The fairness of Dialogs.
MCFairness ==
    /\ WF_mcVars(DialogsDo(misread = Nil /\ LoopStep))
    /\ \A d \in Places : WF_mcVars(DialogsDo(misread = Nil /\ PageStep(d)))

MCSpec == MCInit /\ [][MCNext]_mcVars /\ MCFairness
=============================================================================
