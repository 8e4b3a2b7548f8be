------------------------------- MODULE Dialogs -------------------------------
(***************************************************************************)
(* The questions the renderer asks the user (utils/utils.c,                *)
(* schema/HbdrunURISchema.c): may this application show itself, shall this *)
(* waiting application be shown here, shall it be closed.  A question is a *)
(* page in a window, and the function that asks runs a main loop of its    *)
(* own until the page has posted an answer, so that functions that ask are *)
(* nested, and the innermost one returns first.  They keep addresses of    *)
(* endpoints and of the page's view over it.                               *)
(*                                                                         *)
(* The server's sockets are a source of the main loop that does not        *)
(* recurse: while an authentication asks, no client is served, and while   *)
(* another question is open they are.  The registry is in Endpoints; here  *)
(* an address has an endpoint or not, which waits or is listed.  What is   *)
(* read after it was freed, or where nothing is, makes the outcome         *)
(* undefined: the behaviour ends and `misread' says by what.               *)
(***************************************************************************)
EXTENDS Naturals, Sequences, FiniteSetsExt, NoValue

CONSTANTS
    Addresses,      \* addresses of endpoints
    Apps,           \* their applications, one endpoint of each at a time
    Renderers,      \* other renderers in the network
    Timeouts,       \* values of timeoutSeconds
    MaxBirths,      \* bound on the endpoints of a behaviour
    MaxDialogs,     \* bound on the questions open at once
    Manners         \* sets of liberties of user and clients

(***************************************************************************)
(* "meanwhile"  a question is asked while another is open, and the user    *)
(*              answers them in any order;                                 *)
(* "frames"     the user closes a question by the frame of its window;     *)
(* "crowd"      there is more than one client;                             *)
(* "gone"       the endpoint that is to be closed goes by itself;          *)
(* "unstarted"  the user picks an endpoint that asked for nothing yet;     *)
(* "reuse"      the address of an endpoint that went is given to another   *)
(*              while somebody still has it;                               *)
(* "renderers"  there are other renderers in the network;                  *)
(* "pull"       somebody calls xgutils_pull_screen_cast.                   *)
(***************************************************************************)
ASSUME DialogsAssumption ==
    /\ {MaxBirths, MaxDialogs} \cup Timeouts \subseteq Nat
    /\ Max(Timeouts) \in Timeouts
    /\ Manners \subseteq
         SUBSET {"meanwhile", "frames", "crowd", "gone", "unstarted", "reuse", "renderers",
                 "pull"}
    /\ Nil \notin {"open", "freed", "AcceptOnce", "AcceptAlways", "Accept", "Decline",
                   "unsigned", "signed", "picked", "first", "pulled",
                   "endpoint", "view", "timer", "unstarted", "renderer"}
    /\ Nil \notin Apps /\ Nil \notin [e : Addresses, born : 0..MaxBirths, app : Apps]

Places == 1..MaxDialogs
Kinds == {"confirm", "dup", "close"}

VARIABLES
    manners,        \* the liberties taken in this behaviour
    births,         \* endpoints made so far
    ep,             \* what is at each address
    stack,          \* the functions that wait for an answer, innermost last
    dialogs,        \* the pages that ask
    chooser,        \* the hbdrun://dupchoose page
    timer,          \* the endpoint of a pending dup-close timer
    confirm_infos,  \* applications that are always accepted
    dnssd_rdr_list, \* renderers discovered
    runners,        \* the hbdrun://runners page
    consents,       \* what the user said yes to
    misread         \* Nil, or what was read that is not there

dialogsVars == <<manners, births, ep, stack, dialogs, chooser, timer, confirm_infos, dnssd_rdr_list,
                 runners, consents, misread>>

registry == <<births, ep>>
pagesOpen == <<chooser, timer, runners>>

NoEndpoint == [state |-> "free", app |-> Nil, born |-> 0, unix |-> FALSE, started |-> FALSE,
               via |-> Nil]
NoDialog == [kind |-> Nil, view |-> Nil, app |-> Nil, born |-> 0, posts |-> {}, result |-> Nil,
             clicked |-> FALSE, acked |-> FALSE, left |-> 0]

DialogsInit ==
    /\ manners \in Manners
    /\ births = 0 /\ ep = [e \in Addresses |-> NoEndpoint]
    /\ stack = <<>> /\ dialogs = [d \in Places |-> NoDialog]
    /\ chooser = {} /\ timer = Nil
    /\ confirm_infos = {} /\ dnssd_rdr_list = {}
    /\ runners = {} /\ consents = {} /\ misread = Nil

Dangling == {e \in Addresses : ep[e].state = "dangling"}
Listed == {e \in Addresses : ep[e].state = "listed"}
Innermost == stack[Len(stack)]

\* Mutant: the check of the sockets recurses.
Recursing == FALSE

\* purcmc_rdrsrv_check is on the stack.
Blocked == \E i \in DOMAIN stack : stack[i].kind = "confirm"

Quiet == stack = <<>> /\ timer = Nil /\ \A d \in Places : dialogs[d] = NoDialog
MayOpen == "meanwhile" \in manners \/ Quiet

Ref(e) == [e |-> e, born |-> ep[e].born, app |-> ep[e].app]
Gone(ref) == ep[ref.e].born # ref.born
InUse(e) == \/ \E i \in DOMAIN stack : stack[i].e.e = e
            \/ \E ref \in chooser : ref.e = e
            \/ timer # Nil /\ timer.e = e

-----------------------------------------------------------------------------
(* Clients                                                                 *)

\* Over a Unix socket or a web socket.
Connect(e, app, unix) ==
    /\ ~Blocked /\ ep[e].state = "free" /\ births < MaxBirths
    /\ \A f \in Addresses : ep[f].app # app
    /\ births = 0 \/ "crowd" \in manners
    /\ "reuse" \in manners \/ ~InUse(e)
    /\ births' = births + 1
    /\ ep' = [ep EXCEPT ![e] = [NoEndpoint EXCEPT !.state = "dangling", !.app = app,
                                                  !.born = births + 1, !.unix = unix]]
    /\ UNCHANGED <<manners, stack, dialogs, pagesOpen, confirm_infos, dnssd_rdr_list, consents,
                   misread>>

\* The client goes, or one of the checks of the server removes it.
Leave(e) ==
    /\ ~Blocked /\ ep[e].state # "free"
    /\ timer # Nil /\ timer.e = e => "gone" \in manners
    /\ ep' = [ep EXCEPT ![e] = NoEndpoint]
    /\ UNCHANGED <<manners, births, stack, dialogs, pagesOpen, confirm_infos, dnssd_rdr_list,
                   consents, misread>>

Lists(e, via) == ep' = [ep EXCEPT ![e].state = "listed", ![e].started = TRUE, ![e].via = via]

\* on_start_session_duplicate: an endpoint of the Unix socket that finds the list
\* empty is accepted at once, any other waits for the user to pick it.
StartDuplicate(e) ==
    /\ ~Blocked /\ ep[e].state = "dangling"
    /\ IF Listed = {} /\ ep[e].unix THEN Lists(e, "first")
       ELSE ep' = [ep EXCEPT ![e].started = TRUE]
    /\ UNCHANGED <<manners, births, stack, dialogs, pagesOpen, confirm_infos, dnssd_rdr_list,
                   consents, misread>>

\* Mutant: a client may ask for no time at all.
AsGiven(t) == t

\* authenticate_endpoint: no seconds are ten, here the longest timeout.
Seconds(t) == IF t = 0 THEN Max(Timeouts) ELSE t

-----------------------------------------------------------------------------
(***************************************************************************)
(* Asking.  create_plainwin_with_uri opens the page, and the loop begins.  *)
(***************************************************************************)
Ask(kind, ref, left) ==
    /\ \E d \in Places : dialogs[d] = NoDialog
    /\ LET d == Min({n \in Places : dialogs[n] = NoDialog})
       IN /\ dialogs' = [dialogs EXCEPT ![d] =
                           [NoDialog EXCEPT !.kind = kind, !.view = "open", !.app = ref.app,
                                            !.born = ref.born, !.left = left]]
          /\ stack' = Append(stack, [kind |-> kind, d |-> d, e |-> ref])

\* authenticate_endpoint with a signature that is not remembered:
\* xgutils_show_confirm_window.
AskConfirm(e, t) ==
    /\ ~Blocked /\ MayOpen
    /\ ep[e].state = "dangling"
    /\ ep[e].app \notin confirm_infos
    /\ Ask("confirm", Ref(e), Seconds(t))
    /\ UNCHANGED <<manners, registry, pagesOpen, confirm_infos, dnssd_rdr_list, consents, misread>>

\* authenticate_endpoint that need not ask.
Authenticated(e) ==
    /\ ~Blocked /\ ep[e].state = "dangling"
    /\ \/ Lists(e, "unsigned")
       \/ ep[e].app \in confirm_infos /\ Lists(e, "signed")
    /\ UNCHANGED <<manners, births, stack, dialogs, pagesOpen, confirm_infos, dnssd_rdr_list,
                   consents, misread>>

\* show_dup_choose_window; the page shows who waits at that time.
on_hbdrun_dup_choose ==
    /\ chooser' = {Ref(e) : e \in {f \in Dangling : "unstarted" \in manners \/ ep[f].started}}
    /\ UNCHANGED <<manners, registry, stack, dialogs, timer, runners, confirm_infos,
                   dnssd_rdr_list, consents, misread>>

\* show_dup_close_confirm_window is for the endpoint whose session is newest;
\* only the sessions of duplicates have a time (t_created_session).
Timed(e) == ep[e].via \in {"picked", "first", "pulled"}
show_dup_close_confirm_window ==
    /\ Listed # {} /\ timer = Nil /\ MayOpen
    /\ \E e \in Listed :
         /\ Timed(e) \/ \A f \in Listed : ~Timed(f)
         /\ timer' = Ref(e)
    /\ UNCHANGED <<manners, registry, stack, dialogs, chooser, runners, confirm_infos,
                   dnssd_rdr_list, consents, misread>>

xgutils_on_floating_button_click ==
    \/ Listed = {} /\ MayOpen /\ on_hbdrun_dup_choose
    \/ show_dup_close_confirm_window

\* Mutant: the first that waits is accepted, not the one that was asked about.
AcceptFirst(e, via) ==
    IF Dangling = {} THEN UNCHANGED <<ep, misread>>
    ELSE \E f \in Dangling : Lists(f, via) /\ UNCHANGED misread

\* accept_endpoint looks for the address among those that wait.
accept_endpoint(e, via) ==
    IF e \notin Dangling THEN UNCHANGED <<ep, misread>>
    ELSE IF ~ep[e].started THEN misread' = "unstarted" /\ UNCHANGED ep
    ELSE Lists(e, via) /\ UNCHANGED misread

\* xgutils_pull_screen_cast, which the library offers and nothing here calls: the
\* only one that waits is accepted with no question, among more the user picks.
xgutils_pull_screen_cast ==
    /\ "pull" \in manners /\ MayOpen
    /\ \/ Cardinality(Dangling) > 1 /\ on_hbdrun_dup_choose
       \/ /\ \E e \in Addresses :
               Dangling = {e} /\ ep[e].started /\ accept_endpoint(e, "pulled")
          /\ UNCHANGED <<manners, births, stack, dialogs, pagesOpen, confirm_infos,
                         dnssd_rdr_list, consents>>

\* on_hbdrun_action_dup_choose: xgutils_show_dup_confirm_window asks about an
\* endpoint only while it waits.
on_hbdrun_action_dup_choose(ref) ==
    /\ MayOpen /\ ref \in chooser
    /\ chooser' = {}
    /\ IF ref.e \in Dangling THEN Ask("dup", ref, 0) ELSE UNCHANGED <<stack, dialogs>>
    /\ UNCHANGED <<manners, registry, timer, runners, confirm_infos, dnssd_rdr_list, consents,
                   misread>>

\* show_dup_close_confirm_window_callback, 200 ms later.
TimerFires ==
    /\ timer # Nil
    /\ timer' = Nil
    /\ IF Gone(timer) THEN misread' = "timer" /\ UNCHANGED <<stack, dialogs>>
       ELSE Ask("close", timer, 0) /\ UNCHANGED misread
    /\ UNCHANGED <<manners, registry, chooser, runners, confirm_infos, dnssd_rdr_list, consents>>

-----------------------------------------------------------------------------
(***************************************************************************)
(* The pages.  A button posts its result, and the answer to the post       *)
(* closes the page.  The confirm page declines when its time is over.      *)
(***************************************************************************)
Buttons(kind) == IF kind = "confirm" THEN {"AcceptOnce", "AcceptAlways", "Decline"}
                 ELSE {"Accept", "Decline"}

Posts(d, result) == [dialogs EXCEPT ![d].posts = @ \cup {result}]

\* The user clicks, once; he means what the page shows.
UserAnswers(d, result) ==
    /\ dialogs[d].view = "open" /\ ~dialogs[d].clicked
    /\ "meanwhile" \in manners \/ (stack # <<>> /\ Innermost.d = d)
    /\ result \in Buttons(dialogs[d].kind)
    /\ dialogs' = [Posts(d, result) EXCEPT ![d].clicked = TRUE]
    /\ consents' = IF result = "Decline" THEN consents
                   ELSE consents \cup {[app |-> dialogs[d].app, born |-> dialogs[d].born,
                                        always |-> result = "AcceptAlways"]}
    /\ UNCHANGED <<manners, registry, stack, pagesOpen, confirm_infos, dnssd_rdr_list, misread>>

Countdown(d) ==
    /\ dialogs[d].kind = "confirm" /\ dialogs[d].view = "open" /\ dialogs[d].left > 0
    /\ dialogs' = [(IF dialogs[d].left = 1 THEN Posts(d, "Decline") ELSE dialogs)
                     EXCEPT ![d].left = @ - 1]
    /\ UNCHANGED <<manners, registry, stack, pagesOpen, confirm_infos, dnssd_rdr_list, consents,
                   misread>>

\* on_hbdrun_action_confirm and on_hbdrun_action_dup_confirm.
SetResult(d, result) == [dialogs EXCEPT ![d].result = result]

on_hbdrun_action(d, result) ==
    /\ dialogs[d].view = "open" /\ result \in dialogs[d].posts
    /\ stack # <<>>
    /\ dialogs' = [SetResult(d, result) EXCEPT ![d].posts = @ \ {result}, ![d].acked = TRUE]
    /\ UNCHANGED <<manners, registry, stack, pagesOpen, confirm_infos, dnssd_rdr_list, consents,
                   misread>>

Waits(d) == \E i \in DOMAIN stack : stack[i].d = d
Closed(d) == [dialogs EXCEPT ![d] = IF Waits(d) THEN [NoDialog EXCEPT !.view = "freed"]
                                    ELSE NoDialog]

\* window.close() of on_action_result.  The innermost loop has seen the result
\* by then.
PageCloses(d) ==
    /\ dialogs[d].view = "open" /\ dialogs[d].acked
    /\ stack # <<>> /\ Innermost.d = d => dialogs[d].result = Nil
    /\ dialogs' = Closed(d)
    /\ UNCHANGED <<manners, registry, stack, pagesOpen, confirm_infos, dnssd_rdr_list, consents,
                   misread>>

UserClosesFrame(d) ==
    /\ "frames" \in manners /\ dialogs[d].view = "open"
    /\ dialogs' = Closed(d)
    /\ UNCHANGED <<manners, registry, stack, pagesOpen, confirm_infos, dnssd_rdr_list, consents,
                   misread>>

-----------------------------------------------------------------------------
(***************************************************************************)
(* The innermost loop looks at its view after each turn of the main loop.  *)
(***************************************************************************)
\* The loop runs on a view that was freed with its window.
LoopReadsFreed ==
    /\ stack # <<>> /\ dialogs[Innermost.d].view = "freed"
    /\ misread' = "view"
    /\ UNCHANGED <<manners, registry, stack, dialogs, pagesOpen, confirm_infos, dnssd_rdr_list,
                   consents>>

\* The function that asked returns to its caller.
Returns(kind, result) ==
    /\ stack # <<>> /\ Innermost.kind = kind
    /\ dialogs[Innermost.d].view = "open"
    /\ result = dialogs[Innermost.d].result /\ result # Nil
    /\ dialogs' = [dialogs EXCEPT ![Innermost.d].result = Nil]
    /\ stack' = SubSeq(stack, 1, Len(stack) - 1)
    /\ UNCHANGED <<manners, births, pagesOpen, dnssd_rdr_list, consents>>

\* xgutils_set_app_confirm of the application that asked.
xgutils_show_confirm_window(result) ==
    LET ref == Innermost.e
    IN /\ Returns("confirm", result)
       /\ confirm_infos' = IF result = "AcceptAlways" THEN confirm_infos \cup {ref.app}
                           ELSE confirm_infos
       /\ IF Gone(ref) THEN misread' = "endpoint" /\ UNCHANGED ep
          ELSE /\ IF result # "Decline" /\ ref.e \in Dangling THEN Lists(ref.e, "signed")
                  ELSE UNCHANGED ep
               /\ UNCHANGED misread

xgutils_show_dup_confirm_window(result) ==
    /\ Returns("dup", result)
    /\ IF result = "Decline" THEN UNCHANGED <<ep, misread>>
       ELSE accept_endpoint(Innermost.e.e, "picked")
    /\ UNCHANGED confirm_infos

\* remove_endpoint, if the address is in the list.
xgutils_show_dup_close_confirm_window(result) ==
    LET e == Innermost.e.e
    IN /\ Returns("close", result)
       /\ ep' = IF result # "Decline" /\ e \in Listed THEN [ep EXCEPT ![e] = NoEndpoint] ELSE ep
       /\ UNCHANGED <<confirm_infos, misread>>

-----------------------------------------------------------------------------
(* Other renderers                                                         *)

\* xguipro_dnssd_on_service_discovered: one that was found stays in the list.
xguipro_dnssd_on_service_discovered(rdr) ==
    /\ "renderers" \in manners /\ ~Blocked
    /\ dnssd_rdr_list' = dnssd_rdr_list \cup {rdr}
    /\ UNCHANGED <<manners, registry, stack, dialogs, pagesOpen, confirm_infos, consents, misread>>

\* The page offers the renderers that are known when it is made.
on_hbdrun_runners ==
    /\ "renderers" \in manners
    /\ runners' = dnssd_rdr_list
    /\ UNCHANGED <<manners, registry, stack, dialogs, chooser, timer, confirm_infos, dnssd_rdr_list,
                   consents, misread>>

\* switch_new_renderer posts an event to the endpoints that are still listed by
\* their names; the entry of the renderer is used as it is found.
on_hbdrun_action_switch_rdr(rdr) ==
    /\ rdr \in runners
    /\ runners' = {}
    /\ misread' = IF rdr \in dnssd_rdr_list THEN misread ELSE "renderer"
    /\ UNCHANGED <<manners, registry, stack, dialogs, chooser, timer, confirm_infos, dnssd_rdr_list,
                   consents>>

-----------------------------------------------------------------------------
ClientStep(e) ==
    \/ \E app \in Apps, unix \in BOOLEAN : Connect(e, app, unix)
    \/ Leave(e) \/ StartDuplicate(e) \/ Authenticated(e)
    \/ \E t \in Timeouts : AskConfirm(e, t)

LoopStep ==
    \/ LoopReadsFreed
    \/ \E result \in Buttons("confirm") \cup Buttons("dup") :
         \/ xgutils_show_confirm_window(result) \/ xgutils_show_dup_confirm_window(result)
         \/ xgutils_show_dup_close_confirm_window(result)

PageStep(d) ==
    \/ Countdown(d) \/ PageCloses(d)
    \/ \E result \in Buttons(dialogs[d].kind) : on_hbdrun_action(d, result)

DialogsNext ==
    /\ misread = Nil
    /\ \/ \E e \in Addresses : ClientStep(e)
       \/ xgutils_on_floating_button_click \/ xgutils_pull_screen_cast
       \/ \E ref \in chooser : on_hbdrun_action_dup_choose(ref)
       \/ TimerFires \/ LoopStep
       \/ \E d \in Places :
            \/ PageStep(d) \/ UserClosesFrame(d)
            \/ \E result \in Buttons(dialogs[d].kind) : UserAnswers(d, result)
       \/ on_hbdrun_runners
       \/ \E rdr \in Renderers :
            \/ xguipro_dnssd_on_service_discovered(rdr) \/ on_hbdrun_action_switch_rdr(rdr)

\* The main loop turns, and WebKit runs the pages.
DialogsFairness ==
    /\ WF_dialogsVars(misread = Nil /\ LoopStep)
    /\ \A d \in Places : WF_dialogsVars(misread = Nil /\ PageStep(d))

DialogsSpec == DialogsInit /\ [][DialogsNext]_dialogsVars /\ DialogsFairness
-----------------------------------------------------------------------------
(* Properties                                                              *)

\* Over the nested loops an endpoint that authenticates stays, since nobody is
\* served; a page outlives its loop unless the user closes its window or
\* answers an outer question first; an endpoint that waits is looked for again
\* before it is accepted; and a renderer a page offers is still in the list.
NothingFreedIsRead ==
    /\ misread = "endpoint" => "meanwhile" \in manners
    /\ misread = "view" => manners \cap {"frames", "meanwhile"} # {}
    /\ misread = "timer" => manners \cap {"gone", "meanwhile"} # {}
    /\ misread = "unstarted" => manners \cap {"unstarted", "reuse"} # {}
    /\ misread # "renderer"

\* Who authenticates with a signature is shown only if the user said yes to the
\* application his page named, now or once for always; who waited and was picked,
\* only if he said yes to this very endpoint.  Of those that nobody was asked
\* about, at most one at a time was accepted because the list was empty, and it
\* came over the Unix socket; the others gave no signature or were pulled.
OnlyConsented ==
    /\ \A e, f \in Listed : ep[e].via = "first" /\ ep[f].via = "first" => e = f
    /\ \A e \in Listed :
         /\ ep[e].via = "first" => ep[e].unix
         /\ ep[e].via = "pulled" => "pull" \in manners
    /\ "reuse" \notin manners =>
        /\ \A app \in confirm_infos : \E c \in consents : c.app = app /\ c.always
        /\ \A e \in Listed :
             /\ ep[e].via = "signed" =>
                  \E c \in consents : c.app = ep[e].app /\ (c.always \/ c.born = ep[e].born)
             /\ ep[e].via = "picked" => \E c \in consents : c.born = ep[e].born

\* A question about an application holds up all clients only until its time is
\* over, even if the user never answers.
ServesAgain == manners \subseteq {"crowd"} => []<>(~Blocked)
=============================================================================
