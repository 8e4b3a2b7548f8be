---------------------------- MODULE ServerProofs ----------------------------
(***************************************************************************)
(* Proofs about parts of the server: the questions it asks the user        *)
(* (Dialogs), the loop that serves its clients (ServerLoop), and the       *)
(* client of a web socket before and around its frames (WebClients).       *)
(***************************************************************************)
EXTENDS Dialogs, ServerLoop, WebClients, TLAPS, FiniteSetTheorems, SequenceTheorems,
        WellFoundedInduction

-----------------------------------------------------------------------------
(***************************************************************************)
(* Dialogs: types                                                          *)
(***************************************************************************)
Births == 0..MaxBirths
Answers == {"AcceptOnce", "AcceptAlways", "Accept", "Decline"}
DialogsWrongs == {"endpoint", "view", "timer", "unstarted", "renderer"}

Refs == [e : Addresses, born : Births, app : Apps]
EpRec ==
    [state : {"free", "dangling", "listed"}, app : Apps \cup {Nil}, born : Births,
     unix : BOOLEAN, started : BOOLEAN,
     via : {Nil, "unsigned", "signed", "picked", "first", "pulled"}]
DialogRec ==
    [kind : Kinds \cup {Nil}, view : {Nil, "open", "freed"}, app : Apps \cup {Nil}, born : Births,
     posts : SUBSET Answers, result : Answers \cup {Nil}, clicked : BOOLEAN, acked : BOOLEAN,
     left : Nat]
Entries == [kind : Kinds, d : Places, e : Refs]
Consents == [app : Apps \cup {Nil}, born : Births, always : BOOLEAN]

TypeOK ==
    /\ manners \in Manners
    /\ births \in Births
    /\ ep \in [Addresses -> EpRec]
    /\ stack \in Seq(Entries)
    /\ dialogs \in [Places -> DialogRec]
    /\ chooser \subseteq Refs /\ timer \in Refs \cup {Nil}
    /\ confirm_infos \subseteq Apps
    /\ consents \subseteq Consents
    /\ misread \in DialogsWrongs \cup {Nil}

(***************************************************************************)
(* The inductive invariant                                                 *)
(***************************************************************************)
\* An address has an endpoint with an application, or none.
EndpointsMade == \A e \in Addresses : ep[e].state # "free" => ep[e].app # Nil

\* A page stands for the question of the function that waits for it, or its
\* window was closed.
PagesAsk ==
    \A i \in 1..Len(stack) :
        LET w == dialogs[stack[i].d]
        IN \/ w.view = "freed"
           \/ /\ w.view = "open" /\ w.kind = stack[i].kind
              /\ w.app = stack[i].e.app /\ w.born = stack[i].e.born

\* A page has an answer only if the user gave it: he said yes to the application
\* that the page names.
AnswersMeant ==
    \A d \in Places : \A result \in dialogs[d].posts \cup ({dialogs[d].result} \ {Nil}) :
        result # "Decline" =>
            \E c \in consents : /\ c.app = dialogs[d].app /\ c.born = dialogs[d].born
                                /\ result = "AcceptAlways" => c.always

\* A reference that was kept: the endpoint is still there, or nothing is.
Fresh(ref) == ep[ref.e].state = "free" \/ (ep[ref.e].born = ref.born /\ ep[ref.e].app = ref.app)
Begun(ref) == ep[ref.e].state = "free" \/ ep[ref.e].started
RefsFresh ==
    "reuse" \notin manners =>
        /\ \A i \in 1..Len(stack) : Fresh(stack[i].e)
        /\ \A ref \in chooser : Fresh(ref)
        /\ timer # Nil => Fresh(timer)
ChosenBegun ==
    manners \cap {"reuse", "unstarted"} = {} =>
            /\ \A i \in 1..Len(stack) : stack[i].kind = "dup" => Begun(stack[i].e)
            /\ \A ref \in chooser : Begun(ref)

\* One question at a time.
OneQuestion ==
    "meanwhile" \notin manners =>
        /\ Len(stack) <= 1
        /\ timer # Nil => stack = <<>>
        /\ timer # Nil /\ "gone" \notin manners => ~Gone(timer) /\ ep[timer.e].state # "free"
        /\ \A i \in 1..Len(stack) :
              LET w == dialogs[stack[i].d]
              IN /\ stack[i].kind = "confirm" => ~Gone(stack[i].e)
                 /\ w.acked => w.result # Nil
                 /\ "frames" \notin manners => w.view = "open"

RunnersKnown == runners \subseteq dnssd_rdr_list

DialogsIInv ==
    /\ TypeOK /\ EndpointsMade /\ PagesAsk /\ AnswersMeant /\ RefsFresh /\ ChosenBegun
    /\ OneQuestion /\ RunnersKnown /\ OnlyConsented /\ NothingFreedIsRead

-----------------------------------------------------------------------------
LEMMA Constants ==
    /\ MaxBirths \in Nat /\ MaxDialogs \in Nat /\ Timeouts \subseteq Nat
    /\ Max(Timeouts) \in Nat
    /\ Places \subseteq Nat /\ 0 \in Births /\ Births \subseteq Nat
    /\ Nil \notin {"open", "freed"} /\ Nil \notin Answers
    /\ Nil \notin {"unsigned", "signed", "picked", "first", "pulled"}
    /\ Nil \notin DialogsWrongs
    /\ Nil \notin Refs
BY DialogsAssumption DEF Places, Births, Answers, DialogsWrongs, Refs

LEMMA Empty ==
    /\ NoEndpoint.state = "free" /\ NoEndpoint.born = 0 /\ NoEndpoint.app = Nil
    /\ NoDialog.view = Nil /\ NoDialog.posts = {} /\ NoDialog.result = Nil /\ ~NoDialog.acked
BY DEF NoEndpoint, NoDialog

LEMMA EmptyTypes == NoEndpoint \in EpRec /\ NoDialog \in DialogRec
BY Constants DEF NoEndpoint, NoDialog, EpRec, DialogRec

LEMMA InitIInv ==
    ASSUME DialogsInit
    PROVE  DialogsIInv
<1>1. Len(<<>>) = 0 /\ <<>> \in Seq(Entries)
  OBVIOUS
<1>2. TypeOK
  BY <1>1, Constants, EmptyTypes DEF DialogsInit, TypeOK
<1>3. \A i \in 1..Len(stack) : FALSE
  BY <1>1 DEF DialogsInit
<1>4. EndpointsMade /\ PagesAsk /\ RunnersKnown
  BY <1>3, Empty DEF DialogsInit, EndpointsMade, PagesAsk, RunnersKnown
<1>5. AnswersMeant
  BY Empty DEF DialogsInit, AnswersMeant
<1>6. RefsFresh /\ ChosenBegun /\ OneQuestion
  BY <1>1, <1>3 DEF DialogsInit, RefsFresh, ChosenBegun, OneQuestion
<1>7. OnlyConsented
  BY Empty DEF DialogsInit, OnlyConsented, Listed
<1>8. NothingFreedIsRead
  BY Constants DEF DialogsInit, NothingFreedIsRead, DialogsWrongs
<1>9. QED
  BY <1>2, <1>4, <1>5, <1>6, <1>7, <1>8 DEF DialogsIInv

\* What the types say of an entry, a page and an endpoint.
LEMMA Facts ==
    ASSUME TypeOK
    PROVE  /\ Len(stack) \in Nat /\ DOMAIN stack = 1..Len(stack)
           /\ \A i \in 1..Len(stack) :
                 /\ stack[i] \in Entries /\ stack[i].kind \in Kinds /\ stack[i].d \in Places
                 /\ stack[i].e \in Refs /\ stack[i].e.e \in Addresses
           /\ \A d \in Places : dialogs[d] \in DialogRec
           /\ \A e \in Addresses : ep[e] \in EpRec
           /\ \A ref \in chooser : ref \in Refs /\ ref.e \in Addresses
           /\ timer # Nil => timer \in Refs /\ timer.e \in Addresses
<1>1. \A i \in 1..Len(stack) : stack[i] \in Entries
  BY DEF TypeOK
<1>2. \A i \in 1..Len(stack) : /\ stack[i].kind \in Kinds /\ stack[i].d \in Places
                               /\ stack[i].e \in Refs /\ stack[i].e.e \in Addresses
  BY <1>1 DEF Entries, Refs
<1>3. QED
  BY <1>1, <1>2 DEF TypeOK, Refs

-----------------------------------------------------------------------------
(***************************************************************************)
(* Clients come, go and authenticate.                                      *)
(***************************************************************************)
\* Who may be listed with no question, and that where the user must be asked he
\* said yes.
Unasked(x) == (x.via = "first" => x.unix) /\ (x.via = "pulled" => "pull" \in manners)
Consented(x) ==
    /\ x.via = "signed" =>
          \E c \in consents : c.app = x.app /\ (c.always \/ c.born = x.born)
    /\ x.via = "picked" => \E c \in consents : c.born = x.born

\* The same endpoint goes on.
Same(e, x) ==
    /\ x.state # "free" /\ ep[e].state # "free"
    /\ x.born = ep[e].born /\ x.app = ep[e].app
    /\ ep[e].started => x.started

LEMMA EndpointStep ==
    ASSUME DialogsIInv, NEW e \in Addresses, NEW x \in EpRec, ep' = [ep EXCEPT ![e] = x],
           births' \in Births, "meanwhile" \notin manners => ~Blocked,
           UNCHANGED <<manners, stack, dialogs, pagesOpen, confirm_infos, dnssd_rdr_list, consents,
                       misread>>,
           x.state # "free" => x.app # Nil,
           \/ Same(e, x)
           \/ ep[e].state = "free" /\ ("reuse" \in manners \/ ~InUse(e))
           \/ x.state = "free" /\ (timer # Nil /\ timer.e = e => "gone" \in manners),
           x.state = "listed" =>
              /\ Unasked(x) /\ ("reuse" \notin manners => Consented(x))
              /\ x.via = "first" => Listed = {}
    PROVE  DialogsIInv'
<1>1. /\ ep' \in [Addresses -> EpRec] /\ ep'[e] = x
      /\ \A f \in Addresses : f # e => ep'[f] = ep[f]
  BY DEF DialogsIInv, TypeOK
<1>2. UNCHANGED <<manners, stack, dialogs, chooser, timer, runners, confirm_infos, dnssd_rdr_list,
                  consents, misread>>
  BY DEF pagesOpen
<1>3. TypeOK'
  BY <1>1, <1>2 DEF DialogsIInv, TypeOK
<1>4. EndpointsMade' /\ PagesAsk' /\ AnswersMeant' /\ RunnersKnown' /\ NothingFreedIsRead'
  BY <1>1, <1>2 DEF DialogsIInv, EndpointsMade, PagesAsk, AnswersMeant, RunnersKnown, NothingFreedIsRead
<1>5. ASSUME NEW ref \in Refs, ref.e # e \/ InUse(e), "reuse" \notin manners
      PROVE  /\ Fresh(ref) => Fresh(ref)'
             /\ Begun(ref) => Begun(ref)'
  <2>1. ref.e \in Addresses
    BY DEF Refs
  <2>2. QED
    BY <1>1, <1>5, <2>1 DEF Fresh, Begun, Same
<1>6. /\ \A i \in 1..Len(stack) : stack[i].e \in Refs /\ (stack[i].e.e # e \/ InUse(e))
      /\ \A ref \in chooser : ref \in Refs /\ (ref.e # e \/ InUse(e))
      /\ timer # Nil => timer \in Refs /\ (timer.e # e \/ InUse(e))
  BY Facts DEF DialogsIInv, InUse
<1>7. RefsFresh'
  BY <1>2, <1>5, <1>6 DEF DialogsIInv, RefsFresh
<1>8. ChosenBegun'
  BY <1>2, <1>5, <1>6 DEF DialogsIInv, ChosenBegun
<1>9. OneQuestion'
  <2> SUFFICES ASSUME "meanwhile" \notin manners
               PROVE  /\ timer # Nil /\ "gone" \notin manners =>
                            ep'[timer.e].born = timer.born /\ ep'[timer.e].state # "free"
                      /\ \A i \in 1..Len(stack) : stack[i].kind # "confirm"
    BY <1>2 DEF DialogsIInv, OneQuestion, Gone
  <2>1. \A i \in 1..Len(stack) : stack[i].kind # "confirm"
    BY Facts DEF Blocked, DialogsIInv
  <2>2. ASSUME timer # Nil, "gone" \notin manners
        PROVE  ep'[timer.e].born = timer.born /\ ep'[timer.e].state # "free"
    <3>1. timer.e \in Addresses /\ ep[timer.e].born = timer.born /\ ep[timer.e].state # "free"
      BY <2>2, Facts DEF DialogsIInv, OneQuestion, Gone
    <3>2. QED
      BY <1>1, <2>2, <3>1 DEF Same
  <2>3. QED
    BY <2>1, <2>2
<1>10. OnlyConsented'
  <2>1. ASSUME NEW f \in Addresses, ep'[f].state = "listed"
        PROVE  Unasked(ep'[f]) /\ ("reuse" \notin manners => Consented(ep'[f]))
    <3>1. CASE f = e
      BY <1>1, <2>1, <3>1
    <3>2. CASE f # e
      BY <1>1, <2>1, <3>2 DEF DialogsIInv, OnlyConsented, Unasked, Consented, Listed
    <3>3. QED
      BY <3>1, <3>2
  <2>2. ASSUME NEW f \in Listed', NEW g \in Listed', ep'[f].via = "first", ep'[g].via = "first",
               f # g
        PROVE  FALSE
    <3>1. /\ f \in Addresses /\ ep'[f].state = "listed"
          /\ g \in Addresses /\ ep'[g].state = "listed"
      BY <2>2 DEF Listed
    <3>2. CASE f # e /\ g # e
      BY <1>1, <2>2, <3>1, <3>2 DEF DialogsIInv, OnlyConsented, Listed
    <3>3. CASE f = e \/ g = e
      BY <1>1, <2>2, <3>1, <3>3 DEF Listed
    <3>4. QED
      BY <3>2, <3>3
  <2>3. QED
    BY <1>2, <2>1, <2>2 DEF DialogsIInv, OnlyConsented, Unasked, Consented, Listed
<1>11. QED
  BY <1>3, <1>4, <1>7, <1>8, <1>9, <1>10 DEF DialogsIInv

LEMMA ClientsStep ==
    ASSUME DialogsIInv, NEW e \in Addresses,
           \/ \E app \in Apps, unix \in BOOLEAN : Connect(e, app, unix)
           \/ Leave(e) \/ StartDuplicate(e) \/ Authenticated(e)
    PROVE  DialogsIInv'
<1>1. ep[e] \in EpRec /\ births \in Nat
  BY Facts, Constants DEF DialogsIInv, TypeOK
<1>2. ASSUME NEW app \in Apps, NEW unix \in BOOLEAN, Connect(e, app, unix)
      PROVE  DialogsIInv'
  <2> DEFINE x == [NoEndpoint EXCEPT !.state = "dangling", !.app = app, !.born = births + 1,
                                     !.unix = unix]
  <2>0. births < MaxBirths
    BY <1>2 DEF Connect
  <2>1. births + 1 \in Births
    BY <1>1, <2>0, Constants DEF Births
  <2>2. x \in EpRec /\ x.state = "dangling" /\ x.app = app
    BY <2>1 DEF NoEndpoint, EpRec
  <2>3. /\ ep' = [ep EXCEPT ![e] = x] /\ births' = births + 1
        /\ ep[e].state = "free" /\ ~Blocked /\ ("reuse" \in manners \/ ~InUse(e))
        /\ UNCHANGED <<manners, stack, dialogs, pagesOpen, confirm_infos, dnssd_rdr_list, consents,
                       misread>>
    BY <1>2 DEF Connect
  <2> HIDE DEF x
  <2>4. app # Nil
    BY DialogsAssumption
  <2>5. QED
    BY <2>1, <2>2, <2>3, <2>4, EndpointStep
<1>3. CASE Leave(e)
  <2>1. NoEndpoint \in EpRec /\ NoEndpoint.state = "free"
    BY Empty, EmptyTypes
  <2>2. /\ ep' = [ep EXCEPT ![e] = NoEndpoint] /\ births' \in Births /\ ~Blocked
        /\ timer # Nil /\ timer.e = e => "gone" \in manners
        /\ UNCHANGED <<manners, stack, dialogs, pagesOpen, confirm_infos, dnssd_rdr_list, consents,
                       misread>>
    BY <1>3 DEF Leave, DialogsIInv, TypeOK
  <2>3. QED
    BY <2>1, <2>2, EndpointStep
<1>4. CASE StartDuplicate(e)
  <2> DEFINE x == [ep[e] EXCEPT !.started = TRUE]
             y == [ep[e] EXCEPT !.state = "listed", !.started = TRUE, !.via = "first"]
  <2>1. ep[e].state = "dangling"
    BY <1>4 DEF StartDuplicate
  <2>2. /\ x \in EpRec /\ x.state = "dangling" /\ x.app = ep[e].app /\ x.born = ep[e].born
        /\ x.started
        /\ y \in EpRec /\ y.state = "listed" /\ y.app = ep[e].app /\ y.born = ep[e].born
        /\ y.started /\ y.via = "first" /\ y.unix = ep[e].unix
    BY <1>1, <2>1 DEF EpRec
  <2>3. /\ births' \in Births /\ ~Blocked
        /\ UNCHANGED <<manners, stack, dialogs, pagesOpen, confirm_infos, dnssd_rdr_list, consents,
                       misread>>
    BY <1>4 DEF StartDuplicate, DialogsIInv, TypeOK
  <2>4. \/ ep' = [ep EXCEPT ![e] = x]
        \/ ep' = [ep EXCEPT ![e] = y] /\ Listed = {} /\ ep[e].unix
    BY <1>4 DEF StartDuplicate, Lists, DialogsIInv, TypeOK
  <2> HIDE DEF x, y
  <2>5. Same(e, x) /\ Same(e, y) /\ x.app # Nil /\ y.app # Nil
    BY <2>1, <2>2 DEF Same, DialogsIInv, EndpointsMade
  <2>6. CASE ep' = [ep EXCEPT ![e] = x]
    BY <2>2, <2>3, <2>5, <2>6, EndpointStep
  <2>7. CASE ep' = [ep EXCEPT ![e] = y] /\ Listed = {} /\ ep[e].unix
    <3>1. Unasked(y) /\ Consented(y)
      BY <2>2, <2>7 DEF Unasked, Consented
    <3>2. QED
      BY <2>2, <2>3, <2>5, <2>7, <3>1, EndpointStep
  <2>8. QED
    BY <2>4, <2>6, <2>7
<1>5. CASE Authenticated(e)
  <2>1. PICK via \in {"unsigned", "signed"} :
           Lists(e, via) /\ (via = "signed" => ep[e].app \in confirm_infos)
    BY <1>5 DEF Authenticated
  <2> DEFINE x == [ep[e] EXCEPT !.state = "listed", !.started = TRUE, !.via = via]
  <2>2. ep[e].state = "dangling"
    BY <1>5 DEF Authenticated
  <2>3. /\ x \in EpRec /\ x.state = "listed" /\ x.app = ep[e].app /\ x.born = ep[e].born
        /\ x.started /\ x.via = via
    BY <1>1, <2>1 DEF EpRec
  <2>4. /\ ep' = [ep EXCEPT ![e] = x] /\ births' \in Births /\ ~Blocked
        /\ UNCHANGED <<manners, stack, dialogs, pagesOpen, confirm_infos, dnssd_rdr_list, consents,
                       misread>>
    BY <1>5, <2>1 DEF Authenticated, Lists, DialogsIInv, TypeOK
  <2> HIDE DEF x
  <2>5. Same(e, x) /\ (x.state # "free" => x.app # Nil)
    BY <2>2, <2>3 DEF Same, DialogsIInv, EndpointsMade
  <2>6. "reuse" \notin manners => Consented(x)
    BY <2>1, <2>3 DEF DialogsIInv, OnlyConsented, Consented
  <2>7. Unasked(x) /\ x.via # "first"
    BY <2>3 DEF Unasked
  <2>8. QED
    BY <2>3, <2>4, <2>5, <2>6, <2>7, EndpointStep
<1>6. QED
  BY <1>2, <1>3, <1>4, <1>5

-----------------------------------------------------------------------------
(***************************************************************************)
(* A question is asked.                                                    *)
(***************************************************************************)
LEMMA LeastOf ==
    ASSUME NEW S, S # {}, S \subseteq Nat
    PROVE  Min(S) \in S /\ \A n \in S : Min(S) <= n
<1>1. \E m \in S : \A k \in S : ~(<<k, m>> \in OpToRel(<, Nat))
  BY WFMin, NatLessThanWellFounded, Zenon
<1>2. \A k, m \in Nat : k < m => <<k, m>> \in OpToRel(<, Nat)
  BY DEF OpToRel
<1>3. \A k, m \in Nat : k < m \/ m <= k
  OBVIOUS
<1>4. \E m \in S : \A k \in S : m <= k
  BY <1>1, <1>2, <1>3, Zenon
<1>5. QED
  BY <1>4 DEF Min

\* Page d is new and asks about ref, and so does the innermost function.
Opened(d, kind, ref) ==
    /\ dialogs[d] = NoDialog
    /\ dialogs' \in [Places -> DialogRec]
    /\ dialogs'[d].view = "open" /\ dialogs'[d].kind = kind
    /\ dialogs'[d].app = ref.app /\ dialogs'[d].born = ref.born
    /\ dialogs'[d].posts = {} /\ dialogs'[d].result = Nil /\ ~dialogs'[d].acked
    /\ \A n \in Places : n # d => dialogs'[n] = dialogs[n]
    /\ stack' \in Seq(Entries) /\ Len(stack') = Len(stack) + 1
    /\ \A i \in 1..Len(stack) : stack'[i] = stack[i]
    /\ stack'[Len(stack) + 1] = [kind |-> kind, d |-> d, e |-> ref]

LEMMA AskOpens ==
    ASSUME TypeOK, NEW kind \in Kinds, NEW ref \in Refs, NEW left \in Nat,
           Ask(kind, ref, left)
    PROVE  \E d \in Places : Opened(d, kind, ref)
<1> DEFINE S == {n \in Places : dialogs[n] = NoDialog}
           d == Min(S)
           w == [NoDialog EXCEPT !.kind = kind, !.view = "open", !.app = ref.app,
                                 !.born = ref.born, !.left = left]
           x == [kind |-> kind, d |-> d, e |-> ref]
<1>1. /\ \E n \in Places : dialogs[n] = NoDialog
      /\ dialogs' = [dialogs EXCEPT ![d] = w] /\ stack' = Append(stack, x)
  BY DEF Ask
<1>2. S # {} /\ S \subseteq Nat
  BY <1>1, Constants
<1>3. d \in S
  BY <1>2, LeastOf
<1>4. d \in Places /\ dialogs[d] = NoDialog
  BY <1>3
<1> HIDE DEF S, d
<1>5. /\ w \in DialogRec /\ w.view = "open" /\ w.kind = kind /\ w.app = ref.app
      /\ w.born = ref.born /\ w.posts = {} /\ w.result = Nil /\ ~w.acked
  BY DEF NoDialog, DialogRec, Refs
<1> HIDE DEF w
<1>6. x \in Entries
  BY <1>4 DEF Entries
<1> HIDE DEF x
<1>7. /\ stack' \in Seq(Entries) /\ Len(stack') = Len(stack) + 1
      /\ \A i \in 1..Len(stack) : stack'[i] = stack[i]
      /\ stack'[Len(stack) + 1] = x
  BY <1>1, <1>6 DEF TypeOK
<1>8. /\ dialogs' \in [Places -> DialogRec] /\ dialogs'[d] = w
      /\ \A n \in Places : n # d => dialogs'[n] = dialogs[n]
  BY <1>1, <1>4, <1>5 DEF TypeOK
<1>9. Opened(d, kind, ref)
  BY <1>4, <1>5, <1>7, <1>8 DEF Opened, x
<1>10. QED
  BY <1>4, <1>9

LEMMA AskStep ==
    ASSUME DialogsIInv, NEW kind \in Kinds, NEW ref \in Refs, NEW left \in Nat,
           Ask(kind, ref, left),
           UNCHANGED <<manners, registry, runners, confirm_infos, dnssd_rdr_list, consents,
                       misread>>,
           chooser' \subseteq chooser, timer' \in {timer, Nil},
           "meanwhile" \notin manners => stack = <<>> /\ timer' = Nil,
           kind = "confirm" => ~Gone(ref),
           "reuse" \notin manners => Fresh(ref),
           kind = "dup" /\ manners \cap {"reuse", "unstarted"} = {} => Begun(ref)
    PROVE  DialogsIInv'
<1>1. PICK d \in Places : Opened(d, kind, ref)
  BY AskOpens DEF DialogsIInv
<1>2. /\ dialogs[d] = NoDialog
      /\ dialogs' \in [Places -> DialogRec]
      /\ dialogs'[d].view = "open" /\ dialogs'[d].kind = kind
      /\ dialogs'[d].app = ref.app /\ dialogs'[d].born = ref.born
      /\ dialogs'[d].posts = {} /\ dialogs'[d].result = Nil /\ ~dialogs'[d].acked
      /\ \A n \in Places : n # d => dialogs'[n] = dialogs[n]
  BY <1>1 DEF Opened
<1>3. /\ stack' \in Seq(Entries) /\ Len(stack') = Len(stack) + 1 /\ Len(stack) \in Nat
      /\ \A i \in 1..Len(stack) : stack'[i] = stack[i] /\ stack[i].d \in Places
      /\ \A i \in 1..Len(stack') :
            \/ i \in 1..Len(stack)
            \/ i = Len(stack) + 1 /\ stack'[i].kind = kind /\ stack'[i].d = d /\ stack'[i].e = ref
  <2>1. /\ stack' \in Seq(Entries) /\ Len(stack') = Len(stack) + 1 /\ Len(stack) \in Nat
        /\ \A i \in 1..Len(stack) : stack'[i] = stack[i] /\ stack[i].d \in Places
        /\ stack'[Len(stack) + 1] = [kind |-> kind, d |-> d, e |-> ref]
    BY <1>1, Facts DEF Opened, DialogsIInv
  <2>2. \A i \in 1..Len(stack) + 1 : i \in 1..Len(stack) \/ i = Len(stack) + 1
    BY <2>1
  <2>3. QED
    BY <2>1, <2>2
<1>4. /\ UNCHANGED <<manners, births, ep, runners, confirm_infos, dnssd_rdr_list, consents,
                     misread>>
      /\ timer' \in Refs \cup {Nil} /\ chooser' \subseteq Refs
  BY DEF registry, DialogsIInv, TypeOK
<1>5. TypeOK'
  BY <1>2, <1>3, <1>4 DEF DialogsIInv, TypeOK
<1>6. EndpointsMade' /\ RunnersKnown' /\ NothingFreedIsRead' /\ OnlyConsented'
  BY <1>4 DEF DialogsIInv, EndpointsMade, RunnersKnown, NothingFreedIsRead, OnlyConsented, Listed
<1>7. \A i \in 1..Len(stack) : stack[i].d # d
  BY <1>2, Empty, Constants DEF DialogsIInv, PagesAsk
<1>8. PagesAsk'
  BY <1>2, <1>3, <1>7 DEF DialogsIInv, PagesAsk
<1>9. AnswersMeant'
  <2> SUFFICES ASSUME NEW n \in Places,
                      NEW result \in dialogs'[n].posts \cup ({dialogs'[n].result} \ {Nil}),
                      result # "Decline"
               PROVE  \E c \in consents : /\ c.app = dialogs'[n].app /\ c.born = dialogs'[n].born
                                          /\ result = "AcceptAlways" => c.always
    BY <1>4 DEF AnswersMeant
  <2>1. n # d
    BY <1>2
  <2>2. dialogs'[n] = dialogs[n]
    BY <1>2, <2>1
  <2>3. QED
    BY <2>2 DEF DialogsIInv, AnswersMeant
<1>10. /\ \A r : (Fresh(r) => Fresh(r)') /\ (Begun(r) => Begun(r)')
  BY <1>4 DEF Fresh, Begun
<1>11. RefsFresh'
  BY <1>3, <1>4, <1>10 DEF DialogsIInv, RefsFresh
<1>12. ChosenBegun'
  BY <1>3, <1>4, <1>10 DEF DialogsIInv, ChosenBegun
<1>13. OneQuestion'
  <2> SUFFICES ASSUME "meanwhile" \notin manners
               PROVE  /\ Len(stack') <= 1 /\ timer' = Nil
                      /\ \A i \in 1..Len(stack') :
                            LET w == dialogs'[stack'[i].d]
                            IN /\ stack'[i].kind = "confirm" => ~Gone(stack'[i].e)
                               /\ w.acked => w.result # Nil
                               /\ w.view = "open"
    BY <1>4 DEF OneQuestion, Gone
  <2>1. Len(stack) = 0 /\ timer' = Nil
    OBVIOUS
  <2>2. QED
    BY <1>2, <1>3, <2>1
<1>14. QED
  BY <1>5, <1>6, <1>8, <1>9, <1>11, <1>12, <1>13 DEF DialogsIInv

\* What Ref makes of an endpoint that waits.
LEMMA RefFresh ==
    ASSUME DialogsIInv, NEW e \in Addresses, ep[e].state # "free"
    PROVE  Ref(e) \in Refs /\ Ref(e).e = e /\ Fresh(Ref(e)) /\ ~Gone(Ref(e))
<1>1. ep[e] \in EpRec /\ ep[e].app # Nil
  BY Facts DEF DialogsIInv, EndpointsMade
<1>2. QED
  BY <1>1 DEF Ref, Refs, EpRec, Fresh, Gone

LEMMA AskConfirmStep ==
    ASSUME DialogsIInv, NEW e \in Addresses, NEW t \in Timeouts, AskConfirm(e, t)
    PROVE  DialogsIInv'
<1>1. /\ Ask("confirm", Ref(e), Seconds(t)) /\ MayOpen /\ ep[e].state = "dangling"
      /\ UNCHANGED <<manners, registry, pagesOpen, confirm_infos, dnssd_rdr_list, consents,
                     misread>>
  BY DEF AskConfirm
<1>2. Ref(e) \in Refs /\ Fresh(Ref(e)) /\ ~Gone(Ref(e))
  BY <1>1, RefFresh
<1>3. Seconds(t) \in Nat /\ "confirm" \in Kinds
  BY Constants DEF Seconds, Kinds
<1>4. "meanwhile" \notin manners => stack = <<>> /\ timer = Nil
  BY <1>1 DEF MayOpen, Quiet
<1>5. UNCHANGED <<chooser, timer, runners>>
  BY <1>1 DEF pagesOpen
<1>6. QED
  BY <1>1, <1>2, <1>3, <1>4, <1>5, AskStep

LEMMA TimerStep ==
    ASSUME DialogsIInv, misread = Nil, TimerFires
    PROVE  DialogsIInv'
<1>1. /\ timer # Nil /\ timer' = Nil /\ timer \in Refs
      /\ UNCHANGED <<manners, registry, chooser, runners, confirm_infos, dnssd_rdr_list, consents>>
  BY Facts DEF TimerFires, DialogsIInv
<1>2. "meanwhile" \notin manners => stack = <<>>
  BY <1>1 DEF DialogsIInv, OneQuestion
<1>3. CASE ~Gone(timer)
  <2>1. Ask("close", timer, 0) /\ UNCHANGED misread
    BY <1>3 DEF TimerFires
  <2>2. "reuse" \notin manners => Fresh(timer)
    BY <1>1 DEF DialogsIInv, RefsFresh
  <2>3. "close" \in Kinds /\ 0 \in Nat
    BY DEF Kinds
  <2>4. QED
    BY <1>1, <1>2, <2>1, <2>2, <2>3, AskStep
<1>4. CASE Gone(timer)
  <2>1. /\ misread' = "timer"
        /\ UNCHANGED <<manners, births, ep, stack, dialogs, chooser, runners, confirm_infos,
                       dnssd_rdr_list, consents>>
    BY <1>1, <1>4 DEF TimerFires, registry
  <2>2. manners \cap {"gone", "meanwhile"} # {}
    BY <1>1, <1>4 DEF DialogsIInv, OneQuestion
  <2>3. TypeOK'
    BY <1>1, <2>1 DEF DialogsIInv, TypeOK, DialogsWrongs
  <2>4. EndpointsMade' /\ PagesAsk' /\ AnswersMeant' /\ RunnersKnown' /\ OnlyConsented'
    BY <2>1 DEF DialogsIInv, EndpointsMade, PagesAsk, AnswersMeant, RunnersKnown, OnlyConsented, Listed
  <2>5. RefsFresh' /\ ChosenBegun'
    BY <1>1, <2>1 DEF DialogsIInv, RefsFresh, ChosenBegun, Fresh, Begun
  <2>6. OneQuestion'
    BY <1>1, <2>1 DEF DialogsIInv, OneQuestion, Gone
  <2>7. NothingFreedIsRead'
    BY <2>1, <2>2 DEF NothingFreedIsRead
  <2>8. QED
    BY <2>3, <2>4, <2>5, <2>6, <2>7 DEF DialogsIInv
<1>5. QED
  BY <1>3, <1>4

\* Steps that change what pages are open but no question.
LEMMA OpenStep ==
    ASSUME DialogsIInv,
           UNCHANGED <<manners, births, ep, stack, dialogs, confirm_infos, consents, misread>>,
           chooser' \subseteq Refs, timer' \in Refs \cup {Nil},
           "reuse" \notin manners =>
               (\A ref \in chooser' : Fresh(ref)) /\ (timer' # Nil => Fresh(timer')),
           manners \cap {"reuse", "unstarted"} = {} => \A ref \in chooser' : Begun(ref),
           timer' = timer \/ (/\ timer' # Nil => ~Gone(timer') /\ ep[timer'.e].state # "free"
                              /\ "meanwhile" \notin manners => stack = <<>>),
           runners' \subseteq dnssd_rdr_list'
    PROVE  DialogsIInv'
<1>1. TypeOK'
  BY DEF DialogsIInv, TypeOK
<1>2. EndpointsMade' /\ PagesAsk' /\ AnswersMeant' /\ RunnersKnown' /\ OnlyConsented'
  BY DEF DialogsIInv, EndpointsMade, PagesAsk, AnswersMeant, RunnersKnown, OnlyConsented, Listed
<1>3. RefsFresh' /\ ChosenBegun'
  <2>1. \A ref : (Fresh(ref)' <=> Fresh(ref)) /\ (Begun(ref)' <=> Begun(ref))
    BY DEF Fresh, Begun
  <2>2. Fresh(timer') => Fresh(timer)'
    BY DEF Fresh
  <2>3. QED
    BY <2>1, <2>2 DEF DialogsIInv, RefsFresh, ChosenBegun
<1>4. OneQuestion'
  BY DEF DialogsIInv, OneQuestion, Gone
<1>5. NothingFreedIsRead'
  BY DEF DialogsIInv, NothingFreedIsRead
<1>6. QED
  BY <1>1, <1>2, <1>3, <1>4, <1>5 DEF DialogsIInv

LEMMA ChooserStep ==
    ASSUME DialogsIInv, on_hbdrun_dup_choose
    PROVE  DialogsIInv'
<1>1. /\ UNCHANGED <<manners, births, ep, stack, dialogs, timer, runners, confirm_infos,
                     dnssd_rdr_list, consents, misread>>
      /\ chooser' = {Ref(e) : e \in {f \in Dangling : "unstarted" \in manners \/ ep[f].started}}
  BY DEF on_hbdrun_dup_choose, registry
<1>2. ASSUME NEW e \in Dangling, "unstarted" \in manners \/ ep[e].started
      PROVE  /\ Ref(e) \in Refs /\ Fresh(Ref(e))
             /\ "unstarted" \notin manners => Begun(Ref(e))
  <2>1. e \in Addresses /\ ep[e].state # "free"
    BY DEF Dangling
  <2>2. QED
    BY <1>2, <2>1, RefFresh DEF Begun
<1>3. \A ref \in chooser' :
         ref \in Refs /\ Fresh(ref) /\ ("unstarted" \notin manners => Begun(ref))
  BY <1>1, <1>2
<1>4. /\ timer' \in Refs \cup {Nil} /\ runners' \subseteq dnssd_rdr_list'
      /\ "reuse" \notin manners /\ timer' # Nil => Fresh(timer')
  BY <1>1 DEF DialogsIInv, TypeOK, RefsFresh, RunnersKnown
<1>5. QED
  BY <1>1, <1>3, <1>4, OpenStep

LEMMA FloatingButtonStep ==
    ASSUME DialogsIInv, xgutils_on_floating_button_click
    PROVE  DialogsIInv'
<1>1. CASE on_hbdrun_dup_choose
  BY <1>1, ChooserStep
<1>2. CASE show_dup_close_confirm_window
  <2>1. PICK e \in Listed : timer' = Ref(e)
    BY <1>2 DEF show_dup_close_confirm_window
  <2>2. /\ e \in Addresses /\ ep[e].state # "free" /\ MayOpen
        /\ UNCHANGED <<manners, births, ep, stack, dialogs, chooser, runners, confirm_infos,
                       dnssd_rdr_list, consents, misread>>
    BY <1>2, <2>1 DEF Listed, show_dup_close_confirm_window, registry
  <2>3. Ref(e) \in Refs /\ Fresh(Ref(e)) /\ ~Gone(Ref(e)) /\ Ref(e).e = e
    BY <2>2, RefFresh
  <2>4. "meanwhile" \notin manners => stack = <<>>
    BY <2>2 DEF MayOpen, Quiet
  <2>5. /\ chooser' \subseteq Refs /\ runners' \subseteq dnssd_rdr_list'
        /\ "reuse" \notin manners => \A ref \in chooser' : Fresh(ref)
        /\ manners \cap {"reuse", "unstarted"} = {} => \A ref \in chooser' : Begun(ref)
    BY <2>2 DEF DialogsIInv, TypeOK, RefsFresh, ChosenBegun, RunnersKnown
  <2>6. timer' \in Refs /\ Fresh(timer') /\ ~Gone(timer') /\ ep[timer'.e].state # "free"
    BY <2>1, <2>2, <2>3
  <2>7. QED
    BY <2>2, <2>4, <2>5, <2>6, OpenStep
<1>3. QED
  BY <1>1, <1>2 DEF xgutils_on_floating_button_click

\* The only one that waits is accepted, or the user may pick.
LEMMA PullStep ==
    ASSUME DialogsIInv, xgutils_pull_screen_cast
    PROVE  DialogsIInv'
<1>1. "pull" \in manners /\ ("meanwhile" \notin manners => stack = <<>>)
  BY DEF xgutils_pull_screen_cast, MayOpen, Quiet
<1>2. CASE on_hbdrun_dup_choose
  BY <1>2, ChooserStep
<1>3. CASE ~on_hbdrun_dup_choose
  <2>1. PICK e \in Addresses : Dangling = {e} /\ ep[e].started /\ accept_endpoint(e, "pulled")
    BY <1>3 DEF xgutils_pull_screen_cast
  <2> DEFINE x == [ep[e] EXCEPT !.state = "listed", !.started = TRUE, !.via = "pulled"]
  <2>2. ep[e] \in EpRec /\ ep[e].state = "dangling" /\ e \in Dangling
    BY <2>1, Facts DEF DialogsIInv, Dangling
  <2>3. /\ x \in EpRec /\ x.state = "listed" /\ x.app = ep[e].app /\ x.born = ep[e].born
        /\ x.started /\ x.via = "pulled"
    BY <2>2 DEF EpRec
  <2>4. ep' = [ep EXCEPT ![e] = x] /\ UNCHANGED misread
    BY <2>1, <2>2 DEF accept_endpoint, Lists, DialogsIInv, TypeOK
  <2>5. /\ births' \in Births
        /\ UNCHANGED <<manners, stack, dialogs, pagesOpen, confirm_infos, dnssd_rdr_list, consents,
                       misread>>
    BY <1>3, <2>4 DEF xgutils_pull_screen_cast, DialogsIInv, TypeOK
  <2>6. "meanwhile" \notin manners => ~Blocked
    BY <1>1 DEF Blocked
  <2> HIDE DEF x
  <2>7. Same(e, x) /\ x.app # Nil
    BY <2>2, <2>3 DEF Same, DialogsIInv, EndpointsMade
  <2>8. Unasked(x) /\ Consented(x) /\ x.via # "first"
    BY <1>1, <2>3 DEF Unasked, Consented
  <2>9. QED
    BY <2>3, <2>4, <2>5, <2>6, <2>7, <2>8, EndpointStep
<1>4. QED
  BY <1>2, <1>3

LEMMA ChosenStep ==
    ASSUME DialogsIInv, NEW ref \in chooser, on_hbdrun_action_dup_choose(ref)
    PROVE  DialogsIInv'
<1>1. /\ MayOpen /\ chooser' = {} /\ ref \in Refs
      /\ UNCHANGED <<manners, registry, timer, runners, confirm_infos, dnssd_rdr_list, consents,
                     misread>>
  BY Facts DEF on_hbdrun_action_dup_choose, DialogsIInv
<1>2. CASE ref.e \in Dangling
  <2>1. Ask("dup", ref, 0)
    BY <1>2 DEF on_hbdrun_action_dup_choose
  <2>2. "meanwhile" \notin manners => stack = <<>> /\ timer' = Nil
    BY <1>1 DEF MayOpen, Quiet
  <2>3. /\ "reuse" \notin manners => Fresh(ref)
        /\ manners \cap {"reuse", "unstarted"} = {} => Begun(ref)
    BY DEF DialogsIInv, RefsFresh, ChosenBegun
  <2>4. "dup" \in Kinds /\ 0 \in Nat
    BY DEF Kinds
  <2>5. QED
    BY <1>1, <2>1, <2>2, <2>3, <2>4, AskStep
<1>3. CASE ref.e \notin Dangling
  <2>1. UNCHANGED <<manners, births, ep, stack, dialogs, timer, runners, confirm_infos,
                    dnssd_rdr_list, consents, misread>>
    BY <1>1, <1>3 DEF on_hbdrun_action_dup_choose, registry
  <2>2. /\ timer' \in Refs \cup {Nil} /\ runners' \subseteq dnssd_rdr_list'
        /\ "reuse" \notin manners /\ timer' # Nil => Fresh(timer')
    BY <2>1 DEF DialogsIInv, TypeOK, RunnersKnown, RefsFresh
  <2>3. QED
    BY <1>1, <2>1, <2>2, OpenStep
<1>4. QED
  BY <1>2, <1>3

-----------------------------------------------------------------------------
(***************************************************************************)
(* The pages.                                                              *)
(***************************************************************************)
\* An answer that is not "Decline" was meant by the user.
Meant(w, result, given) ==
    result # "Decline" =>
        \E c \in given : c.app = w.app /\ c.born = w.born /\ (result = "AcceptAlways" => c.always)

\* Page d is now w.
Turned(d, w) ==
    /\ dialogs' \in [Places -> DialogRec] /\ dialogs'[d] = w
    /\ \A n \in Places : n # d => dialogs'[n] = dialogs[n]

LEMMA PageTurned ==
    ASSUME TypeOK, NEW d \in Places, NEW w \in DialogRec, dialogs' = [dialogs EXCEPT ![d] = w]
    PROVE  Turned(d, w)
BY DEF Turned, TypeOK

LEMMA TurnStep ==
    ASSUME DialogsIInv, NEW d \in Places, NEW w \in DialogRec, Turned(d, w),
           UNCHANGED <<manners, registry, stack, pagesOpen, confirm_infos, dnssd_rdr_list,
                       misread>>,
           consents \subseteq consents', consents' \subseteq Consents,
           Waits(d) => \/ w.view = "freed"
                       \/ /\ w.view = dialogs[d].view /\ w.kind = dialogs[d].kind
                          /\ w.app = dialogs[d].app /\ w.born = dialogs[d].born,
           \A result \in w.posts \cup ({w.result} \ {Nil}) : Meant(w, result, consents'),
           "meanwhile" \notin manners /\ Waits(d) => /\ w.acked => w.result # Nil
                                                     /\ "frames" \notin manners => w.view = dialogs[d].view
    PROVE  DialogsIInv'
<1>1. /\ dialogs' \in [Places -> DialogRec] /\ dialogs'[d] = w
      /\ \A n \in Places : n # d => dialogs'[n] = dialogs[n]
  BY DEF Turned
<1>2. UNCHANGED <<manners, births, ep, stack, chooser, timer, runners, confirm_infos,
                  dnssd_rdr_list,
                  misread>>
  BY DEF registry, pagesOpen
<1>3. \A i \in 1..Len(stack) : stack[i].d \in Places /\ (stack[i].d = d => Waits(d))
  BY Facts DEF DialogsIInv, Waits
<1>4. TypeOK'
  BY <1>1, <1>2 DEF DialogsIInv, TypeOK
<1>5. EndpointsMade' /\ RunnersKnown' /\ NothingFreedIsRead'
  BY <1>2 DEF DialogsIInv, EndpointsMade, RunnersKnown, NothingFreedIsRead
<1>6. PagesAsk'
  BY <1>1, <1>2, <1>3 DEF DialogsIInv, PagesAsk
<1>7. AnswersMeant'
  BY <1>1 DEF DialogsIInv, AnswersMeant, Meant
<1>8. RefsFresh' /\ ChosenBegun'
  BY <1>2 DEF DialogsIInv, RefsFresh, ChosenBegun, Fresh, Begun
<1>9. OneQuestion'
  BY <1>1, <1>2, <1>3 DEF DialogsIInv, OneQuestion, Gone
<1>10. OnlyConsented'
  BY <1>2 DEF DialogsIInv, OnlyConsented, Listed
<1>11. QED
  BY <1>4, <1>5, <1>6, <1>7, <1>8, <1>9, <1>10 DEF DialogsIInv

\* What is known of the answers of a page.
LEMMA PageMeant ==
    ASSUME DialogsIInv, NEW d \in Places
    PROVE  \A result \in dialogs[d].posts \cup ({dialogs[d].result} \ {Nil}) :
              Meant(dialogs[d], result, consents)
BY DEF DialogsIInv, AnswersMeant, Meant

LEMMA PageWaits ==
    ASSUME DialogsIInv, NEW d \in Places, "meanwhile" \notin manners, Waits(d)
    PROVE  /\ stack # <<>> /\ Innermost.d = d
           /\ dialogs[d].acked => dialogs[d].result # Nil
<1>1. PICK i \in 1..Len(stack) : stack[i].d = d
  BY Facts DEF DialogsIInv, Waits
<1>2. Len(stack) <= 1 /\ Len(stack) \in Nat
  BY Facts DEF DialogsIInv, OneQuestion
<1>3. i = Len(stack) /\ stack # <<>>
  BY <1>1, <1>2
<1>4. QED
  BY <1>1, <1>3 DEF DialogsIInv, OneQuestion, Innermost

LEMMA UserAnswersStep ==
    ASSUME DialogsIInv, NEW d \in Places, NEW result \in Answers, UserAnswers(d, result)
    PROVE  DialogsIInv'
<1> DEFINE w == [dialogs[d] EXCEPT !.posts = @ \cup {result}, !.clicked = TRUE]
           c == [app |-> dialogs[d].app, born |-> dialogs[d].born,
                 always |-> result = "AcceptAlways"]
<1>1. dialogs[d] \in DialogRec
  BY Facts DEF DialogsIInv
<1>2. /\ w \in DialogRec /\ w.posts = dialogs[d].posts \cup {result}
      /\ w.result = dialogs[d].result /\ w.view = dialogs[d].view /\ w.kind = dialogs[d].kind
      /\ w.app = dialogs[d].app /\ w.born = dialogs[d].born /\ w.acked = dialogs[d].acked
  BY <1>1 DEF DialogRec
<1>3. dialogs' = [dialogs EXCEPT ![d] = w]
  <2>1. dialogs' = [Posts(d, result) EXCEPT ![d].clicked = TRUE]
    BY DEF UserAnswers
  <2>2. DOMAIN dialogs = Places
    BY DEF DialogsIInv, TypeOK
  <2>3. QED
    BY <1>1, <2>1, <2>2 DEF Posts, DialogRec
<1> HIDE DEF w
<1>4. Turned(d, w)
  BY <1>2, <1>3, PageTurned DEF DialogsIInv
<1>5. /\ UNCHANGED <<manners, registry, stack, pagesOpen, confirm_infos, dnssd_rdr_list, misread>>
      /\ consents' = IF result = "Decline" THEN consents ELSE consents \cup {c}
  BY DEF UserAnswers
<1>6. c \in Consents /\ Meant(w, result, {c})
  BY <1>1, <1>2 DEF Consents, DialogRec, Meant
<1> HIDE DEF c
<1>7. consents \subseteq consents' /\ consents' \subseteq Consents
  BY <1>5, <1>6 DEF DialogsIInv, TypeOK
<1>8. ASSUME NEW r \in w.posts \cup ({w.result} \ {Nil})
      PROVE  Meant(w, r, consents')
  <2>1. CASE r = result
    BY <1>5, <1>6, <2>1 DEF Meant
  <2>2. CASE r # result
    <3>1. Meant(dialogs[d], r, consents)
      BY <1>2, <1>8, <2>2, PageMeant
    <3>2. QED
      BY <1>2, <1>7, <3>1 DEF Meant
  <2>3. QED
    BY <2>1, <2>2
<1>9. "meanwhile" \notin manners /\ Waits(d) => (w.acked => w.result # Nil)
  BY <1>2, PageWaits
<1>10. QED
  BY <1>2, <1>4, <1>5, <1>7, <1>8, <1>9, TurnStep

LEMMA CountdownStep ==
    ASSUME DialogsIInv, NEW d \in Places, Countdown(d)
    PROVE  DialogsIInv'
<1> DEFINE posts == IF dialogs[d].left = 1 THEN dialogs[d].posts \cup {"Decline"}
                    ELSE dialogs[d].posts
           left == dialogs[d].left - 1
           w == [dialogs[d] EXCEPT !.posts = posts, !.left = left]
<1>1. dialogs[d] \in DialogRec /\ dialogs[d].left > 0
  BY Facts DEF DialogsIInv, Countdown
<1>0. left \in Nat
  <2>1. dialogs[d].left \in Nat
    BY <1>1 DEF DialogRec
  <2>2. QED
    BY <1>1, <2>1
<1>2. posts \in SUBSET Answers /\ posts \subseteq dialogs[d].posts \cup {"Decline"}
  BY <1>1 DEF DialogRec, Answers
<1>3. dialogs' = [dialogs EXCEPT ![d] = w]
  <2>1. dialogs' = [(IF dialogs[d].left = 1 THEN Posts(d, "Decline") ELSE dialogs)
                      EXCEPT ![d].left = @ - 1]
    BY DEF Countdown
  <2>2. DOMAIN dialogs = Places
    BY DEF DialogsIInv, TypeOK
  <2>3. CASE dialogs[d].left = 1
    BY <1>1, <2>1, <2>2, <2>3 DEF Posts, DialogRec
  <2>4. CASE dialogs[d].left # 1
    BY <1>1, <2>1, <2>2, <2>4 DEF DialogRec
  <2>5. QED
    BY <2>3, <2>4
<1> HIDE DEF posts, left
<1>4. /\ w \in DialogRec /\ w.posts = posts
      /\ w.result = dialogs[d].result /\ w.view = dialogs[d].view /\ w.kind = dialogs[d].kind
      /\ w.app = dialogs[d].app /\ w.born = dialogs[d].born /\ w.acked = dialogs[d].acked
  BY <1>0, <1>1, <1>2 DEF DialogRec
<1> HIDE DEF w
<1>5. Turned(d, w)
  BY <1>3, <1>4, PageTurned DEF DialogsIInv
<1>6. UNCHANGED <<manners, registry, stack, pagesOpen, confirm_infos, dnssd_rdr_list, consents,
                  misread>>
  BY DEF Countdown
<1>7. ASSUME NEW r \in w.posts \cup ({w.result} \ {Nil})
      PROVE  Meant(w, r, consents)
  <2>1. r = "Decline" \/ r \in dialogs[d].posts \cup ({dialogs[d].result} \ {Nil})
    BY <1>2, <1>4
  <2>2. QED
    BY <1>4, <2>1, PageMeant DEF Meant
<1>8. "meanwhile" \notin manners /\ Waits(d) => (w.acked => w.result # Nil)
  BY <1>4, PageWaits
<1>9. consents \subseteq consents' /\ consents' \subseteq Consents
  BY <1>6 DEF DialogsIInv, TypeOK
<1>10. QED
  BY <1>4, <1>5, <1>6, <1>7, <1>8, <1>9, TurnStep

LEMMA ActionStep ==
    ASSUME DialogsIInv, NEW d \in Places, NEW result \in Answers,
           on_hbdrun_action(d, result)
    PROVE  DialogsIInv'
<1> DEFINE w == [dialogs[d] EXCEPT !.result = result, !.posts = @ \ {result}, !.acked = TRUE]
<1>1. dialogs[d] \in DialogRec /\ result \in dialogs[d].posts
  BY Facts DEF DialogsIInv, on_hbdrun_action
<1>2. dialogs' = [dialogs EXCEPT ![d] = w]
  <2>1. dialogs' = [SetResult(d, result) EXCEPT ![d].posts = @ \ {result}, ![d].acked = TRUE]
    BY DEF on_hbdrun_action
  <2>2. DOMAIN dialogs = Places
    BY DEF DialogsIInv, TypeOK
  <2>3. QED
    BY <1>1, <2>1, <2>2 DEF SetResult, DialogRec
<1>3. /\ w \in DialogRec /\ w.posts = dialogs[d].posts \ {result} /\ w.result = result
      /\ w.view = dialogs[d].view /\ w.kind = dialogs[d].kind
      /\ w.app = dialogs[d].app /\ w.born = dialogs[d].born
  BY <1>1 DEF DialogRec
<1> HIDE DEF w
<1>4. Turned(d, w)
  BY <1>2, <1>3, PageTurned DEF DialogsIInv
<1>5. UNCHANGED <<manners, registry, stack, pagesOpen, confirm_infos, dnssd_rdr_list, consents,
                  misread>>
  BY DEF on_hbdrun_action
<1>6. ASSUME NEW r \in w.posts \cup ({w.result} \ {Nil})
      PROVE  Meant(w, r, consents)
  BY <1>1, <1>3, <1>6, PageMeant DEF Meant
<1>7. w.result # Nil
  BY <1>3, Constants
<1>8. consents \subseteq consents' /\ consents' \subseteq Consents
  BY <1>5 DEF DialogsIInv, TypeOK
<1>9. QED
  BY <1>3, <1>4, <1>5, <1>6, <1>7, <1>8, TurnStep

\* A page closes, by itself or with its window.
LEMMA CloseStep ==
    ASSUME DialogsIInv, NEW d \in Places, PageCloses(d) \/ UserClosesFrame(d)
    PROVE  DialogsIInv'
<1> DEFINE w == IF Waits(d) THEN [NoDialog EXCEPT !.view = "freed"] ELSE NoDialog
<1>1. /\ dialogs' = [dialogs EXCEPT ![d] = w]
      /\ UNCHANGED <<manners, registry, stack, pagesOpen, confirm_infos, dnssd_rdr_list,
                     consents, misread>>
  BY DEF PageCloses, UserClosesFrame, Closed
<1>2. /\ w \in DialogRec /\ w.posts = {} /\ w.result = Nil /\ ~w.acked
      /\ Waits(d) => w.view = "freed"
  BY Constants DEF NoDialog, DialogRec
<1> HIDE DEF w
<1>3. Turned(d, w)
  BY <1>1, <1>2, PageTurned DEF DialogsIInv
<1>4. "meanwhile" \notin manners /\ Waits(d) => "frames" \in manners
  <2>1. ASSUME "meanwhile" \notin manners, Waits(d), PageCloses(d)
        PROVE  FALSE
    BY <2>1, PageWaits DEF PageCloses
  <2>2. QED
    BY <2>1 DEF UserClosesFrame
<1>5. consents \subseteq consents' /\ consents' \subseteq Consents
  BY <1>1 DEF DialogsIInv, TypeOK
<1>6. QED
  BY <1>1, <1>2, <1>3, <1>4, <1>5, TurnStep

-----------------------------------------------------------------------------
(***************************************************************************)
(* The innermost function goes on.                                         *)
(***************************************************************************)
\* What the function that returns knows: the user meant its answer for the
\* endpoint that it asked about.
Answered(kind, result) ==
    /\ Innermost \in Entries /\ Innermost.kind = kind /\ Innermost.e \in Refs
    /\ Innermost.e.e \in Addresses /\ Innermost.d \in Places
    /\ result # "Decline" =>
          \E c \in consents : /\ c.app = Innermost.e.app /\ c.born = Innermost.e.born
                              /\ result = "AcceptAlways" => c.always
    /\ "reuse" \notin manners => Fresh(Innermost.e)
    /\ kind = "dup" /\ manners \cap {"reuse", "unstarted"} = {} => Begun(Innermost.e)
    /\ kind = "confirm" /\ "meanwhile" \notin manners => ~Gone(Innermost.e)

LEMMA ReturnsAnswered ==
    ASSUME DialogsIInv, NEW kind, NEW result, Returns(kind, result)
    PROVE  Answered(kind, result)
<1> DEFINE i == Len(stack)
<1>1. stack # <<>> /\ i \in 1..Len(stack) /\ Innermost = stack[i]
  BY Facts, EmptySeq DEF Returns, DialogsIInv, TypeOK, Innermost
<1> HIDE DEF i
<1>2. /\ Innermost \in Entries /\ Innermost.kind = kind /\ Innermost.e \in Refs
      /\ Innermost.e.e \in Addresses /\ Innermost.d \in Places
      /\ dialogs[Innermost.d].view = "open"
      /\ result = dialogs[Innermost.d].result /\ result # Nil
  BY <1>1, Facts DEF DialogsIInv, Returns
<1>3. /\ dialogs[Innermost.d].app = Innermost.e.app
      /\ dialogs[Innermost.d].born = Innermost.e.born
  BY <1>1, <1>2 DEF DialogsIInv, PagesAsk
<1>4. Meant(dialogs[Innermost.d], result, consents)
  BY <1>2, PageMeant
<1>5. /\ "reuse" \notin manners => Fresh(Innermost.e)
      /\ kind = "dup" /\ manners \cap {"reuse", "unstarted"} = {} => Begun(Innermost.e)
  BY <1>1, <1>2 DEF DialogsIInv, RefsFresh, ChosenBegun
<1>6. kind = "confirm" /\ "meanwhile" \notin manners => ~Gone(Innermost.e)
  BY <1>1, <1>2 DEF DialogsIInv, OneQuestion
<1>7. QED
  BY <1>2, <1>3, <1>4, <1>5, <1>6 DEF Answered, Meant

\* The innermost function is taken from the stack.
LEMMA Popped ==
    ASSUME NEW S, NEW s \in Seq(S), s # <<>>
    PROVE  LET t == SubSeq(s, 1, Len(s) - 1)
           IN /\ Len(s) \in Nat \ {0} /\ t \in Seq(S) /\ Len(t) = Len(s) - 1
              /\ \A i \in 1..Len(t) : i \in 1..Len(s) /\ t[i] = s[i]
<1> DEFINE n == Len(s) - 1
           t == SubSeq(s, 1, n)
<1>1. Len(s) \in Nat \ {0}
  BY EmptySeq
<1>2. n \in Nat /\ n <= Len(s) /\ \A i \in 1..n : i \in 1..Len(s) /\ 1 + i - 1 = i
  BY <1>1
<1> HIDE DEF n
<1>3. \A i \in 1..n : s[i] \in S
  BY <1>2, ElementOfSeq
<1>4. t \in Seq(S)
  BY <1>2, SubSeqProperties
<1>5. Len(t) = n /\ \A i \in 1..n : t[i] = s[i]
  BY <1>2
<1>6. QED
  BY <1>1, <1>2, <1>4, <1>5 DEF n

LEMMA ReturnStep ==
    ASSUME DialogsIInv, NEW kind, NEW result, Returns(kind, result),
           ep' \in [Addresses -> EpRec],
           \A f \in Addresses : \/ ep'[f] = ep[f]
                                \/ Same(f, ep'[f])
                                \/ ep'[f].state = "free",
           \A f \in Addresses : ep'[f] # ep[f] /\ ep'[f].state = "listed" =>
                                   /\ ep'[f].via \in {"signed", "picked"}
                                   /\ "reuse" \notin manners => Consented(ep'[f]),
           confirm_infos' \subseteq Apps,
           "reuse" \notin manners =>
              \A app \in confirm_infos' \ confirm_infos :
                 \E c \in consents : c.app = app /\ c.always,
           misread' \in DialogsWrongs \cup {Nil}, NothingFreedIsRead'
    PROVE  DialogsIInv'
<1> DEFINE d == Innermost.d
           w == [dialogs[d] EXCEPT !.result = Nil]
<1>1. /\ UNCHANGED <<manners, births, chooser, timer, runners, dnssd_rdr_list, consents>>
      /\ dialogs' = [dialogs EXCEPT ![d] = w] /\ stack' = SubSeq(stack, 1, Len(stack) - 1)
      /\ stack # <<>>
  BY DEF Returns, pagesOpen
<1>2. d \in Places /\ dialogs[d] \in DialogRec /\ stack \in Seq(Entries)
  BY ReturnsAnswered, Facts DEF Answered, DialogsIInv, TypeOK
<1>3. /\ w \in DialogRec /\ w.result = Nil /\ w.posts = dialogs[d].posts
      /\ w.view = dialogs[d].view /\ w.kind = dialogs[d].kind
      /\ w.app = dialogs[d].app /\ w.born = dialogs[d].born
  BY <1>2 DEF DialogRec
<1> HIDE DEF w, d
<1>4. /\ dialogs' \in [Places -> DialogRec] /\ dialogs'[d] = w
      /\ \A n \in Places : n # d => dialogs'[n] = dialogs[n]
  BY <1>1, <1>2, <1>3 DEF DialogsIInv, TypeOK
<1>5. /\ Len(stack) \in Nat \ {0} /\ stack' \in Seq(Entries) /\ Len(stack') = Len(stack) - 1
      /\ \A i \in 1..Len(stack') : i \in 1..Len(stack) /\ stack'[i] = stack[i]
  BY <1>1, <1>2, Popped
<1>6. TypeOK'
  BY <1>1, <1>4, <1>5 DEF DialogsIInv, TypeOK
<1>7. EndpointsMade' /\ RunnersKnown'
  BY <1>1 DEF DialogsIInv, EndpointsMade, RunnersKnown, Same
<1>8. PagesAsk'
  <2>1. \A n \in Places : /\ dialogs'[n].view = dialogs[n].view /\ dialogs'[n].kind = dialogs[n].kind
                          /\ dialogs'[n].app = dialogs[n].app /\ dialogs'[n].born = dialogs[n].born
    BY <1>3, <1>4
  <2>2. \A i \in 1..Len(stack) : stack[i].d \in Places
    BY Facts DEF DialogsIInv
  <2>3. QED
    BY <1>5, <2>1, <2>2 DEF DialogsIInv, PagesAsk
<1>9. AnswersMeant'
  <2> SUFFICES ASSUME NEW n \in Places,
                      NEW r \in dialogs'[n].posts \cup ({dialogs'[n].result} \ {Nil})
               PROVE  Meant(dialogs'[n], r, consents)
    BY <1>1 DEF AnswersMeant, Meant
  <2>1. /\ r \in dialogs[n].posts \cup ({dialogs[n].result} \ {Nil})
        /\ dialogs'[n].app = dialogs[n].app /\ dialogs'[n].born = dialogs[n].born
    BY <1>3, <1>4
  <2>2. QED
    BY <2>1, PageMeant DEF Meant
<1>10. \A ref \in Refs : (Fresh(ref) => Fresh(ref)') /\ (Begun(ref) => Begun(ref)')
  <2> SUFFICES ASSUME NEW ref \in Refs
               PROVE  (Fresh(ref) => Fresh(ref)') /\ (Begun(ref) => Begun(ref)')
    OBVIOUS
  <2>1. ref.e \in Addresses
    BY DEF Refs
  <2>2. QED
    BY <2>1 DEF Fresh, Begun, Same
<1>11. /\ \A i \in 1..Len(stack) : stack[i].e \in Refs
       /\ \A ref \in chooser : ref \in Refs
       /\ timer # Nil => timer \in Refs
  BY Facts DEF DialogsIInv
<1>12. RefsFresh'
  <2> SUFFICES ASSUME "reuse" \notin manners
               PROVE  /\ \A i \in 1..Len(stack') : Fresh(stack[i].e)'
                      /\ \A ref \in chooser : Fresh(ref)'
                      /\ timer # Nil => Fresh(timer)'
    BY <1>1, <1>5 DEF RefsFresh, Fresh
  <2>1. /\ \A i \in 1..Len(stack) : Fresh(stack[i].e)
        /\ \A ref \in chooser : Fresh(ref)
        /\ timer # Nil => Fresh(timer)
    BY DEF DialogsIInv, RefsFresh
  <2>2. \A i \in 1..Len(stack) : ep'[stack[i].e.e].state = "free" \/ (/\ ep'[stack[i].e.e].born = stack[i].e.born
                                                                     /\ ep'[stack[i].e.e].app = stack[i].e.app)
    BY <1>10, <1>11, <2>1 DEF Fresh
  <2>3. QED
    BY <1>1, <1>5, <1>10, <1>11, <2>1, <2>2 DEF Fresh
<1>13. ChosenBegun'
  <2> SUFFICES ASSUME manners \cap {"reuse", "unstarted"} = {}
               PROVE  /\ \A i \in 1..Len(stack') : stack'[i].kind = "dup" =>
                             ep'[stack'[i].e.e].state = "free" \/ ep'[stack'[i].e.e].started
                      /\ \A ref \in chooser : ep'[ref.e].state = "free" \/ ep'[ref.e].started
    BY <1>1 DEF ChosenBegun, Begun
  <2>1. /\ \A i \in 1..Len(stack) : stack[i].kind = "dup" => Begun(stack[i].e)
        /\ \A ref \in chooser : Begun(ref)
    BY DEF DialogsIInv, ChosenBegun
  <2>2. \A ref \in Refs : Begun(ref) => ep'[ref.e].state = "free" \/ ep'[ref.e].started
    BY <1>10 DEF Begun
  <2>3. QED
    BY <1>5, <1>11, <2>1, <2>2
<1>14. OneQuestion'
  <2> SUFFICES ASSUME "meanwhile" \notin manners'
               PROVE  Len(stack') <= 1 /\ timer' = Nil /\ \A i \in 1..Len(stack') : FALSE
    BY DEF OneQuestion
  <2>1. "meanwhile" \notin manners
    BY <1>1
  <2>2. Len(stack) <= 1 /\ timer = Nil
    BY <1>1, <2>1 DEF DialogsIInv, OneQuestion
  <2>3. Len(stack') = 0
    BY <1>5, <2>2
  <2>4. QED
    BY <1>1, <2>2, <2>3
<1>15. OnlyConsented'
  <2>1. ASSUME "reuse" \notin manners
        PROVE  /\ \A app \in confirm_infos' : \E c \in consents : c.app = app /\ c.always
               /\ \A f \in Addresses : ep'[f].state = "listed" => Consented(ep'[f])
    <3>1. \A app \in confirm_infos : \E c \in consents : c.app = app /\ c.always
      BY <2>1 DEF DialogsIInv, OnlyConsented
    <3>2. \A f \in Addresses : ep[f].state = "listed" => Consented(ep[f])
      BY <2>1 DEF DialogsIInv, OnlyConsented, Consented, Listed
    <3>3. QED
      BY <2>1, <3>1, <3>2
  <2>2. \A f \in Addresses : ep'[f].state = "listed" /\ ep'[f].via \in {"first", "pulled"} =>
                                 ep'[f] = ep[f]
    OBVIOUS
  <2>3. /\ \A f, g \in Addresses : /\ ep'[f].state = "listed" /\ ep'[f].via = "first"
                                    /\ ep'[g].state = "listed" /\ ep'[g].via = "first"
                                    => f = g
        /\ \A f \in Addresses : ep'[f].state = "listed" => Unasked(ep'[f])
    BY <2>2 DEF DialogsIInv, OnlyConsented, Unasked, Listed
  <2>4. QED
    BY <1>1, <2>1, <2>3 DEF OnlyConsented, Unasked, Consented, Listed
<1>16. QED
  BY <1>6, <1>7, <1>8, <1>9, <1>12, <1>13, <1>14, <1>15 DEF DialogsIInv

\* Listing an endpoint that waits.
LEMMA ListsEndpoint ==
    ASSUME DialogsIInv, NEW e \in Addresses, e \in Dangling,
           NEW via \in {"signed", "picked"}, Lists(e, via)
    PROVE  /\ ep' \in [Addresses -> EpRec]
           /\ Same(e, ep'[e]) /\ ep'[e].via = via
           /\ \A f \in Addresses : f # e => ep'[f] = ep[f]
<1> DEFINE x == [ep[e] EXCEPT !.state = "listed", !.started = TRUE, !.via = via]
<1>1. ep[e] \in EpRec /\ ep[e].state = "dangling"
  BY Facts DEF DialogsIInv, Dangling
<1>2. /\ x \in EpRec /\ x.state = "listed" /\ x.app = ep[e].app /\ x.born = ep[e].born
      /\ x.started /\ x.via = via
  BY <1>1 DEF EpRec
<1>3. ep' = [ep EXCEPT ![e] = x]
  BY DEF Lists, DialogsIInv, TypeOK
<1> HIDE DEF x
<1>4. QED
  BY <1>1, <1>2, <1>3 DEF DialogsIInv, TypeOK, Same

LEMMA ConfirmReturns ==
    ASSUME DialogsIInv, misread = Nil, NEW result, xgutils_show_confirm_window(result)
    PROVE  DialogsIInv'
<1> DEFINE ref == Innermost.e
<1>1. /\ Returns("confirm", result)
      /\ confirm_infos' = IF result = "AcceptAlways" THEN confirm_infos \cup {ref.app}
                          ELSE confirm_infos
  BY DEF xgutils_show_confirm_window
<1>2. Answered("confirm", result)
  BY <1>1, ReturnsAnswered
<1>3. ref \in Refs /\ ref.e \in Addresses /\ ref.app \in Apps
  BY <1>2 DEF Answered, Refs
<1>4. /\ confirm_infos' \subseteq Apps
      /\ \A app \in confirm_infos' \ confirm_infos : \E c \in consents : c.app = app /\ c.always
  <2>1. confirm_infos \subseteq Apps
    BY DEF DialogsIInv, TypeOK
  <2>2. result = "AcceptAlways" => \E c \in consents : c.app = ref.app /\ c.always
    BY <1>2 DEF Answered
  <2>3. QED
    BY <1>1, <1>3, <2>1, <2>2
<1>5. CASE Gone(ref)
  <2>1. misread' = "endpoint" /\ ep' = ep
    BY <1>5 DEF xgutils_show_confirm_window
  <2>2. "meanwhile" \in manners
    BY <1>2, <1>5 DEF Answered
  <2>3. NothingFreedIsRead' /\ misread' \in DialogsWrongs \cup {Nil}
    BY <1>1, <2>1, <2>2 DEF NothingFreedIsRead, Returns, DialogsWrongs
  <2>4. ep' \in [Addresses -> EpRec]
    BY <2>1 DEF DialogsIInv, TypeOK
  <2>5. QED
    BY <1>1, <1>4, <2>1, <2>3, <2>4, ReturnStep
<1>6. CASE ~Gone(ref)
  <2>1. misread' = misread /\ UNCHANGED manners
    BY <1>1, <1>6 DEF xgutils_show_confirm_window, Returns
  <2>2. NothingFreedIsRead' /\ misread' \in DialogsWrongs \cup {Nil}
    BY <2>1 DEF DialogsIInv, NothingFreedIsRead, TypeOK
  <2>3. CASE result # "Decline" /\ ref.e \in Dangling
    <3>1. Lists(ref.e, "signed")
      BY <1>6, <2>3 DEF xgutils_show_confirm_window
    <3>2. /\ ep' \in [Addresses -> EpRec]
          /\ Same(ref.e, ep'[ref.e]) /\ ep'[ref.e].via = "signed"
          /\ \A f \in Addresses : f # ref.e => ep'[f] = ep[f]
      BY <1>3, <2>3, <3>1, ListsEndpoint
    <3>3. "reuse" \notin manners => Consented(ep'[ref.e])
      <4>1. "reuse" \notin manners => ep[ref.e].born = ref.born /\ ep[ref.e].app = ref.app
        BY <1>2, <2>3 DEF Answered, Fresh, Dangling
      <4>2. QED
        BY <1>2, <2>3, <3>2, <4>1 DEF Answered, Consented, Same
    <3>4. QED
      BY <1>1, <1>4, <2>2, <3>2, <3>3, ReturnStep
  <2>4. CASE ~(result # "Decline" /\ ref.e \in Dangling)
    <3>1. ep' = ep /\ ep' \in [Addresses -> EpRec]
      BY <1>6, <2>4 DEF xgutils_show_confirm_window, DialogsIInv, TypeOK
    <3>2. QED
      BY <1>1, <1>4, <2>2, <3>1, ReturnStep
  <2>5. QED
    BY <2>3, <2>4
<1>7. QED
  BY <1>5, <1>6

LEMMA DupReturns ==
    ASSUME DialogsIInv, misread = Nil, NEW result, xgutils_show_dup_confirm_window(result)
    PROVE  DialogsIInv'
<1> DEFINE ref == Innermost.e
<1>1. /\ Returns("dup", result) /\ confirm_infos' = confirm_infos
      /\ result = "Decline" => UNCHANGED <<ep, misread>>
      /\ result # "Decline" => accept_endpoint(ref.e, "picked")
  BY DEF xgutils_show_dup_confirm_window
<1>2. Answered("dup", result)
  BY <1>1, ReturnsAnswered
<1>3. ref \in Refs /\ ref.e \in Addresses /\ confirm_infos' \subseteq Apps /\ UNCHANGED manners
  BY <1>1, <1>2 DEF Answered, Refs, DialogsIInv, TypeOK, Returns
<1>4. CASE result = "Decline" \/ ref.e \notin Dangling
  <2>1. /\ UNCHANGED <<ep, misread>> /\ ep' \in [Addresses -> EpRec]
        /\ NothingFreedIsRead' /\ misread' \in DialogsWrongs \cup {Nil}
    BY <1>1, <1>3, <1>4 DEF accept_endpoint, DialogsIInv, TypeOK, NothingFreedIsRead
  <2>2. QED
    BY <1>1, <1>3, <2>1, ReturnStep
<1>5. CASE result # "Decline" /\ ref.e \in Dangling /\ ~ep[ref.e].started
  <2>1. misread' = "unstarted" /\ ep' = ep /\ ep' \in [Addresses -> EpRec]
    BY <1>1, <1>5 DEF accept_endpoint, DialogsIInv, TypeOK
  <2>2. manners \cap {"unstarted", "reuse"} # {}
    BY <1>2, <1>5 DEF Answered, Begun, Dangling
  <2>3. NothingFreedIsRead' /\ misread' \in DialogsWrongs \cup {Nil}
    BY <1>3, <2>1, <2>2 DEF NothingFreedIsRead, DialogsWrongs
  <2>4. QED
    BY <1>1, <1>3, <2>1, <2>3, ReturnStep
<1>6. CASE result # "Decline" /\ ref.e \in Dangling /\ ep[ref.e].started
  <2>1. Lists(ref.e, "picked") /\ misread' = misread
    BY <1>1, <1>6 DEF accept_endpoint
  <2>2. NothingFreedIsRead' /\ misread' \in DialogsWrongs \cup {Nil}
    BY <1>3, <2>1 DEF DialogsIInv, NothingFreedIsRead, TypeOK
  <2>3. /\ ep' \in [Addresses -> EpRec]
        /\ Same(ref.e, ep'[ref.e]) /\ ep'[ref.e].via = "picked"
        /\ \A f \in Addresses : f # ref.e => ep'[f] = ep[f]
    BY <1>3, <1>6, <2>1, ListsEndpoint
  <2>4. "reuse" \notin manners => Consented(ep'[ref.e])
    <3>1. "reuse" \notin manners => ep[ref.e].born = ref.born
      BY <1>2, <1>6 DEF Answered, Fresh, Dangling
    <3>2. QED
      BY <1>2, <1>6, <2>3, <3>1 DEF Answered, Consented, Same
  <2>5. QED
    BY <1>1, <1>3, <2>2, <2>3, <2>4, ReturnStep
<1>7. QED
  BY <1>4, <1>5, <1>6

LEMMA CloseReturns ==
    ASSUME DialogsIInv, NEW result, xgutils_show_dup_close_confirm_window(result)
    PROVE  DialogsIInv'
<1> DEFINE e == Innermost.e.e
<1>1. /\ Returns("close", result) /\ UNCHANGED <<confirm_infos, misread>>
      /\ ep' = ep \/ ep' = [ep EXCEPT ![e] = NoEndpoint]
  BY DEF xgutils_show_dup_close_confirm_window
<1>2. NoEndpoint \in EpRec /\ NoEndpoint.state = "free" /\ e \in Addresses
  BY <1>1, ReturnsAnswered, Empty, EmptyTypes DEF Answered
<1>3. /\ ep' \in [Addresses -> EpRec]
      /\ \A f \in Addresses : ep'[f] = ep[f] \/ ep'[f].state = "free"
  BY <1>1, <1>2 DEF DialogsIInv, TypeOK
<1>4. /\ confirm_infos' = confirm_infos /\ confirm_infos' \subseteq Apps
      /\ NothingFreedIsRead' /\ misread' \in DialogsWrongs \cup {Nil}
  BY <1>1 DEF DialogsIInv, TypeOK, NothingFreedIsRead, Returns
<1>5. QED
  BY <1>1, <1>3, <1>4, ReturnStep

LEMMA LoopStepIInv ==
    ASSUME DialogsIInv, misread = Nil, LoopStep
    PROVE  DialogsIInv'
<1>1. CASE LoopReadsFreed
  <2> DEFINE n == Len(stack)
  <2>1. /\ stack # <<>> /\ dialogs[Innermost.d].view = "freed" /\ misread' = "view"
        /\ UNCHANGED <<manners, births, ep, stack, dialogs, chooser, timer, runners, confirm_infos,
                       dnssd_rdr_list, consents>>
    BY <1>1 DEF LoopReadsFreed, registry, pagesOpen
  <2>2. n \in 1..Len(stack) /\ Innermost = stack[n]
    BY <2>1, Facts, EmptySeq DEF DialogsIInv, TypeOK, Innermost
  <2>3. manners \cap {"frames", "meanwhile"} # {}
    BY <2>1, <2>2 DEF DialogsIInv, OneQuestion
  <2>4. TypeOK'
    BY <2>1 DEF DialogsIInv, TypeOK, DialogsWrongs
  <2>5. EndpointsMade' /\ PagesAsk' /\ AnswersMeant' /\ RunnersKnown' /\ OnlyConsented'
    BY <2>1 DEF DialogsIInv, EndpointsMade, PagesAsk, AnswersMeant, RunnersKnown, OnlyConsented, Listed
  <2>6. RefsFresh' /\ ChosenBegun'
    BY <2>1 DEF DialogsIInv, RefsFresh, ChosenBegun, Fresh, Begun
  <2>7. OneQuestion'
    BY <2>1 DEF DialogsIInv, OneQuestion, Gone
  <2>8. NothingFreedIsRead'
    BY <2>1, <2>3 DEF NothingFreedIsRead
  <2>9. QED
    BY <2>4, <2>5, <2>6, <2>7, <2>8 DEF DialogsIInv
<1>2. QED
  BY <1>1, ConfirmReturns, DupReturns, CloseReturns DEF LoopStep

-----------------------------------------------------------------------------
(***************************************************************************)
(* Other renderers, and every step.                                        *)
(***************************************************************************)
LEMMA RenderersStep ==
    ASSUME DialogsIInv, NEW rdr,
           \/ xguipro_dnssd_on_service_discovered(rdr)
           \/ on_hbdrun_runners
           \/ on_hbdrun_action_switch_rdr(rdr)
    PROVE  DialogsIInv'
<1>1. /\ UNCHANGED <<manners, births, ep, stack, dialogs, chooser, timer, confirm_infos, consents>>
      /\ runners' \subseteq dnssd_rdr_list'
  BY DEF DialogsIInv, RunnersKnown, xguipro_dnssd_on_service_discovered, on_hbdrun_runners,
         on_hbdrun_action_switch_rdr, registry, pagesOpen
<1>2. misread' = misread
  BY DEF DialogsIInv, RunnersKnown, xguipro_dnssd_on_service_discovered, on_hbdrun_runners,
         on_hbdrun_action_switch_rdr
<1>3. /\ chooser' \subseteq Refs /\ timer' \in Refs \cup {Nil}
      /\ "reuse" \notin manners =>
            (\A ref \in chooser' : Fresh(ref)) /\ (timer' # Nil => Fresh(timer'))
      /\ manners \cap {"reuse", "unstarted"} = {} => \A ref \in chooser' : Begun(ref)
  BY <1>1 DEF DialogsIInv, TypeOK, RefsFresh, ChosenBegun
<1>4. QED
  BY <1>1, <1>2, <1>3, OpenStep

LEMMA ButtonsAnswer == \A kind : Buttons(kind) \subseteq Answers
BY DEF Buttons, Answers

LEMMA DialogsNextIInv ==
    ASSUME DialogsIInv, [DialogsNext]_dialogsVars
    PROVE  DialogsIInv'
<1>1. CASE UNCHANGED dialogsVars
  <2>1. UNCHANGED <<manners, births, ep, stack, dialogs, chooser, timer, confirm_infos,
                    dnssd_rdr_list, runners, consents, misread>>
    BY <1>1 DEF dialogsVars
  <2>2. TypeOK' /\ EndpointsMade' /\ PagesAsk' /\ AnswersMeant' /\ RunnersKnown'
    BY <2>1 DEF DialogsIInv, TypeOK, EndpointsMade, PagesAsk, AnswersMeant, RunnersKnown
  <2>3. RefsFresh' /\ ChosenBegun'
    BY <2>1 DEF DialogsIInv, RefsFresh, ChosenBegun, Fresh, Begun
  <2>4. OneQuestion' /\ OnlyConsented' /\ NothingFreedIsRead'
    BY <2>1 DEF DialogsIInv, OneQuestion, Gone, OnlyConsented, Listed, NothingFreedIsRead
  <2>5. QED
    BY <2>2, <2>3, <2>4 DEF DialogsIInv
<1>2. ASSUME NEW e \in Addresses, ClientStep(e)
      PROVE  DialogsIInv'
  BY <1>2, ClientsStep, AskConfirmStep DEF ClientStep
<1>3. CASE xgutils_on_floating_button_click \/ xgutils_pull_screen_cast
  BY <1>3, FloatingButtonStep, PullStep
<1>4. ASSUME NEW ref \in chooser, on_hbdrun_action_dup_choose(ref)
      PROVE  DialogsIInv'
  BY <1>4, ChosenStep
<1>5. CASE misread = Nil /\ TimerFires
  BY <1>5, TimerStep
<1>6. CASE misread = Nil /\ LoopStep
  BY <1>6, LoopStepIInv
<1>7. ASSUME NEW d \in Places, PageStep(d)
      PROVE  DialogsIInv'
  BY <1>7, CountdownStep, CloseStep, ActionStep, ButtonsAnswer DEF PageStep
<1>8. ASSUME NEW d \in Places,
             \/ UserClosesFrame(d)
             \/ \E result \in Buttons(dialogs[d].kind) : UserAnswers(d, result)
      PROVE  DialogsIInv'
  BY <1>8, CloseStep, UserAnswersStep, ButtonsAnswer
<1>9. CASE on_hbdrun_runners
  BY <1>9, RenderersStep
<1>10. ASSUME NEW rdr \in Renderers,
              xguipro_dnssd_on_service_discovered(rdr) \/ on_hbdrun_action_switch_rdr(rdr)
       PROVE  DialogsIInv'
  BY <1>10, RenderersStep
<1>11. QED
  BY <1>1, <1>2, <1>3, <1>4, <1>5, <1>6, <1>7, <1>8, <1>9, <1>10 DEF DialogsNext

-----------------------------------------------------------------------------
(***************************************************************************)
(* Theorems                                                                *)
(***************************************************************************)
\* What the functions that ask, the pages and the server's registry know of
\* each other (utils.c, HbdrunURISchema.c), for any number of endpoints,
\* questions and births, and any of the liberties.
THEOREM DialogsInvariance == DialogsSpec => []DialogsIInv
<1>1. DialogsInit => DialogsIInv
  BY InitIInv
<1>2. DialogsIInv /\ [DialogsNext]_dialogsVars => DialogsIInv'
  BY DialogsNextIInv
<1>3. QED
  BY <1>1, <1>2, PTL DEF DialogsSpec

\* Whoever authenticated with a signature or was picked is listed, and remembered,
\* as the user accepted it, whatever questions are open and in whatever order their
\* loops return.  With no question are listed who gave no signature, the only one
\* that on_start_session_duplicate accepted because the list was empty, over the
\* Unix socket, and whom xgutils_pull_screen_cast accepted.
THEOREM ListedAsAllowed == DialogsSpec => []OnlyConsented
<1>1. DialogsIInv => OnlyConsented
  BY DEF DialogsIInv
<1>2. QED
  BY <1>1, DialogsInvariance, PTL

\* An endpoint, a page's view or a discovered renderer is read after it went
\* only where the user has another question open, closes a window by its frame,
\* picks who did not start, or lets go of the endpoint himself.
THEOREM FreedIsReadOnlyByLiberty == DialogsSpec => []NothingFreedIsRead
<1>1. DialogsIInv => NothingFreedIsRead
  BY DEF DialogsIInv
<1>2. QED
  BY <1>1, DialogsInvariance, PTL

\* A page that asks, while its function waits for it, names the endpoint the
\* function will act on, and an answer in it is one the user gave to that name.
THEOREM AnswersAreForTheQuestion == DialogsSpec => [](PagesAsk /\ AnswersMeant)
<1>1. DialogsIInv => PagesAsk /\ AnswersMeant
  BY DEF DialogsIInv
<1>2. QED
  BY <1>1, DialogsInvariance, PTL

-----------------------------------------------------------------------------
(***************************************************************************)
(* ServerLoop: types                                                       *)
(***************************************************************************)
LoopWrongs == {"pending", "event", "status", "queue", "headers", "descriptor 0"}
ClientRec ==
    [ct : Types \cup {Nil}, fd : Fds \cup {0}, open : BOOLEAN, entity : BOOLEAN,
     queued : BOOLEAN, status : SUBSET {"SENDING", "CLOSE"}]
Watched == [ptr : Clients \cup {Nil}, out : BOOLEAN]
EventRec == [fd : {1, 2} \cup Fds, ptr : Clients \cup {Nil}, ev : SUBSET {"in", "out"}]

\* What the callbacks of the servers change.
IsServer(s) ==
    /\ DOMAIN s = {"client", "nr", "watch", "wrong"}
    /\ s.client \in [Clients -> ClientRec]
    /\ s.nr \in [Types -> Int]
    /\ {1, 2} \subseteq DOMAIN s.watch /\ DOMAIN s.watch \subseteq {1, 2} \cup Fds
    /\ s.watch \in [DOMAIN s.watch -> Watched]
    /\ s.wrong \in LoopWrongs \cup {Nil}

(***************************************************************************)
(* The inductive invariant                                                 *)
(***************************************************************************)
\* When the socket of x must and may be watched for room.
Armed(x, out) ==
    /\ "SENDING" \in x.status => out \/ "CLOSE" \in x.status
    /\ x.queued => out \/ "CLOSE" \in x.status \/ x.ct = "web"
    /\ out => x.status # {} \/ x.ct = "web"

\* A client has a descriptor that is its own: who is watched on it is the
\* client, except for those that the server has not begun to watch.
OwnDescriptor(s, new) ==
    /\ \A fd \in DOMAIN s.watch \ {1, 2} :
          /\ s.watch[fd].ptr \in Clients
          /\ s.client[s.watch[fd].ptr].open /\ s.client[s.watch[fd].ptr].fd = fd
    /\ \A c \in Clients : s.client[c].open =>
          /\ s.client[c].fd \in Fds
          /\ c \in new => s.client[c].fd \notin DOMAIN s.watch
          /\ c \notin new => /\ s.client[c].fd \in DOMAIN s.watch
                             /\ s.watch[s.client[c].fd].ptr = c
                             /\ Armed(s.client[c], s.watch[s.client[c].fd].out)

\* A server counts its clients.
Counted(s) == \A ct \in Types : s.nr[ct] = Cardinality(ClientsOf(s.client, ct))

\* A Unix client is to be closed by the loop only after a write that failed.
MayEnd(x) ==
    "CLOSE" \in x.status => x.ct = "web" \/ lib \cap {"breaks", "nomem"} # {}
EndsMeant(s) ==
    \A c \in Clients : s.client[c].open => s.client[c].ct \in Types /\ MayEnd(s.client[c])

Good(s, new) == IsServer(s) /\ OwnDescriptor(s, new) /\ Counted(s) /\ EndsMeant(s)

Limited(s) == \A ct \in Types : s.nr[ct] <= Limit

\* The events are for descriptors that are different and, unless a request
\* closes clients or there are two events of one, watched as they were.
BatchTypes ==
    \A i \in 1..Len(batch) : /\ batch[i] \in EventRec
                             /\ batch[i].fd \notin {1, 2} => batch[i].ptr \in Clients
Distinct == \A i, j \in 1..Len(batch) : i # j => batch[i].fd # batch[j].fd
Current ==
    lib \cap {"both", "confirms"} = {} =>
        \A i \in 1..Len(batch) : /\ batch[i].ev # {"in", "out"}
                                 /\ batch[i].fd \in DOMAIN watch
                                 /\ batch[i].ptr = watch[batch[i].fd].ptr

LoopIInv ==
    /\ lib \in LoopLiberties /\ mode \in Multiplexers
    /\ batch \in Seq(EventRec)
    /\ wrong \in LoopWrongs \cup {Nil}
    /\ wrong = Nil => /\ Good(Server, {}) /\ Limited(Server)
                      /\ BatchTypes /\ Distinct /\ Current
    /\ wrong = "event" => lib \cap {"both", "confirms"} # {}
    /\ wrong = "status" => lib \cap {"breaks", "nomem"} # {}
    /\ wrong = "queue" => "nomem" \in lib
    /\ wrong = "pending" => mode = "select" \/ "full" \in lib
    /\ wrong = "headers" => "accesslog" \in lib
    /\ wrong = "descriptor 0" => "blocking" \in lib

-----------------------------------------------------------------------------
(***************************************************************************)
(* The callbacks of the servers                                            *)
(***************************************************************************)
LEMMA Assumed ==
    /\ Cardinality(Clients) \in Nat /\ Nil \notin Clients /\ Nil \notin LoopWrongs
    /\ Limit \in Nat \ {0}
    /\ Fds \subseteq Nat /\ Fds \cap {1, 2} = {} /\ 0 \notin Fds /\ 0 \notin {1, 2}
    /\ IsFiniteSet(Fds) /\ Cardinality(Fds) = Cardinality(Clients)
<1> DEFINE n == Cardinality(Clients)
<1>1. n \in Nat
  BY FS_CardinalityType, LoopAssumption
<1>2. Fds = 3..(n + 2)
  BY DEF Fds
<1> HIDE DEF n
<1>3. 3 \in Int /\ n + 2 \in Int
  BY <1>1
<1>4. IsFiniteSet(Fds) /\ Cardinality(Fds) = IF 3 > n + 2 THEN 0 ELSE (n + 2) - 3 + 1
  BY <1>2, <1>3, FS_Interval, Zenon
<1>5. Cardinality(Fds) = n
  BY <1>1, <1>4
<1>6. Fds \subseteq Nat /\ Fds \cap {1, 2} = {} /\ 0 \notin Fds
  BY <1>1, <1>2
<1>7. Nil \notin Clients /\ Nil \notin LoopWrongs /\ Limit \in Nat \ {0}
  BY LoopAssumption DEF LoopWrongs
<1>8. QED
  BY <1>1, <1>4, <1>5, <1>6, <1>7 DEF n

\* While an address is free so is a descriptor, which nobody watches.
LEMMA FreeFdIsFree ==
    ASSUME Good(Server, {}), NEW c \in Clients, ~client[c].open
    PROVE  /\ FreeFd \in Fds /\ FreeFd \notin DOMAIN watch
           /\ \A d \in Clients : client[d].open => client[d].fd # FreeFd
<1> DEFINE O == {d \in Clients : client[d].open}
           U == {client[d].fd : d \in O}
           f == [fd \in Fds |-> watch[fd].ptr]
<1>0. Server.client = client /\ Server.watch = watch
  BY DEF Server
<1>1. /\ \A d \in Clients : client[d].open =>
             client[d].fd \in DOMAIN watch /\ watch[client[d].fd].ptr = d
      /\ \A fd \in DOMAIN watch \ {1, 2} :
             watch[fd].ptr \in Clients /\ client[watch[fd].ptr].open /\ client[watch[fd].ptr].fd = fd
  BY <1>0 DEF Good, OwnDescriptor
<1>2. IsFiniteSet(O) /\ Cardinality(O) < Cardinality(Clients)
  <2>1. IsFiniteSet(Clients)
    BY LoopAssumption
  <2>2. O \in SUBSET Clients /\ O # Clients
    OBVIOUS
  <2> HIDE DEF O
  <2>3. /\ IsFiniteSet(O) /\ Cardinality(O) <= Cardinality(Clients)
        /\ Cardinality(Clients) # Cardinality(O)
    BY <2>1, <2>2, FS_Subset
  <2>4. Cardinality(O) \in Nat /\ Cardinality(Clients) \in Nat
    BY <2>1, <2>3, FS_CardinalityType
  <2>5. QED
    BY <2>3, <2>4
<1>3. Fds \ U # {}
  <2> SUFFICES ASSUME Fds \subseteq U
               PROVE  FALSE
    OBVIOUS
  <2>1. \A fd \in Fds : watch[fd].ptr \in O /\ client[watch[fd].ptr].fd = fd
    BY <1>1
  <2>2. f \in [Fds -> O]
    BY <2>1
  <2>3. \A a, b \in Fds : f[a] = f[b] => a = b
    BY <2>1
  <2> HIDE DEF f, O
  <2>4. Cardinality(Fds) > Cardinality(O)
    BY <1>2, Assumed
  <2>5. IsFiniteSet(O) /\ IsFiniteSet(Fds)
    BY <1>2, Assumed
  <2>6. \E a, b \in Fds : a # b /\ f[a] = f[b]
    BY <2>2, <2>4, <2>5, FS_PigeonHole
  <2>7. QED
    BY <2>3, <2>6
<1>4. FreeFd = Min(Fds \ U)
  BY DEF FreeFd
<1> HIDE DEF U
<1>5. FreeFd \in Fds \ U
  BY <1>3, <1>4, Assumed, LeastOf
<1>6. \A d \in Clients : client[d].open => client[d].fd # FreeFd
  BY <1>5 DEF U
<1>7. QED
  BY <1>1, <1>5, <1>6, Assumed

\* What a client does that concerns neither its descriptor nor what is sent.
LEMMA ClientChanges ==
    ASSUME NEW s, NEW new, Good(s, new), NEW c \in Clients, NEW x \in ClientRec,
           s.client[c].open,
           x.ct = s.client[c].ct, x.fd = s.client[c].fd, x.open, x.queued = s.client[c].queued,
           x.status = s.client[c].status
    PROVE  Good([s EXCEPT !.client[c] = x], new)
<1> DEFINE cs == [s.client EXCEPT ![c] = x]
           t == [s EXCEPT !.client[c] = x]
<1>1. IsServer(s)
  BY DEF Good
<1>2. cs \in [Clients -> ClientRec] /\ cs[c] = x /\ \A d \in Clients : d # c => cs[d] = s.client[d]
  BY <1>1 DEF IsServer
<1>3. /\ DOMAIN t = DOMAIN s
      /\ t.client = cs /\ t.nr = s.nr /\ t.watch = s.watch /\ t.wrong = s.wrong
  BY <1>1 DEF IsServer
<1> HIDE DEF cs, t
<1>4. IsServer(t)
  BY <1>1, <1>2, <1>3 DEF IsServer
<1>5. OwnDescriptor(t, new)
  BY <1>2, <1>3 DEF Good, OwnDescriptor, Armed
<1>6. \A ct : ClientsOf(t.client, ct) = ClientsOf(s.client, ct)
  BY <1>2, <1>3 DEF ClientsOf
<1>7. Counted(t)
  BY <1>3, <1>6 DEF Good, Counted
<1>8. EndsMeant(t)
  BY <1>2, <1>3 DEF Good, EndsMeant, MayEnd
<1>9. QED
  BY <1>4, <1>5, <1>7, <1>8 DEF Good, t

\* A client is accepted: it has a descriptor that is not watched yet.
IsNew(s, ct, c) ==
    /\ Good(s, {c}) /\ s.client[c] \in ClientRec
    /\ s.client[c].ct = ct /\ s.client[c].fd = FreeFd /\ s.client[c].open
    /\ ~s.client[c].queued /\ s.client[c].status = {}
    /\ s.watch = watch /\ s.wrong = wrong
    /\ \A other \in Types \ {ct} : s.nr[other] = nr_clients[other]
    /\ s.nr[ct] = nr_clients[ct] + 1

LEMMA NewIsGood ==
    ASSUME Good(Server, {}), NEW ct \in Types, NEW c \in Clients, client[c] = Free
    PROVE  IsNew(New(ct, c), ct, c)
<1> DEFINE x == [Free EXCEPT !.ct = ct, !.fd = FreeFd, !.open = TRUE]
           cs == [client EXCEPT ![c] = x]
           nrs == [nr_clients EXCEPT ![ct] = @ + 1]
           t == New(ct, c)
<1>1. /\ client \in [Clients -> ClientRec] /\ nr_clients \in [Types -> Int]
      /\ IsServer(Server) /\ Server.client = client /\ Server.nr = nr_clients
      /\ Server.watch = watch /\ Server.wrong = wrong
  BY DEF Good, IsServer, Server
<1>2. ~client[c].open
  BY DEF Free
<1>3. /\ FreeFd \in Fds /\ FreeFd \notin DOMAIN watch
      /\ \A d \in Clients : client[d].open => client[d].fd # FreeFd
  BY <1>2, FreeFdIsFree
<1>4. /\ x \in ClientRec /\ x.open /\ x.fd = FreeFd /\ x.ct = ct /\ ~x.queued /\ x.status = {}
  BY <1>3 DEF Free, ClientRec
<1>5. DOMAIN t = DOMAIN Server
  BY DEF New
<1>6. t.client = cs /\ t.nr = nrs /\ t.watch = watch /\ t.wrong = wrong
  BY DEF New, Server
<1> HIDE DEF x, t
<1>7. cs \in [Clients -> ClientRec] /\ cs[c] = x /\ \A d \in Clients : d # c => cs[d] = client[d]
  BY <1>1, <1>4
<1>8. nrs \in [Types -> Int] /\ nrs[ct] = nr_clients[ct] + 1
      /\ \A other \in Types : other # ct => nrs[other] = nr_clients[other]
  BY <1>1
<1> HIDE DEF cs, nrs
<1>9. IsServer(t)
  BY <1>1, <1>5, <1>6, <1>7, <1>8 DEF IsServer
<1>10. OwnDescriptor(t, {c})
  <2>1. OwnDescriptor(Server, {})
    BY DEF Good
  <2>2. \A fd \in DOMAIN watch \ {1, 2} : watch[fd].ptr # c
    BY <1>1, <1>2, <2>1 DEF OwnDescriptor
  <2>3. QED
    BY <1>1, <1>3, <1>4, <1>6, <1>7, <2>1, <2>2 DEF OwnDescriptor
<1>11. Counted(t)
  <2>1. ClientsOf(cs, ct) = ClientsOf(client, ct) \cup {c} /\ c \notin ClientsOf(client, ct)
    BY <1>2, <1>4, <1>7 DEF ClientsOf
  <2>2. \A other \in Types : other # ct => ClientsOf(cs, other) = ClientsOf(client, other)
    BY <1>2, <1>4, <1>7 DEF ClientsOf
  <2>3. IsFiniteSet(ClientsOf(client, ct))
    BY FS_Subset, LoopAssumption DEF ClientsOf
  <2>4. Cardinality(ClientsOf(cs, ct)) = Cardinality(ClientsOf(client, ct)) + 1
    BY <2>1, <2>3, FS_AddElement
  <2>5. \A other \in Types : nr_clients[other] = Cardinality(ClientsOf(client, other))
    BY <1>1 DEF Good, Counted
  <2>6. QED
    BY <1>6, <1>8, <2>2, <2>4, <2>5 DEF Counted
<1>12. EndsMeant(t)
  BY <1>1, <1>4, <1>6, <1>7 DEF Good, EndsMeant, MayEnd
<1>13. Good(t, {c})
  BY <1>9, <1>10, <1>11, <1>12 DEF Good
<1>14. QED
  BY <1>4, <1>6, <1>7, <1>8, <1>13 DEF t, IsNew

\* The descriptor of the new client is watched.
LEMMA ListenIsGood ==
    ASSUME NEW s, NEW c \in Clients, Good(s, {c}),
           s.client[c].open, ~s.client[c].queued, s.client[c].status = {}
    PROVE  /\ Good(Listen(s, c, FALSE), {})
           /\ Listen(s, c, FALSE).nr = s.nr /\ Listen(s, c, FALSE).wrong = s.wrong
           /\ \A fd \in DOMAIN s.watch : /\ fd \in DOMAIN Listen(s, c, FALSE).watch
                                         /\ Listen(s, c, FALSE).watch[fd] = s.watch[fd]
<1> DEFINE fd == s.client[c].fd
           w == [f \in DOMAIN s.watch \cup {fd} |->
                   IF f = fd THEN [ptr |-> c, out |-> FALSE] ELSE s.watch[f]]
           t == Listen(s, c, FALSE)
<1>1. IsServer(s) /\ fd \in Fds /\ fd \notin DOMAIN s.watch /\ fd \notin {1, 2}
  BY Assumed DEF Good, OwnDescriptor
<1>2. t = [s EXCEPT !.watch = w]
  BY DEF Listen
<1>3. /\ DOMAIN t = DOMAIN s
      /\ t.client = s.client /\ t.nr = s.nr /\ t.watch = w /\ t.wrong = s.wrong
  BY <1>1, <1>2 DEF IsServer
<1> HIDE DEF t
<1>4. /\ DOMAIN w = DOMAIN s.watch \cup {fd} /\ w[fd].ptr = c /\ w[fd].out = FALSE
      /\ w \in [DOMAIN w -> Watched]
      /\ \A f \in DOMAIN s.watch : w[f] = s.watch[f]
  BY <1>1 DEF IsServer, Watched
<1> HIDE DEF w
<1>5. IsServer(t)
  BY <1>1, <1>2, <1>3, <1>4 DEF IsServer
<1>6. OwnDescriptor(t, {})
  <2>1. OwnDescriptor(s, {c}) /\ Armed(s.client[c], FALSE)
    BY DEF Good, Armed
  <2>2. \A d \in Clients \ {c} : s.client[d].open => s.client[d].fd \in DOMAIN s.watch
    BY <2>1 DEF OwnDescriptor
  <2>3. \A f \in DOMAIN w \ {1, 2} : w[f].ptr \in Clients /\ s.client[w[f].ptr].open
                                     /\ s.client[w[f].ptr].fd = f
    BY <1>4, <2>1 DEF OwnDescriptor
  <2>4. \A d \in Clients : s.client[d].open =>
           /\ s.client[d].fd \in Fds /\ s.client[d].fd \in DOMAIN w
           /\ w[s.client[d].fd].ptr = d /\ Armed(s.client[d], w[s.client[d].fd].out)
    <3>1. /\ s.client[c].fd \in Fds /\ s.client[c].fd \in DOMAIN w
          /\ w[s.client[c].fd].ptr = c /\ Armed(s.client[c], w[s.client[c].fd].out)
      BY <1>1, <1>4, <2>1
    <3>2. \A d \in Clients \ {c} : s.client[d].open =>
             /\ s.client[d].fd \in Fds /\ s.client[d].fd \in DOMAIN w
             /\ w[s.client[d].fd].ptr = d /\ Armed(s.client[d], w[s.client[d].fd].out)
      BY <1>4, <2>1, <2>2 DEF OwnDescriptor
    <3>3. QED
      BY <3>1, <3>2
  <2>5. QED
    BY <1>3, <2>3, <2>4 DEF OwnDescriptor
<1>7. Counted(t) /\ EndsMeant(t)
  BY <1>3 DEF Good, Counted, EndsMeant
<1>8. QED
  BY <1>3, <1>4, <1>5, <1>6, <1>7 DEF Good, t

\* A client is cleaned up, whether it was watched or not.
LEMMA CleanupIsGood ==
    ASSUME NEW s, NEW c \in Clients, NEW new \in SUBSET {c}, Good(s, new),
           s.client[c].open
    PROVE  LET t == Cleanup(s, c)
           IN  /\ Good(t, {}) /\ t.wrong = s.wrong
               /\ \A d \in Clients : d # c => t.client[d] = s.client[d]
               /\ \A ct \in Types : t.nr[ct] <= s.nr[ct]
               /\ t.nr[s.client[c].ct] = s.nr[s.client[c].ct] - 1
               /\ \A fd \in DOMAIN s.watch : fd # s.client[c].fd =>
                                                fd \in DOMAIN t.watch /\ t.watch[fd] = s.watch[fd]
<1> DEFINE fd == s.client[c].fd
           ct == s.client[c].ct
           w == [f \in DOMAIN s.watch \ {fd} |-> s.watch[f]]
           x == IF ct = "unix" THEN Free ELSE [Free EXCEPT !.ct = ct]
           cs == [s.client EXCEPT ![c] = x]
           nrs == [s.nr EXCEPT ![ct] = @ - 1]
           off == on_close(s, c)
           t == Cleanup(s, c)
<1>1. IsServer(s) /\ fd \in Fds /\ fd \notin {1, 2} /\ ct \in Types /\ s.client[c] \in ClientRec
  BY Assumed DEF Good, OwnDescriptor, EndsMeant, IsServer
<1>2. off = [s EXCEPT !.watch = w]
  BY DEF on_close, Restrict
<1>3. /\ DOMAIN off = DOMAIN s /\ off.client = s.client /\ off.nr = s.nr /\ off.watch = w
      /\ off.wrong = s.wrong
  BY <1>1, <1>2 DEF IsServer
<1> HIDE DEF off, w
<1>4. /\ DOMAIN t = DOMAIN s
      /\ t.client = cs /\ t.nr = nrs /\ t.watch = w /\ t.wrong = s.wrong
  <2>1. t = [off EXCEPT !.client = cs, !.nr = nrs]
    BY <1>3 DEF Cleanup, off
  <2> HIDE DEF t, cs, nrs
  <2>2. QED
    BY <1>1, <1>3, <2>1 DEF IsServer
<1>5. x \in ClientRec /\ ~x.open
  BY <1>1 DEF Free, ClientRec
<1> HIDE DEF x, t
<1>6. cs \in [Clients -> ClientRec] /\ cs[c] = x /\ \A d \in Clients : d # c => cs[d] = s.client[d]
  BY <1>1, <1>5 DEF IsServer
<1>7. nrs \in [Types -> Int] /\ nrs[ct] = s.nr[ct] - 1
      /\ \A other \in Types : other # ct => nrs[other] = s.nr[other]
  BY <1>1 DEF IsServer
<1>8. /\ DOMAIN w = DOMAIN s.watch \ {fd} /\ w \in [DOMAIN w -> Watched]
      /\ \A f \in DOMAIN w : w[f] = s.watch[f]
  BY <1>1 DEF IsServer, w
<1> HIDE DEF cs, nrs, w
<1>9. IsServer(t)
  BY <1>1, <1>3, <1>4, <1>6, <1>7, <1>8 DEF IsServer
<1>10. OwnDescriptor(t, {})
  <2>1. OwnDescriptor(s, new) /\ \A d \in Clients : d # c => d \notin new
    BY DEF Good
  <2>2. \A f \in DOMAIN w \ {1, 2} : /\ w[f] = s.watch[f] /\ f # fd /\ s.watch[f].ptr # c
                                     /\ s.watch[f].ptr \in Clients
    BY <1>8, <2>1 DEF OwnDescriptor
  <2>3. \A d \in Clients \ {c} : s.client[d].open =>
                                    s.client[d].fd \in DOMAIN s.watch /\ s.client[d].fd # fd
    <3>1. fd \in DOMAIN s.watch => s.watch[fd].ptr = c
      BY <2>1 DEF OwnDescriptor
    <3>2. QED
      BY <2>1, <3>1 DEF OwnDescriptor
  <2>4. QED
    BY <1>4, <1>5, <1>6, <1>8, <2>1, <2>2, <2>3 DEF OwnDescriptor
<1>11. Counted(t)
  <2>1. ClientsOf(cs, ct) = ClientsOf(s.client, ct) \ {c} /\ c \in ClientsOf(s.client, ct)
    BY <1>5, <1>6 DEF ClientsOf
  <2>2. \A other \in Types : other # ct => ClientsOf(cs, other) = ClientsOf(s.client, other)
    BY <1>5, <1>6 DEF ClientsOf
  <2>3. IsFiniteSet(ClientsOf(s.client, ct))
    BY FS_Subset, LoopAssumption DEF ClientsOf
  <2>4. Cardinality(ClientsOf(cs, ct)) = Cardinality(ClientsOf(s.client, ct)) - 1
    BY <2>1, <2>3, FS_RemoveElement
  <2>5. \A other \in Types : s.nr[other] = Cardinality(ClientsOf(s.client, other))
    BY DEF Good, Counted
  <2>6. QED
    BY <1>1, <1>4, <1>7, <2>2, <2>4, <2>5 DEF Counted
<1>12. EndsMeant(t)
  BY <1>4, <1>5, <1>6 DEF Good, EndsMeant
<1>13. Good(t, {})
  BY <1>9, <1>10, <1>11, <1>12 DEF Good
<1>14. \A other \in Types : nrs[other] <= s.nr[other]
  BY <1>1, <1>7 DEF IsServer
<1>15. QED
  BY <1>4, <1>6, <1>7, <1>8, <1>13, <1>14 DEF t

-----------------------------------------------------------------------------
(***************************************************************************)
(* Sending                                                                 *)
(***************************************************************************)
\* Client c is y now.
Put(s, c, y) == [s EXCEPT !.client[c] = y]

\* The same client in its place, with another status and queue.
Goes(x, y) == y \in ClientRec /\ y.ct = x.ct /\ y.fd = x.fd /\ y.open = x.open

\* The server goes on, and so does client c, whose place is the same.
Remains(s, c, t) ==
    /\ Good(t, {}) /\ t.wrong = s.wrong /\ t.nr = s.nr
    /\ t.client[c].open /\ t.client[c].fd = s.client[c].fd /\ t.client[c].ct = s.client[c].ct
    /\ \A fd \in DOMAIN s.watch : fd \in DOMAIN t.watch /\ t.watch[fd].ptr = s.watch[fd].ptr

\* What a client is, has queued, and is watched for change as they should.
LEMMA ChangeIsKept ==
    ASSUME NEW s, Good(s, {}), NEW c \in Clients, s.client[c].open,
           NEW x, Goes(s.client[c], x), MayEnd(x), NEW out \in BOOLEAN, Armed(x, out),
           NEW t, DOMAIN t = DOMAIN s,
           t.client = [s.client EXCEPT ![c] = x],
           t.watch = [s.watch EXCEPT ![s.client[c].fd] =
                        [s.watch[s.client[c].fd] EXCEPT !.out = out]],
           t.nr = s.nr, t.wrong = s.wrong
    PROVE  Remains(s, c, t)
<1> DEFINE cs == [s.client EXCEPT ![c] = x]
           fd == s.client[c].fd
           y == [s.watch[fd] EXCEPT !.out = out]
           w == [s.watch EXCEPT ![fd] = y]
<1>1. /\ IsServer(s) /\ OwnDescriptor(s, {}) /\ Counted(s) /\ EndsMeant(s)
      /\ s.client[c] \in ClientRec /\ s.watch \in [DOMAIN s.watch -> Watched]
  BY DEF Good, IsServer
<1>2. fd \in Fds /\ fd \in DOMAIN s.watch /\ fd \notin {1, 2} /\ s.watch[fd].ptr = c
      /\ s.watch[fd] \in Watched
  BY <1>1, Assumed DEF OwnDescriptor
<1>3. x \in ClientRec /\ x.fd = fd /\ x.ct = s.client[c].ct /\ x.open
  BY DEF Goes
<1>4. y \in Watched /\ y.ptr = c /\ y.out = out
  BY <1>2 DEF Watched
<1>5. t.client = cs /\ t.watch = w
  OBVIOUS
<1> HIDE DEF y
<1>6. cs \in [Clients -> ClientRec] /\ cs[c] = x /\ \A d \in Clients : d # c => cs[d] = s.client[d]
  BY <1>1, <1>3 DEF IsServer
<1>7. /\ DOMAIN w = DOMAIN s.watch /\ w \in [DOMAIN w -> Watched] /\ w[fd] = y
      /\ \A f \in DOMAIN w : f # fd => w[f] = s.watch[f]
  BY <1>1, <1>2, <1>4
<1> HIDE DEF cs, w
<1>8. IsServer(t)
  BY <1>1, <1>5, <1>6, <1>7 DEF IsServer
<1>9. OwnDescriptor(t, {})
  <2>1. ASSUME NEW f \in DOMAIN w \ {1, 2}
        PROVE  w[f].ptr \in Clients /\ cs[w[f].ptr].open /\ cs[w[f].ptr].fd = f
    <3>1. CASE f = fd
      BY <1>3, <1>4, <1>6, <1>7, <3>1
    <3>2. CASE f # fd
      <4>1. /\ w[f] = s.watch[f] /\ s.watch[f].ptr \in Clients
            /\ s.client[s.watch[f].ptr].open /\ s.client[s.watch[f].ptr].fd = f
        BY <1>1, <1>7, <3>2 DEF OwnDescriptor
      <4>2. s.watch[f].ptr # c
        BY <3>2, <4>1
      <4>3. QED
        BY <1>6, <4>1, <4>2
    <3>3. QED
      BY <3>1, <3>2
  <2>2. cs[c].fd \in Fds /\ cs[c].fd \in DOMAIN w /\ w[cs[c].fd].ptr = c /\ Armed(cs[c], w[cs[c].fd].out)
    BY <1>2, <1>3, <1>4, <1>6, <1>7
  <2>3. \A d \in Clients : d # c /\ s.client[d].open => s.client[d].fd # fd
    BY <1>1, <1>2 DEF OwnDescriptor
  <2>4. \A d \in Clients : d # c /\ cs[d].open =>
           /\ cs[d].fd \in Fds /\ cs[d].fd \in DOMAIN w
           /\ w[cs[d].fd].ptr = d /\ Armed(cs[d], w[cs[d].fd].out)
    BY <1>1, <1>6, <1>7, <2>3 DEF OwnDescriptor
  <2>5. QED
    BY <1>5, <2>1, <2>2, <2>4 DEF OwnDescriptor
<1>10. Counted(t)
  <2>1. \A ct \in Types : ClientsOf(cs, ct) = ClientsOf(s.client, ct)
    BY <1>3, <1>6 DEF ClientsOf
  <2>2. QED
    BY <1>1, <1>5, <2>1 DEF Counted
<1>11. EndsMeant(t)
  BY <1>1, <1>3, <1>5, <1>6 DEF EndsMeant
<1>12. \A f \in DOMAIN s.watch : f \in DOMAIN w /\ w[f].ptr = s.watch[f].ptr
  BY <1>2, <1>4, <1>7
<1>13. QED
  BY <1>3, <1>5, <1>6, <1>8, <1>9, <1>10, <1>11, <1>12 DEF Good, Remains

\* What is known of a client that is watched.
LEMMA IsArmed ==
    ASSUME NEW s, Good(s, {}), NEW c \in Clients, s.client[c].open
    PROVE  LET x == s.client[c]
           IN  /\ x \in ClientRec /\ x.ct \in Types /\ x.open /\ MayEnd(x)
               /\ x.fd \in DOMAIN s.watch /\ s.watch[x.fd].out \in BOOLEAN
               /\ Armed(x, s.watch[x.fd].out)
<1>1. /\ s.client[c] \in ClientRec /\ s.watch \in [DOMAIN s.watch -> Watched]
      /\ s.client[c].fd \in DOMAIN s.watch
  BY DEF Good, IsServer, OwnDescriptor
<1>2. s.watch[s.client[c].fd].out \in BOOLEAN
  BY <1>1 DEF Watched
<1>3. QED
  BY <1>1, <1>2 DEF Good, OwnDescriptor, EndsMeant

\* The status or the queue of a client changes, and not what is watched.
LEMMA PutIsKept ==
    ASSUME NEW s, Good(s, {}), NEW c \in Clients, s.client[c].open,
           NEW x, Goes(s.client[c], x), MayEnd(x), Armed(x, s.watch[s.client[c].fd].out)
    PROVE  Remains(s, c, Put(s, c, x))
<1> DEFINE fd == s.client[c].fd
           out == s.watch[fd].out
           t == Put(s, c, x)
<1>1. /\ DOMAIN s = {"client", "nr", "watch", "wrong"} /\ s.watch \in [DOMAIN s.watch -> Watched]
      /\ fd \in DOMAIN s.watch /\ out \in BOOLEAN
  BY IsArmed DEF Good, IsServer
<1>2. /\ DOMAIN t = DOMAIN s /\ t.client = [s.client EXCEPT ![c] = x]
      /\ t.nr = s.nr /\ t.wrong = s.wrong /\ t.watch = s.watch
  BY <1>1 DEF Put
<1>3. s.watch[fd] = [s.watch[fd] EXCEPT !.out = out]
  <2>1. s.watch[fd] \in Watched
    BY <1>1
  <2>2. QED
    BY <2>1 DEF Watched
<1>4. s.watch = [s.watch EXCEPT ![fd] = [s.watch[fd] EXCEPT !.out = out]]
  BY <1>1, <1>3
<1> HIDE DEF t
<1>5. QED
  BY <1>1, <1>2, <1>4, ChangeIsKept DEF t

LEMMA PutTwice ==
    ASSUME NEW s, IsServer(s), NEW c \in Clients, NEW x, NEW y
    PROVE  /\ Put(s, c, x).client[c] = x /\ Put(Put(s, c, x), c, y) = Put(s, c, y)
           /\ Put(s, c, x).wrong = s.wrong /\ Put(s, c, x).watch = s.watch
           /\ DOMAIN Put(s, c, x) = DOMAIN s
BY DEF Put, IsServer

LEMMA StatusPut ==
    ASSUME NEW s, NEW c, NEW flags
    PROVE  WithStatus(s, c, flags) = Put(s, c, [s.client[c] EXCEPT !.status = flags])
BY DEF WithStatus, Put

\* The flags of a client alone changes.
LEMMA StatusIsKept ==
    ASSUME NEW s, Good(s, {}), NEW c \in Clients, s.client[c].open,
           NEW flags \in SUBSET {"SENDING", "CLOSE"},
           LET x == [s.client[c] EXCEPT !.status = flags]
           IN  MayEnd(x) /\ Armed(x, s.watch[s.client[c].fd].out)
    PROVE  Remains(s, c, WithStatus(s, c, flags))
<1> DEFINE x == [s.client[c] EXCEPT !.status = flags]
<1>1. s.client[c] \in ClientRec
  BY IsArmed
<1>2. Goes(s.client[c], x)
  BY <1>1 DEF Goes, ClientRec
<1>3. QED
  BY <1>2, PutIsKept, StatusPut

\* What is to wait for room is watched for it.
LEMMA QueueIsKept ==
    ASSUME NEW s, Good(s, {}), NEW c \in Clients, s.client[c].open,
           mode = "epoll" \/ "CLOSE" \in s.client[c].status
    PROVE  Remains(s, c, Queue(s, c))
<1> DEFINE x == [s.client[c] EXCEPT !.queued = TRUE, !.status = @ \cup {"SENDING"}]
           fd == s.client[c].fd
           r == [s EXCEPT !.client[c].queued = TRUE, !.client[c].status = @ \cup {"SENDING"}]
           t == Queue(s, c)
<1>1. /\ IsServer(s) /\ fd \in DOMAIN s.watch /\ s.client[c] \in ClientRec
      /\ MayEnd(s.client[c])
  BY IsArmed DEF Good
<1>2. r = Put(s, c, x)
  BY <1>1 DEF Put, IsServer, ClientRec
<1>3. /\ Goes(s.client[c], x) /\ x.queued /\ x.status = s.client[c].status \cup {"SENDING"}
      /\ x.fd = fd
  BY <1>1 DEF Goes, ClientRec
<1>4. MayEnd(x)
  BY <1>1, <1>3 DEF MayEnd, Goes
<1> HIDE DEF r, x
<1>5. CASE "CLOSE" \in s.client[c].status
  <2>1. t = r
    BY <1>5 DEF Queue, r
  <2>2. Armed(x, s.watch[fd].out)
    BY <1>3, <1>5 DEF Armed
  <2>3. QED
    BY <1>2, <1>3, <1>4, <2>1, <2>2, PutIsKept
<1>6. CASE "CLOSE" \notin s.client[c].status
  <2>1. t = on_pending(r, c) /\ mode = "epoll"
    BY <1>6 DEF Queue, r
  <2>2. /\ DOMAIN r = {"client", "nr", "watch", "wrong"} /\ r.client = [s.client EXCEPT ![c] = x]
        /\ r.nr = s.nr /\ r.watch = s.watch /\ r.wrong = s.wrong /\ r.client[c].fd = fd
    BY <1>1, <1>2, <1>3 DEF Put, IsServer
  <2>3. t = [r EXCEPT !.watch[fd].out = TRUE]
    BY <1>1, <2>1, <2>2 DEF on_pending
  <2>4. /\ DOMAIN t = DOMAIN s /\ t.client = r.client /\ t.nr = s.nr /\ t.wrong = s.wrong
        /\ t.watch = [s.watch EXCEPT ![fd] = [s.watch[fd] EXCEPT !.out = TRUE]]
    BY <1>1, <2>2, <2>3 DEF IsServer
  <2>5. Armed(x, TRUE) /\ TRUE \in BOOLEAN
    BY <1>3 DEF Armed
  <2> HIDE DEF t
  <2>6. QED
    BY <1>3, <1>4, <2>2, <2>4, <2>5, ChangeIsKept DEF t
<1>7. QED
  BY <1>5, <1>6

LEMMA QueueFails ==
    ASSUME NEW s, IsServer(s), NEW c \in Clients, "CLOSE" \notin s.client[c].status,
           mode = "select" \/ s.client[c].fd \notin DOMAIN s.watch
    PROVE  Queue(s, c).wrong = "pending" /\ "wrong" \in DOMAIN Queue(s, c)
<1> DEFINE r == [s EXCEPT !.client[c].queued = TRUE, !.client[c].status = @ \cup {"SENDING"}]
<1>1. /\ DOMAIN r = {"client", "nr", "watch", "wrong"} /\ r.watch = s.watch
      /\ r.client[c].fd = s.client[c].fd
  BY DEF IsServer, ClientRec
<1>2. Queue(s, c) = on_pending(r, c)
  BY DEF Queue
<1> HIDE DEF r
<1>3. QED
  BY <1>1, <1>2 DEF on_pending

\* All that was queued has gone: what the client is then.
LEMMA FlushPut ==
    ASSUME NEW s, Good(s, {}), NEW c \in Clients, s.client[c].open
    PROVE  \E x : /\ Flush(s, c) = Put(s, c, x) /\ Goes(s.client[c], x) /\ MayEnd(x)
                  /\ Armed(x, s.watch[s.client[c].fd].out)
<1> DEFINE x == [s.client[c] EXCEPT !.queued = FALSE]
           y == [x EXCEPT !.status = {"CLOSE"}]
           t == [s EXCEPT !.client[c].queued = FALSE]
<1>1. /\ IsServer(s) /\ s.client[c] \in ClientRec
      /\ MayEnd(s.client[c]) /\ Armed(s.client[c], s.watch[s.client[c].fd].out)
  BY IsArmed DEF Good
<1>2. /\ Goes(s.client[c], x) /\ ~x.queued /\ x.status = s.client[c].status
      /\ Goes(s.client[c], y) /\ ~y.queued /\ y.status = {"CLOSE"}
      /\ x.ct = s.client[c].ct /\ y.ct = s.client[c].ct
  BY <1>1 DEF Goes, ClientRec
<1>3. MayEnd(x) /\ Armed(x, s.watch[s.client[c].fd].out)
  BY <1>1, <1>2 DEF MayEnd, Armed
<1>4. /\ y.ct = "web" => MayEnd(y)
      /\ Armed(y, s.watch[s.client[c].fd].out)
  BY <1>2 DEF MayEnd, Armed
<1>5. t = Put(s, c, x)
  BY DEF Put
<1>6. WithStatus(t, c, {"CLOSE"}) = Put(s, c, y)
  <2>1. t.client[c] = x
    BY <1>1 DEF IsServer
  <2> HIDE DEF t, x
  <2>2. WithStatus(t, c, {"CLOSE"}) = Put(t, c, [t.client[c] EXCEPT !.status = {"CLOSE"}])
    BY StatusPut
  <2>3. QED
    BY <1>1, <1>5, <2>1, <2>2, PutTwice
<1> HIDE DEF x, y
<1>7. \/ Flush(s, c) = t
      \/ Flush(s, c) = WithStatus(t, c, {"CLOSE"}) /\ s.client[c].ct = "web"
  BY DEF Flush
<1>8. QED
  BY <1>2, <1>3, <1>4, <1>5, <1>6, <1>7

\* A write goes on or ends the behaviour for a reason.
Breaks(t) ==
    /\ "wrong" \in DOMAIN t
    /\ \/ t.wrong = "pending" /\ mode = "select"
       \/ t.wrong = "queue" /\ "nomem" \in lib

LEMMA NoMemoryStep ==
    ASSUME NEW s, Good(s, {}), NEW c \in Clients, s.client[c].open, "nomem" \in lib
    PROVE  Remains(s, c, NoMemory(s, c)) \/ Breaks(NoMemory(s, c))
<1> DEFINE x == [s.client[c] EXCEPT !.queued = FALSE]
           y == [x EXCEPT !.status = {"CLOSE"}]
           t == [s EXCEPT !.client[c].queued = FALSE]
<1>1. IsServer(s) /\ s.client[c] \in ClientRec
  BY IsArmed DEF Good
<1>2. CASE s.client[c].ct = "web" /\ ~s.client[c].queued
  BY <1>1, <1>2 DEF NoMemory, Breaks, IsServer
<1>3. CASE ~(s.client[c].ct = "web" /\ ~s.client[c].queued)
  <2>1. Goes(s.client[c], y) /\ ~y.queued /\ y.status = {"CLOSE"}
    BY <1>1 DEF Goes, ClientRec
  <2>2. t = Put(s, c, x)
    BY DEF Put
  <2>3. WithStatus(t, c, {"CLOSE"}) = Put(s, c, y)
    <3>1. t.client[c] = x
      BY <1>1 DEF IsServer
    <3> HIDE DEF t, x
    <3>2. WithStatus(t, c, {"CLOSE"}) = Put(t, c, [t.client[c] EXCEPT !.status = {"CLOSE"}])
      BY StatusPut
    <3>3. QED
      BY <1>1, <2>2, <3>1, <3>2, PutTwice
  <2>4. NoMemory(s, c) = Put(s, c, y)
    BY <1>3, <2>3 DEF NoMemory
  <2> HIDE DEF y
  <2>5. MayEnd(y) /\ Armed(y, s.watch[s.client[c].fd].out)
    BY <2>1 DEF MayEnd, Armed
  <2>6. QED
    BY <2>1, <2>4, <2>5, PutIsKept
<1>4. QED
  BY <1>2, <1>3

LEMMA WriteStep ==
    ASSUME NEW s, Good(s, {}), NEW c \in Clients, s.client[c].open, NEW t \in Write(s, c),
           mode \in {"epoll", "select"}
    PROVE  Remains(s, c, t) \/ Breaks(t)
<1>1. /\ s.client[c] \in ClientRec /\ s.client[c].ct \in Types
      /\ MayEnd(s.client[c]) /\ Armed(s.client[c], s.watch[s.client[c].fd].out)
  BY IsArmed
<1>2. Remains(s, c, s)
  BY DEF Remains
<1>3. ASSUME t = Extend(s, c), s.client[c].queued
      PROVE  Remains(s, c, t)
  <2> DEFINE x == [s.client[c] EXCEPT !.status = s.client[c].status \cup {"SENDING"}]
  <2>1. x.status = s.client[c].status \cup {"SENDING"} /\ x.queued = s.client[c].queued
        /\ x.ct = s.client[c].ct /\ s.client[c].status \cup {"SENDING"} \in SUBSET {"SENDING", "CLOSE"}
    BY <1>1 DEF ClientRec
  <2> HIDE DEF x
  <2>2. s.client[c].ct # "web" => MayEnd(x) /\ Armed(x, s.watch[s.client[c].fd].out)
    BY <1>1, <1>3, <2>1 DEF MayEnd, Armed
  <2>3. s.client[c].ct # "web" => Remains(s, c, WithStatus(s, c, s.client[c].status \cup {"SENDING"}))
    BY <2>1, <2>2, StatusIsKept DEF x
  <2>4. QED
    BY <1>2, <1>3, <2>3 DEF Extend
<1>4. ASSUME t = Flush(s, c)
      PROVE  Remains(s, c, t)
  BY <1>4, FlushPut, PutIsKept
<1>5. ASSUME t = Queue(s, c)
      PROVE  Remains(s, c, t) \/ Breaks(t)
  <2>1. CASE mode = "epoll" \/ "CLOSE" \in s.client[c].status
    BY <1>5, <2>1, QueueIsKept
  <2>2. CASE ~(mode = "epoll" \/ "CLOSE" \in s.client[c].status)
    BY <1>5, <2>2, QueueFails DEF Good, Breaks
  <2>3. QED
    BY <2>1, <2>2
<1>6. ASSUME t = WithStatus(s, c, {"CLOSE"}), "breaks" \in lib
      PROVE  Remains(s, c, t)
  <2> DEFINE x == [s.client[c] EXCEPT !.status = {"CLOSE"}]
  <2>1. x.status = {"CLOSE"} /\ {"CLOSE"} \in SUBSET {"SENDING", "CLOSE"}
    BY <1>1 DEF ClientRec
  <2> HIDE DEF x
  <2>2. MayEnd(x) /\ Armed(x, s.watch[s.client[c].fd].out)
    BY <1>6, <2>1 DEF MayEnd, Armed
  <2>3. QED
    BY <1>6, <2>1, <2>2, StatusIsKept DEF x
<1>7. ASSUME t = NoMemory(s, c), "nomem" \in lib
      PROVE  Remains(s, c, t) \/ Breaks(t)
  BY <1>7, NoMemoryStep
<1>8. QED
  BY <1>2, <1>3, <1>4, <1>5, <1>6, <1>7 DEF Write

LEMMA KeptTwice ==
    ASSUME NEW s, NEW c \in Clients, NEW t, NEW u, Remains(s, c, t), Remains(t, c, u)
    PROVE  Remains(s, c, u)
BY DEF Remains

\* So do two writes.
LEMMA SendsStep ==
    ASSUME NEW s, Good(s, {}), NEW c \in Clients, s.client[c].open, s.wrong = Nil,
           NEW t \in Sends(s, c), mode \in {"epoll", "select"}
    PROVE  Remains(s, c, t) \/ Breaks(t)
<1>1. PICK u \in Write(s, c) : t \in IF u.wrong = Nil THEN Write(u, c) ELSE {u}
  BY DEF Sends
<1>2. CASE Remains(s, c, u)
  <2>1. u.wrong = Nil /\ Good(u, {}) /\ u.client[c].open
    BY <1>2 DEF Remains
  <2>2. Remains(u, c, t) \/ Breaks(t)
    BY <1>1, <2>1, WriteStep
  <2>3. QED
    BY <1>2, <2>2, KeptTwice
<1>3. CASE Breaks(u)
  <2>1. u.wrong # Nil
    BY <1>3, Assumed DEF Breaks, LoopWrongs
  <2>2. QED
    BY <1>1, <1>3, <2>1
<1>4. QED
  BY <1>2, <1>3, WriteStep

-----------------------------------------------------------------------------
(***************************************************************************)
(* The steps of the loop                                                   *)
(***************************************************************************)
\* The behaviour ends with something wrong that has a reason.
Reasoned ==
    /\ wrong = "event" => lib \cap {"both", "confirms"} # {}
    /\ wrong = "status" => lib \cap {"breaks", "nomem"} # {}
    /\ wrong = "queue" => "nomem" \in lib
    /\ wrong = "pending" => mode = "select" \/ "full" \in lib
    /\ wrong = "headers" => "accesslog" \in lib
    /\ wrong = "descriptor 0" => "blocking" \in lib

\* Who is watched, but for the descriptors fds, is watched as before.
KeepsWatching(w, fds) ==
    \A fd \in DOMAIN watch \ fds : fd \in DOMAIN w /\ w[fd].ptr = watch[fd].ptr

BatchSound == BatchTypes /\ Distinct /\ Current

LEMMA LoopInit_IInv ==
    ASSUME LoopInit
    PROVE  LoopIInv
<1>1. Server = [client |-> client, nr |-> nr_clients, watch |-> watch, wrong |-> wrong]
  BY DEF Server
<1>2. /\ Server.client = client /\ Server.nr = nr_clients /\ Server.watch = watch
      /\ Server.wrong = wrong /\ DOMAIN Server = {"client", "nr", "watch", "wrong"}
  BY <1>1
<1>3. Free \in ClientRec /\ ~Free.open
  BY DEF Free, ClientRec
<1>4. IsServer(Server)
  BY <1>2, <1>3 DEF LoopInit, IsServer, Watched
<1>5. OwnDescriptor(Server, {}) /\ EndsMeant(Server)
  <2>1. \A c \in Clients : ~Server.client[c].open
    BY <1>2, <1>3 DEF LoopInit
  <2>2. DOMAIN Server.watch = {1, 2}
    BY <1>2 DEF LoopInit
  <2>3. QED
    BY <2>1, <2>2 DEF OwnDescriptor, EndsMeant
<1>6. Counted(Server) /\ Limited(Server)
  <2>1. \A ct \in Types : ClientsOf(client, ct) = {}
    BY <1>3 DEF LoopInit, ClientsOf
  <2>2. \A ct \in Types : Cardinality(ClientsOf(client, ct)) = 0
    BY <2>1, FS_EmptySet
  <2>3. QED
    BY <1>2, <2>2, Assumed DEF LoopInit, Counted, Limited
<1>7. batch = <<>> /\ batch \in Seq(EventRec) /\ Len(batch) = 0
  BY DEF LoopInit
<1>8. BatchTypes /\ Distinct /\ Current
  BY <1>7 DEF BatchTypes, Distinct, Current
<1>9. wrong = Nil /\ Nil \notin LoopWrongs
  BY Assumed DEF LoopInit
<1>10. QED
  BY <1>4, <1>5, <1>6, <1>7, <1>8, <1>9 DEF LoopInit, LoopIInv, Good, LoopWrongs

\* The behaviour goes on with what the servers are now.
LEMMA Settles ==
    ASSUME LoopIInv, wrong = Nil, NEW t, Becomes(t),
           Good(t, {}), Limited(t), t.wrong = Nil,
           batch' \in Seq(EventRec), BatchSound'
    PROVE  LoopIInv'
<1>1. /\ client' = t.client /\ nr_clients' = t.nr /\ watch' = t.watch /\ wrong' = t.wrong
      /\ lib' = lib /\ mode' = mode
  BY DEF Becomes
<1>2. /\ Server'.client = t.client /\ Server'.nr = t.nr /\ Server'.watch = t.watch
      /\ Server'.wrong = t.wrong /\ DOMAIN Server' = {"client", "nr", "watch", "wrong"}
  BY <1>1 DEF Server
<1>3. Good(Server, {})'
  <2>1. IsServer(Server)'
    BY <1>2 DEF Good, IsServer, Fds, Watched, ClientRec
  <2>2. OwnDescriptor(Server, {})'
    BY <1>2 DEF Good, OwnDescriptor, Armed, Fds
  <2>3. Counted(Server)' /\ EndsMeant(Server)'
    BY <1>1, <1>2 DEF Good, Counted, ClientsOf, EndsMeant, MayEnd
  <2>4. QED
    BY <2>1, <2>2, <2>3 DEF Good
<1>4. Limited(Server)'
  BY <1>2 DEF Limited
<1>5. QED
  BY <1>1, <1>3, <1>4, Assumed DEF LoopIInv, LoopWrongs, BatchSound

\* The behaviour ends.
LEMMA LoopEnds ==
    ASSUME LoopIInv, lib' = lib, mode' = mode, batch' \in Seq(EventRec),
           wrong' \in LoopWrongs, Reasoned'
    PROVE  LoopIInv'
BY Assumed DEF LoopIInv, Reasoned

\* The first event was handled.
LEMMA PopIsSound ==
    ASSUME LoopIInv, wrong = Nil, batch # <<>>, Pop, lib' = lib,
           lib \cap {"both", "confirms"} = {} => KeepsWatching(watch', {Event1.fd})
    PROVE  batch' \in Seq(EventRec) /\ BatchSound'
<1>1. /\ batch' \in Seq(EventRec) /\ Len(batch') = Len(batch) - 1 /\ Len(batch) \in Nat
      /\ \A i \in 1..Len(batch') : batch'[i] = batch[i + 1]
  <2>1. batch \in Seq(EventRec) /\ batch' = Tail(batch)
    BY DEF LoopIInv, Pop
  <2>2. Len(batch) \in Nat
    BY <2>1
  <2>3. /\ Tail(batch) \in Seq(EventRec) /\ Len(Tail(batch)) = Len(batch) - 1
        /\ \A i \in 1..Len(Tail(batch)) : Tail(batch)[i] = batch[i + 1]
    BY <2>1, HeadTailProperties
  <2>4. QED
    BY <2>1, <2>2, <2>3
<1>2. /\ \A i \in 1..Len(batch') : i + 1 \in 1..Len(batch) /\ i + 1 # 1
      /\ \A i, j \in 1..Len(batch') : i # j => i + 1 # j + 1
      /\ batch' # <<>> => 1 \in 1..Len(batch)
  BY <1>1
<1>3. BatchTypes'
  BY <1>1, <1>2 DEF LoopIInv, BatchTypes, EventRec, Fds
<1>4. Distinct'
  <2>1. \A i, j \in 1..Len(batch) : i # j => batch[i].fd # batch[j].fd
    BY DEF LoopIInv, Distinct
  <2>2. SUFFICES ASSUME NEW i \in 1..Len(batch'), NEW j \in 1..Len(batch'), i # j
                 PROVE  batch'[i].fd # batch'[j].fd
    BY DEF Distinct
  <2>3. /\ i + 1 \in 1..Len(batch) /\ j + 1 \in 1..Len(batch) /\ i + 1 # j + 1
        /\ batch'[i] = batch[i + 1] /\ batch'[j] = batch[j + 1]
    BY <1>1, <1>2, <2>2
  <2>4. batch[i + 1].fd # batch[j + 1].fd
    BY <2>1, <2>3, Zenon
  <2>5. QED
    BY <2>3, <2>4, Zenon
<1>5. Current'
  <2> SUFFICES ASSUME lib \cap {"both", "confirms"} = {}, NEW i \in 1..Len(batch')
               PROVE  /\ batch'[i].ev # {"in", "out"}
                      /\ batch'[i].fd \in DOMAIN watch'
                      /\ batch'[i].ptr = watch'[batch'[i].fd].ptr
    BY DEF Current
  <2>1. batch'[i] = batch[i + 1] /\ i + 1 \in 1..Len(batch) /\ 1 \in 1..Len(batch) /\ i + 1 # 1
    BY <1>1, <1>2
  <2>2. /\ batch[i + 1].ev # {"in", "out"} /\ batch[i + 1].fd \in DOMAIN watch
        /\ batch[i + 1].ptr = watch[batch[i + 1].fd].ptr
        /\ batch[i + 1].fd # batch[1].fd
    BY <2>1 DEF LoopIInv, Current, Distinct
  <2>3. QED
    BY <2>1, <2>2 DEF KeepsWatching, Event1
<1>6. QED
  BY <1>1, <1>3, <1>4, <1>5 DEF BatchSound

LEMMA ServerFields ==
    /\ Server.client = client /\ Server.nr = nr_clients /\ Server.watch = watch
    /\ Server.wrong = wrong
BY DEF Server

LEMMA WaitStep ==
    ASSUME LoopIInv, Wait
    PROVE  LoopIInv'
<1>1. /\ wrong = Nil /\ UNCHANGED <<lib, mode, client, nr_clients, watch, wrong>>
      /\ Good(Server, {}) /\ Limited(Server) /\ Server.wrong = Nil
  BY ServerFields DEF Wait, LoopIInv
<1>0. PICK fds \in SUBSET DOMAIN watch :
         \E order \in Orders(fds), ready \in [fds -> SUBSET {"in", "out"}] :
           /\ \A fd \in fds : ready[fd] \in Ready(fd)
           /\ batch' = [i \in DOMAIN order |-> Event(order[i], ready[order[i]])]
  BY DEF Wait
<1>2. PICK order \in Orders(fds), ready \in [fds -> SUBSET {"in", "out"}] :
         /\ \A fd \in fds : ready[fd] \in Ready(fd)
         /\ batch' = [i \in DOMAIN order |-> Event(order[i], ready[order[i]])]
  BY <1>0
<1> DEFINE n == Cardinality(fds)
<1>3. /\ watch \in [DOMAIN watch -> Watched] /\ DOMAIN watch \subseteq {1, 2} \cup Fds
      /\ \A fd \in DOMAIN watch \ {1, 2} : watch[fd].ptr \in Clients
  BY <1>1, ServerFields DEF Good, IsServer, OwnDescriptor
<1>4. n \in Nat
  <2>1. fds \subseteq {1, 2} \cup Fds
    BY <1>3
  <2>2. IsFiniteSet({1, 2}) /\ IsFiniteSet(Fds)
    <3>1. IsFiniteSet({1})
      BY FS_Singleton
    <3>2. IsFiniteSet({1} \cup {2})
      BY <3>1, FS_AddElement
    <3>3. {1} \cup {2} = {1, 2}
      OBVIOUS
    <3>4. QED
      BY <3>2, <3>3, Assumed
  <2>3. IsFiniteSet({1, 2} \cup Fds)
    BY <2>2, FS_Union
  <2>4. QED
    BY <2>1, <2>3, FS_Subset, FS_CardinalityType
<1>5. order \in [1..n -> fds] /\ \A i, j \in 1..n : i # j => order[i] # order[j]
  BY DEF Orders, SetToSeqs
<1> HIDE DEF n
<1>6. /\ batch' = [i \in 1..n |-> Event(order[i], ready[order[i]])]
      /\ \A i \in 1..n : order[i] \in fds
  BY <1>2, <1>5
<1>7. ASSUME NEW fd \in fds
      PROVE  LET e == Event(fd, ready[fd])
             IN  /\ e \in EventRec /\ e.fd = fd /\ e.ptr = watch[fd].ptr
                 /\ fd \notin {1, 2} => e.ptr \in Clients
                 /\ e.ev = {"in", "out"} => "both" \in lib
  BY <1>2, <1>3 DEF Event, EventRec, Ready, Watched
<1>8. batch' \in [1..n -> EventRec] /\ \A i \in 1..n : batch'[i] = Event(order[i], ready[order[i]])
  BY <1>6, <1>7
<1>9. batch' \in Seq(EventRec) /\ Len(batch') = n
  BY <1>4, <1>8
<1>10. BatchTypes'
  BY <1>6, <1>7, <1>8, <1>9 DEF BatchTypes, EventRec, Fds
<1>11. Distinct'
  <2>1. \A i \in 1..n : batch'[i].fd = order[i]
    BY <1>6, <1>7, <1>8
  <2>2. QED
    BY <1>5, <1>9, <2>1 DEF Distinct
<1>12. Current'
  <2> SUFFICES ASSUME lib \cap {"both", "confirms"} = {}, NEW i \in 1..n
               PROVE  /\ batch'[i].ev # {"in", "out"}
                      /\ batch'[i].fd \in DOMAIN watch
                      /\ batch'[i].ptr = watch[batch'[i].fd].ptr
    BY <1>1, <1>9 DEF Current
  <2>1. order[i] \in fds /\ batch'[i] = Event(order[i], ready[order[i]])
    BY <1>6, <1>8
  <2>2. QED
    BY <1>7, <2>1
<1>13. Becomes(Server)
  BY <1>1, ServerFields DEF Becomes
<1>14. QED
  BY <1>1, <1>9, <1>10, <1>11, <1>12, <1>13, Settles DEF BatchSound

LEMMA IdleStep ==
    ASSUME LoopIInv, NEW c \in Clients, IdleSecond(c)
    PROVE  LoopIInv'
<1>1. /\ wrong = Nil /\ batch = <<>> /\ batch' = batch /\ client[c].open
      /\ Good(Server, {}) /\ Limited(Server) /\ Server.wrong = Nil
      /\ Server.client[c].open
  BY ServerFields DEF IdleSecond, LoopIInv
<1>2. batch' \in Seq(EventRec) /\ Len(batch') = 0
  BY <1>1
<1>3. BatchSound'
  BY <1>2 DEF BatchSound, BatchTypes, Distinct, Current
<1>4. CASE Becomes(Cleanup(Server, c))
  <2>1. /\ Good(Cleanup(Server, c), {}) /\ Cleanup(Server, c).wrong = Nil
        /\ \A ct \in Types : Cleanup(Server, c).nr[ct] <= Server.nr[ct]
    BY <1>1, {} \in SUBSET {c}, CleanupIsGood
  <2>2. Limited(Cleanup(Server, c))
    BY <1>1, <2>1, Assumed DEF Limited, Good, IsServer
  <2>3. QED
    BY <1>1, <1>2, <1>3, <1>4, <2>1, <2>2, Settles
<1>5. mode \in {"epoll", "select"}
  BY LoopAssumption DEF LoopIInv
<1>6. ASSUME NEW t \in Sends(Server, c), Becomes(t)
      PROVE  LoopIInv'
  <2>1. CASE Remains(Server, c, t)
    <3>1. Good(t, {}) /\ t.wrong = Nil /\ Limited(t)
      BY <1>1, <2>1 DEF Remains, Limited
    <3>2. QED
      BY <1>1, <1>2, <1>3, <1>6, <3>1, Settles
  <2>2. CASE Breaks(t)
    <3>1. wrong' \in LoopWrongs /\ lib' = lib /\ mode' = mode /\ Reasoned'
      BY <1>6, <2>2 DEF Becomes, Breaks, LoopWrongs, Reasoned
    <3>2. QED
      BY <1>2, <3>1, LoopEnds
  <2>3. QED
    BY <1>1, <1>5, <1>6, <2>1, <2>2, SendsStep
<1>7. QED
  BY <1>4, <1>6 DEF IdleSecond

-----------------------------------------------------------------------------
(***************************************************************************)
(* Accepting                                                               *)
(***************************************************************************)
\* What is known while the loop handles the first event.
LEMMA Handling ==
    ASSUME LoopIInv, wrong = Nil, batch # <<>>
    PROVE  /\ Good(Server, {}) /\ Limited(Server) /\ IsServer(Server)
           /\ 1 \in 1..Len(batch) /\ Event1 \in EventRec
           /\ Event1.fd \notin {1, 2} => Event1.ptr \in Clients
           /\ lib \cap {"both", "confirms"} = {} =>
                /\ Event1.ev # {"in", "out"}
                /\ Event1.fd \in DOMAIN watch /\ Event1.ptr = watch[Event1.fd].ptr
<1>1. 1 \in 1..Len(batch)
  <2>1. batch \in Seq(EventRec)
    BY DEF LoopIInv
  <2>2. Len(batch) \in Nat /\ Len(batch) # 0
    BY <2>1, EmptySeq
  <2>3. QED
    BY <2>2
<1>2. QED
  BY <1>1 DEF LoopIInv, BatchTypes, Current, Event1, Good

\* The entity of a client that is there is made.
LEMMA EntityIsGood ==
    ASSUME NEW s, NEW new, Good(s, new), NEW c \in Clients, s.client[c].open
    PROVE  LET t == [s EXCEPT !.client[c].entity = TRUE]
           IN  /\ Good(t, new) /\ t.wrong = s.wrong /\ t.nr = s.nr /\ t.watch = s.watch
               /\ t.client[c] = [s.client[c] EXCEPT !.entity = TRUE]
               /\ \A d \in Clients : d # c => t.client[d] = s.client[d]
<1> DEFINE x == [s.client[c] EXCEPT !.entity = TRUE]
           t == [s EXCEPT !.client[c] = x]
<1>1. /\ s.client \in [Clients -> ClientRec] /\ DOMAIN s = {"client", "nr", "watch", "wrong"}
  BY DEF Good, IsServer
<1>2. /\ x \in ClientRec /\ x.ct = s.client[c].ct /\ x.fd = s.client[c].fd /\ x.open
      /\ x.queued = s.client[c].queued /\ x.status = s.client[c].status
  BY <1>1 DEF ClientRec
<1>3. t = [s EXCEPT !.client[c].entity = TRUE]
  OBVIOUS
<1> HIDE DEF x
<1>4. Good(t, new)
  BY <1>1, <1>2, ClientChanges
<1>5. /\ t.wrong = s.wrong /\ t.nr = s.nr /\ t.watch = s.watch
      /\ t.client[c] = x /\ \A d \in Clients : d # c => t.client[d] = s.client[d]
  BY <1>1, <1>2
<1> HIDE DEF t
<1>6. QED
  BY <1>3, <1>4, <1>5 DEF x

\* A client that was refused.
LEMMA Refused ==
    ASSUME LoopIInv, wrong = Nil, NEW ct \in Types, NEW c \in Clients, client[c] = Free,
           batch # <<>>, Pop, Becomes(Cleanup(New(ct, c), c))
    PROVE  LoopIInv'
<1> DEFINE s == New(ct, c)
           t == Cleanup(s, c)
<1>1. Good(Server, {}) /\ Limited(Server)
  BY Handling
<1>2. /\ Good(s, {c}) /\ s.client[c].open /\ s.client[c].ct = ct /\ s.client[c].fd = FreeFd
      /\ s.watch = watch /\ s.wrong = wrong /\ s.nr[ct] = nr_clients[ct] + 1
      /\ \A other \in Types \ {ct} : s.nr[other] = nr_clients[other]
  <2>1. IsNew(s, ct, c)
    BY <1>1, NewIsGood
  <2> HIDE DEF s
  <2>2. QED
    BY <2>1 DEF IsNew
<1>3. FreeFd \notin DOMAIN watch
  BY <1>1, FreeFdIsFree DEF Free
<1>4. /\ Good(t, {}) /\ t.wrong = s.wrong
      /\ \A other \in Types : t.nr[other] <= s.nr[other]
      /\ t.nr[ct] = s.nr[ct] - 1
      /\ \A fd \in DOMAIN s.watch : fd # FreeFd => fd \in DOMAIN t.watch /\ t.watch[fd] = s.watch[fd]
  BY <1>2, {c} \in SUBSET {c}, CleanupIsGood
<1>5. Limited(t)
  <2>1. \A other \in Types : /\ nr_clients[other] <= Limit /\ nr_clients[other] \in Int
                             /\ t.nr[other] \in Int
    BY <1>1, <1>4, ServerFields DEF Limited, Good, IsServer
  <2>2. QED
    BY <1>2, <1>4, <2>1, Assumed DEF Limited
<1>6. KeepsWatching(t.watch, {})
  BY <1>2, <1>3, <1>4 DEF KeepsWatching
<1>7. watch' = t.watch /\ lib' = lib
  BY DEF Becomes
<1>8. KeepsWatching(watch', {Event1.fd})
  BY <1>6, <1>7 DEF KeepsWatching
<1>9. batch' \in Seq(EventRec) /\ BatchSound'
  BY <1>7, <1>8, PopIsSound
<1>10. QED
  BY <1>2, <1>4, <1>5, <1>9, Settles

\* A client that is watched now.
LEMMA Accepted ==
    ASSUME LoopIInv, wrong = Nil, batch # <<>>, Pop, NEW c \in Clients,
           NEW s, Good(s, {c}), s.client[c].open, ~s.client[c].queued,
           s.client[c].status = {}, Limited(s),
           s.watch = watch, s.wrong = Nil, Becomes(Listen(s, c, FALSE))
    PROVE  LoopIInv'
<1> DEFINE t == Listen(s, c, FALSE)
<1>1. /\ Good(t, {}) /\ t.nr = s.nr /\ t.wrong = Nil
      /\ \A fd \in DOMAIN watch : fd \in DOMAIN t.watch /\ t.watch[fd] = watch[fd]
  <2>1. /\ Good(t, {}) /\ t.nr = s.nr /\ t.wrong = s.wrong
        /\ \A fd \in DOMAIN s.watch : fd \in DOMAIN t.watch /\ t.watch[fd] = s.watch[fd]
    BY ListenIsGood
  <2> HIDE DEF t
  <2>2. QED
    BY <2>1
<1>2. Limited(t)
  BY <1>1 DEF Limited
<1>3. watch' = t.watch /\ lib' = lib
  BY DEF Becomes
<1> HIDE DEF t
<1>4. KeepsWatching(watch', {Event1.fd})
  BY <1>1, <1>3 DEF KeepsWatching
<1>5. batch' \in Seq(EventRec) /\ BatchSound'
  BY <1>3, <1>4, PopIsSound
<1>6. QED
  BY <1>1, <1>2, <1>5, Settles DEF t

\* An answer is queued for a client that is not watched.
LEMMA QueuedEarly ==
    ASSUME LoopIInv, wrong = Nil, batch # <<>>, Pop, NEW c \in Clients,
           NEW s, Good(s, {c}), s.client[c].open, s.client[c].status = {}, "full" \in lib,
           Becomes(Queue(s, c))
    PROVE  LoopIInv'
<1>1. IsServer(s) /\ s.client[c].fd \notin DOMAIN s.watch
  BY DEF Good, OwnDescriptor
<1>2. Queue(s, c).wrong = "pending"
  BY <1>1, QueueFails
<1>3. wrong' = "pending" /\ lib' = lib /\ mode' = mode
  BY <1>2 DEF Becomes
<1>4. batch' \in Seq(EventRec)
  BY HeadTailProperties DEF Pop, LoopIInv
<1>5. QED
  BY <1>3, <1>4, LoopEnds DEF Reasoned, LoopWrongs

LEMMA UnixAcceptStep ==
    ASSUME LoopIInv, NEW c \in Clients, us_handle_accept(c)
    PROVE  LoopIInv'
<1> DEFINE s == New("unix", c)
           e == [s EXCEPT !.client[c].entity = TRUE]
<1>1. wrong = Nil /\ batch # <<>> /\ Pop /\ client[c] = Free /\ "unix" \in Types
  BY DEF us_handle_accept, Accepting, Types
<1>2. Good(Server, {}) /\ Limited(Server)
  BY <1>1, Handling
<1>3. /\ Good(s, {c}) /\ s.client[c].open /\ ~s.client[c].queued /\ s.client[c].status = {}
      /\ s.watch = watch
      /\ s.wrong = Nil /\ \A other \in Types \ {"unix"} : s.nr[other] = nr_clients[other]
      /\ s.client[c] \in ClientRec
  BY <1>1, <1>2, NewIsGood DEF IsNew
<1>4. /\ Good(e, {c}) /\ e.wrong = Nil /\ e.nr = s.nr /\ e.watch = watch
      /\ e.client[c] = [s.client[c] EXCEPT !.entity = TRUE]
  BY <1>3, EntityIsGood
<1>5. e.client[c].open /\ ~e.client[c].queued /\ e.client[c].status = {}
  BY <1>3, <1>4 DEF ClientRec
<1>6. CASE s.nr["unix"] <= Limit /\ Becomes(Listen(e, c, FALSE))
  <2>1. Limited(e)
    BY <1>2, <1>3, <1>4, <1>6, ServerFields DEF Limited
  <2> HIDE DEF e
  <2>2. QED
    BY <1>1, <1>4, <1>5, <1>6, <2>1, Accepted
<1>7. CASE Becomes(Cleanup(s, c))
  BY <1>1, <1>7, Refused
<1>8. CASE "full" \in lib /\ Becomes(Queue(e, c))
  <2> HIDE DEF e
  <2>1. QED
    BY <1>1, <1>4, <1>5, <1>8, QueuedEarly
<1>9. CASE /\ "blocking" \in lib
           /\ Becomes([Server EXCEPT !.nr["unix"] = @ - 1, !.wrong = "descriptor 0"])
  <2>1. wrong' = "descriptor 0" /\ lib' = lib /\ mode' = mode
    BY <1>9 DEF Becomes, Server
  <2>2. batch' \in Seq(EventRec)
    BY <1>1, HeadTailProperties DEF Pop, LoopIInv
  <2>3. QED
    BY <1>9, <2>1, <2>2, LoopEnds DEF Reasoned, LoopWrongs
<1>10. QED
  BY <1>6, <1>7, <1>8, <1>9 DEF us_handle_accept

LEMMA WebAcceptStep ==
    ASSUME LoopIInv, NEW c \in Clients, ws_handle_accept(c)
    PROVE  LoopIInv'
<1> DEFINE s == New("web", c)
<1>1. wrong = Nil /\ batch # <<>> /\ Pop /\ client[c] = Free /\ "web" \in Types
  BY DEF ws_handle_accept, Accepting, Types
<1>2. Good(Server, {}) /\ Limited(Server)
  BY <1>1, Handling
<1>3. /\ Good(s, {c}) /\ s.client[c].open /\ ~s.client[c].queued /\ s.client[c].status = {}
      /\ s.watch = watch
      /\ s.wrong = Nil /\ \A other \in Types \ {"web"} : s.nr[other] = nr_clients[other]
      /\ IsServer(s)
  BY <1>1, <1>2, NewIsGood DEF IsNew, Good
<1>4. CASE s.nr["web"] <= Limit /\ Becomes(Listen(s, c, FALSE))
  <2>1. Limited(s)
    BY <1>2, <1>3, <1>4, ServerFields DEF Limited
  <2> HIDE DEF s
  <2>2. QED
    BY <1>1, <1>3, <1>4, <2>1, Accepted
<1>5. CASE "accesslog" \in lib /\ Becomes([s EXCEPT !.wrong = "headers"])
  <2>1. wrong' = "headers" /\ lib' = lib /\ mode' = mode
    BY <1>3, <1>5 DEF Becomes, IsServer
  <2>2. batch' \in Seq(EventRec)
    BY <1>1, HeadTailProperties DEF Pop, LoopIInv
  <2>3. QED
    BY <1>5, <2>1, <2>2, LoopEnds DEF Reasoned, LoopWrongs
<1>6. CASE Becomes(Cleanup(s, c))
  BY <1>1, <1>6, Refused
<1>7. CASE "full" \in lib /\ Becomes(Queue(s, c))
  <2> HIDE DEF s
  <2>1. QED
    BY <1>1, <1>3, <1>7, QueuedEarly
<1>8. QED
  BY <1>4, <1>5, <1>6, <1>7 DEF ws_handle_accept

-----------------------------------------------------------------------------
(***************************************************************************)
(* Reading and writing                                                     *)
(***************************************************************************)
\* Whom the loop serves.
LEMMA ServedIsThere ==
    ASSUME LoopIInv, wrong = Nil, batch # <<>>, Event1.fd \notin {1, 2}
    PROVE  /\ Served # Nil => Served \in Clients
           /\ lib \cap {"both", "confirms"} = {} =>
                /\ Served \in Clients /\ client[Served].open /\ client[Served].fd = Event1.fd
<1>1. /\ Event1 \in EventRec /\ Event1.ptr \in Clients
      /\ lib \cap {"both", "confirms"} = {} =>
            Event1.fd \in DOMAIN watch /\ Event1.ptr = watch[Event1.fd].ptr
  BY Handling
<1>2. \A fd \in DOMAIN watch \ {1, 2} :
         watch[fd].ptr \in Clients /\ client[watch[fd].ptr].open /\ client[watch[fd].ptr].fd = fd
  BY Handling, ServerFields DEF Good, OwnDescriptor
<1>3. Served = Event1.ptr \/ (Event1.fd \in DOMAIN watch /\ Served = watch[Event1.fd].ptr) \/ Served = Nil
  BY DEF Served
<1>4. Event1.fd \in DOMAIN watch /\ Event1.ptr = watch[Event1.fd].ptr => Served = watch[Event1.fd].ptr
  BY DEF Served
<1>5. QED
  BY <1>1, <1>2, <1>3, <1>4

LEMMA ServesNothingStep ==
    ASSUME LoopIInv, ServesNothing
    PROVE  LoopIInv'
<1>1. /\ wrong = Nil /\ batch # <<>> /\ Event1.fd \notin {1, 2} /\ Stale
      /\ wrong' = "event" /\ lib' = lib /\ mode' = mode /\ batch' = batch
  BY DEF ServesNothing, Serving, Fails
<1>2. lib \cap {"both", "confirms"} # {}
  BY <1>1, ServedIsThere, Assumed DEF Stale
<1>3. batch' \in Seq(EventRec)
  BY <1>1 DEF LoopIInv
<1>4. QED
  BY <1>1, <1>2, <1>3, LoopEnds DEF Reasoned, LoopWrongs

\* What the handling of an event leaves.
LEMMA Handled ==
    ASSUME LoopIInv, wrong = Nil, NEW t, Becomes(t), Good(t, {}), t.wrong = Nil,
           \A ct \in Types : t.nr[ct] <= nr_clients[ct],
           batch' \in Seq(EventRec), BatchSound'
    PROVE  LoopIInv'
<1>1. /\ \A ct \in Types : nr_clients[ct] <= Limit /\ nr_clients[ct] \in Int
      /\ \A ct \in Types : t.nr[ct] \in Int
  BY ServerFields DEF LoopIInv, Limited, Good, IsServer
<1>2. Limited(t)
  BY <1>1, Assumed DEF Limited
<1>3. QED
  BY <1>2, Settles

\* The socket of a client was readable: what the loop goes on with.
ReadOn ==
    batch' = IF "out" \in Event1.ev THEN [batch EXCEPT ![1].ev = {"out"}] ELSE Tail(batch)

LEMMA ReadOnIsSound ==
    ASSUME LoopIInv, wrong = Nil, batch # <<>>, "in" \in Event1.ev, ReadOn, lib' = lib,
           lib \cap {"both", "confirms"} = {} => KeepsWatching(watch', {Event1.fd})
    PROVE  batch' \in Seq(EventRec) /\ BatchSound'
<1>0. batch \in Seq(EventRec) /\ 1 \in 1..Len(batch) /\ Event1 \in EventRec
      /\ Event1 = batch[1]
  BY Handling DEF LoopIInv, Event1
<1>1. CASE "out" \notin Event1.ev
  <2>1. Pop
    BY <1>1 DEF ReadOn, Pop
  <2>2. QED
    BY <2>1, PopIsSound
<1>2. CASE "out" \in Event1.ev
  <2>1. Event1.ev = {"in", "out"}
    BY <1>0, <1>2 DEF EventRec
  <2>2. lib \cap {"both", "confirms"} # {}
    BY <2>1, Handling
  <2> DEFINE e == [batch[1] EXCEPT !.ev = {"out"}]
  <2>3. e \in EventRec /\ e.fd = batch[1].fd /\ e.ptr = batch[1].ptr
    BY <1>0 DEF EventRec
  <2>4. batch' = [batch EXCEPT ![1] = e]
    BY <1>2 DEF ReadOn
  <2> HIDE DEF e
  <2>5. /\ batch' \in Seq(EventRec) /\ Len(batch') = Len(batch)
        /\ batch'[1] = e /\ \A i \in 1..Len(batch) : i # 1 => batch'[i] = batch[i]
    BY <1>0, <2>3, <2>4
  <2>6. BatchTypes'
    BY <1>0, <2>3, <2>5 DEF LoopIInv, BatchTypes, EventRec, Fds
  <2>7. \A i \in 1..Len(batch) : batch'[i].fd = batch[i].fd
    BY <2>3, <2>5
  <2>8. Distinct'
    BY <2>5, <2>7 DEF LoopIInv, Distinct
  <2>9. Current'
    BY <2>2 DEF Current
  <2>10. QED
    BY <2>5, <2>6, <2>8, <2>9 DEF BatchSound
<1>3. QED
  BY <1>1, <1>2

\* The servers while a request of c is handled.
Handles(s, c) ==
    /\ Good(s, {}) /\ s.wrong = Nil /\ s.client[c].open
    /\ s.client[c].fd = client[c].fd /\ s.client[c].ct = client[c].ct
    /\ \A ct \in Types : s.nr[ct] <= nr_clients[ct] /\ s.nr[ct] \in Int
    /\ "confirms" \notin lib => s.watch = watch

LEMMA ClosingsHandle ==
    ASSUME Good(Server, {}), wrong = Nil, NEW c \in Clients, client[c].open,
           NEW s \in Closings([Server EXCEPT !.client[c].entity = TRUE], c)
    PROVE  Handles(s, c)
<1> DEFINE e == [Server EXCEPT !.client[c].entity = TRUE]
<1> DEFINE S == Server
<1>a. S.client = client /\ S.nr = nr_clients /\ S.watch = watch /\ S.wrong = Nil /\ Good(S, {})
  BY ServerFields
<1> HIDE DEF S
<1>b. /\ Good([S EXCEPT !.client[c].entity = TRUE], {})
      /\ [S EXCEPT !.client[c].entity = TRUE].wrong = S.wrong
      /\ [S EXCEPT !.client[c].entity = TRUE].nr = S.nr
      /\ [S EXCEPT !.client[c].entity = TRUE].watch = S.watch
      /\ [S EXCEPT !.client[c].entity = TRUE].client[c] = [S.client[c] EXCEPT !.entity = TRUE]
  BY <1>a, EntityIsGood
<1>1. /\ Good(e, {}) /\ e.wrong = Nil /\ e.nr = nr_clients /\ e.watch = watch
      /\ e.client[c] = [client[c] EXCEPT !.entity = TRUE]
  BY <1>a, <1>b DEF S
<1>2. client[c] \in ClientRec /\ nr_clients \in [Types -> Int]
  BY ServerFields DEF Good, IsServer
<1>3. e.client[c].open /\ e.client[c].fd = client[c].fd /\ e.client[c].ct = client[c].ct
  BY <1>1, <1>2 DEF ClientRec
<1> HIDE DEF e
<1>4. Handles(e, c)
  BY <1>1, <1>2, <1>3 DEF Handles
<1>5. ASSUME NEW d \in Clients \ {c}, e.client[d].open, "confirms" \in lib
      PROVE  Handles(Cleanup(e, d), c)
  <2>1. /\ Good(Cleanup(e, d), {}) /\ Cleanup(e, d).wrong = Nil
        /\ Cleanup(e, d).client[c] = e.client[c]
        /\ \A ct \in Types : Cleanup(e, d).nr[ct] <= e.nr[ct]
    BY <1>1, <1>5, {} \in SUBSET {d}, CleanupIsGood
  <2>2. \A ct \in Types : Cleanup(e, d).nr[ct] \in Int
    BY <2>1 DEF Good, IsServer
  <2>3. QED
    BY <1>1, <1>3, <1>5, <2>1, <2>2 DEF Handles
<1>6. s = e \/ \E d \in Clients \ {c} : e.client[d].open /\ "confirms" \in lib /\ s = Cleanup(e, d)
  BY DEF Closings, e
<1>7. QED
  BY <1>4, <1>5, <1>6

\* What a read may leave: the server goes on, with or without the client, or the
\* behaviour ends.
Leaves(s, c, t) ==
    \/ Remains(s, c, t) \/ Breaks(t)
    \/ \E u : Remains(s, c, u) /\ t = Cleanup(u, c)

LEMMA UnixReadsStep ==
    ASSUME NEW s, Good(s, {}), NEW c \in Clients, s.client[c].open, s.wrong = Nil,
           NEW t \in UnixReads(s, c), mode \in {"epoll", "select"}
    PROVE  Leaves(s, c, t)
<1>1. PICK u \in Sends(s, c) : t = u \/ (u.wrong = Nil /\ t = Cleanup(u, c))
  BY DEF UnixReads
<1>2. Remains(s, c, u) \/ Breaks(u)
  BY SendsStep
<1>3. Breaks(u) => u.wrong # Nil
  BY Assumed DEF Breaks, LoopWrongs
<1>4. QED
  BY <1>1, <1>2, <1>3 DEF Leaves

\* ws_set_status of a read.
LEMMA ReadStatusStep ==
    ASSUME NEW s, NEW c \in Clients, Good(s, {}), s.client[c].open, s.client[c].ct = "web",
           NEW t \in ReadStatus(s, c)
    PROVE  Remains(s, c, t)
<1>1. Remains(s, c, s)
  BY DEF Remains
<1>2. ASSUME NEW flags \in {{}, {"CLOSE"}}
      PROVE  Remains(s, c, WithStatus(s, c, flags))
  <2> DEFINE x == [s.client[c] EXCEPT !.status = flags]
  <2>1. s.client[c] \in ClientRec
    BY IsArmed
  <2>2. x.status = flags /\ x.ct = "web" /\ flags \in SUBSET {"SENDING", "CLOSE"}
    BY <2>1 DEF ClientRec
  <2> HIDE DEF x
  <2>3. MayEnd(x) /\ Armed(x, s.watch[s.client[c].fd].out)
    BY <2>2 DEF MayEnd, Armed
  <2>4. QED
    BY <2>2, <2>3, StatusIsKept DEF x
<1>3. QED
  BY <1>1, <1>2 DEF ReadStatus

\* What a client is sent while it is read, and the status of the read then.
LEMMA ReadSends ==
    ASSUME NEW s, NEW c \in Clients, Good(s, {}), s.client[c].open, s.wrong = Nil,
           s.client[c].ct = "web", mode \in {"epoll", "select"},
           NEW u \in Sends(s, c), NEW t \in ReadStatus(u, c)
    PROVE  Remains(s, c, t) \/ Breaks(t)
<1>1. CASE Remains(s, c, u)
  <2>1. Good(u, {}) /\ u.client[c].open /\ u.client[c].ct = "web"
    BY <1>1 DEF Remains
  <2>2. QED
    BY <1>1, <2>1, ReadStatusStep, KeptTwice
<1>2. CASE Breaks(u)
  BY <1>2 DEF ReadStatus, WithStatus, Breaks
<1>3. QED
  BY <1>1, <1>2, SendsStep

LEMMA WebReadsStep ==
    ASSUME NEW s, Good(s, {}), NEW c \in Clients, s.client[c].open, s.wrong = Nil,
           s.client[c].ct = "web", NEW t \in WebReads(s, c), mode \in {"epoll", "select"}
    PROVE  Leaves(s, c, t)
<1> DEFINE before == UNION {ReadStatus(w, c) : w \in Sends(s, c)}
           after == UNION {UNION {ReadStatus(w, c) : w \in Sends(z, c)} : z \in before}
<1>1. PICK a \in after :
         t = IF a.wrong = Nil /\ "CLOSE" \in a.client[c].status THEN CloseRead(a, c) ELSE a
  BY Zenon DEF WebReads
<1>2. PICK b \in before : a \in UNION {ReadStatus(w, c) : w \in Sends(b, c)}
  BY <1>1
<1>3. PICK v \in Sends(b, c) : a \in ReadStatus(v, c)
  BY <1>2
<1>4. PICK u \in Sends(s, c) : b \in ReadStatus(u, c)
  BY <1>2
<1> HIDE DEF before, after
<1>5. Remains(s, c, b) \/ Breaks(b)
  BY <1>4, ReadSends
<1>6. Breaks(b) => b.wrong # Nil
  BY Assumed DEF Breaks, LoopWrongs
<1>7. Remains(s, c, a) \/ Breaks(a)
  <2>1. CASE Remains(s, c, b)
    <3>1. Good(b, {}) /\ b.client[c].open /\ b.wrong = Nil /\ b.client[c].ct = "web"
      BY <2>1 DEF Remains
    <3>2. Remains(b, c, a) \/ Breaks(a)
      BY <1>3, <3>1, ReadSends
    <3>3. QED
      BY <2>1, <3>2, KeptTwice
  <2>2. CASE Breaks(b)
    <3>1. v = b
      BY <1>3, <1>6, <2>2 DEF Sends
    <3>2. QED
      BY <1>3, <2>2, <3>1 DEF ReadStatus, WithStatus, Breaks
  <2>3. QED
    BY <1>5, <2>1, <2>2
<1>8. Breaks(a) => a.wrong # Nil
  BY Assumed DEF Breaks, LoopWrongs
<1>9. QED
  BY <1>1, <1>7, <1>8 DEF Leaves, CloseRead

LEMMA ReadsStep ==
    ASSUME LoopIInv, HandleReads
    PROVE  LoopIInv'
<1> DEFINE c == Served
<1>1. /\ wrong = Nil /\ batch # <<>> /\ Event1.fd \notin {1, 2} /\ "in" \in Event1.ev
      /\ ~Stale /\ ReadOn
  BY DEF HandleReads, Serving, ReadOn
<1>2. /\ c \in Clients /\ client[c].open
      /\ lib \cap {"both", "confirms"} = {} => client[c].fd = Event1.fd
  BY <1>1, ServedIsThere DEF Stale
<1>3. Good(Server, {}) /\ mode \in {"epoll", "select"}
  BY <1>1, Handling, LoopAssumption DEF LoopIInv
<1>4. PICK s \in Closings([Server EXCEPT !.client[c].entity = TRUE], c) :
         \E t \in (IF client[c].ct = "unix" THEN UnixReads(s, c) ELSE WebReads(s, c)) : Becomes(t)
  BY DEF HandleReads
<1>5. PICK t \in (IF client[c].ct = "unix" THEN UnixReads(s, c) ELSE WebReads(s, c)) : Becomes(t)
  BY <1>4
<1>6. Handles(s, c)
  BY <1>1, <1>2, <1>3, ClosingsHandle
<1>7. client[c].ct \in {"unix", "web"}
  BY <1>2, <1>3, ServerFields DEF Good, EndsMeant, Types
<1> HIDE DEF c
<1>8. Leaves(s, c, t)
  <2>1. CASE client[c].ct = "unix"
    BY <1>2, <1>3, <1>5, <1>6, <2>1, UnixReadsStep DEF Handles
  <2>2. CASE client[c].ct = "web"
    BY <1>2, <1>3, <1>5, <1>6, <2>2, WebReadsStep DEF Handles
  <2>3. QED
    BY <1>7, <2>1, <2>2
<1>9. ASSUME Good(t, {}), t.wrong = Nil,
             \A ct \in Types : t.nr[ct] <= s.nr[ct],
             \A fd \in DOMAIN s.watch : fd # s.client[c].fd =>
                                           fd \in DOMAIN t.watch /\ t.watch[fd].ptr = s.watch[fd].ptr
      PROVE  LoopIInv'
  <2>1. \A ct \in Types : t.nr[ct] <= nr_clients[ct]
    <3>1. \A ct \in Types : t.nr[ct] \in Int /\ s.nr[ct] \in Int /\ nr_clients[ct] \in Int
      BY <1>3, <1>6, <1>9, ServerFields DEF Good, IsServer, Handles
    <3>2. QED
      BY <1>6, <1>9, <3>1 DEF Handles
  <2>2. watch' = t.watch /\ lib' = lib
    BY <1>5 DEF Becomes
  <2>3. lib \cap {"both", "confirms"} = {} => KeepsWatching(watch', {Event1.fd})
    BY <1>2, <1>6, <1>9, <2>2 DEF Handles, KeepsWatching
  <2>4. batch' \in Seq(EventRec) /\ BatchSound'
    BY <1>1, <2>2, <2>3, ReadOnIsSound
  <2>5. QED
    BY <1>1, <1>5, <1>9, <2>1, <2>4, Handled
<1>10. CASE Remains(s, c, t)
  <2>1. \A ct \in Types : t.nr[ct] <= s.nr[ct]
    BY <1>6, <1>10 DEF Handles, Remains
  <2>2. QED
    BY <1>6, <1>9, <1>10, <2>1 DEF Handles, Remains
<1>11. ASSUME NEW u, Remains(s, c, u), t = Cleanup(u, c)
       PROVE  LoopIInv'
  <2>1. /\ Good(u, {}) /\ u.client[c].open /\ u.wrong = Nil /\ u.nr = s.nr
        /\ u.client[c].fd = s.client[c].fd
        /\ \A fd \in DOMAIN s.watch : fd \in DOMAIN u.watch /\ u.watch[fd].ptr = s.watch[fd].ptr
    BY <1>6, <1>11 DEF Remains, Handles
  <2>2. /\ Good(t, {}) /\ t.wrong = Nil
        /\ \A ct \in Types : t.nr[ct] <= u.nr[ct]
        /\ \A fd \in DOMAIN u.watch : fd # u.client[c].fd =>
                                           fd \in DOMAIN t.watch /\ t.watch[fd] = u.watch[fd]
    BY <1>2, <1>11, <2>1, {} \in SUBSET {c}, CleanupIsGood
  <2>3. QED
    BY <1>9, <2>1, <2>2
<1>12. CASE Breaks(t)
  <2>1. wrong' \in LoopWrongs /\ lib' = lib /\ mode' = mode /\ Reasoned'
    BY <1>5, <1>12 DEF Becomes, Breaks, LoopWrongs, Reasoned
  <2>2. batch' \in Seq(EventRec)
    <3>1. batch \in Seq(EventRec) /\ Event1 \in EventRec /\ 1 \in 1..Len(batch)
      BY <1>1, Handling DEF LoopIInv
    <3>2. [batch[1] EXCEPT !.ev = {"out"}] \in EventRec
      BY <3>1 DEF EventRec, Event1
    <3>3. [batch EXCEPT ![1] = [batch[1] EXCEPT !.ev = {"out"}]] \in Seq(EventRec)
      BY <3>1, <3>2
    <3>4. Tail(batch) \in Seq(EventRec)
      BY <1>1, <3>1, HeadTailProperties
    <3>5. QED
      BY <1>1, <3>3, <3>4 DEF ReadOn
  <2>3. QED
    BY <2>1, <2>2, LoopEnds
<1>13. QED
  BY <1>8, <1>10, <1>11, <1>12 DEF Leaves

\* Some of what is queued was sent, and the loop has looked at the status.
LEMMA WritesStep ==
    ASSUME LoopIInv, HandleWrites
    PROVE  LoopIInv'
<1> DEFINE c == Served
           S == Server
           x == client[c]
           out == watch[x.fd].out
           Ending(s) == IF client[c].ct = "unix" THEN [Cleanup(s, c) EXCEPT !.wrong = "status"]
                      ELSE Cleanup(s, c)
           Done(s) == IF s.client[c].queued THEN s
                      ELSE WithStatus(s, c, s.client[c].status \ {"SENDING"})
           Looked(s) == IF s.client[c].status = {"CLOSE"} THEN Ending(s)
                        ELSE IF s.client[c].status = {} THEN [s EXCEPT !.watch[client[c].fd].out = FALSE]
                        ELSE s
<1>1. /\ wrong = Nil /\ batch # <<>> /\ Event1.fd \notin {1, 2} /\ ~Stale /\ Pop
  BY DEF HandleWrites, Serving
<1>2. /\ c \in Clients /\ client[c].open
      /\ lib \cap {"both", "confirms"} = {} => client[c].fd = Event1.fd
  BY <1>1, ServedIsThere DEF Stale
<1>3. /\ Good(S, {}) /\ IsServer(S) /\ S.wrong = Nil /\ S.client[c] = x /\ S.client[c].open
      /\ S.watch = watch /\ S.nr = nr_clients /\ nr_clients \in [Types -> Int]
      /\ DOMAIN S = {"client", "nr", "watch", "wrong"}
  BY <1>1, <1>2, Handling, ServerFields DEF IsServer
<1>4. PICK s \in SendsPending(c) : Becomes(Looked(Done(s)))
  BY DEF HandleWrites
<1>5. /\ x \in ClientRec /\ x.ct \in Types /\ MayEnd(x) /\ Armed(x, out)
      /\ x.fd \in DOMAIN watch /\ out \in BOOLEAN
  BY <1>2, <1>3, IsArmed
<1>6. S = Put(S, c, x)
  BY <1>2, <1>3 DEF Put, IsServer, Server
<1> HIDE DEF S
<1>7. \E y : s = Put(S, c, y) /\ Goes(x, y) /\ MayEnd(y) /\ Armed(y, out)
  <2>1. CASE s = S
    <3>1. Goes(x, x)
      BY <1>5 DEF Goes
    <3>2. QED
      BY <1>5, <1>6, <2>1, <3>1
  <2>2. CASE s = Flush(S, c)
    BY <1>2, <1>3, <2>2, FlushPut
  <2>3. CASE s = WithStatus(S, c, {"CLOSE"}) /\ "breaks" \in lib
    <3> DEFINE y == [x EXCEPT !.status = {"CLOSE"}]
    <3>1. s = Put(S, c, y)
      BY <1>3, <2>3, StatusPut
    <3>2. Goes(x, y) /\ y.status = {"CLOSE"}
      BY <1>5 DEF Goes, ClientRec
    <3> HIDE DEF y
    <3>3. MayEnd(y) /\ Armed(y, out)
      BY <2>3, <3>2 DEF MayEnd, Armed
    <3>4. QED
      BY <3>1, <3>2, <3>3
  <2>4. QED
    BY <2>1, <2>2, <2>3 DEF SendsPending, S
<1>8. PICK y : s = Put(S, c, y) /\ Goes(x, y) /\ MayEnd(y) /\ Armed(y, out)
  BY <1>7
\* What Done makes of it.
<1> DEFINE z == IF y.queued THEN y ELSE [y EXCEPT !.status = y.status \ {"SENDING"}]
           d == Done(s)
<1>9. /\ Goes(x, z) /\ z.queued = y.queued /\ z.ct = y.ct
      /\ z.status = (IF y.queued THEN y.status ELSE y.status \ {"SENDING"})
      /\ y.status \in SUBSET {"SENDING", "CLOSE"} /\ y.open = x.open
  BY <1>8 DEF Goes, ClientRec
<1>10. d = Put(S, c, z)
  <2>1. s.client[c] = y
    BY <1>2, <1>3, <1>8, PutTwice
  <2>2. CASE y.queued
    BY <1>8, <2>1, <2>2
  <2>3. CASE ~y.queued
    <3>1. d = WithStatus(s, c, y.status \ {"SENDING"})
      BY <2>1, <2>3
    <3> HIDE DEF d
    <3>2. d = Put(s, c, [y EXCEPT !.status = y.status \ {"SENDING"}])
      BY <2>1, <3>1, StatusPut
    <3>3. QED
      BY <1>2, <1>3, <1>8, <2>3, <3>2, PutTwice
  <2>4. QED
    BY <2>2, <2>3
<1>11. Becomes(Looked(d))
  BY <1>4
<1> HIDE DEF z, d
<1>12. d.client[c] = z /\ d.watch = watch /\ DOMAIN d = DOMAIN S
  BY <1>2, <1>3, <1>10, PutTwice
<1>13. MayEnd(z)
  BY <1>8, <1>9 DEF MayEnd
<1> HIDE DEF c, out
<1>14. ASSUME NEW v, Becomes(v), Good(v, {}), v.wrong = Nil,
              \A ct \in Types : v.nr[ct] <= nr_clients[ct],
              \A fd \in DOMAIN watch : fd # x.fd =>
                                          fd \in DOMAIN v.watch /\ v.watch[fd].ptr = watch[fd].ptr
       PROVE  LoopIInv'
  <2>1. watch' = v.watch /\ lib' = lib
    BY <1>14 DEF Becomes
  <2>2. lib \cap {"both", "confirms"} = {} => KeepsWatching(watch', {Event1.fd})
    BY <1>2, <1>14, <2>1 DEF KeepsWatching
  <2>3. batch' \in Seq(EventRec) /\ BatchSound'
    BY <1>1, <2>1, <2>2, PopIsSound
  <2>4. QED
    BY <1>1, <1>14, <2>3, Handled
<1>15. ASSUME NEW v, Becomes(v), Remains(S, c, v)
       PROVE  LoopIInv'
  <2>1. /\ Good(v, {}) /\ v.wrong = Nil /\ v.nr = nr_clients
        /\ \A fd \in DOMAIN watch : fd \in DOMAIN v.watch /\ v.watch[fd].ptr = watch[fd].ptr
    BY <1>3, <1>15 DEF Remains
  <2>2. \A ct \in Types : v.nr[ct] <= nr_clients[ct]
    BY <1>3, <2>1
  <2>3. QED
    BY <1>14, <1>15, <2>1, <2>2
<1>16. CASE z.status = {"CLOSE"}
  <2>1. Armed(z, out)
    BY <1>8, <1>9, <1>16 DEF Armed
  <2>2. Remains(S, c, d)
    BY <1>2, <1>3, <1>9, <1>10, <1>13, <2>1, PutIsKept DEF out
  <2>3. /\ Good(d, {}) /\ d.client[c].open /\ d.wrong = Nil /\ d.nr = nr_clients
        /\ d.client[c].fd = x.fd
    BY <1>3, <2>2 DEF Remains
  <2> DEFINE u == Cleanup(d, c)
  <2>4. /\ Good(u, {}) /\ u.wrong = Nil
        /\ \A ct \in Types : u.nr[ct] <= nr_clients[ct]
        /\ \A fd \in DOMAIN watch : fd # x.fd => fd \in DOMAIN u.watch /\ u.watch[fd] = watch[fd]
    BY <1>2, <1>12, <2>3, {} \in SUBSET {c}, CleanupIsGood
  <2>5. Becomes(IF x.ct = "unix" THEN [u EXCEPT !.wrong = "status"] ELSE u)
    BY <1>11, <1>12, <1>16
  <2> HIDE DEF u
  <2>6. CASE x.ct = "unix"
    <3>1. wrong' = "status" /\ lib' = lib /\ mode' = mode
      BY <2>4, <2>5, <2>6 DEF Becomes, Good, IsServer
    <3>2. lib \cap {"breaks", "nomem"} # {}
      BY <1>9, <1>13, <1>16, <2>6 DEF MayEnd, Goes
    <3>3. batch' \in Seq(EventRec)
      BY <1>1, HeadTailProperties DEF Pop, LoopIInv
    <3>4. QED
      BY <3>1, <3>2, <3>3, LoopEnds DEF Reasoned, LoopWrongs
  <2>7. CASE x.ct # "unix"
    BY <1>14, <2>4, <2>5, <2>7
  <2>8. QED
    BY <2>6, <2>7
<1>17. CASE z.status = {}
  <2> DEFINE u == [d EXCEPT !.watch[x.fd].out = FALSE]
  <2>1. Becomes(u)
    BY <1>11, <1>12, <1>17
  <2>2. Armed(z, FALSE)
    BY <1>8, <1>9, <1>17 DEF Armed
  <2>3. /\ d.client = [S.client EXCEPT ![c] = z] /\ d.nr = S.nr /\ d.wrong = S.wrong
        /\ DOMAIN d = DOMAIN S
    BY <1>3, <1>10 DEF Put
  <2>4. /\ DOMAIN u = DOMAIN S /\ u.client = [S.client EXCEPT ![c] = z]
        /\ u.watch = [S.watch EXCEPT ![S.client[c].fd] = [S.watch[S.client[c].fd] EXCEPT !.out = FALSE]]
        /\ u.nr = S.nr /\ u.wrong = S.wrong
    BY <1>3, <1>12, <2>3
  <2> HIDE DEF u
  <2>5. Remains(S, c, u)
    BY <1>2, <1>3, <1>9, <1>13, <2>2, <2>4, FALSE \in BOOLEAN, ChangeIsKept
  <2>6. QED
    BY <1>15, <2>1, <2>5
<1>18. CASE z.status # {"CLOSE"} /\ z.status # {}
  <2>1. Becomes(d)
    BY <1>11, <1>12, <1>18
  <2>2. z.status = y.status
    BY <1>9, <1>18
  <2>3. Armed(z, out)
    BY <1>8, <1>9, <2>2 DEF Armed
  <2>4. Remains(S, c, d)
    BY <1>2, <1>3, <1>9, <1>10, <1>13, <2>3, PutIsKept DEF out
  <2>5. QED
    BY <1>15, <2>1, <2>4
<1>19. QED
  BY <1>16, <1>17, <1>18

LEMMA NoClientStep ==
    ASSUME LoopIInv, NEW ct \in Types, NoClient(ct)
    PROVE  LoopIInv'
<1>1. /\ wrong = Nil /\ batch # <<>> /\ Pop /\ Becomes(Server) /\ lib' = lib /\ watch' = watch
  BY ServerFields DEF NoClient, Accepting, Becomes
<1>2. Good(Server, {}) /\ Limited(Server) /\ Server.wrong = Nil
  BY <1>1, Handling, ServerFields
<1>3. KeepsWatching(watch', {Event1.fd})
  BY <1>1 DEF KeepsWatching
<1>4. batch' \in Seq(EventRec) /\ BatchSound'
  BY <1>1, <1>3, PopIsSound
<1>5. QED
  BY <1>1, <1>2, <1>4, Settles

LEMMA LoopNextIInv ==
    ASSUME LoopIInv, [LoopNext]_loopVars
    PROVE  LoopIInv'
<1>1. CASE UNCHANGED loopVars
  <2>1. UNCHANGED <<lib, mode, client, nr_clients, watch, batch, wrong>>
    BY <1>1 DEF loopVars
  <2>2. Server' = Server
    BY <2>1 DEF Server
  <2>3. ASSUME wrong = Nil
        PROVE  Good(Server, {})' /\ Limited(Server)' /\ BatchTypes' /\ Distinct' /\ Current'
    <3>1. Good(Server, {}) /\ Limited(Server) /\ BatchTypes /\ Distinct /\ Current
      BY <2>3 DEF LoopIInv
    <3>2. IsServer(Server)' /\ Counted(Server)' /\ EndsMeant(Server)' /\ Limited(Server)'
      BY <2>1, <2>2, <3>1 DEF Good, IsServer, Counted, ClientsOf, EndsMeant, MayEnd, Limited,
                              Fds, Watched, ClientRec
    <3>3. OwnDescriptor(Server, {})'
      BY <2>1, <2>2, <3>1 DEF Good, OwnDescriptor, Armed, Fds
    <3>4. BatchTypes' /\ Distinct' /\ Current'
      BY <2>1, <3>1 DEF BatchTypes, Distinct, Current
    <3>5. QED
      BY <3>2, <3>3, <3>4 DEF Good
  <2>4. QED
    BY <2>1, <2>3 DEF LoopIInv
<1>2. CASE LoopNext
  BY <1>2, WaitStep, NoClientStep, IdleStep, UnixAcceptStep, WebAcceptStep, ServesNothingStep,
     ReadsStep, WritesStep DEF LoopNext
<1>3. QED
  BY <1>1, <1>2

-----------------------------------------------------------------------------
(***************************************************************************)
(* Theorems                                                                *)
(***************************************************************************)
\* purcmc_rdrsrv_check, for any number of clients, limit and size of a batch,
\* with either multiplexer.
THEOREM LoopInvariance == LoopSpec => []LoopIInv
<1>1. LoopInit => LoopIInv
  BY LoopInit_IInv
<1>2. LoopIInv /\ [LoopNext]_loopVars => LoopIInv'
  BY LoopNextIInv
<1>3. QED
  BY <1>1, <1>2, PTL DEF LoopSpec

\* Between two turns of the loop every client is watched on its descriptor by its
\* own address.  While SENDING is set it is watched for writing or is to be closed;
\* what is queued waits for no event only where a read of a web socket has set the
\* status or the client is to be closed; a Unix client for which nothing is left to
\* do is not watched for writing.  Each server counts its clients, and an event is
\* for a client that is there, but where a request closes clients or a client has
\* two events (server.c, on_close, on_pending, us_handle_accept, us_write,
\* ws_respond, ws_set_status).
THEOREM EventsFindTheirClients == LoopSpec => []LoopSound
<1>1. LoopIInv => LoopSound
  <2> SUFFICES ASSUME LoopIInv
               PROVE  LoopSound
    OBVIOUS
  <2>1. ASSUME wrong = Nil
        PROVE  /\ \A fd \in DOMAIN watch \ {1, 2} :
                    watch[fd].ptr # Nil /\ client[watch[fd].ptr].open /\ client[watch[fd].ptr].fd = fd
               /\ \A c \in Clients : client[c].open =>
                    client[c].fd \in DOMAIN watch /\ Armed(client[c], watch[client[c].fd].out)
               /\ \A ct \in Types : nr_clients[ct] = Cardinality(ClientsOf(client, ct))
                                      /\ nr_clients[ct] <= Limit
    BY <2>1, Assumed, ServerFields DEF LoopIInv, Good, OwnDescriptor, Counted, Limited
  <2>2. QED
    BY <2>1 DEF LoopIInv, LoopSound, Armed
<1>2. QED
  BY <1>1, LoopInvariance, PTL

-----------------------------------------------------------------------------
(***************************************************************************)
(* WebSocketTls: the inductive invariant                                   *)
(***************************************************************************)
TlsClients ==
    [status : SUBSET {"ERR", "CLOSE", "SENDING"},
     sslstatus : SUBSET {"ACCEPTING", "READING", "WRITING", "SHUTTING"},
     ssl : BOOLEAN, accepted : BOOLEAN, queue : Nat, armed : BOOLEAN, open : BOOLEAN,
     up : BOOLEAN]

\* A client of which no read and no write is left pending, unless its peer
\* renegotiates.
Calm(c) ==
    /\ c \in TlsClients
    /\ "renegotiates" \notin liberties => c.sslstatus \subseteq {"ACCEPTING", "SHUTTING"}

\* Bytes are forgotten only of a client that is being closed.
Excused(lost, c) == "renegotiates" \notin liberties /\ lost => "CLOSE" \in c.status

TlsInv ==
    /\ Calm(tls_client)
    /\ "renegotiates" \notin liberties => ~dropped /\ call.depth <= 1

\* Closing keeps a client closed.
Follows(c, d) == Calm(d) /\ ("CLOSE" \in c.status => "CLOSE" \in d.status)

-----------------------------------------------------------------------------
(***************************************************************************)
(* The calls of OpenSSL keep a client calm.                                *)
(***************************************************************************)
LEMMA CalmStatus ==
    ASSUME NEW c, Calm(c), NEW st \in SUBSET {"ERR", "CLOSE", "SENDING"}
    PROVE  Calm(SetStatus(c, st)) /\ SetStatus(c, st).status = st
BY DEF Calm, TlsClients, SetStatus

LEMMA CalmAccept ==
    ASSUME NEW c, Calm(c), NEW d \in handle_accept_ssl(c)
    PROVE  Calm(d)
<1> DEFINE e == [c EXCEPT !.ssl = TRUE]
<1>1. Calm(e)
  BY DEF Calm, TlsClients
<1> HIDE DEF e
<1>2. PICK r \in Results(e, "again") :
        d = CASE r = "done" -> [e EXCEPT !.sslstatus = @ \ {"ACCEPTING"}, !.accepted = TRUE]
              [] r = "error" -> SetStatus([e EXCEPT !.sslstatus = @ \ {"ACCEPTING"}], {"ERR", "CLOSE"})
              [] OTHER -> [e EXCEPT !.sslstatus = {"ACCEPTING"}]
  BY DEF handle_accept_ssl, accept_ssl, e
<1>3. /\ Calm([e EXCEPT !.sslstatus = @ \ {"ACCEPTING"}, !.accepted = TRUE])
      /\ Calm([e EXCEPT !.sslstatus = @ \ {"ACCEPTING"}])
      /\ Calm([e EXCEPT !.sslstatus = {"ACCEPTING"}])
  BY <1>1 DEF Calm, TlsClients
<1>4. Calm(SetStatus([e EXCEPT !.sslstatus = @ \ {"ACCEPTING"}], {"ERR", "CLOSE"}))
  BY <1>3, CalmStatus
<1> QED BY <1>2, <1>3, <1>4

LEMMA CalmRead ==
    ASSUME NEW c, Calm(c), NEW r \in read_ssl_socket(c)
    PROVE  Calm(r.c)
<1>1. PICK x \in IF c.accepted THEN Results(c, "write") ELSE {"error"} :
        r = CASE x = "done" -> [c |-> c, data |-> TRUE]
              [] x = "again" -> [c |-> c, data |-> FALSE]
              [] x = "write" -> [c |-> [c EXCEPT !.sslstatus = {"READING"}], data |-> FALSE]
              [] OTHER -> [c |-> SetStatus(c, {"ERR", "CLOSE"}), data |-> FALSE]
  BY DEF read_ssl_socket
<1>2. x = "write" => "renegotiates" \in liberties
  BY <1>1 DEF Results
<1>3. "renegotiates" \in liberties => Calm([c EXCEPT !.sslstatus = {"READING"}])
  BY DEF Calm, TlsClients
<1>4. Calm(SetStatus(c, {"ERR", "CLOSE"}))
  BY CalmStatus
<1> QED BY <1>1, <1>2, <1>3, <1>4

LEMMA CalmSend ==
    ASSUME NEW c, Calm(c), NEW n \in Nat, NEW r \in send_ssl_buffer(c, n)
    PROVE  /\ Calm(r.c) /\ r.sent \in Nat /\ r.sent <= n
           /\ r.minus \in BOOLEAN /\ r.eagain \in BOOLEAN
           /\ r.minus /\ ~r.eagain => Excused(TRUE, r.c)
<1> DEFINE Out(x) == CASE x = "done" -> {Sent(c, k) : k \in 1..n}
                       [] x = "again" -> {NotSent(c, TRUE)}
                       [] x = "read" -> {NotSent([c EXCEPT !.sslstatus = {"WRITING"}], FALSE)}
                       [] OTHER -> {NotSent(SetStatus(c, {"ERR", "CLOSE"}), FALSE)}
<1>1. PICK x \in IF c.accepted THEN Results(c, "read") ELSE {"error"} : r \in Out(x)
  BY DEF send_ssl_buffer
<1>2. CASE x = "done"
  <2>1. PICK k \in 1..n : r = Sent(c, k)
    BY <1>1, <1>2
  <2> QED BY <2>1 DEF Sent
<1>3. CASE x = "again"
  <2>1. r = NotSent(c, TRUE)
    BY <1>1, <1>3
  <2> QED BY <2>1 DEF NotSent
<1>4. CASE x = "read"
  <2>1. r = NotSent([c EXCEPT !.sslstatus = {"WRITING"}], FALSE)
    BY <1>1, <1>4
  <2>2. "renegotiates" \in liberties
    BY <1>1, <1>4 DEF Results
  <2>3. Calm([c EXCEPT !.sslstatus = {"WRITING"}])
    BY <2>2 DEF Calm, TlsClients
  <2> QED BY <2>1, <2>2, <2>3 DEF NotSent, Excused
<1>5. CASE x \notin {"done", "again", "read"}
  <2>1. r = NotSent(SetStatus(c, {"ERR", "CLOSE"}), FALSE)
    BY <1>1, <1>5
  <2>2. Calm(SetStatus(c, {"ERR", "CLOSE"})) /\ SetStatus(c, {"ERR", "CLOSE"}).status = {"ERR", "CLOSE"}
    BY CalmStatus
  <2> QED BY <2>1, <2>2 DEF NotSent, Excused
<1> QED BY <1>2, <1>3, <1>4, <1>5

LEMMA CalmShutdown ==
    ASSUME NEW c, Calm(c), NEW r \in shutdown_ssl(c)
    PROVE  Follows(c, r.c)
<1>1. PICK x \in {"done", "again", "error"} :
        r = CASE x = "done" -> [c |-> SetStatus(c, {"CLOSE"}), zero |-> TRUE]
              [] x = "again" -> [c |-> [c EXCEPT !.sslstatus = {"SHUTTING"}], zero |-> FALSE]
              [] OTHER -> [c |-> SetStatus(c, {"ERR", "CLOSE"}), zero |-> FALSE]
  BY DEF shutdown_ssl
<1>2. /\ Calm(SetStatus(c, {"CLOSE"})) /\ SetStatus(c, {"CLOSE"}).status = {"CLOSE"}
      /\ Calm(SetStatus(c, {"ERR", "CLOSE"}))
      /\ SetStatus(c, {"ERR", "CLOSE"}).status = {"ERR", "CLOSE"}
  BY CalmStatus
<1>3. Calm([c EXCEPT !.sslstatus = {"SHUTTING"}])
      /\ [c EXCEPT !.sslstatus = {"SHUTTING"}].status = c.status
  BY DEF Calm, TlsClients
<1> QED BY <1>1, <1>2, <1>3 DEF Follows

-----------------------------------------------------------------------------
(***************************************************************************)
(* Sending and closing.                                                    *)
(***************************************************************************)
LEMMA CalmClear ==
    ASSUME NEW c, Calm(c)
    PROVE  Follows(c, ws_clear_queue(c))
BY DEF Calm, TlsClients, ws_clear_queue, Follows

LEMMA CalmRespondData ==
    ASSUME NEW c, Calm(c), NEW n \in Nat, NEW s \in RespondData(c, n)
    PROVE  Calm(s.c) /\ s.dropped = FALSE
<1> DEFINE Out(r) == Kept(IF r.sent = n THEN r.c ELSE Queued(r.c, n - r.sent))
<1>0. RespondData(c, n) = {Out(r) : r \in send_ssl_buffer(c, n)}
  BY DEF RespondData
<1> HIDE DEF Out
<1>1. PICK r \in send_ssl_buffer(c, n) : s = Out(r)
  BY <1>0
<1>2. Calm(r.c) /\ r.sent \in Nat /\ r.sent <= n
  BY CalmSend
<1>3. n - r.sent \in Nat
  BY <1>2
<1>4. ASSUME NEW d, Calm(d), NEW k \in Nat
      PROVE  Calm(Queued(d, k))
  BY <1>4 DEF Calm, TlsClients, Queued
<1> QED BY <1>1, <1>2, <1>3, <1>4 DEF Kept, Out

LEMMA CalmRespondCache ==
    ASSUME NEW c, Calm(c), NEW s \in RespondCache(c)
    PROVE  Calm(s.c) /\ s.dropped \in BOOLEAN /\ Excused(s.dropped, s.c)
<1>0. c.queue \in Nat
  BY DEF Calm, TlsClients
<1>1. PICK r \in send_ssl_buffer(c, c.queue) :
        s = IF r.minus /\ r.eagain THEN Kept(r.c)
            ELSE IF r.sent = c.queue \/ r.minus THEN [c |-> ws_clear_queue(r.c), dropped |-> r.minus]
            ELSE Kept([r.c EXCEPT !.queue = @ - r.sent])
  BY DEF RespondCache
<1>2. /\ Calm(r.c) /\ r.sent \in Nat /\ r.sent <= c.queue
      /\ r.minus \in BOOLEAN /\ r.eagain \in BOOLEAN
      /\ r.minus /\ ~r.eagain => Excused(TRUE, r.c)
  BY <1>0, CalmSend
<1>3. CASE r.minus /\ r.eagain
  BY <1>1, <1>2, <1>3 DEF Kept, Excused
<1>4. CASE ~(r.minus /\ r.eagain) /\ (r.sent = c.queue \/ r.minus)
  <2>1. s = [c |-> ws_clear_queue(r.c), dropped |-> r.minus]
    BY <1>1, <1>4
  <2>2. Follows(r.c, ws_clear_queue(r.c))
    BY <1>2, CalmClear
  <2> QED BY <1>2, <1>4, <2>1, <2>2 DEF Excused, Follows
<1>5. CASE ~r.minus /\ r.sent # c.queue
  <2>1. s = Kept([r.c EXCEPT !.queue = @ - r.sent])
    BY <1>1, <1>5
  <2>2. r.c.queue = c.queue
    BY <1>1, <1>5 DEF send_ssl_buffer, Sent, NotSent
  <2>3. Calm([r.c EXCEPT !.queue = @ - r.sent])
    BY <1>0, <1>2, <2>2 DEF Calm, TlsClients
  <2> QED BY <2>1, <2>3 DEF Kept, Excused
<1> QED BY <1>2, <1>3, <1>4, <1>5

LEMMA CalmRespond ==
    ASSUME NEW c, Calm(c), NEW n \in Nat, NEW s \in TlsRespond(c, n)
    PROVE  Calm(s.c) /\ s.dropped \in BOOLEAN /\ Excused(s.dropped, s.c)
<1>1. Calm([c EXCEPT !.queue = @ + n])
  BY DEF Calm, TlsClients
<1>2. CASE s \in {Kept(c), Kept([c EXCEPT !.queue = @ + n])}
  <2>1. s.c \in {c, [c EXCEPT !.queue = @ + n]} /\ s.dropped = FALSE
    BY <1>2 DEF Kept
  <2> QED BY <1>1, <2>1 DEF Excused
<1>3. CASE s \in RespondData(c, n)
  BY <1>3, CalmRespondData DEF Excused
<1>4. CASE s \in RespondCache(c)
  BY <1>4, CalmRespondCache
<1> QED BY <1>2, <1>3, <1>4 DEF TlsRespond

LEMMA CalmCleanup ==
    ASSUME NEW c, Calm(c), NEW d \in ws_cleanup_client(c)
    PROVE  Follows(c, d)
<1> DEFINE Out(r) ==
             CleanedUp(IF "ERR" \in r.c.status THEN ws_clear_queue(r.c) ELSE r.c)
           Shut == IF c.ssl THEN shutdown_ssl(c) ELSE {[c |-> c, zero |-> TRUE]}
<1>0. ws_cleanup_client(c) = {Out(r) : r \in Shut}
  BY DEF ws_cleanup_client
<1> HIDE DEF Out
<1>1. PICK r \in Shut : d = Out(r)
  BY <1>0
<1>2. Follows(c, r.c)
  BY CalmShutdown DEF Follows
<1> DEFINE e == IF "ERR" \in r.c.status THEN ws_clear_queue(r.c) ELSE r.c
<1>3. Follows(r.c, e)
  BY <1>2, CalmClear DEF Follows
<1> HIDE DEF e
<1>4. Calm(e)
  BY <1>3 DEF Follows
<1>5. Calm(CleanedUp(e))
      /\ CleanedUp(e).status = e.status
  BY <1>4 DEF Calm, TlsClients, CleanedUp
<1>6. d = CleanedUp(e)
  BY <1>1 DEF Out, e
<1> QED BY <1>2, <1>3, <1>5, <1>6 DEF Follows

LEMMA CalmClose ==
    ASSUME NEW c, Calm(c), NEW d \in handle_ws_read_close(c)
    PROVE  Follows(c, d)
BY CalmCleanup DEF handle_ws_read_close, Follows

-----------------------------------------------------------------------------
(***************************************************************************)
(* The callbacks.                                                          *)
(***************************************************************************)
LEMMA GoesKeeps ==
    ASSUME TlsInv, NEW c, Calm(c), NEW lost \in BOOLEAN, Excused(lost, c), TlsGoes(c, lost)
    PROVE  TlsInv'
<1>1. liberties' = liberties /\ tls_client' = c
  BY DEF TlsGoes
<1>2. Calm(tls_client)'
  BY <1>1 DEF Calm
<1>3. call'.depth <= 1
  BY DEF TlsGoes, Returned
<1>4. "renegotiates" \notin liberties => ~dropped'
  BY DEF TlsGoes, TlsInv, Excused
<1> QED BY <1>1, <1>2, <1>3, <1>4 DEF TlsInv

LEMMA TlsInitially == TlsInit => TlsInv
BY DEF TlsInit, TlsInv, Calm, TlsClients, NewTlsClient, Returned

LEMMA TlsStep ==
    ASSUME TlsInv, TlsNext
    PROVE  TlsInv'
<1>0. Calm(tls_client)
  BY DEF TlsInv
<1>1. CASE \E events \in SUBSET {"in", "out"} : TlsEvent(events)
  BY <1>1 DEF TlsEvent, TlsInv, Calm
<1>2. CASE Crash
  BY <1>2 DEF Crash, TlsInv, Calm
<1>3. CASE PendingAccept
  <2>1. PICK c \in handle_accept_ssl(tls_client) : TlsGoes(c, FALSE)
    BY <1>3 DEF PendingAccept
  <2>2. Calm(c)
    BY <1>0, CalmAccept
  <2> QED BY <2>1, <2>2, GoesKeeps DEF Excused
<1>4. CASE PendingRead \/ PendingWrite
  <2>1. "renegotiates" \in liberties
    BY <1>0, <1>4 DEF PendingRead, PendingWrite, Calm
  <2>2. UNCHANGED <<liberties, tls_client>>
    BY <1>4 DEF PendingRead, PendingWrite, PendingCall
  <2> QED BY <1>0, <2>1, <2>2 DEF TlsInv, Calm
<1>5. CASE PendingShutdown
  <2>0. PICK r \in shutdown_ssl(tls_client) :
          \E c \in IF r.zero THEN handle_ws_read_close(r.c) ELSE {r.c} : TlsGoes(c, FALSE)
    BY <1>5 DEF PendingShutdown
  <2>1. PICK c \in IF r.zero THEN handle_ws_read_close(r.c) ELSE {r.c} : TlsGoes(c, FALSE)
    BY <2>0
  <2>2. Calm(r.c)
    BY <1>0, CalmShutdown DEF Follows
  <2>3. Calm(c)
    BY <2>1, <2>2, CalmClose DEF Follows
  <2> QED BY <2>1, <2>3, GoesKeeps DEF Excused
<1>6. CASE TlsHandleReads
  <2> DEFINE Replied(r) == IF r.data THEN {Kept(r.c)} \cup TlsRespond(SetStatus(r.c, {}), 1)
                           ELSE IF "CLOSE" \in r.c.status THEN TlsRespond(r.c, 1) ELSE {Kept(r.c)}
             After(s) == IF "CLOSE" \in s.c.status THEN handle_ws_read_close(s.c) ELSE {s.c}
  <2>a. PICK r \in read_ssl_socket(tls_client) :
          \E s \in Replied(r) : \E c \in After(s) : TlsGoes(c, s.dropped)
    BY <1>6 DEF TlsHandleReads
  <2>b. PICK s \in Replied(r) : \E c \in After(s) : TlsGoes(c, s.dropped)
    BY <2>a
  <2>1. PICK c \in After(s) : TlsGoes(c, s.dropped)
    BY <2>b
  <2>2. Calm(r.c) /\ Calm(SetStatus(r.c, {}))
    BY <1>0, CalmRead, CalmStatus
  <2>3. Calm(s.c) /\ s.dropped \in BOOLEAN /\ Excused(s.dropped, s.c)
    <3>1. CASE s = Kept(r.c)
      BY <2>2, <3>1 DEF Kept, Excused
    <3>2. CASE s \in TlsRespond(SetStatus(r.c, {}), 1) \cup TlsRespond(r.c, 1)
      BY <2>2, <3>2, CalmRespond
    <3> QED BY <2>1, <3>1, <3>2
  <2>4. Follows(s.c, c)
    BY <2>1, <2>3, CalmClose DEF Follows
  <2> QED BY <2>1, <2>3, <2>4, GoesKeeps DEF Excused, Follows
<1>7. CASE TlsHandleWrites
  <2> DEFINE Left(s) == IF s.c.queue = 0 THEN SetStatus(s.c, s.c.status \ {"SENDING"}) ELSE s.c
             Then(d) == IF "CLOSE" \in d.status /\ "SENDING" \notin d.status
                        THEN ws_cleanup_client(d)
                        ELSE {[d EXCEPT !.armed = @ /\ d.status \cap {"SENDING", "CLOSE"} # {}]}
  <2>0. PICK s \in TlsRespond(tls_client, 0) : \E c \in Then(Left(s)) : TlsGoes(c, s.dropped)
    BY <1>7 DEF TlsHandleWrites
  <2>1. PICK c \in Then(Left(s)) : TlsGoes(c, s.dropped)
    BY <2>0
  <2>2. Calm(s.c) /\ s.dropped \in BOOLEAN /\ Excused(s.dropped, s.c)
    BY <1>0, CalmRespond
  <2>3. Follows(s.c, Left(s))
    <3>1. s.c.status \ {"SENDING"} \in SUBSET {"ERR", "CLOSE", "SENDING"}
      BY <2>2 DEF Calm, TlsClients
    <3> QED BY <2>2, <3>1, CalmStatus DEF Follows
  <2> DEFINE d == Left(s)
  <2>4. Follows(s.c, d) /\ c \in Then(d)
    BY <2>1, <2>3
  <2> HIDE DEF d
  <2>5. Follows(d, c)
    <3>1. Calm(d)
      BY <2>4 DEF Follows
    <3>2. ASSUME NEW b \in BOOLEAN
          PROVE  Follows(d, [d EXCEPT !.armed = @ /\ b])
      BY <3>1 DEF Follows, Calm, TlsClients
    <3> QED BY <2>4, <3>1, <3>2, CalmCleanup
  <2> QED BY <2>1, <2>2, <2>4, <2>5, GoesKeeps DEF Excused, Follows
<1>8. CASE \E n \in 1..MaxTlsQueue : SendPacket(n)
  <2>1. PICK n \in 1..MaxTlsQueue : SendPacket(n)
    BY <1>8
  <2>2. n \in Nat
    BY TlsAssumption
  <2>3. PICK s \in TlsRespond(tls_client, n) :
          /\ tls_client' = s.c
          /\ dropped' = (dropped \/ (s.dropped /\ s.c.status \cap {"ERR", "CLOSE"} = {}))
    BY <2>1 DEF SendPacket
  <2>4. Calm(s.c) /\ s.dropped \in BOOLEAN /\ Excused(s.dropped, s.c)
    BY <1>0, <2>2, CalmRespond
  <2>5. liberties' = liberties /\ call' = call
    BY <2>1 DEF SendPacket
  <2> QED BY <2>3, <2>4, <2>5 DEF TlsInv, Calm, Excused
<1>9. CASE PeerGoes
  <2>1. Calm([tls_client EXCEPT !.up = FALSE])
    BY <1>0 DEF Calm, TlsClients
  <2> QED BY <1>9, <2>1 DEF PeerGoes, TlsInv, Calm
<1>10. CASE NextClient
  <2>1. Calm(NewTlsClient)
    BY DEF Calm, TlsClients, NewTlsClient
  <2> QED BY <1>10, <2>1 DEF NextClient, TlsInv, Calm
<1> QED BY <1>1, <1>2, <1>3, <1>4, <1>5, <1>6, <1>7, <1>8, <1>9, <1>10 DEF TlsNext

\* Nothing that was queued for a client of the TLS web socket is forgotten while
\* it is not being closed, and no callback calls another, unless the peer
\* renegotiates: for every length of the queue and whatever OpenSSL answers.
THEOREM QueuesSurvive == TlsSpec => []QueueSurvives
<1>1. TlsInv /\ UNCHANGED tlsVars => TlsInv'
  BY DEF TlsInv, Calm, tlsVars
<1>2. TlsInv => QueueSurvives
  BY DEF TlsInv, QueueSurvives
<1> QED BY TlsInitially, TlsStep, <1>1, <1>2, PTL DEF TlsSpec

-----------------------------------------------------------------------------
(***************************************************************************)
(* Induction over the numbers of a set, and the greatest of some numbers.  *)
(***************************************************************************)
LEMMA Induction ==
    ASSUME NEW S, 0 \in S, \A n \in Nat : n \in S => n + 1 \in S
    PROVE  Nat \subseteq S
<1>1. SUFFICES ASSUME Nat \ S # {} PROVE FALSE
  OBVIOUS
<1>2. PICK n \in Nat \ S : \A m \in Nat \ S : n <= m
  BY <1>1, LeastOf
<1>3. n # 0
  BY <1>2
<1>4. n - 1 \in Nat /\ n - 1 \in S
  BY <1>2, <1>3
<1>5. (n - 1) + 1 \in S
  BY <1>4
<1> QED BY <1>2, <1>5

\* A bounded set of numbers has a greatest one.
LEMMA Greatest ==
    ASSUME NEW T \in SUBSET Nat, T # {}, NEW k \in Nat, \A n \in T : n <= k
    PROVE  Max(T) \in T /\ \A n \in T : n <= Max(T)
<1> DEFINE Bounds == {b \in Nat : \A n \in T : n <= b}
<1>1. PICK b \in Bounds : \A c \in Bounds : b <= c
  <2>1. k \in Bounds /\ Bounds \subseteq Nat
    OBVIOUS
  <2> HIDE DEF Bounds
  <2> QED BY <2>1, LeastOf
<1>2. b \in T
  <2>1. SUFFICES ASSUME b \notin T PROVE FALSE
    OBVIOUS
  <2>2. \A n \in T : n <= b - 1
    BY <1>1, <2>1
  <2>3. b \in Nat /\ b - 1 >= 0
    <3>1. PICK n \in T : TRUE
      OBVIOUS
    <3> QED BY <1>1, <2>2, <3>1
  <2>4. b - 1 \in Bounds
    BY <2>2, <2>3
  <2> QED BY <1>1, <2>3, <2>4
<1>3. \A n \in T : b >= n
  BY <1>1
<1>4. Max(T) \in T /\ \A n \in T : Max(T) >= n
  BY <1>2, <1>3 DEF Max
<1> QED BY <1>4

-----------------------------------------------------------------------------
(***************************************************************************)
(* HttpHead: the inductive invariant                                       *)
(***************************************************************************)
\* The headers of a client that is still waited for.
Blank(n) ==
    [reading |-> TRUE, buflen |-> n, fields |-> {}, origin |-> Nil, upgrade |-> Nil]

\* A request that fits, and ends with its first empty line.
Fits ==
    /\ Len(text) > 1 /\ 2 * Len(text) <= MaxHead
    /\ FirstEmpty = Len(text) /\ "nul" \notin Lines(1, Len(text))

Whole == taken = 2 * Len(text)

HeadTypes ==
    /\ text \in Texts /\ config \in BOOLEAN
    /\ headers \in Headers /\ taken \in Nat /\ headers.buflen = taken
    /\ taken <= MaxHead /\ taken <= 2 * Len(text)

StillRead ==
    /\ headers = Blank(taken) /\ replies = <<>>
    /\ status = {"READING"} \/ (status = {} /\ taken = 0)
    /\ Fits => ~Whole

TurnedDown ==
    /\ headers.reading = TRUE /\ replies = <<400>> /\ "CLOSE" \in status
    /\ Fits /\ Whole /\ Acceptable => "ERR" \in status

LetIn ==
    /\ headers.reading = FALSE /\ replies = <<101>> /\ status = {} /\ taken > 0
    /\ Fits => Whole /\ Acceptable

HeadInv == HeadTypes /\ (StillRead \/ TurnedDown \/ LetIn)

-----------------------------------------------------------------------------
(***************************************************************************)
(* Where the head ends                                                     *)
(***************************************************************************)
LEMMA TextFacts ==
    ASSUME text \in Texts
    PROVE  /\ Len(text) \in Nat /\ \A i \in 1..Len(text) : text[i] \in LineKinds
           /\ MaxHead \in Nat
BY HeadAssumption

LEMMA HeadEndFacts ==
    ASSUME text \in Texts, NEW n \in Nat, HeadEnd(n) # 0
    PROVE  HeadEnd(n) \in 2..Len(text)
<1>1. Ends(n) # {} /\ HeadEnd(n) = Min(Ends(n))
  BY DEF HeadEnd
<1>2. Ends(n) \in SUBSET Nat /\ Ends(n) \subseteq 2..Len(text)
  BY TextFacts DEF Ends
<1> QED BY <1>1, <1>2, LeastOf

LEMMA FitsFacts ==
    ASSUME text \in Texts, Fits
    PROVE  /\ Len(text) \in Nat /\ Len(text) > 1 /\ text[Len(text)] = "empty"
           /\ \A i \in 1..Len(text) : text[i] # "nul" /\ (text[i] = "empty" => i = Len(text))
<1> DEFINE empties == {i \in 1..Len(text) : text[i] = "empty"} \cup {Len(text) + 1}
<1>0. FirstEmpty = Min(empties)
  BY DEF FirstEmpty
<1>1. Len(text) \in Nat /\ Len(text) > 1
  BY TextFacts DEF Fits
<1>2. empties \in SUBSET Nat /\ empties # {}
  BY <1>1
<1>3. Min(empties) \in empties /\ \A i \in empties : Min(empties) <= i
  <2> HIDE DEF empties
  <2> QED BY <1>2, LeastOf
<1> HIDE DEF empties
<1>4. Len(text) \in empties /\ \A i \in empties : Len(text) <= i
  BY <1>0, <1>3 DEF Fits
<1>5. \A i \in 1..Len(text) : text[i] # "nul"
  BY DEF Fits, Lines
<1>6. text[Len(text)] = "empty"
  BY <1>1, <1>4 DEF empties
<1>7. ASSUME NEW i \in 1..Len(text), text[i] = "empty" PROVE i = Len(text)
  <2>1. i \in empties
    BY <1>7 DEF empties
  <2> QED BY <1>1, <1>4, <2>1
<1> QED BY <1>1, <1>5, <1>6, <1>7

\* The head of a request that fits ends when it has come whole.
LEMMA FitsEnds ==
    ASSUME text \in Texts, Fits, NEW n \in Nat, n <= 2 * Len(text)
    PROVE  /\ Visible(n) = n
           /\ n = 2 * Len(text) => HeadEnd(n) = Len(text)
           /\ n # 2 * Len(text) => HeadEnd(n) = 0
<1>1. Visible(n) = n
  BY FitsFacts DEF Visible
<1>2. \A i \in Ends(n) : i = Len(text) /\ 2 * i <= n
  BY <1>1, FitsFacts DEF Ends
<1>3. CASE n = 2 * Len(text)
  <2>1. Len(text) \in Ends(n)
    BY <1>1, <1>3, FitsFacts DEF Ends
  <2>2. Ends(n) \in SUBSET Nat
    BY FitsFacts DEF Ends
  <2>3. Min(Ends(n)) \in Ends(n)
    BY <2>1, <2>2, LeastOf
  <2>4. HeadEnd(n) = Min(Ends(n))
    BY <2>1 DEF HeadEnd
  <2> QED BY <1>1, <1>2, <1>3, <2>3, <2>4
<1>4. CASE n # 2 * Len(text)
  <2>1. Ends(n) = {}
    <3>1. ~(2 * Len(text) <= n)
      BY <1>4, FitsFacts
    <3> QED BY <1>2, <3>1
  <2> QED BY <1>1, <1>4, <2>1 DEF HeadEnd
<1> QED BY <1>1, <1>3, <1>4

-----------------------------------------------------------------------------
(***************************************************************************)
(* What the lines come to                                                  *)
(***************************************************************************)
Bad == {"garbled", "mention", "empty"}
Origins == {"origin", "foreign"}

\* The fields a line sets.
SetBy(line) ==
    IF line = "get" THEN {"method", "path", "protocol"}
    ELSE IF line \in Origins \cup {"upgrade", "other"} THEN {} ELSE {line}

\* The origin is the one of the last line that gives one.
Told(origin, m) ==
    \/ origin = Nil /\ \A i \in 1..m : text[i] \notin Origins
    \/ \E j \in 1..m : /\ text[j] \in Origins /\ origin = text[j]
                       /\ \A i \in 1..m : i > j => text[i] \notin Origins

\* The headers of n bytes after m lines that are all readable.
Described(h, m, n) ==
    /\ h \in Headers /\ h.reading = TRUE /\ h.buflen = n
    /\ \A i \in 1..m : text[i] \notin Bad
    /\ h.fields = UNION {SetBy(text[i]) : i \in 1..m}
    /\ Told(h.origin, m)

Parsed(h, m, n) == (h = Nil /\ \E i \in 1..m : text[i] \in Bad) \/ Described(h, m, n)

LEMMA NoLines ==
    ASSUME NEW n \in Nat
    PROVE  Parsed(Blank(n), 0, n)
<1>1. Blank(n) \in Headers
  BY DEF Blank, Headers
<1>2. 1..0 = {} /\ UNION {SetBy(text[i]) : i \in 1..0} = {}
  OBVIOUS
<1> QED BY <1>1, <1>2 DEF Parsed, Described, Told, Blank

\* One more line.
NextHeaders(h, i) == IF h = Nil THEN Nil ELSE ws_set_header_fields(h, text[i])

LEMMA OneMoreLine ==
    ASSUME text \in Texts, NEW n \in Nat, NEW m \in Nat, m + 1 <= Len(text),
           NEW h, Parsed(h, m, n)
    PROVE  Parsed(NextHeaders(h, m + 1), m + 1, n)
<1> DEFINE line == text[m + 1]
           g == NextHeaders(h, m + 1)
<1>1. line \in LineKinds
  BY TextFacts
<1>2. m + 1 \in 1..(m + 1) /\ 1..(m + 1) = 1..m \cup {m + 1} /\ m + 1 \notin 1..m
      /\ \A j \in 1..m : m + 1 > j
  OBVIOUS
<1>3. CASE h = Nil \/ line \in Bad
  <2>1. \E i \in 1..(m + 1) : text[i] \in Bad
    <3>1. Nil \notin Headers
      BY HeadAssumption
    <3> QED BY <1>2, <1>3, <3>1 DEF Parsed, Described
  <2>2. g = Nil
    BY <1>3 DEF NextHeaders, ws_set_header_fields, Bad
  <2> QED BY <2>1, <2>2 DEF Parsed
<1>4. CASE h # Nil /\ line \notin Bad
  <2>1. Described(h, m, n) /\ g = ws_set_header_fields(h, line)
    BY <1>4 DEF Parsed, NextHeaders
  <2>2. h \in Headers
    BY <2>1 DEF Described
  <2>3. g = IF line = "get" THEN ws_parse_request(h) ELSE ws_set_header_key_value(h, line)
    BY <1>4, <2>1 DEF ws_set_header_fields, Bad
  <2>4. /\ g \in Headers /\ g.reading = h.reading /\ g.buflen = h.buflen
        /\ g.fields = h.fields \cup SetBy(line)
        /\ g.origin = IF line \in Origins THEN line ELSE h.origin
    <3> HIDE DEF g, line
    <3>1. CASE line = "get"
      <4>1. g = [h EXCEPT !.fields = @ \cup {"method", "path", "protocol"}]
        BY <2>3, <3>1 DEF ws_parse_request
      <4> QED BY <2>2, <3>1, <4>1 DEF Headers, SetBy, Origins
    <3>2. CASE line \in Origins
      <4>1. g = [h EXCEPT !.origin = line]
        BY <2>3, <3>2 DEF ws_set_header_key_value, Origins
      <4> QED BY <2>2, <3>2, <4>1 DEF Headers, SetBy, Origins
    <3>3. CASE line = "upgrade"
      <4>1. g = [h EXCEPT !.upgrade = "client"]
        BY <2>3, <3>3 DEF ws_set_header_key_value
      <4> QED BY <2>2, <3>3, <4>1 DEF Headers, SetBy, Origins
    <3>4. CASE line = "other"
      <4>1. g = h
        BY <2>3, <3>4 DEF ws_set_header_key_value
      <4> QED BY <2>2, <3>4, <4>1 DEF SetBy, Origins
    <3>5. CASE line \notin Origins \cup {"get", "upgrade", "other"}
      <4>1. g = [h EXCEPT !.fields = @ \cup {line}]
        BY <2>3, <3>5 DEF ws_set_header_key_value, Origins
      <4>2. SetBy(line) = {line}
        BY <3>5 DEF SetBy
      <4> QED BY <1>1, <2>2, <3>5, <4>1, <4>2 DEF Headers
    <3> QED BY <3>1, <3>2, <3>3, <3>4, <3>5
  <2>5. UNION {SetBy(text[i]) : i \in 1..(m + 1)} = (UNION {SetBy(text[i]) : i \in 1..m}) \cup SetBy(line)
    BY <1>2
  <2>6. Told(g.origin, m + 1)
    <3>1. CASE line \in Origins
      BY <1>2, <2>4, <3>1 DEF Told
    <3>2. CASE line \notin Origins
      <4>1. Told(h.origin, m) /\ g.origin = h.origin
        BY <2>1, <2>4, <3>2 DEF Described
      <4>2. CASE h.origin = Nil /\ \A i \in 1..m : text[i] \notin Origins
        BY <1>2, <3>2, <4>1, <4>2 DEF Told
      <4>3. CASE \E j \in 1..m : /\ text[j] \in Origins /\ h.origin = text[j]
                                 /\ \A i \in 1..m : i > j => text[i] \notin Origins
        <5>1. PICK j \in 1..m : /\ text[j] \in Origins /\ h.origin = text[j]
                                /\ \A i \in 1..m : i > j => text[i] \notin Origins
          BY <4>3
        <5>2. j \in 1..(m + 1) /\ \A i \in 1..(m + 1) : i > j => text[i] \notin Origins
          BY <1>2, <3>2, <5>1
        <5> QED BY <4>1, <5>1, <5>2 DEF Told
      <4> QED BY <4>1, <4>2, <4>3 DEF Told
    <3> QED BY <3>1, <3>2
  <2>7. \A i \in 1..(m + 1) : text[i] \notin Bad
    BY <1>2, <1>4, <2>1 DEF Described
  <2> QED BY <2>1, <2>4, <2>5, <2>6, <2>7 DEF Described, Parsed
<1> QED BY <1>3, <1>4

\* The headers after i lines; the recursive function of parse_headers exists.
IsAfter(f, e, h) == f = [i \in 0..e |-> IF i = 0 THEN h ELSE NextHeaders(f[i - 1], i)]

LEMMA AfterExists ==
    ASSUME NEW h, NEW e \in Nat
    PROVE  \E f : IsAfter(f, e, h)
<1> DEFINE T == {k \in Nat : \E f : IsAfter(f, k, h)}
<1>1. 0 \in T
  <2> DEFINE f == [i \in 0..0 |-> h]
  <2>1. f = [i \in 0..0 |-> IF i = 0 THEN h ELSE NextHeaders(f[i - 1], i)]
    OBVIOUS
  <2> HIDE DEF f
  <2>2. IsAfter(f, 0, h)
    BY <2>1 DEF IsAfter
  <2> QED BY <2>2
<1>2. ASSUME NEW k \in Nat, k \in T PROVE k + 1 \in T
  <2>1. PICK f : IsAfter(f, k, h)
    BY <1>2
  <2> DEFINE Value(i, g) == IF i = 0 THEN h ELSE NextHeaders(g[i - 1], i)
             longer == [i \in 0..(k + 1) |-> Value(i, f)]
  <2>2. f = [i \in 0..k |-> Value(i, f)]
    BY <2>1 DEF IsAfter
  <2>3. ASSUME NEW i, NEW g, NEW j, g[i - 1] = j[i - 1] PROVE Value(i, g) = Value(i, j)
    BY <2>3
  <2>4. ASSUME NEW g, NEW j PROVE Value(0, g) = Value(0, j)
    OBVIOUS
  <2>5. ASSUME NEW g, g = [i \in 0..(k + 1) |-> Value(i, g)] PROVE IsAfter(g, k + 1, h)
    BY <2>5 DEF IsAfter
  <2> HIDE DEF Value
  <2>6. ASSUME NEW i \in 0..k PROVE longer[i] = f[i]
    <3>1. i \in 0..(k + 1)
      BY <2>6
    <3>2. f[i] = Value(i, f)
      BY <2>2
    <3> QED BY <3>1, <3>2
  <2>7. ASSUME NEW i \in 0..(k + 1) PROVE Value(i, f) = Value(i, longer)
    <3>1. CASE i = 0
      BY <2>4, <3>1
    <3>2. CASE i # 0
      <4>1. i - 1 \in 0..k
        BY <2>7, <3>2
      <4>2. longer[i - 1] = f[i - 1]
        BY <2>6, <4>1
      <4> HIDE DEF longer
      <4> QED BY <2>3, <4>2
    <3> QED BY <3>1, <3>2
  <2>8. longer = [i \in 0..(k + 1) |-> Value(i, longer)]
    BY <2>7
  <2> HIDE DEF longer
  <2>9. IsAfter(longer, k + 1, h)
    BY <2>5, <2>8
  <2> QED BY <2>9
<1>3. Nat \subseteq T
  <2> HIDE DEF T
  <2> QED BY <1>1, <1>2, Induction
<1> QED BY <1>3

LEMMA HeadersParsed ==
    ASSUME text \in Texts, NEW n \in Nat, HeadEnd(n) # 0
    PROVE  \/ Visible(n) # 2 * HeadEnd(n) /\ parse_headers(Blank(n), n) = Nil
           \/ Parsed(parse_headers(Blank(n), n), HeadEnd(n) - 1, n)
<1> DEFINE end == HeadEnd(n)
<1>1. end \in 2..Len(text) /\ Len(text) \in Nat /\ end \in Nat
  BY HeadEndFacts, TextFacts
<1>2. PICK f : /\ IsAfter(f, end, Blank(n))
               /\ parse_headers(Blank(n), n) = IF Visible(n) # 2 * end THEN Nil ELSE f[end - 1]
  <2> DEFINE g == CHOOSE g : IsAfter(g, end, Blank(n))
  <2>1. IsAfter(g, end, Blank(n))
    BY <1>1, AfterExists
  <2>2. parse_headers(Blank(n), n) = IF Visible(n) # 2 * end THEN Nil ELSE g[end - 1]
    BY DEF parse_headers, IsAfter, NextHeaders
  <2> QED BY <2>1, <2>2
<1> HIDE DEF end
<1>3. f[0] = Blank(n) /\ \A i \in 1..end : f[i] = NextHeaders(f[i - 1], i)
  <2>1. \A i \in 0..end : f[i] = IF i = 0 THEN Blank(n) ELSE NextHeaders(f[i - 1], i)
    BY <1>2 DEF IsAfter
  <2>2. 0 \in 0..end /\ \A i \in 1..end : i \in 0..end /\ i # 0
    BY <1>1
  <2> QED BY <2>1, <2>2
<1> DEFINE T == {m \in Nat : m <= end => Parsed(f[m], m, n)}
<1>4. 0 \in T
  BY <1>3, NoLines
<1>5. ASSUME NEW m \in Nat, m \in T PROVE m + 1 \in T
  <2>1. SUFFICES ASSUME m + 1 <= end PROVE Parsed(f[m + 1], m + 1, n)
    <3>1. m + 1 \in Nat
      OBVIOUS
    <3> QED BY <3>1, Zenon
  <2>2. m + 1 \in 1..end /\ (m + 1) - 1 = m /\ m <= end /\ m + 1 <= Len(text)
    BY <1>1, <2>1
  <2>3. Parsed(f[m], m, n)
    BY <1>5, <2>2
  <2>4. f[m + 1] = NextHeaders(f[m], m + 1)
    BY <1>3, <2>2
  <2> QED BY <2>2, <2>3, <2>4, OneMoreLine
<1>6. Nat \subseteq T
  <2> HIDE DEF T
  <2> QED BY <1>4, <1>5, Induction
<1>7. Parsed(f[end - 1], end - 1, n)
  <2>1. end - 1 \in Nat /\ end - 1 <= end
    BY <1>1
  <2> QED BY <1>6, <2>1
<1> QED BY <1>2, <1>7 DEF end

LEMMA LastOriginFacts ==
    ASSUME text \in Texts
    PROVE  /\ LastOrigin # 0 => LastOrigin \in 1..Len(text) /\ text[LastOrigin] \in Origins
           /\ \A i \in 1..Len(text) : text[i] \in Origins => LastOrigin # 0 /\ i <= LastOrigin
<1> DEFINE T == {i \in 1..Len(text) : text[i] \in {"origin", "foreign"}} \cup {0}
<1>1. LastOrigin = Max(T)
  BY DEF LastOrigin
<1>2. T \in SUBSET Nat /\ T # {} /\ Len(text) \in Nat /\ \A n \in T : n <= Len(text)
  BY TextFacts
<1>3. Max(T) \in T /\ \A n \in T : n <= Max(T)
  <2> HIDE DEF T
  <2> QED BY <1>2, Greatest
<1>4. LastOrigin \in T /\ \A n \in T : n <= LastOrigin
  BY <1>1, <1>3, Zenon
<1> QED BY <1>2, <1>4 DEF Origins

\* A request that fits is let in if and only if it may be.
LEMMA FitsVerified ==
    ASSUME text \in Texts, Fits, config \in BOOLEAN, NEW p, NEW n \in Nat,
           Parsed(p, Len(text) - 1, n)
    PROVE  Acceptable <=> p # Nil /\ ws_verify_req_headers(p)
<1> DEFINE last == Len(text) - 1
<1>0. /\ Len(text) \in Nat /\ Len(text) > 1 /\ text[Len(text)] = "empty"
      /\ \A i \in 1..Len(text) : text[i] \in LineKinds /\ text[i] # "nul"
      /\ \A i \in 1..Len(text) : text[i] = "empty" => i = Len(text)
      /\ FirstEmpty = Len(text)
  BY FitsFacts, TextFacts DEF Fits
<1>1. /\ last \in Nat /\ 1..Len(text) = 1..last \cup {Len(text)}
      /\ \A i \in 1..last : i \in 1..Len(text) /\ i # Len(text)
  BY <1>0
<1> HIDE DEF last
<1>2. Lines(1, last) \subseteq Fields \cup {"get"} <=> \A i \in 1..last : text[i] \notin Bad
  <2>1. \A i \in 1..last : text[i] \in LineKinds \ {"nul", "empty"}
    BY <1>0, <1>1
  <2>2. \A line \in LineKinds \ {"nul", "empty"} : line \in Fields \cup {"get"} <=> line \notin Bad
    BY DEF LineKinds, Fields, Bad
  <2> QED BY <2>1, <2>2 DEF Lines
<1>3. ASSUME Described(p, last, n)
      PROVE  {"get", "host", "connection", "key", "version"} \subseteq Lines(1, Len(text))
               <=> {"host", "method", "protocol", "path", "connection", "key", "version"} \subseteq p.fields
  <2>1. p.fields = UNION {SetBy(text[i]) : i \in 1..last}
    BY <1>3 DEF Described
  <2>2. \A line \in LineKinds : /\ "method" \in SetBy(line) <=> line = "get"
                                /\ "protocol" \in SetBy(line) <=> line = "get"
                                /\ "path" \in SetBy(line) <=> line = "get"
    BY DEF SetBy, Origins, LineKinds, Fields
  <2>3. ASSUME NEW key \in {"host", "connection", "key", "version"}, NEW line \in LineKinds
        PROVE  key \in SetBy(line) <=> line = key
    BY DEF SetBy, Origins
  <2>4. \A key \in {"get", "host", "connection", "key", "version"} :
          key \in Lines(1, Len(text)) <=> \E i \in 1..last : text[i] = key
    BY <1>0, <1>1 DEF Lines
  <2>5. \A i \in 1..last : text[i] \in LineKinds
    BY <1>0, <1>1
  <2>6. ASSUME NEW key \in {"host", "connection", "key", "version"}
        PROVE  key \in Lines(1, Len(text)) <=> key \in p.fields
    BY <2>1, <2>3, <2>4, <2>5
  <2>7. ASSUME NEW key \in {"method", "protocol", "path"}
        PROVE  "get" \in Lines(1, Len(text)) <=> key \in p.fields
    BY <2>1, <2>2, <2>4, <2>5
  <2> QED BY <2>6, <2>7
<1>4. ASSUME Described(p, last, n), config = TRUE
      PROVE  LastOrigin # 0 /\ text[LastOrigin] = "origin" <=> p.origin = "origin"
  <2>0. text[Len(text)] \notin Origins
    BY <1>0 DEF Origins
  <2>1. /\ LastOrigin # 0 => LastOrigin \in 1..last /\ text[LastOrigin] \in Origins
        /\ \A i \in 1..last : text[i] \in Origins => LastOrigin # 0 /\ i <= LastOrigin
    BY <1>1, <2>0, LastOriginFacts
  <2>2. Told(p.origin, last)
    BY <1>4 DEF Described
  <2>3. CASE p.origin = Nil /\ \A i \in 1..last : text[i] \notin Origins
    BY <2>1, <2>3, HeadAssumption
  <2>4. CASE \E j \in 1..last : /\ text[j] \in Origins /\ p.origin = text[j]
                                /\ \A i \in 1..last : i > j => text[i] \notin Origins
    <3>1. PICK j \in 1..last : /\ text[j] \in Origins /\ p.origin = text[j]
                               /\ \A i \in 1..last : i > j => text[i] \notin Origins
      BY <2>4
    <3>2. LastOrigin # 0 /\ j <= LastOrigin /\ LastOrigin \in 1..last
      BY <2>1, <3>1
    <3>3. ~(LastOrigin > j)
      BY <2>1, <3>1, <3>2
    <3>4. LastOrigin = j
      BY <1>1, <3>2, <3>3
    <3> QED BY <3>1, <3>2, <3>4
  <2> QED BY <2>2, <2>3, <2>4 DEF Told
<1>5. CASE p = Nil /\ \E i \in 1..last : text[i] \in Bad
  BY <1>2, <1>5 DEF Acceptable, last
<1>6. CASE Described(p, last, n)
  <2>1. p # Nil
    BY <1>6, HeadAssumption DEF Described
  <2>2. Lines(1, last) \subseteq Fields \cup {"get"}
    BY <1>2, <1>6 DEF Described
  <2>3. Acceptable <=> /\ {"get", "host", "connection", "key", "version"} \subseteq Lines(1, Len(text))
                       /\ config => LastOrigin # 0 /\ text[LastOrigin] = "origin"
    BY <1>0, <2>2 DEF Acceptable, last
  <2> QED BY <1>3, <1>4, <1>6, <2>1, <2>3 DEF ws_verify_req_headers
<1>7. (p = Nil /\ \E i \in 1..last : text[i] \in Bad) \/ Described(p, last, n)
  BY DEF Parsed, last
<1> QED BY <1>5, <1>6, <1>7

-----------------------------------------------------------------------------
(***************************************************************************)
(* The steps                                                               *)
(***************************************************************************)
LEMMA HeadInitially == HeadInit => HeadInv
<1> SUFFICES ASSUME HeadInit PROVE HeadInv
  OBVIOUS
<1>1. headers = Blank(0) /\ Blank(0) \in Headers /\ headers.buflen = 0
  BY DEF HeadInit, Blank, Headers
<1>2. HeadTypes
  <2>1. text \in Texts /\ config \in BOOLEAN /\ taken = 0
    BY DEF HeadInit
  <2>2. Len(text) \in Nat /\ MaxHead \in Nat
    BY <2>1, TextFacts
  <2>3. headers \in Headers /\ headers.buflen = taken
    BY <1>1, <2>1
  <2> QED BY <2>1, <2>2, <2>3 DEF HeadTypes
<1>3. StillRead
  BY <1>1, TextFacts DEF HeadInit, StillRead, Fits, Whole
<1> QED BY <1>2, <1>3 DEF HeadInv

LEMMA HandshakeStep ==
    ASSUME HeadInv, NEW bytes \in Nat, taken + bytes <= MaxHead, taken + bytes <= 2 * Len(text),
           ws_get_handshake(bytes)
    PROVE  HeadInv'
<1> DEFINE n == taken + bytes
           p == parse_headers(Blank(n), n)
           Refuse == /\ replies' = Append(replies, 400) /\ status' = {"CLOSE"}
                     /\ headers' = Blank(n)
<1>1. /\ text' = text /\ config' = config /\ taken' = n
      /\ status \cap {"CLOSE"} = {} /\ headers.reading
  BY DEF ws_get_handshake
<1>2. HeadTypes /\ StillRead
  BY <1>1 DEF HeadInv, TurnedDown, LetIn
<1>3. /\ text \in Texts /\ config \in BOOLEAN /\ taken \in Nat /\ n \in Nat
      /\ Len(text) \in Nat /\ MaxHead \in Nat
  BY <1>2, TextFacts DEF HeadTypes
<1>4. headers = Blank(taken) /\ replies = <<>> /\ Received(headers, bytes) = Blank(n)
      /\ Blank(n).buflen = n
  <2>1. headers = Blank(taken) /\ replies = <<>>
    BY <1>2 DEF StillRead
  <2>2. Received(Blank(taken), bytes) = Blank(n) /\ Blank(n).buflen = n
    <3>1. Blank(taken).buflen = taken /\ Blank(n).buflen = n
      BY DEF Blank
    <3>2. [Blank(taken) EXCEPT !.buflen = n] = Blank(n)
      <4>1. Blank(taken) \in Headers /\ Blank(n) \in Headers
        BY <1>3 DEF Blank, Headers
      <4>2. /\ Blank(n).reading = Blank(taken).reading /\ Blank(n).fields = Blank(taken).fields
            /\ Blank(n).origin = Blank(taken).origin /\ Blank(n).upgrade = Blank(taken).upgrade
        BY DEF Blank
      <4> HIDE DEF n
      <4> QED BY <3>1, <4>1, <4>2 DEF Headers
    <3>3. Received(Blank(taken), bytes) = [Blank(taken) EXCEPT !.buflen = n]
      BY <3>1 DEF Received
    <3> QED BY <3>1, <3>2, <3>3
  <2> QED BY <2>1, <2>2
<1>5. ASSUME NEW m \in Nat
      PROVE  Blank(m) \in Headers /\ Blank(m).reading = TRUE /\ Blank(m).buflen = m
  BY DEF Blank, Headers
<1>6. (Fits' <=> Fits) /\ (Acceptable' <=> Acceptable) /\ (Whole' <=> n = 2 * Len(text))
  BY <1>1 DEF Fits, Acceptable, Whole, FirstEmpty, LastOrigin, Lines
<1>7. ASSUME headers' \in Headers, headers'.buflen = n PROVE HeadTypes'
  BY <1>1, <1>3, <1>7 DEF HeadTypes
<1>8. IF bytes = 0
      THEN replies' = Append(replies, 400) /\ status' = {"ERR", "CLOSE"} /\ UNCHANGED headers
      ELSE IF HeadEnd(n) = 0
      THEN IF Visible(n) < MaxHead
           THEN status' = {"READING"} /\ headers' = Blank(n) /\ UNCHANGED replies
           ELSE Refuse
      ELSE IF p = Nil THEN Refuse
      ELSE IF ~ws_verify_req_headers(p) THEN Refuse
      ELSE /\ headers' = ws_set_handshake_headers(p)
           /\ replies' = Append(replies, 101) /\ status' = {}
  BY <1>4 DEF ws_get_handshake, http_error
<1>9. Fits /\ n = 2 * Len(text) => HeadEnd(n) # 0 /\ (Acceptable <=> p # Nil /\ ws_verify_req_headers(p))
  <2>1. SUFFICES ASSUME Fits, n = 2 * Len(text)
                 PROVE  HeadEnd(n) # 0 /\ (Acceptable <=> p # Nil /\ ws_verify_req_headers(p))
    OBVIOUS
  <2>2. Visible(n) = n /\ HeadEnd(n) = Len(text) /\ Len(text) > 1
    BY <1>3, <2>1, FitsEnds DEF Fits
  <2>3. HeadEnd(n) # 0 /\ Visible(n) = 2 * HeadEnd(n)
    BY <1>3, <2>1, <2>2
  <2>4. Parsed(p, Len(text) - 1, n)
    BY <1>3, <2>2, <2>3, HeadersParsed
  <2> QED BY <1>3, <2>1, <2>3, <2>4, FitsVerified
<1>10. Fits /\ n # 2 * Len(text) => HeadEnd(n) = 0
  BY <1>3, FitsEnds
<1>11. HeadEnd(n) # 0 => p = Nil \/ (p \in Headers /\ p.buflen = n)
  BY <1>3, HeadersParsed DEF Parsed, Described
<1> HIDE DEF n, p
<1>12. CASE bytes = 0
  <2>1. headers' = headers /\ n = taken
    BY <1>3, <1>8, <1>12 DEF n
  <2>2. HeadTypes'
    BY <1>2, <1>7, <2>1 DEF HeadTypes
  <2>3. TurnedDown'
    BY <1>1, <1>4, <1>8, <1>12, <2>1 DEF TurnedDown
  <2> QED BY <2>2, <2>3 DEF HeadInv
<1>13. CASE status' = {"READING"} /\ headers' = Blank(n) /\ UNCHANGED replies /\ HeadEnd(n) = 0
  <2>1. HeadTypes'
    BY <1>3, <1>5, <1>7, <1>13
  <2>2. StillRead'
    BY <1>1, <1>4, <1>6, <1>9, <1>13 DEF StillRead
  <2> QED BY <2>1, <2>2 DEF HeadInv
<1>14. CASE Refuse /\ (HeadEnd(n) # 0 => p = Nil \/ ~ws_verify_req_headers(p))
  <2>1. HeadTypes' /\ headers'.reading = TRUE
    BY <1>3, <1>5, <1>7, <1>14
  <2>2. replies' = <<400>> /\ "CLOSE" \in status'
    BY <1>4, <1>14
  <2>3. TurnedDown'
    BY <1>6, <1>9, <1>14, <2>1, <2>2 DEF TurnedDown
  <2> QED BY <2>1, <2>3 DEF HeadInv
<1>15. CASE /\ bytes # 0 /\ HeadEnd(n) # 0 /\ p # Nil /\ ws_verify_req_headers(p)
            /\ headers' = ws_set_handshake_headers(p)
            /\ replies' = Append(replies, 101) /\ status' = {}
  <2>1. p \in Headers /\ p.buflen = n
    BY <1>11, <1>15
  <2>2. headers' \in Headers /\ headers'.buflen = n /\ headers'.reading = FALSE
    BY <1>15, <2>1 DEF ws_set_handshake_headers, Headers
  <2>3. HeadTypes'
    BY <1>7, <2>2
  <2>4. n > 0
    BY <1>3, <1>15 DEF n
  <2>5. replies' = <<101>>
    BY <1>4, <1>15
  <2>6. LetIn'
    BY <1>1, <1>6, <1>9, <1>10, <1>15, <2>2, <2>4, <2>5 DEF LetIn
  <2> QED BY <2>3, <2>6 DEF HeadInv
<1> QED BY <1>8, <1>12, <1>13, <1>14, <1>15

LEMMA HeadStep ==
    ASSUME HeadInv, HeadNext
    PROVE  HeadInv'
<1>1. /\ taken \in Nat /\ MaxHead \in Nat /\ Len(text) \in Nat /\ headers.buflen = taken
      /\ taken <= MaxHead /\ taken <= 2 * Len(text)
  BY TextFacts DEF HeadInv, HeadTypes
<1>2. CASE ws_get_handshake(0)
  BY <1>1, <1>2, HandshakeStep
<1>3. CASE \E bytes \in 1..Min({Coming, MaxHead - headers.buflen}) : ws_get_handshake(bytes)
  <2>1. PICK bytes \in 1..Min({Coming, MaxHead - headers.buflen}) : ws_get_handshake(bytes)
    BY <1>3
  <2>2. {Coming, MaxHead - headers.buflen} \subseteq Nat
    BY <1>1 DEF Coming
  <2>3. /\ Min({Coming, MaxHead - headers.buflen}) \in Nat
        /\ Min({Coming, MaxHead - headers.buflen}) <= Coming
        /\ Min({Coming, MaxHead - headers.buflen}) <= MaxHead - headers.buflen
    BY <2>2, LeastOf
  <2>4. bytes \in Nat /\ bytes <= Coming /\ bytes <= MaxHead - headers.buflen
    BY <2>2, <2>3
  <2>5. taken + bytes <= MaxHead /\ taken + bytes <= 2 * Len(text)
    BY <1>1, <2>4 DEF Coming
  <2> QED BY <2>1, <2>4, <2>5, HandshakeStep
<1> QED BY <1>2, <1>3 DEF HeadNext, HeadReads, HeadGoes

LEMMA HeadStutters ==
    ASSUME HeadInv, UNCHANGED headVars
    PROVE  HeadInv'
BY DEF HeadInv, HeadTypes, StillRead, TurnedDown, LetIn, Fits, Whole, Acceptable, FirstEmpty,
       LastOrigin, Lines, headVars

LEMMA HeadDecided == HeadInv => HandshakeDecided
<1> SUFFICES ASSUME HeadInv PROVE HandshakeDecided
  OBVIOUS
<1>1. headers.buflen <= MaxHead
  BY DEF HeadInv, HeadTypes
<1>2. /\ Len(replies) = (IF status = {"READING"} \/ (taken = 0 /\ status = {}) THEN 0 ELSE 1)
      /\ ~headers.reading <=> replies = <<101>>
      /\ Fits /\ ~headers.reading => Whole /\ Acceptable
      /\ Fits /\ Whole /\ Acceptable /\ "ERR" \notin status => ~headers.reading
      /\ Fits /\ Whole => replies # <<>>
  <2>1. CASE StillRead
    <3>1. headers.reading = TRUE /\ replies = <<>> /\ Len(<<>>) = 0 /\ <<>> # <<101>>
      BY <2>1 DEF StillRead, Blank
    <3> QED BY <2>1, <3>1 DEF StillRead
  <2>2. CASE TurnedDown
    <3>1. Len(<<400>>) = 1 /\ <<400>> # <<101>> /\ <<400>> # <<>>
      OBVIOUS
    <3> QED BY <2>2, <3>1 DEF TurnedDown
  <2>3. CASE LetIn
    <3>1. Len(<<101>>) = 1 /\ <<101>> # <<>>
      OBVIOUS
    <3> QED BY <2>3, <3>1 DEF LetIn
  <2> QED BY <2>1, <2>2, <2>3 DEF HeadInv
<1> QED BY <1>1, <1>2 DEF HandshakeDecided, Fits, Whole

\* However the request for a web socket is cut into reads, whatever its lines are
\* and however long the buffer is: it is accepted when it has come whole if and
\* only if it may be, and no read goes beyond the buffer.
THEOREM HandshakesDecided == HeadSpec => []HandshakeDecided
BY HeadInitially, HeadStep, HeadStutters, HeadDecided, PTL DEF HeadSpec

\* Both together, for a client of the web socket before and around its frames.
THEOREM WebClientsAreSound == TlsSpec /\ HeadSpec => []WebClientsSound
BY QueuesSurvive, HandshakesDecided, PTL DEF WebClientsSound
=============================================================================
