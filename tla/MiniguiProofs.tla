---------------------------- MODULE MiniguiProofs ----------------------------
(***************************************************************************)
(* Proofs about MiniguiRenderer.                                           *)
(***************************************************************************)
EXTENDS MiniguiRenderer, TLAPS, SequenceTheorems, FiniteSetTheorems,
        WellFoundedInduction

-----------------------------------------------------------------------------
(***************************************************************************)
(* Types                                                                   *)
(***************************************************************************)
Reasons == {"clear", "container", "reply", "event", "close", "window"}

SessionRec ==
    [live : BOOLEAN, name : Names \cup {Nil}, born : Nat, pages : SUBSET Numbers,
     hosts : SUBSET Hosts, window : BOOLEAN, pending : SUBSET Ids]
PageRec ==
    [kind : {Nil, "plain", "pane", "tab"}, name : PageNames \cup {Nil},
     sess : Addresses \cup {Nil}, host : Hosts \cup {Nil}, idx : Nat, hwnd : BOOLEAN,
     view : {Nil, "open", "closing", "closed"}, heard : BOOLEAN]
WindowRec == [state : {Nil, "open", "gone"}, sess : Addresses \cup {Nil}, nrViews : Nat]
HostRec == [open : BOOLEAN, sheet : Seq(Numbers)]
Flight == [page : Numbers, sess : Addresses, born : Nat, id : Ids, loads : BOOLEAN]

TypeOK ==
    /\ env \in Environments
    /\ conn \in [Names -> Addresses \cup {Nil}]
    /\ mem \in [Addresses -> SessionRec]
    /\ sess_list \in Seq(Addresses)
    /\ starts \in Nat
    /\ owners \in [PageNames -> 0..MaxPages]
    /\ pages \in [Numbers -> PageRec]
    /\ window \in WindowRec
    /\ hosts \in [Hosts -> HostRec]
    /\ flights \subseteq Flight
    /\ strays \subseteq Ids
    /\ wrong \in Reasons \cup {Nil}

(***************************************************************************)
(* The inductive invariant.  It says who refers to whom as long as nothing *)
(* read freed memory; what follows from there ends the behaviour.          *)
(***************************************************************************)
\* What is reached from sess_list is one session at most, and it is there.
ListSound == Len(sess_list) <= 1 /\ \A i \in 1..Len(sess_list) : Live(sess_list[i])

\* Endpoints and their sessions know each other.
Connected == \A n \in Names : conn[n] # Nil => Live(conn[n]) /\ mem[conn[n]].name = n

\* Sessions that were freed have no handles; the handles of the others are of
\* their own pages, window and containers, which are there.
HandlesOwn ==
    \A a \in Addresses :
        /\ ~Live(a) => mem[a].pages = {} /\ mem[a].hosts = {} /\ ~mem[a].window
        /\ \A p \in mem[a].pages : Open(p) /\ pages[p].sess = a
        /\ mem[a].window => window.state = "open" /\ window.sess = a
        /\ \A h \in mem[a].hosts : hosts[h].open /\ window.sess = a

PageMade(p) ==
    /\ pages[p].name \in PageNames /\ pages[p].sess \in Addresses /\ pages[p].view # Nil
    /\ pages[p].kind = "plain" => pages[p].host = Nil
    /\ pages[p].kind = "pane" => pages[p].host \in Lists
    /\ pages[p].kind = "tab" => pages[p].host \in Sheets

PagesMade ==
    /\ \A p \in Numbers : pages[p].kind # Nil => PageMade(p)
    /\ \A p \in Numbers : pages[p].kind = Nil => pages[p] = NoPage
    /\ \A f \in flights : pages[f.page].kind # Nil

\* Containers are in the window, and pages of a sheet are in it.
HostsInWindow ==
    /\ window.state = Nil => Tabbed = {}
    /\ window.state = "open" => window.sess \in Addresses
    /\ \A h \in Hosts : hosts[h].open => window.state = "open"
    /\ \A h \in Hosts : \A i \in 1..Len(hosts[h].sheet) : pages[hosts[h].sheet[i]].host = h

\* The tabbed pages that are there: the window counts them.
There == {p \in Tabbed : Open(p)}
WindowCounts ==
    /\ window.state = "open" => window.nrViews = Cardinality(There) /\ There # {}
    /\ window.state = "gone" /\ "frames" \notin env => There = {}

\* Unless pages share a container, it is there as long as its page, and so is
\* the page's own window.
Alone ==
    "siblings" \notin env =>
        /\ \A p, q \in Numbers :
              Open(p) /\ Open(q) /\ pages[p].host = pages[q].host /\ pages[p].host # Nil => p = q
        /\ "frames" \notin env =>
              \A p \in Numbers : Open(p) =>
                  pages[p].hwnd /\ (pages[p].host # Nil => hosts[pages[p].host].open)

\* Unless sessions end before their windows, what refers to one finds it, and
\* no name is taken but by an open page.
Remembered(f) ==
    Open(f.page) => pages[f.page].sess = f.sess /\ mem[f.sess].born = f.born
Outlived ==
    "endings" \notin env =>
        /\ \A p \in Numbers : Open(p) => Live(pages[p].sess) /\ p \in mem[pages[p].sess].pages
        /\ \A p \in Numbers : pages[p].kind = "plain" /\ pages[p].hwnd => Open(p)
        /\ window.state = "open" => Live(window.sess)
        /\ \A f \in flights : Remembered(f)
        /\ strays = {}
        /\ \A name \in PageNames :
              owners[name] # 0 => Open(owners[name]) /\ pages[owners[name]].name = name
        /\ \A p \in Numbers : Open(p) => owners[pages[p].name] = p

Sound ==
    /\ Connected /\ HandlesOwn /\ PagesMade /\ HostsInWindow /\ WindowCounts
    /\ Alone /\ Outlived

IInv ==
    /\ TypeOK /\ ListSound
    /\ wrong # "reply"
    /\ env = {} => wrong = Nil
    /\ wrong = Nil => Sound

-----------------------------------------------------------------------------
LEMMA Apart ==
    /\ Nil \notin Names \cup Addresses \cup PageNames \cup Hosts
    /\ Nil \notin Reasons
    /\ Nil \notin {"plain", "pane", "tab", "open", "closing", "closed", "gone"}
    /\ Lists \cap Sheets = {} /\ Lists \subseteq Hosts /\ Sheets \subseteq Hosts
    /\ MaxPages \in Nat
BY MiniguiAssumption DEF Reasons, Hosts

LEMMA FreeTypes ==
    /\ FreeSession \in SessionRec /\ NoPage \in PageRec /\ NoWindow \in WindowRec
    /\ NoHost \in HostRec
BY EmptySeq DEF FreeSession, NoPage, NoWindow, NoHost, SessionRec, PageRec, WindowRec, HostRec

LEMMA InitIInv == Init => IInv
<1> SUFFICES ASSUME Init
             PROVE  IInv
  OBVIOUS
<1>1. /\ \A a \in Addresses : /\ ~Live(a) /\ mem[a].pages = {} /\ mem[a].hosts = {}
                              /\ ~mem[a].window
      /\ \A p \in Numbers : pages[p] = NoPage /\ pages[p].kind = Nil /\ ~Open(p)
                            /\ pages[p].host = Nil
      /\ \A h \in Hosts : ~hosts[h].open /\ hosts[h].sheet = <<>>
      /\ window.state = Nil /\ sess_list = <<>> /\ flights = {} /\ strays = {} /\ wrong = Nil
      /\ \A n \in Names : conn[n] = Nil
      /\ \A name \in PageNames : owners[name] = 0
  BY Apart DEF Init, Live, Open, FreeSession, NoPage, NoHost, NoWindow
<1>2. TypeOK
  BY FreeTypes, EmptySeq, Apart DEF Init, TypeOK
<1>3. Len(sess_list) = 0 /\ \A h \in Hosts : Len(hosts[h].sheet) = 0
  BY <1>1
<1>4. Tabbed = {} /\ There = {}
  BY <1>1 DEF Tabbed, There
<1>5. wrong # "reply"
  BY <1>1, Apart DEF Reasons
<1>6. Connected /\ HandlesOwn /\ PagesMade /\ HostsInWindow
  BY <1>1, <1>3, <1>4, Apart DEF Connected, HandlesOwn, PagesMade, HostsInWindow
<1>7. WindowCounts /\ Alone /\ Outlived
  BY <1>1, <1>4, Apart DEF WindowCounts, Alone, Outlived
<1>8. QED
  BY <1>1, <1>2, <1>3, <1>5, <1>6, <1>7 DEF IInv, ListSound, Sound

-----------------------------------------------------------------------------
(***************************************************************************)
(* Sessions.                                                               *)
(***************************************************************************)
(* A page that is open was made. *)
LEMMA OpenPages ==
    ASSUME TypeOK, Sound
    PROVE  /\ \A p \in Numbers : Open(p) => pages[p].kind # Nil /\ PageMade(p)
           /\ \A f \in flights : /\ f.page \in Numbers /\ f.sess \in Addresses /\ f.born \in Nat
                                 /\ f.id \in Ids /\ pages[f.page].kind # Nil
           /\ \A p \in Numbers : pages[p] \in PageRec
           /\ \A a \in Addresses : mem[a] \in SessionRec
<1>1. \A p \in Numbers : Open(p) => pages[p].kind # Nil
  BY Apart DEF Open, Sound, PagesMade, NoPage
<1>2. QED
  BY <1>1 DEF Sound, PagesMade, TypeOK, Flight

(* What a sheet has are pages. *)
LEMMA SheetPages ==
    ASSUME TypeOK
    PROVE  \A h \in Hosts : \A i \in 1..Len(hosts[h].sheet) : hosts[h].sheet[i] \in Numbers
<1> SUFFICES ASSUME NEW h \in Hosts, NEW i \in 1..Len(hosts[h].sheet)
             PROVE  hosts[h].sheet[i] \in Numbers
  OBVIOUS
<1>1. hosts[h] \in HostRec
  BY DEF TypeOK
<1>2. hosts[h].sheet \in Seq(Numbers)
  BY <1>1 DEF HostRec
<1>3. QED
  BY <1>2, ElementOfSeq

(* The list of a session that was just started is that session. *)
LEMMA ListStored ==
    ASSUME NEW list \in Seq(Addresses), Len(list) <= 1, NEW a \in Addresses
    PROVE  store_to_sess_list(list, a) = <<a>>
<1>1. CASE list = <<>>
  BY <1>1 DEF store_to_sess_list
<1>2. CASE list # <<>>
  <2>1. Len(list) = 1
    <3>1. Len(list) \in Nat \ {0}
      BY <1>2, EmptySeq, Zenon
    <3> DEFINE k == Len(list)
    <3>2. k \in Nat \ {0} /\ k <= 1
      BY <3>1
    <3> HIDE DEF k
    <3>3. k = 1
      BY <3>2
    <3>4. QED
      BY <3>3 DEF k
  <2>2. Tail(list) = <<>>
    <3>1. Tail(list) \in Seq(Addresses) /\ Len(Tail(list)) = Len(list) - 1
      BY <1>2, HeadTailProperties
    <3>2. Len(Tail(list)) = 0
      BY <2>1, <3>1
    <3>3. Tail(list) # <<>> => Len(Tail(list)) \in Nat \ {0}
      BY <3>1, EmptySeq, Zenon
    <3>4. QED
      BY <3>2, <3>3
  <2>3. <<a>> \o Tail(list) = <<a>>
    <3>1. <<a>> \in Seq(Addresses)
      OBVIOUS
    <3>2. QED
      BY <2>2, <3>1, ConcatEmptySeq
  <2>4. QED
    BY <1>2, <2>3 DEF store_to_sess_list
<1>3. QED
  BY <1>1, <1>2

(* A session that was removed is not reached any more. *)
LEMMA ListRemoved ==
    ASSUME NEW list \in Seq(Addresses), Len(list) <= 1, NEW a \in Addresses
    PROVE  /\ remove_from_sess_list(list, a) \in Seq(Addresses)
           /\ Len(remove_from_sess_list(list, a)) <= 1
           /\ \A i \in 1..Len(remove_from_sess_list(list, a)) :
                 remove_from_sess_list(list, a)[i] # a /\ i \in 1..Len(list)
                 /\ remove_from_sess_list(list, a)[i] = list[i]
<1>1. CASE \E i \in 1..Len(list) : list[i] = a
  <2>1. Len(list) = 1 /\ list[1] = a
    BY <1>1
  <2> DEFINE I == {i \in 1..Len(list) : list[i] = a}
  <2>2. I = {1}
    BY <2>1
  <2>3. Min({1}) = 1
    BY DEF Min
  <2> HIDE DEF I
  <2>4. remove_from_sess_list(list, a) = RemoveAt(list, 1)
    BY <1>1, <2>2, <2>3 DEF remove_from_sess_list, RemoveFirst, SelectInSeq, I
  <2>5. RemoveAt(list, 1) = SubSeq(list, 1, 0) \o SubSeq(list, 2, 1)
    BY <2>1 DEF RemoveAt
  <2>6. SubSeq(list, 1, 0) = <<>> /\ SubSeq(list, 2, 1) = <<>>
    BY SubSeqEmpty
  <2>7. <<>> \o <<>> = <<>> /\ <<>> \in Seq(Addresses) /\ Len(<<>>) = 0
    BY EmptySeq, ConcatEmptySeq
  <2>8. QED
    BY <2>4, <2>5, <2>6, <2>7
<1>2. CASE ~\E i \in 1..Len(list) : list[i] = a
  BY <1>2 DEF remove_from_sess_list, RemoveFirst
<1>3. QED
  BY <1>1, <1>2

LEMMA NewSession ==
    ASSUME NEW n \in Names, NEW k \in Nat
    PROVE  LET s == [FreeSession EXCEPT !.live = TRUE, !.name = n, !.born = k + 1]
           IN  /\ s \in SessionRec /\ s.live /\ s.name = n /\ s.pages = {} /\ s.hosts = {}
               /\ ~s.window
<1> DEFINE s == [FreeSession EXCEPT !.live = TRUE, !.name = n, !.born = k + 1]
           t == [live |-> TRUE, name |-> n, born |-> k + 1, pages |-> {}, hosts |-> {},
                 window |-> FALSE, pending |-> {}]
<1>1. s = t
  <2>1. /\ s.live = t.live /\ s.name = t.name /\ s.born = t.born /\ s.pages = t.pages
        /\ s.hosts = t.hosts /\ s.window = t.window /\ s.pending = t.pending
    BY DEF FreeSession
  <2>2. /\ DOMAIN s = {"live", "name", "born", "pages", "hosts", "window", "pending"}
        /\ DOMAIN t = {"live", "name", "born", "pages", "hosts", "window", "pending"}
    BY DEF FreeSession
  <2>3. s = [x \in DOMAIN s |-> s[x]] /\ t = [x \in DOMAIN t |-> t[x]]
    BY DEF FreeSession
  <2> HIDE DEF s, t
  <2>4. QED
    BY <2>1, <2>2, <2>3
<1>2. t \in SessionRec
  BY DEF SessionRec
<1>3. QED
  BY <1>1, <1>2

LEMMA StartStep ==
    ASSUME IInv, wrong = Nil, NEW n \in Names, StartSession(n)
    PROVE  IInv'
<1> USE DEF IInv
<1> PICK a \in Addresses :
        /\ ~Live(a)
        /\ conn' = [conn EXCEPT ![n] = a]
        /\ mem' = [mem EXCEPT ![a] =
                     [FreeSession EXCEPT !.live = TRUE, !.name = n, !.born = starts + 1]]
        /\ sess_list' = store_to_sess_list(sess_list, a)
  BY DEF StartSession
<1> DEFINE s == [FreeSession EXCEPT !.live = TRUE, !.name = n, !.born = starts + 1]
<1>1. /\ UNCHANGED <<env, owners, pages, window, hosts, flights, strays, wrong>>
      /\ starts' = starts + 1
  BY DEF StartSession
<1>2. /\ s \in SessionRec /\ s.live /\ s.name = n /\ s.pages = {} /\ s.hosts = {} /\ ~s.window
  BY NewSession DEF TypeOK
<1> HIDE DEF s
<1>3. mem' = [mem EXCEPT ![a] = s]
  BY DEF s
<1>4. /\ mem'[a] = s
      /\ \A b \in Addresses : b # a => mem'[b] = mem[b]
      /\ mem' \in [Addresses -> SessionRec]
  BY <1>2, <1>3 DEF TypeOK
<1>5. sess_list' = <<a>>
  BY ListStored DEF ListSound, TypeOK
<1>6. TypeOK'
  BY <1>1, <1>4, <1>5 DEF TypeOK
<1>7. ListSound'
  BY <1>2, <1>4, <1>5 DEF ListSound, Live
<1>8. Connected'
  <2>1. \A m \in Names : m # n => conn'[m] = conn[m] /\ conn[m] # a
    BY Apart DEF Sound, Connected, TypeOK
  <2>2. \A m \in Names : conn[m] \in Addresses \cup {Nil}
    BY DEF TypeOK
  <2>3. QED
    BY <1>2, <1>4, <2>1, <2>2 DEF Sound, Connected, Live, TypeOK
<1>9. HandlesOwn'
  BY <1>1, <1>2, <1>4 DEF Sound, HandlesOwn, Live, Open
<1>10. PagesMade' /\ HostsInWindow' /\ WindowCounts' /\ Alone'
  BY <1>1 DEF Sound, PagesMade, PageMade, HostsInWindow, WindowCounts, Alone, There, Tabbed, Open
<1>11. Outlived'
  <2> SUFFICES ASSUME "endings" \notin env
               PROVE  Outlived'
    BY <1>1 DEF Outlived
  <2>1. \A p \in Numbers : Open(p) => /\ Live(pages[p].sess) /\ pages[p].sess # a
                                      /\ pages[p].sess \in Addresses
    BY OpenPages DEF Sound, Outlived, PageMade
  <2>2. window.state = "open" => Live(window.sess) /\ window.sess # a /\ window.sess \in Addresses
    BY DEF Sound, Outlived, HostsInWindow
  <2>3. \A f \in flights : Remembered(f)'
    BY <1>1, <1>4, <2>1, OpenPages DEF Sound, Outlived, Remembered, Open
  <2>4. \A p \in Numbers : Open(p)' =>
           Live(pages[p].sess)' /\ p \in mem'[pages'[p].sess].pages
    BY <1>1, <1>4, <2>1 DEF Sound, Outlived, Live, Open
  <2>5. window'.state = "open" => Live(window.sess)'
    BY <1>1, <1>4, <2>2 DEF Live
  <2>6. QED
    BY <1>1, <2>3, <2>4, <2>5 DEF Sound, Outlived, Open
<1>12. QED
  BY <1>1, <1>6, <1>7, <1>8, <1>9, <1>10, <1>11 DEF Sound

-----------------------------------------------------------------------------
(***************************************************************************)
(* Steps that only tell pages to close, or send or receive messages.       *)
(***************************************************************************)
\* Two states of a page, of a session, that differ in nothing the invariant
\* tells apart.
SamePage(q, r) ==
    /\ q.kind = r.kind /\ q.name = r.name /\ q.sess = r.sess /\ q.host = r.host
    /\ q.hwnd = r.hwnd
    /\ q.view \in {"open", "closing"} <=> r.view \in {"open", "closing"}
    /\ q.view # Nil <=> r.view # Nil
    /\ q = NoPage <=> r = NoPage
SameSession(s, t) ==
    /\ s.live = t.live /\ s.name = t.name /\ s.born = t.born /\ s.pages = t.pages
    /\ s.hosts = t.hosts /\ s.window = t.window

LEMMA Steady ==
    ASSUME IInv, wrong = Nil,
           UNCHANGED <<env, conn, sess_list, starts, owners, window, hosts, wrong>>,
           pages' \in [Numbers -> PageRec], mem' \in [Addresses -> SessionRec],
           \A p \in Numbers : SamePage(pages'[p], pages[p]),
           \A a \in Addresses : SameSession(mem'[a], mem[a]),
           flights' \subseteq Flight, strays' \subseteq Ids,
           \A f \in flights' \ flights :
              f.page \in Numbers /\ f.sess \in Addresses /\ pages[f.page].kind # Nil
              /\ Remembered(f),
           "endings" \notin env => strays' = strays
    PROVE  IInv'
<1> USE DEF IInv
<1>1. TypeOK'
  BY DEF TypeOK
<1>2. \A p \in Numbers : Open(p)' <=> Open(p)
  BY DEF SamePage, Open
<1>3. \A a \in Addresses : Live(a)' <=> Live(a)
  BY DEF SameSession, Live
<1>4. ListSound'
  BY <1>3 DEF ListSound, TypeOK
<1>5. Connected'
  BY <1>3 DEF Sound, Connected, SameSession, TypeOK
<1>6. HandlesOwn'
  BY <1>2, <1>3 DEF Sound, HandlesOwn, SameSession, SamePage, TypeOK, SessionRec
<1>7. PagesMade'
  <2>1. \A f \in flights : f.page \in Numbers
    BY OpenPages
  <2>2. \A p \in Numbers : PageMade(p) => PageMade(p)'
    BY DEF SamePage, PageMade
  <2>3. QED
    BY <2>1, <2>2 DEF Sound, PagesMade, SamePage
<1>8. Tabbed' = Tabbed /\ There' = There
  BY <1>2 DEF Tabbed, There, SamePage
<1>9. HostsInWindow'
  <2>1. \A h \in Hosts : \A i \in 1..Len(hosts[h].sheet) : hosts[h].sheet[i] \in Numbers
    BY SheetPages
  <2>2. QED
    BY <1>8, <2>1 DEF Sound, HostsInWindow, SamePage
<1>10. WindowCounts'
  BY <1>8 DEF Sound, WindowCounts
<1>11. Alone'
  BY <1>2 DEF Sound, Alone, SamePage
<1>12. Outlived'
  <2> SUFFICES ASSUME "endings" \notin env
               PROVE  Outlived'
    BY DEF Outlived
  <2>1. \A p \in Numbers : Open(p)' => Live(pages[p].sess)' /\ p \in mem'[pages'[p].sess].pages
    BY <1>2, <1>3, OpenPages DEF Sound, Outlived, PageMade, SamePage, SameSession
  <2>2. \A p \in Numbers : (pages[p].kind = "plain" /\ pages[p].hwnd => Open(p))'
    BY <1>2 DEF Sound, Outlived, SamePage
  <2>3. (window.state = "open" => Live(window.sess))'
    BY <1>3 DEF Sound, Outlived, HostsInWindow
  <2>4. ASSUME NEW f \in flights'
        PROVE  Remembered(f)'
    <3>1. Remembered(f) /\ f.page \in Numbers /\ f.sess \in Addresses
      BY OpenPages DEF Sound, Outlived
    <3>2. QED
      BY <1>2, <3>1 DEF Remembered, SamePage, SameSession
  <2>5. \A name \in PageNames :
           owners[name] # 0 => Open(owners[name])' /\ pages'[owners[name]].name = name
    <3>1. \A name \in PageNames : owners[name] # 0 => owners[name] \in Numbers
      BY Apart DEF TypeOK, Numbers
    <3>2. QED
      BY <1>2, <3>1 DEF Sound, Outlived, SamePage
  <2>6. \A p \in Numbers : Open(p)' => owners[pages'[p].name] = p
    BY <1>2 DEF Sound, Outlived, SamePage
  <2>7. QED
    BY <2>1, <2>2, <2>3, <2>4, <2>5, <2>6 DEF Sound, Outlived
<1>13. QED
  BY <1>1, <1>4, <1>5, <1>6, <1>7, <1>9, <1>10, <1>11, <1>12 DEF Sound

(* Pages that are told to close are there until their view has closed. *)
LEMMA Told ==
    ASSUME TypeOK, NEW ps, NEW p \in Numbers
    PROVE  /\ TryClose(ps)[p] \in PageRec
           /\ SamePage(TryClose(ps)[p], pages[p])
           /\ TryClose(ps)[p].view = pages[p].view \/ (Open(p) /\ TryClose(ps)[p].view = "closing")
<1>1. pages[p] \in PageRec
  BY DEF TypeOK
<1>2. CASE p \in ps /\ Open(p)
  <2>1. TryClose(ps)[p] = [pages[p] EXCEPT !.view = "closing"]
    BY <1>2 DEF TryClose
  <2>2. pages[p] # NoPage
    BY <1>2, Apart DEF Open, NoPage
  <2>3. [pages[p] EXCEPT !.view = "closing"] # NoPage
    BY <1>1, Apart DEF NoPage, PageRec
  <2>4. QED
    BY <1>1, <1>2, <2>1, <2>2, <2>3, Apart DEF PageRec, SamePage, Open
<1>3. CASE ~(p \in ps /\ Open(p))
  BY <1>1, <1>3 DEF TryClose, SamePage
<1>4. QED
  BY <1>2, <1>3

LEMMA TryCloseStep ==
    ASSUME IInv, wrong = Nil, NEW ps, pages' = TryClose(ps),
           UNCHANGED <<env, conn, mem, sess_list, starts, owners, window, hosts, flights,
                       strays, wrong>>
    PROVE  IInv'
<1>1. pages' \in [Numbers -> PageRec] /\ \A p \in Numbers : SamePage(pages'[p], pages[p])
  <2>1. TypeOK /\ pages' = [p \in Numbers |-> TryClose(ps)[p]]
    BY DEF TryClose, IInv
  <2>2. QED
    BY <2>1, Told
<1>2. \A a \in Addresses : SameSession(mem'[a], mem[a])
  BY DEF SameSession
<1>3. mem' \in [Addresses -> SessionRec] /\ flights' \subseteq Flight /\ strays' \subseteq Ids
  BY DEF IInv, TypeOK
<1>4. QED
  BY <1>1, <1>2, <1>3, Steady

LEMMA DestroyStep ==
    ASSUME IInv, wrong = Nil, NEW n, NEW p, DestroyPage(n, p)
    PROVE  IInv'
<1>1. QED
  BY TryCloseStep DEF DestroyPage

LEMMA UserClosesStep ==
    ASSUME IInv, wrong = Nil, NEW p, UserCloses(p)
    PROVE  IInv'
BY TryCloseStep DEF UserCloses

(* What a session waits for may change. *)
LEMMA Pending ==
    ASSUME TypeOK, NEW a \in Addresses, NEW S \in SUBSET Ids
    PROVE  LET m == [mem EXCEPT ![a].pending = S]
           IN  /\ m \in [Addresses -> SessionRec]
               /\ \A b \in Addresses : SameSession(m[b], mem[b])
<1> DEFINE m == [mem EXCEPT ![a].pending = S]
<1>1. /\ mem \in [Addresses -> SessionRec]
      /\ \A b \in Addresses : mem[b] \in SessionRec
  BY DEF TypeOK
<1>2. \A b \in Addresses : m[b] = IF b = a THEN [mem[a] EXCEPT !.pending = S] ELSE mem[b]
  BY <1>1
<1>3. [mem[a] EXCEPT !.pending = S] \in SessionRec
      /\ SameSession([mem[a] EXCEPT !.pending = S], mem[a])
  BY <1>1 DEF SessionRec, SameSession
<1>4. QED
  BY <1>1, <1>2, <1>3 DEF SameSession

LEMMA AskStep ==
    ASSUME IInv, wrong = Nil, NEW n \in Names, NEW p \in Numbers, NEW r \in Ids, AskPage(n, p, r)
    PROVE  IInv'
<1> USE DEF IInv
<1> DEFINE a == conn[n]
           f == [page |-> p, sess |-> a, born |-> mem[a].born, id |-> r, loads |-> FALSE]
<1>1. /\ a \in Addresses /\ p \in mem[a].pages
      /\ flights' = flights \cup {f}
      /\ mem' = [mem EXCEPT ![a].pending = mem[a].pending \cup {r}]
      /\ UNCHANGED <<env, conn, sess_list, starts, owners, pages, window, hosts, strays, wrong>>
  BY DEF AskPage, TypeOK
<1>2. mem[a] \in SessionRec
  BY <1>1 DEF TypeOK
<1>3. mem' \in [Addresses -> SessionRec] /\ \A b \in Addresses : SameSession(mem'[b], mem[b])
  <2>1. mem[a].pending \cup {r} \in SUBSET Ids
    BY <1>2 DEF SessionRec
  <2>2. QED
    BY <1>1, <2>1, Pending
<1>4. Open(p) /\ pages[p].sess = a /\ pages[p].kind # Nil
  BY <1>1, OpenPages DEF Sound, HandlesOwn
<1>5. f \in Flight /\ Remembered(f) /\ f.page \in Numbers /\ f.sess \in Addresses
      /\ pages[f.page].kind # Nil
  BY <1>1, <1>2, <1>4 DEF Flight, Remembered, SessionRec
<1> HIDE DEF f
<1>6. flights' \subseteq Flight /\ strays' \subseteq Ids /\ pages' \in [Numbers -> PageRec]
  BY <1>1, <1>5 DEF TypeOK
<1>7. \A q \in Numbers : SamePage(pages'[q], pages[q])
  BY <1>1 DEF SamePage
<1>8. QED
  BY <1>1, <1>3, <1>5, <1>6, <1>7, Steady

LEMMA AnsweredStep ==
    ASSUME IInv, wrong = Nil, NEW f \in flights, NEW hears, Answered(f, hears)
    PROVE  IInv'
<1> USE DEF IInv
<1>1. /\ flights' = flights \ {f}
      /\ UNCHANGED <<env, conn, sess_list, starts, owners, pages, window, hosts>>
  BY DEF Answered
<1>2. f \in Flight /\ f.sess \in Addresses /\ f.page \in Numbers /\ f.id \in Ids
  BY OpenPages DEF TypeOK
<1>3. mem[f.sess] \in SessionRec
  BY <1>2 DEF TypeOK
<1>4. CASE Open(f.page) /\ is_in_sess_list(f.sess) /\ handle_response_from_webpage(f)
  <2>1. Live(f.sess)
    <3>1. \E i \in 1..Len(sess_list) : sess_list[i] = f.sess
      BY <1>4 DEF is_in_sess_list, Contains
    <3>2. QED
      BY <3>1 DEF ListSound
  <2>2. /\ wrong' = wrong
        /\ mem' = [mem EXCEPT ![f.sess].pending = mem[f.sess].pending \ {f.id}]
        /\ strays' = strays \/ (strays' = strays \cup {f.id} /\ mem[f.sess].born # f.born)
    BY <1>2, <1>4, <2>1 DEF handle_response_from_webpage
  <2>3. mem' \in [Addresses -> SessionRec] /\ \A b \in Addresses : SameSession(mem'[b], mem[b])
    <3>1. mem[f.sess].pending \ {f.id} \in SUBSET Ids
      BY <1>3 DEF SessionRec
    <3>2. QED
      BY <1>2, <2>2, <3>1, Pending
  <2>4. "endings" \notin env => strays' = strays
    BY <1>4, <2>2 DEF Sound, Outlived, Remembered
  <2>5. strays' \subseteq Ids /\ flights' \subseteq Flight /\ pages' \in [Numbers -> PageRec]
    BY <1>1, <1>2, <2>2 DEF TypeOK
  <2>6. \A q \in Numbers : SamePage(pages'[q], pages[q])
    BY <1>1 DEF SamePage
  <2>7. \A g \in flights' \ flights : FALSE
    BY <1>1
  <2>8. QED
    BY <1>1, <2>2, <2>3, <2>4, <2>5, <2>6, <2>7, Steady
<1>5. CASE UNCHANGED <<mem, strays, wrong>>
  <2>1. strays' \subseteq Ids /\ flights' \subseteq Flight /\ pages' \in [Numbers -> PageRec]
        /\ mem' \in [Addresses -> SessionRec]
    BY <1>1, <1>5 DEF TypeOK
  <2>2. \A q \in Numbers : SamePage(pages'[q], pages[q])
    BY <1>1 DEF SamePage
  <2>3. \A b \in Addresses : SameSession(mem'[b], mem[b])
    BY <1>5 DEF SameSession
  <2>4. \A g \in flights' \ flights : FALSE
    BY <1>1
  <2>5. QED
    BY <1>1, <1>5, <2>1, <2>2, <2>3, <2>4, Steady
<1>6. QED
  BY <1>4, <1>5 DEF Answered, handle_response_from_webpage

LEMMA ReplyStep ==
    ASSUME IInv, wrong = Nil, NEW f \in flights,
           user_message_received_callback(f) \/ request_ready_callback(f)
    PROVE  IInv'
BY AnsweredStep DEF user_message_received_callback, request_ready_callback

-----------------------------------------------------------------------------
(***************************************************************************)
(* The end of a session.                                                   *)
(***************************************************************************)
LEMMA EndStep ==
    ASSUME IInv, wrong = Nil, NEW n \in Names, EndSession(n)
    PROVE  IInv'
<1> USE DEF IInv
<1> PICK a \in Addresses : a = conn[n] /\ a # Nil
  BY DEF EndSession, TypeOK
<1> DEFINE clears == mem[a].window /\ window.state = "open"
           silenced == [p \in Numbers |->
                          IF p \in OwnPages(a) THEN [pages[p] EXCEPT !.heard = FALSE] ELSE pages[p]]
           closing == OwnPages(a) \cup (IF clears THEN Tabbed ELSE {})
           told == TryClose(closing)
<1>1. /\ "endings" \in env \/ ~Refers(a)
      /\ conn' = [conn EXCEPT ![n] = Nil]
      /\ sess_list' = remove_from_sess_list(sess_list, a)
      /\ mem' = [mem EXCEPT ![a] = FreeSession]
      /\ pages' = [p \in Numbers |-> [silenced[p] EXCEPT !.view = told[p].view]]
      /\ wrong' = IF clears /\ \E h \in Hosts : ~hosts[h].open THEN "clear" ELSE wrong
      /\ UNCHANGED <<env, starts, owners, window, hosts, flights, strays>>
  BY DEF EndSession, mg_remove_session
<1>0. wrong' \in {Nil, "clear"} /\ (wrong' # Nil => clears)
  <2>1. wrong' = IF clears /\ \E h \in Hosts : ~hosts[h].open THEN "clear" ELSE Nil
    BY <1>1
  <2> HIDE DEF clears
  <2>2. QED
    BY <2>1, Zenon
<1>2. /\ UNCHANGED <<env, starts, owners, window, hosts, flights, strays>>
      /\ wrong' \in {Nil, "clear"} /\ (wrong' # Nil => clears)
  BY <1>0, <1>1
<1>3. \A p \in Numbers : told[p] \in PageRec /\ SamePage(told[p], pages[p])
  BY Told
<1> HIDE DEF told, closing
<1>4. \A p \in Numbers : pages[p] \in PageRec /\ silenced[p] \in PageRec
  BY DEF TypeOK, PageRec
<1>5. \A p \in Numbers :
         /\ silenced[p].kind = pages[p].kind /\ silenced[p].name = pages[p].name
         /\ silenced[p].sess = pages[p].sess /\ silenced[p].host = pages[p].host
         /\ silenced[p].hwnd = pages[p].hwnd
  BY <1>4 DEF PageRec
<1> HIDE DEF silenced
<1>6. /\ pages' \in [Numbers -> PageRec]
      /\ \A p \in Numbers :
            /\ pages'[p].kind = pages[p].kind /\ pages'[p].name = pages[p].name
            /\ pages'[p].sess = pages[p].sess /\ pages'[p].host = pages[p].host
            /\ pages'[p].hwnd = pages[p].hwnd /\ pages'[p].view = told[p].view
  BY <1>1, <1>3, <1>4, <1>5 DEF PageRec
<1>7. \A p \in Numbers : Open(p)' <=> Open(p)
  BY <1>3, <1>6 DEF Open, SamePage
<1>8. /\ mem'[a] = FreeSession
      /\ \A b \in Addresses : b # a => mem'[b] = mem[b]
      /\ mem' \in [Addresses -> SessionRec]
  BY <1>1, FreeTypes DEF TypeOK
<1>9. /\ sess_list' \in Seq(Addresses) /\ Len(sess_list') <= 1
      /\ \A i \in 1..Len(sess_list') : sess_list'[i] # a /\ i \in 1..Len(sess_list)
                                       /\ sess_list'[i] = sess_list[i]
  <2>1. sess_list' = remove_from_sess_list(sess_list, a)
    BY <1>1
  <2>2. sess_list \in Seq(Addresses) /\ Len(sess_list) <= 1
    BY DEF ListSound, TypeOK
  <2> DEFINE new == remove_from_sess_list(sess_list, a)
  <2>3. /\ new \in Seq(Addresses) /\ Len(new) <= 1
        /\ \A i \in 1..Len(new) : new[i] # a /\ i \in 1..Len(sess_list) /\ new[i] = sess_list[i]
    BY <2>2, ListRemoved
  <2> HIDE DEF new
  <2>4. sess_list' = new
    BY <2>1 DEF new
  <2>5. QED
    BY <2>3, <2>4
<1>10. TypeOK'
  BY <1>1, <1>2, <1>6, <1>8, <1>9 DEF TypeOK, Reasons
<1>11. ListSound'
  <2>1. ASSUME NEW i \in 1..Len(sess_list')
        PROVE  Live(sess_list[i])'
    <3>1. sess_list[i] \in Addresses /\ Live(sess_list[i])
      BY <1>9, ElementOfSeq DEF ListSound, TypeOK
    <3>2. QED
      BY <1>8, <1>9, <2>1, <3>1 DEF Live
  <2>2. QED
    BY <1>9, <2>1 DEF ListSound
<1>12. wrong' # "reply"
  BY <1>2, Apart DEF Reasons
<1>13. env = {} => wrong' = Nil
  <2> SUFFICES ASSUME env = {}, clears
               PROVE  FALSE
    BY <1>2
  <2>1. ~Refers(a)
    BY <1>1
  <2>2. window.sess = a
    BY <1>1 DEF Sound, HandlesOwn
  <2>3. QED
    BY <2>1, <2>2 DEF Refers
<1>14. Connected'
  <2>1. \A m \in Names : m # n => conn'[m] = conn[m] /\ (conn[m] # Nil => conn[m] # a)
    BY <1>1 DEF Sound, Connected, TypeOK
  <2>2. conn'[n] = Nil /\ \A m \in Names : conn[m] \in Addresses \cup {Nil}
    BY <1>1 DEF TypeOK
  <2>3. QED
    BY <1>8, <2>1, <2>2 DEF Sound, Connected, Live
<1>15. HandlesOwn'
  <2>1. /\ ~mem'[a].live /\ mem'[a].pages = {} /\ mem'[a].hosts = {} /\ ~mem'[a].window
    BY <1>8 DEF FreeSession
  <2>2. \A b \in Addresses : mem[b].pages \subseteq Numbers /\ mem[b].hosts \subseteq Hosts
    BY OpenPages DEF SessionRec
  <2>3. ASSUME NEW b \in Addresses, b # a
        PROVE  /\ ~Live(b)' => mem'[b].pages = {} /\ mem'[b].hosts = {} /\ ~mem'[b].window
               /\ \A p \in mem'[b].pages : Open(p)' /\ pages'[p].sess = b
               /\ mem'[b].window => window'.state = "open" /\ window'.sess = b
               /\ \A h \in mem'[b].hosts : hosts'[h].open /\ window'.sess = b
    <3>1. mem'[b] = mem[b] /\ window' = window /\ hosts' = hosts
      BY <1>1, <1>8, <2>3
    <3>2. Live(b)' <=> Live(b)
      BY <3>1 DEF Live
    <3>3. HandlesOwn
      BY DEF Sound
    <3>4. \A p \in mem[b].pages : Open(p)' /\ pages'[p].sess = b
      BY <1>6, <1>7, <2>2, <3>3 DEF HandlesOwn
    <3>5. QED
      BY <3>1, <3>2, <3>3, <3>4 DEF HandlesOwn
  <2>4. QED
    BY <2>1, <2>3 DEF HandlesOwn, Live
<1>16. PagesMade'
  <2>1. \A f \in flights : f.page \in Numbers
    BY OpenPages
  <2>2. \A p \in Numbers : PageMade(p) => PageMade(p)'
    BY <1>3, <1>6 DEF PageMade, SamePage
  <2>3. ASSUME NEW p \in Numbers, pages[p].kind = Nil
        PROVE  pages'[p] = NoPage
    <3>1. pages[p] = NoPage /\ told[p] = NoPage
      BY <1>3, <2>3 DEF Sound, PagesMade, SamePage
    <3>2. silenced[p] = NoPage
      <4>1. [NoPage EXCEPT !.heard = FALSE] = NoPage
        <5> DEFINE q == [NoPage EXCEPT !.heard = FALSE]
        <5>1. /\ q = [x \in DOMAIN NoPage |-> q[x]]
              /\ NoPage = [x \in DOMAIN NoPage |-> NoPage[x]]
          BY DEF NoPage
        <5>2. NoPage.heard = FALSE /\ \A x \in DOMAIN NoPage : x # "heard" => q[x] = NoPage[x]
          BY DEF NoPage
        <5>3. q.heard = FALSE
          BY DEF NoPage
        <5> HIDE DEF q
        <5>4. QED
          BY <5>1, <5>2, <5>3
      <4>2. QED
        BY <3>1, <4>1 DEF silenced
    <3>3. QED
      BY <1>1, <3>1, <3>2 DEF NoPage
  <2>4. QED
    BY <1>1, <1>6, <2>1, <2>2, <2>3 DEF Sound, PagesMade
<1>17. Tabbed' = Tabbed /\ There' = There
  BY <1>6, <1>7 DEF Tabbed, There
<1>18. HostsInWindow' /\ WindowCounts'
  <2>1. \A h \in Hosts : \A i \in 1..Len(hosts[h].sheet) : hosts[h].sheet[i] \in Numbers
    BY SheetPages
  <2>2. HostsInWindow'
    BY <1>2, <1>6, <1>17, <2>1 DEF Sound, HostsInWindow
  <2>3. WindowCounts'
    BY <1>2, <1>17 DEF Sound, WindowCounts
  <2>4. QED
    BY <2>2, <2>3
<1>19. Alone'
  BY <1>2, <1>6, <1>7 DEF Sound, Alone
<1>20. Outlived'
  <2> SUFFICES ASSUME "endings" \notin env
               PROVE  Outlived'
    BY <1>1 DEF Outlived
  <2>1. ~Refers(a)
    BY <1>1
  <2>2. \A p \in Numbers : Open(p) => pages[p].sess # a /\ pages[p].sess \in Addresses
    BY <2>1, OpenPages DEF Refers, PageMade
  <2>3. \A p \in Numbers : Open(p)' =>
           Live(pages[p].sess)' /\ p \in mem'[pages'[p].sess].pages
    BY <1>6, <1>7, <1>8, <2>2 DEF Sound, Outlived, Live
  <2>4. (window.state = "open" => Live(window.sess))'
    BY <1>1, <1>8, <2>1 DEF Sound, Outlived, HostsInWindow, Refers, Live
  <2>5. ASSUME NEW f \in flights'
        PROVE  Remembered(f)'
    <3>1. Remembered(f) /\ f.page \in Numbers /\ f.sess \in Addresses
      BY <1>1, OpenPages DEF Sound, Outlived
    <3>2. QED
      BY <1>6, <1>7, <1>8, <2>2, <3>1 DEF Remembered
  <2>6. \A name \in PageNames :
           owners[name] # 0 => Open(owners[name])' /\ pages'[owners[name]].name = name
    <3>1. \A name \in PageNames : owners[name] # 0 => owners[name] \in Numbers
      BY Apart DEF TypeOK, Numbers
    <3>2. \A name \in PageNames :
             owners[name] # 0 => Open(owners[name]) /\ pages[owners[name]].name = name
      BY DEF Sound, Outlived
    <3>3. QED
      BY <1>2, <1>6, <1>7, <3>1, <3>2
  <2>7. \A p \in Numbers : /\ Open(p)' => owners[pages'[p].name] = p
                           /\ pages'[p].kind = "plain" /\ pages'[p].hwnd => Open(p)'
    BY <1>6, <1>7 DEF Sound, Outlived
  <2>8. QED
    BY <1>1, <2>3, <2>4, <2>5, <2>6, <2>7 DEF Sound, Outlived
<1>21. QED
  BY <1>1, <1>10, <1>11, <1>12, <1>13, <1>14, <1>15, <1>16, <1>18, <1>19, <1>20 DEF Sound

-----------------------------------------------------------------------------
(***************************************************************************)
(* The making of pages.                                                    *)
(***************************************************************************)
(* A page gets a number that is not in use. *)
LEMMA NewUnused ==
    ASSUME MayMake
    PROVE  New \in Numbers /\ pages[New].kind = Nil
<1> DEFINE S == {p \in Numbers : pages[p].kind = Nil}
<1>1. S # {} /\ S \subseteq Nat
  BY DEF MayMake, Numbers
<1>2. \E m \in S : \A k \in S : m <= k
  <2>1. \E m \in S : \A k \in S : ~(<<k, m>> \in OpToRel(<, Nat))
    BY <1>1, WFMin, NatLessThanWellFounded
  <2>2. \A k, m \in Nat : k < m => <<k, m>> \in OpToRel(<, Nat)
    BY DEF OpToRel
  <2>3. \A k, m \in Nat : k < m \/ m <= k
    OBVIOUS
  <2>4. QED
    BY <1>1, <2>1, <2>2, <2>3, Zenon
<1>3. Min(S) \in S
  BY <1>2 DEF Min
<1>4. QED
  BY <1>3 DEF New

KindFits(k, h) == \/ k = "plain" /\ h = Nil
                  \/ k = "pane" /\ h \in Lists
                  \/ k = "tab" /\ h \in Sheets

(* What is there once a page was made. *)
LEMMA MadePages ==
    ASSUME IInv, wrong = Nil, MayMake,
           NEW n \in Names, NEW name \in PageNames, NEW r \in Ids, NEW k, NEW h, NEW i \in Nat,
           KindFits(k, h), Made(n, name, k, h, i, r),
           NEW a, a = conn[n], a # Nil, NEW P, P = New
    PROVE  /\ P \in Numbers /\ pages[P].kind = Nil /\ pages[P].host = Nil /\ ~Open(P)
           /\ pages' \in [Numbers -> PageRec]
           /\ pages'[P] = [kind |-> k, name |-> name, sess |-> a, host |-> h, idx |-> i,
                           hwnd |-> TRUE, view |-> "open", heard |-> TRUE]
           /\ \A q \in Numbers : q # P => pages'[q] = pages[q] /\ (Open(q)' <=> Open(q))
           /\ Open(P)'
           /\ h = Nil => Tabbed' = Tabbed /\ There' = There
           /\ h # Nil => Tabbed' = Tabbed \cup {P} /\ There' = There \cup {P}
           /\ P \notin There
           /\ a \in Addresses /\ Live(a) /\ mem[a].name = n
<1> USE DEF IInv
<1> DEFINE page == [kind |-> k, name |-> name, sess |-> a, host |-> h, idx |-> i,
                    hwnd |-> TRUE, view |-> "open", heard |-> TRUE]
<1>1. P \in Numbers /\ pages[P].kind = Nil
  BY NewUnused
<1>2. pages[P] = NoPage
  BY <1>1 DEF Sound, PagesMade
<1>3. pages[P].host = Nil /\ ~Open(P)
  BY <1>2, Apart DEF NoPage, Open
<1>4. a \in Addresses /\ Live(a) /\ mem[a].name = n
  BY DEF Sound, Connected, TypeOK
<1>5. page \in PageRec
  BY <1>4, Apart DEF PageRec, KindFits
<1>6. pages' = [pages EXCEPT ![P] = page]
  BY DEF Made
<1> HIDE DEF page
<1>7. /\ pages'[P] = page
      /\ \A q \in Numbers : q # P => pages'[q] = pages[q]
      /\ pages' \in [Numbers -> PageRec]
  BY <1>1, <1>5, <1>6 DEF TypeOK
<1>8. \A q \in Numbers : q # P => (Open(q)' <=> Open(q))
  BY <1>7 DEF Open
<1>9. page.view = "open" /\ page.host = h
  BY DEF page
<1>10. Open(P)'
  BY <1>7, <1>9 DEF Open
<1>11. P \notin Tabbed /\ P \notin There
  BY <1>3 DEF Tabbed, There
<1>12. h = Nil => Tabbed' = Tabbed /\ There' = There
  BY <1>1, <1>3, <1>7, <1>8, <1>9 DEF Tabbed, There
<1>13. h # Nil => Tabbed' = Tabbed \cup {P} /\ There' = There \cup {P}
  BY <1>1, <1>3, <1>7, <1>8, <1>9, <1>10 DEF Tabbed, There
<1>14. pages'[P] = [kind |-> k, name |-> name, sess |-> a, host |-> h, idx |-> i,
                    hwnd |-> TRUE, view |-> "open", heard |-> TRUE]
  BY <1>7 DEF page
<1>15. QED
  BY <1>1, <1>3, <1>4, <1>7, <1>8, <1>10, <1>11, <1>12, <1>13, <1>14

(* What else creating page P in container h, for the session at a, does. *)
TakenIn(a, P, h) ==
    /\ UNCHANGED <<env, conn, sess_list, starts, strays, wrong>>
    /\ window' \in WindowRec /\ hosts' \in [Hosts -> HostRec]
    /\ mem' \in [Addresses -> SessionRec]
    /\ \A b \in Addresses :
          /\ mem'[b].live = mem[b].live /\ mem'[b].name = mem[b].name
          /\ mem'[b].born = mem[b].born
          /\ mem'[b].pages = IF b = a THEN mem[b].pages \cup {P} ELSE mem[b].pages
          /\ b # a => mem'[b].hosts = mem[b].hosts /\ mem'[b].window = mem[b].window
          /\ mem'[b].window => window'.state = "open" /\ window'.sess = b
          /\ \A x \in mem'[b].hosts : hosts'[x].open /\ window'.sess = b
    /\ HostsInWindow' /\ WindowCounts'
    /\ window'.state = "open" =>
          \/ window'.sess = a
          \/ (window.state = "open" /\ window'.sess = window.sess)
    /\ h # Nil => hosts'[h].open
    /\ \A x \in Hosts : hosts[x].open => hosts'[x].open
    /\ "siblings" \notin env => \A q \in Numbers : Open(q) /\ h # Nil => pages[q].host # h

(* A page that is made in a window that counts it, by a session that holds it, *)
(* leaves everything sound.                                                    *)
LEMMA MadeStep ==
    ASSUME IInv, wrong = Nil, MayMake,
           NEW n \in Names, NEW name \in PageNames, NEW r \in Ids, NEW k, NEW h, NEW i \in Nat,
           KindFits(k, h), Made(n, name, k, h, i, r),
           NEW a, a = conn[n], a # Nil, NEW P, P = New,
           TakenIn(a, P, h)
    PROVE  IInv'
<1> USE DEF IInv, TakenIn
<1>1. /\ P \in Numbers /\ pages[P].kind = Nil /\ pages[P].host = Nil /\ ~Open(P)
      /\ pages' \in [Numbers -> PageRec]
      /\ pages'[P] = [kind |-> k, name |-> name, sess |-> a, host |-> h, idx |-> i,
                      hwnd |-> TRUE, view |-> "open", heard |-> TRUE]
      /\ \A q \in Numbers : q # P => pages'[q] = pages[q] /\ (Open(q)' <=> Open(q))
      /\ Open(P)'
      /\ a \in Addresses /\ Live(a) /\ mem[a].name = n
  BY MadePages
<1>2. /\ pages'[P].kind = k /\ pages'[P].name = name /\ pages'[P].sess = a /\ pages'[P].host = h
      /\ pages'[P].hwnd /\ pages'[P].view = "open"
  BY <1>1
<1> DEFINE f == [page |-> P, sess |-> a, born |-> mem[a].born, id |-> r, loads |-> TRUE]
<1>3. /\ owners[name] = 0 /\ owners' = [owners EXCEPT ![name] = P]
      /\ flights' = flights \cup {f}
  BY DEF Made
<1>4. /\ f \in Flight /\ f.page = P /\ f.sess = a /\ f.born = mem[a].born
  BY <1>1 DEF Flight, TypeOK, SessionRec
<1> HIDE DEF f
<1>5. \A b \in Addresses : Live(b)' <=> Live(b)
  BY DEF Live
<1>6. /\ owners' \in [PageNames -> 0..MaxPages] /\ owners'[name] = P
      /\ \A x \in PageNames : x # name => owners'[x] = owners[x]
  BY <1>1, <1>3, Apart DEF TypeOK, Numbers
<1>7. TypeOK'
  BY <1>1, <1>3, <1>4, <1>6 DEF TypeOK
<1>8. ListSound'
  BY <1>5 DEF ListSound, TypeOK
<1>9. Connected'
  <2>1. conn' = conn /\ \A m \in Names : conn[m] # Nil => conn[m] \in Addresses
    BY DEF TypeOK
  <2>2. \A b \in Addresses : mem'[b].name = mem[b].name
    OBVIOUS
  <2>3. Connected
    BY DEF Sound
  <2>4. QED
    BY <1>5, <2>1, <2>2, <2>3 DEF Connected
<1>10. HandlesOwn'
  <2>1. \A b \in Addresses : mem[b].pages \subseteq Numbers
    BY OpenPages DEF SessionRec
  <2>2. ASSUME NEW b \in Addresses, NEW p \in mem'[b].pages
        PROVE  Open(p)' /\ pages'[p].sess = b
    <3>1. CASE p = P /\ b = a
      BY <1>1, <1>2, <3>1
    <3>2. CASE p \in mem[b].pages
      <4>1. Open(p) /\ pages[p].sess = b /\ p \in Numbers /\ p # P
        BY <1>1, <2>1, <3>2 DEF Sound, HandlesOwn
      <4>2. QED
        BY <1>1, <4>1
    <3>3. mem'[b].pages = IF b = a THEN mem[b].pages \cup {P} ELSE mem[b].pages
      OBVIOUS
    <3>4. QED
      BY <3>1, <3>2, <3>3
  <2>3. ASSUME NEW b \in Addresses, ~Live(b)'
        PROVE  mem'[b].pages = {} /\ mem'[b].hosts = {} /\ ~mem'[b].window
    <3>1. ~Live(b) /\ b # a
      BY <1>1, <1>5, <2>3
    <3>2. mem'[b].pages = mem[b].pages /\ mem'[b].hosts = mem[b].hosts
          /\ mem'[b].window = mem[b].window
      BY <3>1
    <3>3. QED
      BY <3>1, <3>2 DEF Sound, HandlesOwn
  <2>4. QED
    BY <2>2, <2>3 DEF HandlesOwn
<1>11. PagesMade'
  <2>1. PageMade(P)'
    BY <1>1, <1>2, Apart DEF PageMade, KindFits
  <2>2. k # Nil
    BY Apart DEF KindFits
  <2>3. \A q \in Numbers : q # P /\ PageMade(q) => PageMade(q)'
    BY <1>1 DEF PageMade
  <2>4. \A g \in flights : g.page \in Numbers /\ pages[g.page].kind # Nil
    BY OpenPages
  <2>5. QED
    BY <1>1, <1>2, <1>3, <1>4, <2>1, <2>2, <2>3, <2>4 DEF Sound, PagesMade
<1>12. Alone'
  <2> SUFFICES ASSUME "siblings" \notin env
               PROVE  Alone'
    BY DEF Alone
  <2>1. \A q \in Numbers : Open(q) => pages[q].host \in Hosts \cup {Nil}
    BY OpenPages DEF PageRec
  <2>2. \A p, q \in Numbers : (Open(p) /\ Open(q) /\ pages[p].host = pages[q].host
                               /\ pages[p].host # Nil => p = q)'
    BY <1>1, <1>2 DEF Sound, Alone
  <2>3. "frames" \notin env =>
           \A p \in Numbers : (Open(p) => pages[p].hwnd
                               /\ (pages[p].host # Nil => hosts[pages[p].host].open))'
    BY <1>1, <1>2, <2>1 DEF Sound, Alone
  <2>4. QED
    BY <2>2, <2>3 DEF Alone
<1>13. Outlived'
  <2> SUFFICES ASSUME "endings" \notin env
               PROVE  Outlived'
    BY DEF Outlived
  <2>1. ASSUME NEW p \in Numbers, Open(p)'
        PROVE  Live(pages[p].sess)' /\ p \in mem'[pages'[p].sess].pages
    <3>1. CASE p = P
      <4>1. P \in mem'[a].pages
        <5>1. mem'[a].pages = IF a = a THEN mem[a].pages \cup {P} ELSE mem[a].pages
          BY <1>1
        <5>2. QED
          BY <5>1
      <4>2. mem'[a].live
        BY <1>1 DEF Live
      <4>3. QED
        BY <1>2, <3>1, <4>1, <4>2 DEF Live
    <3>2. CASE p # P
      <4>1. Open(p) /\ pages'[p] = pages[p]
        BY <1>1, <2>1, <3>2
      <4>2. Live(pages[p].sess) /\ p \in mem[pages[p].sess].pages /\ pages[p].sess \in Addresses
        BY <4>1, OpenPages DEF Sound, Outlived, PageMade
      <4>3. QED
        BY <1>5, <4>1, <4>2 DEF Live
    <3>3. QED
      BY <3>1, <3>2
  <2>2. \A p \in Numbers : (pages[p].kind = "plain" /\ pages[p].hwnd => Open(p))'
    BY <1>1 DEF Sound, Outlived
  <2>3. (window.state = "open" => Live(window.sess))'
    BY <1>1, <1>5 DEF Sound, Outlived, HostsInWindow, Live
  <2>4. ASSUME NEW g \in flights'
        PROVE  Remembered(g)'
    <3>1. CASE g = f
      BY <1>1, <1>2, <1>4, <3>1 DEF Remembered
    <3>2. CASE g \in flights
      <4>1. Remembered(g) /\ g.page \in Numbers /\ g.sess \in Addresses /\ g.page # P
        BY <1>1, <3>2, OpenPages DEF Sound, Outlived
      <4>2. QED
        BY <1>1, <4>1 DEF Remembered
    <3>3. QED
      BY <1>3, <2>4, <3>1, <3>2
  <2>5. ASSUME NEW x \in PageNames, owners'[x] # 0
        PROVE  Open(owners[x])' /\ pages'[owners'[x]].name = x
    <3>1. CASE x = name
      BY <1>1, <1>2, <1>6, <3>1 DEF Open
    <3>2. CASE x # name
      <4>1. owners'[x] = owners[x] /\ owners[x] \in Numbers
        BY <1>6, <2>5, <3>2, Apart DEF TypeOK, Numbers
      <4>2. Open(owners[x]) /\ pages[owners[x]].name = x
        BY <2>5, <4>1 DEF Sound, Outlived
      <4>3. owners[x] # P
        BY <1>1, <4>2
      <4>4. pages'[owners[x]] = pages[owners[x]]
        BY <1>1, <4>1, <4>3
      <4>5. QED
        BY <4>1, <4>2, <4>4 DEF Open
    <3>3. QED
      BY <3>1, <3>2
  <2>6. ASSUME NEW p \in Numbers, Open(p)'
        PROVE  owners'[pages'[p].name] = p
    <3>1. CASE p = P
      BY <1>2, <1>6, <3>1
    <3>2. CASE p # P
      <4>1. Open(p) /\ pages'[p] = pages[p]
        BY <1>1, <2>6, <3>2
      <4>2. owners[pages[p].name] = p /\ pages[p].name \in PageNames
        BY <4>1, OpenPages DEF Sound, Outlived, PageMade
      <4>3. p # 0
        BY DEF Numbers
      <4>4. QED
        BY <1>3, <1>6, <4>1, <4>2, <4>3
    <3>3. QED
      BY <3>1, <3>2
  <2>7. QED
    BY <2>1, <2>2, <2>3, <2>4, <2>5, <2>6 DEF Sound, Outlived
<1>14. QED
  BY <1>7, <1>8, <1>9, <1>10, <1>11, <1>12, <1>13 DEF Sound

(* The handles of a session are those it had and its new ones. *)
LEMMA HandledMem ==
    ASSUME TypeOK, NEW a \in Addresses, NEW P \in Numbers, NEW r \in Ids
    PROVE  LET m == Handled(a, P, r)
           IN  /\ m \in [Addresses -> SessionRec]
               /\ \A b \in Addresses : b # a => m[b] = mem[b]
               /\ m[a].live = mem[a].live /\ m[a].name = mem[a].name /\ m[a].born = mem[a].born
               /\ m[a].pages = mem[a].pages \cup {P}
               /\ m[a].hosts = mem[a].hosts /\ m[a].window = mem[a].window
<1> DEFINE s == [mem[a] EXCEPT !.pages = @ \cup {P}]
           t == [s EXCEPT !.pending = @ \cup {r}]
           m1 == [mem EXCEPT ![a] = s]
           m2 == [m1 EXCEPT ![a] = t]
<1>1. mem \in [Addresses -> SessionRec] /\ mem[a] \in SessionRec
  BY DEF TypeOK
<1>2. /\ s \in SessionRec /\ s.live = mem[a].live /\ s.name = mem[a].name
      /\ s.born = mem[a].born /\ s.pages = mem[a].pages \cup {P} /\ s.hosts = mem[a].hosts
      /\ s.window = mem[a].window
  BY <1>1 DEF SessionRec
<1>3. m1[a] = s /\ m1 \in [Addresses -> SessionRec]
  BY <1>1, <1>2
<1>4. Handled(a, P, r) = m2
  BY <1>3 DEF Handled
<1> HIDE DEF s
<1>5. /\ t \in SessionRec /\ t.live = s.live /\ t.name = s.name /\ t.born = s.born
      /\ t.pages = s.pages /\ t.hosts = s.hosts /\ t.window = s.window
  BY <1>2 DEF SessionRec
<1> HIDE DEF t
<1>6. m2[a] = t /\ m2 \in [Addresses -> SessionRec]
      /\ \A b \in Addresses : b # a => m2[b] = mem[b]
  BY <1>1, <1>2, <1>5
<1>7. QED
  BY <1>2, <1>4, <1>5, <1>6

LEMMA PlainStep ==
    ASSUME IInv, wrong = Nil, NEW n \in Names, NEW name \in PageNames, NEW r \in Ids,
           mg_create_plainwin(n, name, r)
    PROVE  IInv'
<1> PICK a, P : a = conn[n] /\ P = New
  OBVIOUS
<1>1. /\ a # Nil /\ MayMake /\ Made(n, name, "plain", Nil, 0, r)
      /\ mem' = Handled(a, P, r)
      /\ UNCHANGED <<env, conn, sess_list, starts, window, hosts, strays, wrong>>
  BY DEF mg_create_plainwin
<1>2. KindFits("plain", Nil)
  BY DEF KindFits
<1>3. /\ P \in Numbers /\ pages[P].host = Nil /\ a \in Addresses
      /\ Tabbed' = Tabbed /\ There' = There
      /\ \A q \in Numbers : q # P => pages'[q] = pages[q]
      /\ pages'[P].host = Nil
  <2>1. 0 \in Nat
    OBVIOUS
  <2>2. /\ P \in Numbers /\ pages[P].host = Nil /\ a \in Addresses
        /\ Nil = Nil => Tabbed' = Tabbed /\ There' = There
        /\ \A q \in Numbers : q # P => pages'[q] = pages[q] /\ (Open(q)' <=> Open(q))
        /\ pages'[P] = [kind |-> "plain", name |-> name, sess |-> a, host |-> Nil, idx |-> 0,
                        hwnd |-> TRUE, view |-> "open", heard |-> TRUE]
    BY <1>1, <1>2, <2>1, MadePages
  <2>3. QED
    BY <2>2
<1>4. /\ mem' \in [Addresses -> SessionRec]
      /\ \A b \in Addresses : b # a => mem'[b] = mem[b]
      /\ mem'[a].live = mem[a].live /\ mem'[a].name = mem[a].name /\ mem'[a].born = mem[a].born
      /\ mem'[a].pages = mem[a].pages \cup {P}
      /\ mem'[a].hosts = mem[a].hosts /\ mem'[a].window = mem[a].window
  BY <1>1, <1>3, HandledMem DEF IInv
<1>5. HostsInWindow'
  <2>1. \A h \in Hosts : \A i \in 1..Len(hosts[h].sheet) : hosts[h].sheet[i] \in Numbers
    BY SheetPages DEF IInv
  <2>2. \A q \in Numbers : pages'[q].host = pages[q].host
    BY <1>3
  <2>3. QED
    BY <1>1, <1>3, <2>1, <2>2 DEF IInv, Sound, HostsInWindow
<1>6. WindowCounts'
  BY <1>1, <1>3 DEF IInv, Sound, WindowCounts
<1>7. ASSUME NEW b \in Addresses
      PROVE  /\ mem'[b].live = mem[b].live /\ mem'[b].name = mem[b].name
             /\ mem'[b].born = mem[b].born
             /\ mem'[b].pages = IF b = a THEN mem[b].pages \cup {P} ELSE mem[b].pages
             /\ b # a => mem'[b].hosts = mem[b].hosts /\ mem'[b].window = mem[b].window
             /\ mem'[b].window => window'.state = "open" /\ window'.sess = b
             /\ \A x \in mem'[b].hosts : hosts'[x].open /\ window'.sess = b
  <2>1. mem'[b].hosts = mem[b].hosts /\ mem'[b].window = mem[b].window
    BY <1>4
  <2>2. HandlesOwn /\ window' = window /\ hosts' = hosts
    BY <1>1 DEF IInv, Sound
  <2>3. QED
    BY <1>4, <2>1, <2>2 DEF HandlesOwn
<1>8. window' \in WindowRec /\ hosts' \in [Hosts -> HostRec]
  BY <1>1 DEF IInv, TypeOK
<1>9. TakenIn(a, P, Nil)
  BY <1>1, <1>4, <1>5, <1>6, <1>7, <1>8 DEF TakenIn
<1>10. QED
  BY <1>1, <1>2, <1>9, MadeStep

(* The pages of the window can be counted. *)
LEMMA ThereFinite ==
    ASSUME NEW S, S \subseteq Numbers
    PROVE  IsFiniteSet(S) /\ Cardinality(S) \in Nat
<1>1. IsFiniteSet(Numbers)
  BY FS_Interval, Apart DEF Numbers
<1>2. IsFiniteSet(S)
  BY <1>1, FS_Subset
<1>3. QED
  BY <1>2, FS_CardinalityType

LEMMA OpenWindowStep ==
    ASSUME IInv, wrong = Nil, NEW n \in Names, NEW name \in PageNames, NEW r \in Ids,
           NEW h \in Hosts, OpenTabbedWindow(n, name, h, r)
    PROVE  IInv'
<1> PICK a, P, k : a = conn[n] /\ P = New /\ k = IF h \in Lists THEN "pane" ELSE "tab"
  OBVIOUS
<1>1. /\ a # Nil /\ MayMake /\ Made(n, name, k, h, 0, r)
      /\ window.state = Nil
      /\ window' = append_view([state |-> "open", sess |-> a, nrViews |-> 0], h)
      /\ hosts' = [x \in Hosts |->
                     [open |-> TRUE, sheet |-> IF x = h /\ h \in Sheets THEN <<P>> ELSE <<>>]]
      /\ mem' = [Handled(a, P, r) EXCEPT ![a].window = TRUE, ![a].hosts = Hosts]
      /\ UNCHANGED <<env, conn, sess_list, starts, strays, wrong>>
  BY DEF OpenTabbedWindow
<1>2. KindFits(k, h) /\ h # Nil
  BY Apart DEF KindFits, Hosts
<1>3. /\ P \in Numbers /\ pages[P].host = Nil /\ a \in Addresses
      /\ h # Nil => Tabbed' = Tabbed \cup {P} /\ There' = There \cup {P}
      /\ P \notin There
      /\ \A q \in Numbers : q # P => pages'[q] = pages[q]
      /\ pages'[P] = [kind |-> k, name |-> name, sess |-> a, host |-> h, idx |-> 0,
                      hwnd |-> TRUE, view |-> "open", heard |-> TRUE]
  BY <1>1, <1>2, MadePages
<1>4. Tabbed = {} /\ There = {}
  <2>1. Tabbed = {}
    BY <1>1 DEF IInv, Sound, HostsInWindow
  <2>2. QED
    BY <2>1 DEF There
<1>5. /\ window' \in WindowRec /\ window'.state = "open" /\ window'.sess = a /\ window'.nrViews = 1
  BY <1>1, <1>3 DEF append_view, WindowRec
<1>6. /\ \A x \in Hosts : hosts'[x].open
                          /\ hosts'[x].sheet = IF x = h /\ h \in Sheets THEN <<P>> ELSE <<>>
      /\ hosts' \in [Hosts -> HostRec]
  <2>1. <<>> \in Seq(Numbers) /\ <<P>> \in Seq(Numbers)
    BY <1>3, EmptySeq
  <2>2. QED
    BY <1>1, <2>1 DEF HostRec
<1> DEFINE m == Handled(a, P, r)
<1>7. /\ m \in [Addresses -> SessionRec]
      /\ \A b \in Addresses : b # a => m[b] = mem[b]
      /\ m[a].live = mem[a].live /\ m[a].name = mem[a].name /\ m[a].born = mem[a].born
      /\ m[a].pages = mem[a].pages \cup {P}
  BY <1>3, HandledMem DEF IInv
<1>8. mem' = [m EXCEPT ![a].window = TRUE, ![a].hosts = Hosts]
  BY <1>1
<1> HIDE DEF m
<1>9. /\ mem' \in [Addresses -> SessionRec]
      /\ \A b \in Addresses : b # a => mem'[b] = mem[b]
      /\ mem'[a].live = mem[a].live /\ mem'[a].name = mem[a].name /\ mem'[a].born = mem[a].born
      /\ mem'[a].pages = mem[a].pages \cup {P}
  <2> DEFINE s == [m[a] EXCEPT !.window = TRUE]
             t == [s EXCEPT !.hosts = Hosts]
  <2>1. s \in SessionRec /\ s.live = m[a].live /\ s.name = m[a].name /\ s.born = m[a].born
        /\ s.pages = m[a].pages
    <3>1. m[a] \in SessionRec
      BY <1>3, <1>7
    <3>2. QED
      BY <3>1 DEF SessionRec
  <2>2. mem' = [[m EXCEPT ![a] = s] EXCEPT ![a] = t]
    BY <1>3, <1>7, <1>8
  <2> HIDE DEF s
  <2>3. t \in SessionRec /\ t.live = s.live /\ t.name = s.name /\ t.born = s.born
        /\ t.pages = s.pages
    BY <2>1 DEF SessionRec
  <2> HIDE DEF t
  <2>4. QED
    BY <1>3, <1>7, <2>1, <2>2, <2>3
<1>10. \A b \in Addresses : mem[b].hosts = {} /\ ~mem[b].window
  <2>1. \A x \in Hosts : ~hosts[x].open
    BY <1>1, Apart DEF IInv, Sound, HostsInWindow
  <2>2. \A b \in Addresses : mem[b].hosts \subseteq Hosts
    BY OpenPages DEF IInv, SessionRec
  <2>3. QED
    BY <1>1, <2>1, <2>2, Apart DEF IInv, Sound, HandlesOwn
<1>11. HostsInWindow'
  <2>1. ASSUME NEW x \in Hosts, NEW i \in 1..Len(hosts'[x].sheet)
        PROVE  pages'[hosts'[x].sheet[i]].host = x
    <3>1. CASE x = h /\ h \in Sheets
      <4>1. hosts'[x].sheet = <<P>>
        BY <1>6, <3>1
      <4>2. i = 1 /\ hosts'[x].sheet[i] = P
        BY <2>1, <4>1
      <4>3. QED
        BY <1>3, <3>1, <4>2
    <3>2. CASE ~(x = h /\ h \in Sheets)
      <4>1. hosts'[x].sheet = <<>>
        BY <1>6, <3>2
      <4>2. QED
        BY <2>1, <4>1
    <3>3. QED
      BY <3>1, <3>2
  <2>2. QED
    BY <1>3, <1>5, <2>1, Apart DEF HostsInWindow
<1>12. WindowCounts'
  <2>1. There' = {P}
    BY <1>2, <1>3, <1>4
  <2>2. Cardinality({P}) = 1
    BY FS_Singleton
  <2>3. QED
    BY <1>5, <2>1, <2>2, Apart DEF WindowCounts
<1>13. ASSUME NEW b \in Addresses
       PROVE  /\ mem'[b].live = mem[b].live /\ mem'[b].name = mem[b].name
              /\ mem'[b].born = mem[b].born
              /\ mem'[b].pages = IF b = a THEN mem[b].pages \cup {P} ELSE mem[b].pages
              /\ b # a => mem'[b].hosts = mem[b].hosts /\ mem'[b].window = mem[b].window
              /\ mem'[b].window => window'.state = "open" /\ window'.sess = b
              /\ \A x \in mem'[b].hosts : hosts'[x].open /\ window'.sess = b
  <2>1. CASE b = a
    <3>1. mem'[a].hosts \subseteq Hosts
      BY <1>3, <1>9 DEF SessionRec
    <3>2. QED
      BY <1>5, <1>6, <1>9, <2>1, <3>1
  <2>2. CASE b # a
    BY <1>9, <1>10, <2>2
  <2>3. QED
    BY <2>1, <2>2
<1>14. "siblings" \notin env => \A q \in Numbers : Open(q) /\ h # Nil => pages[q].host # h
  BY <1>4 DEF Tabbed
<1>15. TakenIn(a, P, h)
  BY <1>1, <1>5, <1>6, <1>9, <1>11, <1>12, <1>13, <1>14 DEF TakenIn
<1>16. QED
  BY <1>1, <1>2, <1>15, MadeStep

LEMMA WidgetStep ==
    ASSUME IInv, wrong = Nil, NEW n \in Names, NEW name \in PageNames, NEW r \in Ids,
           NEW h \in Hosts, mg_create_widget(n, name, h, r)
    PROVE  IInv'
<1> PICK a, P, k, i : /\ a = conn[n] /\ P = New /\ k = IF h \in Lists THEN "pane" ELSE "tab"
                      /\ i = NextIndex(h)
  OBVIOUS
<1>1. /\ a # Nil /\ MayMake /\ Made(n, name, k, h, i, r)
      /\ window.state = "open" /\ hosts[h].open
      /\ "siblings" \in env \/ \A p \in PagesOf(h) : ~Open(p)
      /\ window' = append_view(window, h)
      /\ hosts' = [hosts EXCEPT ![h].sheet = IF h \in Sheets THEN Append(@, P) ELSE @]
      /\ mem' = Handled(a, P, r)
      /\ UNCHANGED <<env, conn, sess_list, starts, strays, wrong>>
  BY DEF mg_create_widget
<1>2. KindFits(k, h) /\ h # Nil
  BY Apart DEF KindFits, Hosts
<1>3. /\ hosts[h] \in HostRec /\ hosts[h].sheet \in Seq(Numbers) /\ i \in Nat
  BY DEF IInv, TypeOK, HostRec, NextIndex
<1>4. /\ P \in Numbers /\ pages[P].host = Nil /\ a \in Addresses
      /\ h # Nil => Tabbed' = Tabbed \cup {P} /\ There' = There \cup {P}
      /\ P \notin There
      /\ \A q \in Numbers : q # P => pages'[q] = pages[q] /\ (Open(q)' <=> Open(q))
      /\ pages'[P] = [kind |-> k, name |-> name, sess |-> a, host |-> h, idx |-> i,
                      hwnd |-> TRUE, view |-> "open", heard |-> TRUE]
  BY <1>1, <1>2, <1>3, MadePages
<1>5. /\ window' \in WindowRec /\ window'.state = "open" /\ window'.sess = window.sess
      /\ window'.nrViews = window.nrViews + 1
  <2>1. window \in WindowRec
    BY DEF IInv, TypeOK
  <2>2. QED
    BY <1>1, <2>1 DEF append_view, WindowRec
<1>6. /\ hosts' \in [Hosts -> HostRec]
      /\ \A x \in Hosts : hosts'[x].open = hosts[x].open
      /\ \A x \in Hosts : x # h => hosts'[x].sheet = hosts[x].sheet
      /\ hosts'[h].sheet = hosts[h].sheet \/ hosts'[h].sheet = Append(hosts[h].sheet, P)
  <2> DEFINE s == IF h \in Sheets THEN Append(hosts[h].sheet, P) ELSE hosts[h].sheet
             rec == [hosts[h] EXCEPT !.sheet = s]
  <2>1. s \in Seq(Numbers)
    BY <1>3, <1>4, AppendProperties
  <2>2. s = hosts[h].sheet \/ s = Append(hosts[h].sheet, P)
    OBVIOUS
  <2>3. hosts' = [hosts EXCEPT ![h] = rec] /\ hosts \in [Hosts -> HostRec]
    BY <1>1 DEF IInv, TypeOK
  <2> HIDE DEF s
  <2>4. rec \in HostRec /\ rec.open = hosts[h].open /\ rec.sheet = s
    BY <1>3, <2>1 DEF HostRec
  <2> HIDE DEF rec
  <2>5. QED
    BY <2>2, <2>3, <2>4
<1>7. /\ mem' \in [Addresses -> SessionRec]
      /\ \A b \in Addresses : b # a => mem'[b] = mem[b]
      /\ mem'[a].live = mem[a].live /\ mem'[a].name = mem[a].name /\ mem'[a].born = mem[a].born
      /\ mem'[a].pages = mem[a].pages \cup {P}
      /\ mem'[a].hosts = mem[a].hosts /\ mem'[a].window = mem[a].window
  BY <1>1, <1>4, HandledMem DEF IInv
<1>8. HostsInWindow'
  <2>1. ASSUME NEW x \in Hosts, NEW j \in 1..Len(hosts'[x].sheet)
        PROVE  pages'[hosts'[x].sheet[j]].host = x
    <3>1. ASSUME NEW l \in 1..Len(hosts[x].sheet)
          PROVE  pages'[hosts[x].sheet[l]].host = x
      <4>1. hosts[x].sheet[l] \in Numbers /\ pages[hosts[x].sheet[l]].host = x
        BY SheetPages DEF IInv, Sound, HostsInWindow
      <4>2. hosts[x].sheet[l] # P
        BY <1>4, <4>1, Apart
      <4>3. QED
        BY <1>4, <4>1, <4>2
    <3>2. CASE hosts'[x].sheet = hosts[x].sheet
      BY <2>1, <3>1, <3>2
    <3>3. CASE x = h /\ hosts'[h].sheet = Append(hosts[h].sheet, P)
      <4>1. /\ Len(hosts'[h].sheet) = Len(hosts[h].sheet) + 1
            /\ hosts'[h].sheet[Len(hosts[h].sheet) + 1] = P
            /\ \A l \in 1..Len(hosts[h].sheet) : hosts'[h].sheet[l] = hosts[h].sheet[l]
            /\ Len(hosts[h].sheet) \in Nat
        BY <1>3, <1>4, <3>3, AppendProperties
      <4>2. CASE j = Len(hosts[h].sheet) + 1
        BY <1>4, <3>3, <4>1, <4>2
      <4>3. CASE j # Len(hosts[h].sheet) + 1
        BY <2>1, <3>1, <3>3, <4>1, <4>3
      <4>4. QED
        BY <4>2, <4>3
    <3>4. QED
      BY <1>6, <3>2, <3>3
  <2>2. window.sess \in Addresses
    BY <1>1 DEF IInv, Sound, HostsInWindow
  <2>3. QED
    BY <1>5, <2>1, <2>2, Apart DEF HostsInWindow
<1>9. WindowCounts'
  <2>1. There \subseteq Numbers
    BY DEF There, Tabbed
  <2>2. window.nrViews = Cardinality(There)
    BY <1>1 DEF IInv, Sound, WindowCounts
  <2>3. Cardinality(There \cup {P}) = Cardinality(There) + 1
    BY <1>4, <2>1, ThereFinite, FS_AddElement
  <2>4. QED
    BY <1>2, <1>4, <1>5, <2>2, <2>3, Apart DEF WindowCounts
<1>10. ASSUME NEW b \in Addresses
       PROVE  /\ mem'[b].live = mem[b].live /\ mem'[b].name = mem[b].name
              /\ mem'[b].born = mem[b].born
              /\ mem'[b].pages = IF b = a THEN mem[b].pages \cup {P} ELSE mem[b].pages
              /\ b # a => mem'[b].hosts = mem[b].hosts /\ mem'[b].window = mem[b].window
              /\ mem'[b].window => window'.state = "open" /\ window'.sess = b
              /\ \A x \in mem'[b].hosts : hosts'[x].open /\ window'.sess = b
  <2>1. mem'[b].hosts = mem[b].hosts /\ mem'[b].window = mem[b].window /\ mem[b].hosts \subseteq Hosts
    BY <1>7, OpenPages DEF IInv, SessionRec
  <2>2. HandlesOwn
    BY DEF IInv, Sound
  <2>3. QED
    BY <1>5, <1>6, <1>7, <2>1, <2>2 DEF HandlesOwn
<1>11. "siblings" \notin env => \A q \in Numbers : Open(q) /\ h # Nil => pages[q].host # h
  BY <1>1 DEF PagesOf
<1>12. TakenIn(a, P, h)
  <2>1. /\ UNCHANGED <<env, conn, sess_list, starts, strays, wrong>>
        /\ window.state = "open" /\ hosts[h].open
    BY <1>1
  <2>2. hosts'[h].open /\ \A x \in Hosts : hosts[x].open => hosts'[x].open
    BY <1>6, <2>1
  <2>3. QED
    BY <1>5, <1>6, <1>7, <1>8, <1>9, <1>10, <1>11, <2>1, <2>2 DEF TakenIn
<1>13. QED
  BY <1>1, <1>2, <1>3, <1>12, MadeStep

-----------------------------------------------------------------------------
(***************************************************************************)
(* What is read after it was freed.                                        *)
(***************************************************************************)
LEMMA WrongStep ==
    ASSUME IInv, wrong = Nil,
           UNCHANGED <<env, conn, mem, sess_list, starts, owners, pages, window, hosts, flights,
                       strays>>,
           wrong' \in {"container", "event"}, env # {}
    PROVE  IInv'
<1>1. TypeOK'
  BY DEF IInv, TypeOK, Reasons
<1>2. ListSound'
  BY DEF IInv, ListSound, Live
<1>3. wrong' # "reply" /\ wrong' # Nil
  BY Apart DEF Reasons
<1>4. QED
  BY <1>1, <1>2, <1>3 DEF IInv

LEMMA CreateInClosedStep ==
    ASSUME IInv, wrong = Nil, NEW n, NEW h, CreateInClosed(n, h)
    PROVE  IInv'
BY WrongStep DEF CreateInClosed

(* A plain window outlives its session only where sessions end before it. *)
LEMMA PostEventStep ==
    ASSUME IInv, wrong = Nil, NEW p \in Numbers, PostEvent(p)
    PROVE  IInv'
<1>1. /\ UNCHANGED <<env, conn, mem, sess_list, starts, owners, pages, window, hosts, flights,
                     strays>>
      /\ wrong' = "event" /\ pages[p].kind = "plain" /\ pages[p].hwnd /\ ~Live(pages[p].sess)
  BY DEF PostEvent
<1>2. "endings" \in env
  BY <1>1 DEF IInv, Sound, Outlived
<1>3. QED
  BY <1>1, <1>2, WrongStep

-----------------------------------------------------------------------------
(***************************************************************************)
(* Closing.                                                                *)
(***************************************************************************)
\* What the records of the handlers are.
Worlds ==
    [mem : [Addresses -> SessionRec], pages : [Numbers -> PageRec],
     owners : [PageNames -> 0..MaxPages], window : WindowRec, hosts : [Hosts -> HostRec],
     wrong : {Nil, "close", "window"}]

(* In world w the views of the pages P are closed, the windows of the pages D *)
(* and the containers H destroyed, and if last is true the tabbed window.     *)
Shut(w, P, D, H, last) ==
    /\ w \in Worlds
    /\ P \subseteq Numbers /\ D \subseteq Numbers /\ H \subseteq Hosts
    /\ \A p \in P : pages[p].view = "closing" /\ (pages[p].kind = "plain" => p \in D)
    /\ \A d \in D : d \in P \/ pages[d].host # Nil
    /\ \A b \in Addresses :
          /\ w.mem[b].live = mem[b].live /\ w.mem[b].name = mem[b].name
          /\ w.mem[b].born = mem[b].born /\ w.mem[b].pages = mem[b].pages \ P
          /\ w.mem[b].hosts = IF b = window.sess THEN mem[b].hosts \ H ELSE mem[b].hosts
          /\ w.mem[b].window <=> (mem[b].window /\ ~(last /\ b = window.sess))
    /\ \A q \in Numbers :
          /\ w.pages[q].kind = pages[q].kind /\ w.pages[q].name = pages[q].name
          /\ w.pages[q].sess = pages[q].sess /\ w.pages[q].host = pages[q].host
          /\ w.pages[q].view = IF q \in P THEN "closed" ELSE pages[q].view
          /\ w.pages[q].hwnd <=> (pages[q].hwnd /\ q \notin D)
          /\ w.pages[q] = pages[q] \/ pages[q].kind # Nil
    /\ \A name \in PageNames :
          \/ w.owners[name] = owners[name]
          \/ w.owners[name] = 0 /\ \E p \in P : pages[p].name = name
    /\ "endings" \notin env => \A p \in P : w.owners[pages[p].name] = 0
    /\ w.window.sess = window.sess
    /\ last => /\ w.window.state = "gone" /\ H = {h \in Hosts : hosts[h].open}
               /\ "frames" \in env \/ There \subseteq P
    /\ ~last => /\ w.window.state = window.state
                /\ window.state = "open" => /\ w.window.nrViews = Cardinality(There \ P)
                                            /\ There \ P # {}
    /\ \A h \in Hosts :
          /\ w.hosts[h].open <=> (hosts[h].open /\ h \notin H)
          /\ \A i \in 1..Len(w.hosts[h].sheet) :
                \E j \in 1..Len(hosts[h].sheet) : w.hosts[h].sheet[i] = hosts[h].sheet[j]
    /\ env \cap {"siblings", "frames"} = {} =>
          \A q \in Numbers : Open(q) /\ q \notin P => q \notin D /\ pages[q].host \notin H

LEMMA ShutStep ==
    ASSUME IInv, wrong = Nil, wrong' = Nil, NEW P, NEW D, NEW H, NEW last \in BOOLEAN,
           NEW w, Shut(w, P, D, H, last),
           mem' = w.mem, pages' = w.pages, owners' = w.owners, window' = w.window,
           hosts' = w.hosts, UNCHANGED <<env, conn, sess_list, starts, flights, strays>>
    PROVE  IInv'
<1>1. /\ TypeOK /\ Sound /\ ListSound
      /\ UNCHANGED <<env, conn, sess_list, starts, flights, strays>>
      /\ P \subseteq Numbers /\ D \subseteq Numbers /\ H \subseteq Hosts
  BY DEF IInv, Shut
<1>2. TypeOK'
  BY <1>1 DEF Shut, TypeOK, Worlds
<1>3. \A q \in Numbers :
         /\ pages'[q].kind = pages[q].kind /\ pages'[q].name = pages[q].name
         /\ pages'[q].sess = pages[q].sess /\ pages'[q].host = pages[q].host
         /\ pages'[q].view = IF q \in P THEN "closed" ELSE pages[q].view
         /\ pages'[q].hwnd <=> (pages[q].hwnd /\ q \notin D)
         /\ pages'[q] = pages[q] \/ pages[q].kind # Nil
  BY DEF Shut
<1>4. \A b \in Addresses :
         /\ mem'[b].live = mem[b].live /\ mem'[b].name = mem[b].name
         /\ mem'[b].born = mem[b].born /\ mem'[b].pages = mem[b].pages \ P
         /\ mem'[b].hosts = IF b = window.sess THEN mem[b].hosts \ H ELSE mem[b].hosts
         /\ mem'[b].window <=> (mem[b].window /\ ~(last /\ b = window.sess))
  BY DEF Shut
<1>5. \A h \in Hosts :
         /\ hosts'[h].open <=> (hosts[h].open /\ h \notin H)
         /\ \A i \in 1..Len(hosts'[h].sheet) :
               \E j \in 1..Len(hosts[h].sheet) : hosts'[h].sheet[i] = hosts[h].sheet[j]
  BY DEF Shut
<1>6. /\ window'.sess = window.sess
      /\ last => /\ window'.state = "gone" /\ H = {h \in Hosts : hosts[h].open}
                 /\ "frames" \in env \/ There \subseteq P
      /\ ~last => /\ window'.state = window.state
                  /\ window.state = "open" => /\ window'.nrViews = Cardinality(There \ P)
                                              /\ There \ P # {}
  BY DEF Shut
<1>7. \A p \in P : Open(p) /\ (pages[p].kind = "plain" => p \in D)
  BY DEF Shut, Open
<1>8. \A q \in Numbers : Open(q)' <=> (Open(q) /\ q \notin P)
  BY <1>3 DEF Open
<1>9. Tabbed' = Tabbed /\ There' = There \ P
  BY <1>3, <1>8 DEF Tabbed, There
<1>10. \A b \in Addresses : Live(b)' <=> Live(b)
  BY <1>4 DEF Live
<1>11. ListSound'
  BY <1>1, <1>10 DEF ListSound, TypeOK
<1>12. Connected'
  <2>1. \A m \in Names : conn[m] # Nil => conn[m] \in Addresses
    BY <1>1 DEF TypeOK
  <2>2. conn' = conn /\ \A b \in Addresses : mem'[b].name = mem[b].name
    BY <1>1, <1>4
  <2>3. Connected
    BY <1>1 DEF Sound
  <2>4. QED
    BY <1>10, <2>1, <2>2, <2>3, Zenon DEF Connected
<1>13. HandlesOwn'
  <2> SUFFICES ASSUME NEW b \in Addresses
               PROVE  /\ ~Live(b)' => mem'[b].pages = {} /\ mem'[b].hosts = {} /\ ~mem'[b].window
                      /\ \A p \in mem'[b].pages : Open(p)' /\ pages'[p].sess = b
                      /\ mem'[b].window => window'.state = "open" /\ window'.sess = b
                      /\ \A h \in mem'[b].hosts : hosts'[h].open /\ window'.sess = b
    BY DEF HandlesOwn
  <2>1. /\ ~Live(b) => mem[b].pages = {} /\ mem[b].hosts = {} /\ ~mem[b].window
        /\ \A p \in mem[b].pages : Open(p) /\ pages[p].sess = b
        /\ mem[b].window => window.state = "open" /\ window.sess = b
        /\ \A h \in mem[b].hosts : hosts[h].open /\ window.sess = b
    BY <1>1 DEF Sound, HandlesOwn
  <2>2. mem[b].pages \subseteq Numbers /\ mem[b].hosts \subseteq Hosts
    BY <1>1, OpenPages DEF SessionRec
  <2>3. /\ mem'[b].pages = mem[b].pages \ P
        /\ mem'[b].hosts = IF b = window.sess THEN mem[b].hosts \ H ELSE mem[b].hosts
        /\ mem'[b].window <=> (mem[b].window /\ ~(last /\ b = window.sess))
    BY <1>4
  <2>4. \A p \in mem'[b].pages : Open(p)' /\ pages'[p].sess = b
    BY <1>3, <1>8, <2>1, <2>2, <2>3
  <2>5. \A h \in mem'[b].hosts : hosts'[h].open /\ window'.sess = b
    BY <1>5, <1>6, <2>1, <2>2, <2>3
  <2>6. mem'[b].window => window'.state = "open" /\ window'.sess = b
    BY <1>6, <2>1, <2>3
  <2>7. QED
    BY <1>10, <2>1, <2>3, <2>4, <2>5, <2>6
<1>14. PagesMade'
  <2>1. \A q \in Numbers : PageMade(q) => PageMade(q)'
    BY <1>3, Apart DEF PageMade
  <2>2. \A f \in flights : f.page \in Numbers
    BY <1>1, OpenPages
  <2>3. QED
    BY <1>1, <1>3, <2>1, <2>2 DEF Sound, PagesMade
<1>15. HostsInWindow'
  <2>1. \A h \in Hosts : hosts'[h].open => window'.state = "open"
    BY <1>1, <1>5, <1>6 DEF Sound, HostsInWindow
  <2>2. ASSUME NEW h \in Hosts, NEW i \in 1..Len(hosts'[h].sheet)
        PROVE  pages'[hosts'[h].sheet[i]].host = h
    <3>1. PICK j \in 1..Len(hosts[h].sheet) : hosts'[h].sheet[i] = hosts[h].sheet[j]
      BY <1>5
    <3>2. hosts[h].sheet[j] \in Numbers /\ pages[hosts[h].sheet[j]].host = h
      BY <1>1, SheetPages DEF Sound, HostsInWindow
    <3>3. QED
      BY <1>3, <3>1, <3>2
  <2>3. window'.state = Nil => Tabbed' = {}
    BY <1>1, <1>6, <1>9, Apart DEF Sound, HostsInWindow
  <2>4. window'.state = "open" => window'.sess \in Addresses
    BY <1>1, <1>6 DEF Sound, HostsInWindow
  <2>5. QED
    BY <2>1, <2>2, <2>3, <2>4 DEF HostsInWindow
<1>16. WindowCounts'
  BY <1>1, <1>6, <1>9 DEF Sound, WindowCounts
<1>17. Alone'
  <2> SUFFICES ASSUME "siblings" \notin env
               PROVE  Alone'
    BY <1>1 DEF Alone
  <2>1. \A p, q \in Numbers : (Open(p) /\ Open(q) /\ pages[p].host = pages[q].host
                               /\ pages[p].host # Nil => p = q)'
    BY <1>1, <1>3, <1>8 DEF Sound, Alone
  <2>2. ASSUME "frames" \notin env, NEW p \in Numbers, Open(p)'
        PROVE  pages'[p].hwnd /\ (pages'[p].host # Nil => hosts'[pages'[p].host].open)
    <3>1. /\ Open(p) /\ p \notin P
      BY <1>8, <2>2
    <3>2. p \notin D /\ pages[p].host \notin H
      BY <2>2, <3>1 DEF Shut
    <3>3. pages[p].hwnd /\ (pages[p].host # Nil => hosts[pages[p].host].open)
      BY <1>1, <2>2, <3>1 DEF Sound, Alone
    <3>4. pages[p].host \in Hosts \cup {Nil}
      BY <1>1, OpenPages DEF PageRec
    <3>5. QED
      BY <1>3, <1>5, <3>2, <3>3, <3>4
  <2>3. QED
    BY <1>1, <2>1, <2>2 DEF Alone
<1>18. Outlived'
  <2> SUFFICES ASSUME "endings" \notin env
               PROVE  Outlived'
    BY <1>1 DEF Outlived
  <2>1. ASSUME NEW p \in Numbers, Open(p)'
        PROVE  Live(pages[p].sess)' /\ p \in mem'[pages'[p].sess].pages
    <3>1. Open(p) /\ p \notin P
      BY <1>8, <2>1
    <3>2. Live(pages[p].sess) /\ p \in mem[pages[p].sess].pages /\ pages[p].sess \in Addresses
      BY <1>1, <3>1, OpenPages DEF Sound, Outlived, PageMade
    <3>3. QED
      BY <1>3, <1>4, <1>10, <3>1, <3>2 DEF Live
  <2>2. ASSUME NEW p \in Numbers, pages'[p].kind = "plain", pages'[p].hwnd
        PROVE  Open(p)'
    <3>1. pages[p].kind = "plain" /\ pages[p].hwnd /\ p \notin D /\ p \notin P
      BY <1>3, <1>7, <2>2
    <3>2. QED
      BY <1>1, <1>8, <3>1 DEF Sound, Outlived
  <2>3. (window.state = "open" => Live(window.sess))'
    <3>1. window'.state = "open" => window.state = "open"
      BY <1>6
    <3>2. window.state = "open" => Live(window.sess) /\ window.sess \in Addresses
      BY <1>1 DEF Sound, Outlived, HostsInWindow
    <3>3. QED
      BY <1>4, <1>6, <3>1, <3>2 DEF Live
  <2>4. ASSUME NEW f \in flights
        PROVE  Remembered(f)'
    <3>1. Remembered(f) /\ f.page \in Numbers /\ f.sess \in Addresses
      BY <1>1, OpenPages DEF Sound, Outlived
    <3>2. QED
      BY <1>3, <1>4, <1>8, <3>1 DEF Remembered
  <2>5. /\ \A name \in PageNames :
              \/ owners'[name] = owners[name]
              \/ owners'[name] = 0 /\ \E p \in P : pages[p].name = name
        /\ \A p \in P : owners'[pages[p].name] = 0
    BY <1>1 DEF Shut
  <2>6. ASSUME NEW x \in PageNames, owners'[x] # 0
        PROVE  Open(owners[x])' /\ pages'[owners'[x]].name = x
    <3>1. owners'[x] = owners[x] /\ owners[x] # 0
      BY <2>5, <2>6
    <3>2. owners[x] \in Numbers
      BY <1>1, <3>1, Apart DEF TypeOK, Numbers
    <3>3. Open(owners[x]) /\ pages[owners[x]].name = x
      BY <1>1, <3>1 DEF Sound, Outlived
    <3>4. owners[x] \notin P
      BY <2>5, <2>6, <3>3
    <3>5. QED
      BY <1>3, <1>8, <3>1, <3>2, <3>3, <3>4 DEF Open
  <2>7. ASSUME NEW p \in Numbers, Open(p)'
        PROVE  owners'[pages'[p].name] = p
    <3>1. Open(p) /\ p \notin P
      BY <1>8, <2>7
    <3>2. owners[pages[p].name] = p /\ pages[p].name \in PageNames
      BY <1>1, <3>1, OpenPages DEF Sound, Outlived, PageMade
    <3>3. \A q \in P : pages[q].name # pages[p].name
      <4>1. \A q \in P : owners[pages[q].name] = q
        BY <1>1, <1>7 DEF Sound, Outlived
      <4>2. QED
        BY <3>1, <3>2, <4>1
    <3>4. QED
      BY <1>3, <2>5, <3>2, <3>3
  <2>8. QED
    BY <1>1, <2>1, <2>2, <2>3, <2>4, <2>6, <2>7 DEF Sound, Outlived
<1>19. wrong' # "reply"
  BY Apart DEF Reasons
<1>20. QED
  BY <1>2, <1>11, <1>12, <1>13, <1>14, <1>15, <1>16, <1>17, <1>18, <1>19 DEF IInv, Sound

(***************************************************************************)
(* What each handler makes of a record.                                    *)
(***************************************************************************)
LEMMA WorldTypes ==
    ASSUME TypeOK, wrong = Nil
    PROVE  /\ World \in Worlds /\ World.mem = mem /\ World.pages = pages /\ World.owners = owners
           /\ World.window = window /\ World.hosts = hosts /\ World.wrong = Nil
BY DEF TypeOK, World, Worlds

LEMMA FailsWorld ==
    ASSUME NEW w \in Worlds, NEW why \in {"close", "window"}
    PROVE  LET v == Fails(w, why)
           IN  /\ v \in Worlds /\ v.wrong # Nil
               /\ v.mem = w.mem /\ v.pages = w.pages /\ v.owners = w.owners
               /\ v.window = w.window /\ v.hosts = w.hosts
<1> DEFINE x == IF w.wrong = Nil THEN why ELSE w.wrong
<1>1. x \in {"close", "window"} /\ x # Nil
  BY MiniguiAssumption DEF Worlds
<1>2. Fails(w, why) = [w EXCEPT !.wrong = x]
  BY DEF Fails
<1> HIDE DEF x
<1>3. QED
  BY <1>1, <1>2 DEF Worlds

LEMMA DestroyedWorld ==
    ASSUME NEW w \in Worlds, NEW D \in SUBSET Numbers
    PROVE  LET v == Destroyed(w, D)
           IN  /\ v \in Worlds
               /\ v.mem = w.mem /\ v.owners = w.owners /\ v.window = w.window
               /\ v.hosts = w.hosts /\ v.wrong = w.wrong
               /\ \A q \in Numbers :
                     /\ v.pages[q].kind = w.pages[q].kind /\ v.pages[q].name = w.pages[q].name
                     /\ v.pages[q].sess = w.pages[q].sess /\ v.pages[q].host = w.pages[q].host
                     /\ v.pages[q].view = w.pages[q].view
                     /\ v.pages[q].hwnd <=> (w.pages[q].hwnd /\ q \notin D)
                     /\ q \notin D => v.pages[q] = w.pages[q]
<1> DEFINE ps == [p \in Numbers |-> IF p \in D THEN [w.pages[p] EXCEPT !.hwnd = FALSE]
                                    ELSE w.pages[p]]
<1>1. Destroyed(w, D) = [w EXCEPT !.pages = ps]
  BY DEF Destroyed
<1>2. \A q \in Numbers : w.pages[q] \in PageRec
  BY DEF Worlds
<1>3. ASSUME NEW q \in Numbers
      PROVE  /\ ps[q] \in PageRec
             /\ ps[q].kind = w.pages[q].kind /\ ps[q].name = w.pages[q].name
             /\ ps[q].sess = w.pages[q].sess /\ ps[q].host = w.pages[q].host
             /\ ps[q].view = w.pages[q].view /\ (ps[q].hwnd <=> (w.pages[q].hwnd /\ q \notin D))
             /\ q \notin D => ps[q] = w.pages[q]
  <2>1. CASE q \in D
    <3>1. w.pages[q] \in PageRec /\ ps[q] = [w.pages[q] EXCEPT !.hwnd = FALSE]
      BY <1>2, <2>1
    <3>2. QED
      BY <2>1, <3>1 DEF PageRec
  <2>2. CASE q \notin D
    BY <1>2, <2>2
  <2>3. QED
    BY <2>1, <2>2
<1>4. ps \in [Numbers -> PageRec]
  BY <1>3
<1> HIDE DEF ps
<1>5. [w EXCEPT !.pages = ps] \in Worlds /\ [w EXCEPT !.pages = ps].pages = ps
  BY <1>4 DEF Worlds
<1>6. QED
  BY <1>1, <1>3, <1>5 DEF Worlds

(* World v is w without the containers H. *)
Emptied(v, w, H) ==
    /\ v \in Worlds
    /\ v.owners = w.owners /\ v.window = w.window /\ v.wrong = w.wrong
    /\ v.pages = Destroyed(w, UNION {PagesOf(h) : h \in H}).pages
    /\ \A h \in Hosts : /\ v.hosts[h].sheet = w.hosts[h].sheet
                        /\ v.hosts[h].open <=> (w.hosts[h].open /\ h \notin H)
    /\ \A b \in Addresses :
          /\ v.mem[b].live = w.mem[b].live /\ v.mem[b].name = w.mem[b].name
          /\ v.mem[b].born = w.mem[b].born /\ v.mem[b].pages = w.mem[b].pages
          /\ v.mem[b].window = w.mem[b].window
          /\ v.mem[b].hosts = IF b = window.sess THEN w.mem[b].hosts \ H ELSE w.mem[b].hosts

LEMMA ContainersWorld ==
    ASSUME TypeOK, NEW w \in Worlds, NEW H \in SUBSET Hosts, window.sess \in Addresses,
           Live(window.sess)
    PROVE  Emptied(on_destroy_container(w, H), w, H)
<1> DEFINE D == UNION {PagesOf(h) : h \in H}
           u == Destroyed(w, D)
           hs == [h \in Hosts |-> [w.hosts[h] EXCEPT !.open = @ /\ h \notin H]]
           a == window.sess
           m == [u.mem EXCEPT ![a].hosts = @ \ H]
<1>1. D \in SUBSET Numbers
  BY DEF PagesOf
<1>2. u \in Worlds /\ u.mem = w.mem /\ u.owners = w.owners /\ u.window = w.window
      /\ u.hosts = w.hosts /\ u.wrong = w.wrong
  <2> HIDE DEF D
  <2>1. QED
    BY <1>1, DestroyedWorld
<1>3. on_destroy_container(w, H) = [u EXCEPT !.hosts = hs, !.mem[a].hosts = @ \ H]
  BY DEF on_destroy_container
<1> HIDE DEF u
<1>4. /\ hs \in [Hosts -> HostRec]
      /\ \A h \in Hosts : /\ hs[h].sheet = w.hosts[h].sheet
                          /\ hs[h].open <=> (w.hosts[h].open /\ h \notin H)
  <2>1. \A h \in Hosts : u.hosts[h] \in HostRec /\ u.hosts[h] = w.hosts[h]
    BY <1>2 DEF Worlds
  <2>2. QED
    BY <2>1 DEF HostRec
<1>5. /\ m \in [Addresses -> SessionRec]
      /\ \A b \in Addresses :
            /\ m[b].live = w.mem[b].live /\ m[b].name = w.mem[b].name
            /\ m[b].born = w.mem[b].born /\ m[b].pages = w.mem[b].pages
            /\ m[b].window = w.mem[b].window
            /\ m[b].hosts = IF b = a THEN w.mem[b].hosts \ H ELSE w.mem[b].hosts
  <2>1. u.mem \in [Addresses -> SessionRec] /\ u.mem[a] \in SessionRec
    BY <1>2 DEF Worlds
  <2> DEFINE s == [u.mem[a] EXCEPT !.hosts = @ \ H]
  <2>2. /\ s \in SessionRec /\ s.live = u.mem[a].live /\ s.name = u.mem[a].name
        /\ s.born = u.mem[a].born /\ s.pages = u.mem[a].pages /\ s.window = u.mem[a].window
        /\ s.hosts = u.mem[a].hosts \ H
    BY <2>1 DEF SessionRec
  <2>3. m = [u.mem EXCEPT ![a] = s]
    BY <2>1
  <2> HIDE DEF s
  <2>4. QED
    BY <1>2, <2>1, <2>2, <2>3
<1> DEFINE x == [u EXCEPT !.hosts = hs]
           v == [x EXCEPT !.mem = m]
<1>6. on_destroy_container(w, H) = v
  <2> HIDE DEF hs
  <2>1. x.mem = u.mem /\ x \in Worlds
    BY <1>2, <1>4 DEF Worlds
  <2>2. [u EXCEPT !.hosts = hs, !.mem[a].hosts = @ \ H] = [x EXCEPT !.mem[a].hosts = @ \ H]
    OBVIOUS
  <2>3. [x EXCEPT !.mem[a].hosts = @ \ H] = [x EXCEPT !.mem = [x.mem EXCEPT ![a].hosts = @ \ H]]
    OBVIOUS
  <2>4. QED
    BY <1>3, <2>1, <2>2, <2>3
<1> HIDE DEF hs, m
<1>7. /\ v \in Worlds /\ v.mem = m /\ v.hosts = hs /\ v.owners = u.owners /\ v.window = u.window
      /\ v.wrong = u.wrong /\ v.pages = u.pages
  BY <1>2, <1>4, <1>5 DEF Worlds
<1> HIDE DEF v
<1>8. QED
  BY <1>2, <1>4, <1>5, <1>6, <1>7 DEF u, Emptied

(* World v is w without the containers H and the tabbed window. *)
Gone(v, w, H) ==
    /\ v \in Worlds
    /\ v.owners = w.owners /\ v.wrong = w.wrong
    /\ v.pages = Destroyed(w, UNION {PagesOf(h) : h \in H}).pages
    /\ v.window.sess = window.sess /\ v.window.state = "gone"
    /\ \A h \in Hosts : /\ v.hosts[h].sheet = hosts[h].sheet
                        /\ v.hosts[h].open <=> (hosts[h].open /\ h \notin H)
    /\ \A b \in Addresses :
          /\ v.mem[b].live = w.mem[b].live /\ v.mem[b].name = w.mem[b].name
          /\ v.mem[b].born = w.mem[b].born /\ v.mem[b].pages = w.mem[b].pages
          /\ v.mem[b].window <=> (w.mem[b].window /\ b # window.sess)
          /\ v.mem[b].hosts = IF b = window.sess THEN w.mem[b].hosts \ H ELSE w.mem[b].hosts

LEMMA WindowWorld ==
    ASSUME TypeOK, NEW w \in Worlds, w.window = window, w.hosts = hosts,
           window.sess \in Addresses, Live(window.sess)
    PROVE  Gone(DestroyTabbedWindow(w), w, {h \in Hosts : hosts[h].open})
<1> DEFINE H == {h \in Hosts : hosts[h].open}
           D == UNION {PagesOf(h) : h \in H}
           u == on_destroy_container(w, H)
           a == window.sess
<1>1. /\ u \in Worlds
      /\ u.owners = w.owners /\ u.window = w.window /\ u.wrong = w.wrong
      /\ u.pages = Destroyed(w, D).pages
      /\ \A h \in Hosts : /\ u.hosts[h].sheet = w.hosts[h].sheet
                          /\ u.hosts[h].open <=> (w.hosts[h].open /\ h \notin H)
      /\ \A b \in Addresses :
            /\ u.mem[b].live = w.mem[b].live /\ u.mem[b].name = w.mem[b].name
            /\ u.mem[b].born = w.mem[b].born /\ u.mem[b].pages = w.mem[b].pages
            /\ u.mem[b].window = w.mem[b].window
            /\ u.mem[b].hosts = IF b = a THEN w.mem[b].hosts \ H ELSE w.mem[b].hosts
  <2>1. H \in SUBSET Hosts
    OBVIOUS
  <2> HIDE DEF H
  <2>2. Emptied(u, w, H)
    BY <2>1, ContainersWorld
  <2> HIDE DEF u
  <2>3. QED
    BY <2>2 DEF Emptied
<1>2. DestroyTabbedWindow(w) = [u EXCEPT !.window.state = "gone", !.mem[a].window = FALSE]
  BY DEF DestroyTabbedWindow
<1> HIDE DEF u, H, D
<1> DEFINE win == [u.window EXCEPT !.state = "gone"]
           s == [u.mem[a] EXCEPT !.window = FALSE]
           m == [u.mem EXCEPT ![a] = s]
           x == [u EXCEPT !.window = win]
           v == [x EXCEPT !.mem = m]
<1>3. win \in WindowRec /\ win.state = "gone" /\ win.sess = window.sess
  <2>1. u.window \in WindowRec /\ u.window = window
    BY <1>1 DEF Worlds
  <2>2. QED
    BY <2>1 DEF WindowRec
<1>4. u.mem \in [Addresses -> SessionRec] /\ u.mem[a] \in SessionRec
  BY <1>1 DEF Worlds
<1>5. /\ s \in SessionRec /\ s.live = u.mem[a].live /\ s.name = u.mem[a].name
      /\ s.born = u.mem[a].born /\ s.pages = u.mem[a].pages /\ ~s.window
      /\ s.hosts = u.mem[a].hosts
  BY <1>4 DEF SessionRec
<1>6. DestroyTabbedWindow(w) = v
  <2> HIDE DEF s
  <2>1. x.mem = u.mem /\ x \in Worlds
    <3> HIDE DEF win
    <3>1. QED
      BY <1>1, <1>3 DEF Worlds
  <2>2. [u EXCEPT !.window.state = "gone", !.mem[a].window = FALSE]
           = [x EXCEPT !.mem[a].window = FALSE]
    OBVIOUS
  <2>3. [x EXCEPT !.mem[a].window = FALSE]
           = [x EXCEPT !.mem = [x.mem EXCEPT ![a].window = FALSE]]
    OBVIOUS
  <2>4. [x.mem EXCEPT ![a].window = FALSE] = m
    BY <1>4, <2>1 DEF s
  <2>5. QED
    BY <1>2, <2>2, <2>3, <2>4
<1> HIDE DEF win, s
<1>7. m \in [Addresses -> SessionRec] /\ m[a] = s /\ \A b \in Addresses : b # a => m[b] = u.mem[b]
  BY <1>4, <1>5
<1> HIDE DEF m
<1>8. /\ v \in Worlds /\ v.mem = m /\ v.window = win /\ v.hosts = u.hosts /\ v.owners = u.owners
      /\ v.wrong = u.wrong /\ v.pages = u.pages
  BY <1>1, <1>3, <1>7 DEF Worlds
<1> HIDE DEF v
<1>9. \A b \in Addresses :
         /\ v.mem[b].live = w.mem[b].live /\ v.mem[b].name = w.mem[b].name
         /\ v.mem[b].born = w.mem[b].born /\ v.mem[b].pages = w.mem[b].pages
         /\ v.mem[b].window <=> (w.mem[b].window /\ b # a)
         /\ v.mem[b].hosts = IF b = a THEN w.mem[b].hosts \ H ELSE w.mem[b].hosts
  <2> SUFFICES ASSUME NEW b \in Addresses
               PROVE  /\ v.mem[b].live = w.mem[b].live /\ v.mem[b].name = w.mem[b].name
                      /\ v.mem[b].born = w.mem[b].born /\ v.mem[b].pages = w.mem[b].pages
                      /\ v.mem[b].window <=> (w.mem[b].window /\ b # a)
                      /\ v.mem[b].hosts = IF b = a THEN w.mem[b].hosts \ H ELSE w.mem[b].hosts
    OBVIOUS
  <2>1. /\ u.mem[b].live = w.mem[b].live /\ u.mem[b].name = w.mem[b].name
        /\ u.mem[b].born = w.mem[b].born /\ u.mem[b].pages = w.mem[b].pages
        /\ u.mem[b].window = w.mem[b].window
        /\ u.mem[b].hosts = IF b = a THEN w.mem[b].hosts \ H ELSE w.mem[b].hosts
    BY <1>1
  <2>2. CASE b = a
    BY <1>5, <1>7, <1>8, <2>1, <2>2
  <2>3. CASE b # a
    BY <1>7, <1>8, <2>1, <2>3
  <2>4. QED
    BY <2>2, <2>3
<1>10. /\ v \in Worlds
       /\ v.owners = w.owners /\ v.wrong = w.wrong
       /\ v.pages = Destroyed(w, D).pages
       /\ v.window.sess = window.sess /\ v.window.state = "gone"
       /\ \A h \in Hosts : /\ v.hosts[h].sheet = hosts[h].sheet
                           /\ v.hosts[h].open <=> (hosts[h].open /\ h \notin H)
  BY <1>1, <1>3, <1>8
<1>11. QED
  BY <1>6, <1>9, <1>10 DEF Gone, H, D

(* World t is the state once the view of page p has closed and its session *)
(* was told.                                                               *)
Informed(t, p) ==
    /\ t \in Worlds /\ t.window = window /\ t.hosts = hosts
    /\ \A q \in Numbers : q # p => t.pages[q] = pages[q]
    /\ t.pages[p].kind = pages[p].kind /\ t.pages[p].name = pages[p].name
    /\ t.pages[p].sess = pages[p].sess /\ t.pages[p].host = pages[p].host
    /\ t.pages[p].view = "closed" /\ t.pages[p].hwnd = pages[p].hwnd
    /\ \A b \in Addresses :
          /\ t.mem[b].live = mem[b].live /\ t.mem[b].name = mem[b].name
          /\ t.mem[b].born = mem[b].born /\ t.mem[b].hosts = mem[b].hosts
          /\ t.mem[b].window = mem[b].window
          /\ t.wrong = Nil => t.mem[b].pages = mem[b].pages \ {p}
    /\ \A name \in PageNames :
          \/ t.owners[name] = owners[name]
          \/ t.owners[name] = 0 /\ name = pages[p].name
    /\ "endings" \notin env => t.owners[pages[p].name] = 0
    /\ t.wrong # Nil => ~Live(pages[p].sess)

LEMMA ToldWorld ==
    ASSUME IInv, wrong = Nil, NEW p \in Numbers, pages[p].view = "closing"
    PROVE  Informed(on_webview_close([World EXCEPT !.pages[p].view = "closed"], p), p)
<1> DEFINE closed == [World EXCEPT !.pages[p].view = "closed"]
           t == on_webview_close(closed, p)
           a == pages[p].sess
           q0 == [pages[p] EXCEPT !.view = "closed"]
           ps == [pages EXCEPT ![p] = q0]
<1>1. /\ World \in Worlds /\ World.mem = mem /\ World.pages = pages /\ World.owners = owners
      /\ World.window = window /\ World.hosts = hosts /\ World.wrong = Nil
  BY WorldTypes DEF IInv
<1>2. Open(p) /\ PageMade(p) /\ pages[p] \in PageRec
  BY OpenPages DEF Open, IInv
<1>3. a \in Addresses /\ pages[p].name \in PageNames
  BY <1>2 DEF PageMade
<1>4. /\ q0 \in PageRec /\ q0.kind = pages[p].kind /\ q0.name = pages[p].name
      /\ q0.sess = pages[p].sess /\ q0.host = pages[p].host /\ q0.view = "closed"
      /\ q0.hwnd = pages[p].hwnd
  BY <1>2 DEF PageRec
<1>5. ps \in [Numbers -> PageRec] /\ ps[p] = q0 /\ \A q \in Numbers : q # p => ps[q] = pages[q]
  BY <1>4 DEF IInv, TypeOK
<1>6. closed = [World EXCEPT !.pages = ps]
  BY <1>1
<1> HIDE DEF q0, ps
<1>7. /\ closed \in Worlds /\ closed.pages = ps /\ closed.mem = mem /\ closed.owners = owners
      /\ closed.window = window /\ closed.hosts = hosts /\ closed.wrong = Nil
  BY <1>1, <1>5, <1>6 DEF Worlds
<1> HIDE DEF closed
<1>8. "endings" \notin env => Live(a) /\ p \in mem[a].pages
  BY <1>2 DEF IInv, Sound, Outlived
<1>9. \A b \in Addresses : b # a => p \notin mem[b].pages
  BY DEF IInv, Sound, HandlesOwn
<1>10. CASE ~Live(a)
  <2>1. t = Fails(closed, "close")
    BY <1>10 DEF on_webview_close
  <2>2. /\ t \in Worlds /\ t.wrong # Nil
        /\ t.mem = mem /\ t.pages = ps /\ t.owners = owners
        /\ t.window = window /\ t.hosts = hosts
    BY <1>7, <2>1, FailsWorld
  <2> HIDE DEF t
  <2>3. QED
    BY <1>4, <1>5, <1>8, <1>10, <2>2 DEF t, closed, Informed
<1>11. CASE Live(a) /\ p \notin mem[a].pages
  <2>1. t = closed
    BY <1>7, <1>11 DEF on_webview_close
  <2>2. \A b \in Addresses : mem[b].pages = mem[b].pages \ {p}
    BY <1>9, <1>11
  <2>3. QED
    BY <1>4, <1>5, <1>7, <1>8, <1>11, <2>1, <2>2 DEF closed, Informed
<1>12. CASE Live(a) /\ p \in mem[a].pages
  <2> DEFINE s == [mem[a] EXCEPT !.pages = @ \ {p}]
             m == [mem EXCEPT ![a] = s]
             o == [owners EXCEPT ![pages[p].name] = 0]
             x == [closed EXCEPT !.mem = m]
             v == [x EXCEPT !.owners = o]
  <2>1. t = [closed EXCEPT !.mem[a].pages = @ \ {p}, !.owners[pages[p].name] = 0]
    BY <1>7, <1>12 DEF on_webview_close
  <2>2. mem \in [Addresses -> SessionRec] /\ mem[a] \in SessionRec
    BY <1>3 DEF IInv, TypeOK
  <2>3. /\ s \in SessionRec /\ s.live = mem[a].live /\ s.name = mem[a].name
        /\ s.born = mem[a].born /\ s.hosts = mem[a].hosts /\ s.window = mem[a].window
        /\ s.pages = mem[a].pages \ {p}
    BY <2>2 DEF SessionRec
  <2>4. [closed.mem EXCEPT ![a].pages = @ \ {p}] = m
    BY <1>7, <2>2
  <2> HIDE DEF s
  <2>5. m \in [Addresses -> SessionRec] /\ m[a] = s /\ \A b \in Addresses : b # a => m[b] = mem[b]
    BY <1>3, <2>2, <2>3
  <2>6. /\ o \in [PageNames -> 0..MaxPages] /\ o[pages[p].name] = 0
        /\ \A name \in PageNames : name # pages[p].name => o[name] = owners[name]
    BY <1>3, Apart DEF IInv, TypeOK
  <2>7. t = v
    <3>1. t = [[closed EXCEPT !.mem[a].pages = @ \ {p}] EXCEPT !.owners[pages[p].name] = 0]
      BY <2>1
    <3>2. [closed EXCEPT !.mem[a].pages = @ \ {p}]
             = [closed EXCEPT !.mem = [closed.mem EXCEPT ![a].pages = @ \ {p}]]
      OBVIOUS
    <3>3. [closed EXCEPT !.mem[a].pages = @ \ {p}] = x
      BY <2>4, <3>2
    <3> HIDE DEF m
    <3>4. x.owners = owners
      BY <1>7 DEF Worlds
    <3>5. [x EXCEPT !.owners[pages[p].name] = 0]
             = [x EXCEPT !.owners = [x.owners EXCEPT ![pages[p].name] = 0]]
      OBVIOUS
    <3>6. QED
      BY <3>1, <3>3, <3>4, <3>5
  <2> HIDE DEF m, o, t
  <2>8. /\ v \in Worlds /\ v.mem = m /\ v.owners = o /\ v.pages = ps /\ v.window = window
        /\ v.hosts = hosts /\ v.wrong = Nil
    BY <1>7, <2>5, <2>6 DEF Worlds
  <2>9. /\ t \in Worlds /\ t.mem = m /\ t.owners = o /\ t.pages = ps /\ t.window = window
        /\ t.hosts = hosts /\ t.wrong = Nil
    BY <2>7, <2>8
  <2>10. \A b \in Addresses :
            /\ t.mem[b].live = mem[b].live /\ t.mem[b].name = mem[b].name
            /\ t.mem[b].born = mem[b].born /\ t.mem[b].hosts = mem[b].hosts
            /\ t.mem[b].window = mem[b].window /\ t.mem[b].pages = mem[b].pages \ {p}
    BY <1>9, <2>3, <2>5, <2>9
  <2>11. QED
    BY <1>4, <1>5, <1>12, <2>6, <2>9, <2>10 DEF t, closed, Informed
<1>13. QED
  BY <1>10, <1>11, <1>12

(***************************************************************************)
(* A world is fine if what it says holds: something read freed memory, in  *)
(* an environment that lets it, or views were closed as they should be.    *)
(***************************************************************************)
Fine(w) ==
    /\ w \in Worlds
    /\ \A b \in Addresses : w.mem[b].live = mem[b].live
    /\ w.wrong # Nil => env # {}
    /\ w.wrong = Nil => \E P, D, H : \E last \in BOOLEAN : Shut(w, P, D, H, last)

LEMMA FineStep ==
    ASSUME IInv, wrong = Nil, NEW w, Fine(w),
           mem' = w.mem, pages' = w.pages, owners' = w.owners, window' = w.window,
           hosts' = w.hosts, wrong' = w.wrong,
           UNCHANGED <<env, conn, sess_list, starts, flights, strays>>
    PROVE  IInv'
<1>1. CASE w.wrong = Nil
  <2>1. PICK P, D, H : \E last \in BOOLEAN : Shut(w, P, D, H, last)
    BY <1>1 DEF Fine
  <2>2. PICK last \in BOOLEAN : Shut(w, P, D, H, last)
    BY <2>1
  <2>3. wrong' = Nil
    BY <1>1
  <2>4. QED
    BY <2>2, <2>3, ShutStep
<1>2. CASE w.wrong # Nil
  <2>1. w \in Worlds /\ wrong' \in {"close", "window"}
    BY <1>2 DEF Fine, Worlds
  <2>2. TypeOK'
    BY <2>1 DEF IInv, TypeOK, Worlds, Reasons
  <2>3. ListSound'
    <3>1. \A b \in Addresses : Live(b)' <=> Live(b)
      BY DEF Fine, Live
    <3>2. sess_list' = sess_list /\ ListSound /\ sess_list \in Seq(Addresses)
      BY DEF IInv, TypeOK
    <3>3. QED
      BY <3>1, <3>2 DEF ListSound
  <2>4. wrong' # "reply" /\ wrong' # Nil /\ env' # {}
    BY <1>2, <2>1 DEF Fine
  <2>5. QED
    BY <2>2, <2>3, <2>4 DEF IInv
<1>3. QED
  BY <1>1, <1>2

(* The view of a page that closes is of a page that was made. *)
LEMMA ClosingPage ==
    ASSUME IInv, wrong = Nil, NEW p \in Numbers, pages[p].view = "closing"
    PROVE  /\ Open(p) /\ PageMade(p) /\ pages[p].kind \in {"plain", "pane", "tab"}
           /\ pages[p].sess \in Addresses
           /\ ~Live(pages[p].sess) => env # {}
           /\ pages[p].kind # "plain" =>
                 /\ pages[p].host \in Hosts /\ p \in There
                 /\ window.state \in {"open", "gone"} /\ (window.state = "gone" => env # {})
           /\ window.state = "open" => /\ window.sess \in Addresses
                                       /\ ~Live(window.sess) => env # {}
<1>1. Open(p) /\ PageMade(p) /\ pages[p].kind # Nil /\ pages[p] \in PageRec
  BY OpenPages DEF IInv, Open
<1>2. pages[p].kind \in {"plain", "pane", "tab"}
  BY <1>1 DEF PageRec
<1>3. pages[p].sess \in Addresses
  BY <1>1 DEF PageMade
<1>4. ~Live(pages[p].sess) => env # {}
  BY <1>1 DEF IInv, Sound, Outlived
<1>5. ASSUME pages[p].kind # "plain"
      PROVE  /\ pages[p].host \in Hosts /\ p \in There
             /\ window.state \in {"open", "gone"} /\ (window.state = "gone" => env # {})
  <2>1. pages[p].host \in Hosts /\ pages[p].host # Nil
    BY <1>1, <1>2, <1>5, Apart DEF PageMade
  <2>2. p \in Tabbed /\ p \in There
    BY <1>1, <2>1 DEF Tabbed, There
  <2>3. window.state # Nil
    BY <2>2 DEF IInv, Sound, HostsInWindow
  <2>4. window.state \in {Nil, "open", "gone"}
    BY DEF IInv, TypeOK, WindowRec
  <2>5. window.state = "gone" => "frames" \in env
    BY <2>2 DEF IInv, Sound, WindowCounts
  <2>6. QED
    BY <2>1, <2>2, <2>3, <2>4, <2>5
<1>6. window.state = "open" => /\ window.sess \in Addresses
                               /\ ~Live(window.sess) => env # {}
  BY DEF IInv, Sound, HostsInWindow, Outlived
<1>7. QED
  BY <1>1, <1>2, <1>3, <1>4, <1>5, <1>6

LEMMA FailsFine ==
    ASSUME TypeOK, NEW w \in Worlds, \A b \in Addresses : w.mem[b].live = mem[b].live,
           NEW why \in {"close", "window"}, env # {}
    PROVE  Fine(Fails(w, why))
BY FailsWorld DEF Fine

LEMMA PlainFine ==
    ASSUME IInv, wrong = Nil, NEW p \in Numbers, pages[p].view = "closing",
           pages[p].kind = "plain", NEW t, Informed(t, p)
    PROVE  Fine(webViewClose(t, p))
<1>1. /\ t \in Worlds /\ \A b \in Addresses : t.mem[b].live = mem[b].live
  BY DEF Informed
<1>2. CASE ~Live(pages[p].sess)
  BY <1>1, <1>2, FailsFine, ClosingPage DEF webViewClose, IInv
<1>3. CASE Live(pages[p].sess)
  <2> DEFINE w == Destroyed(t, {p})
  <2>1. webViewClose(t, p) = w
    BY <1>3 DEF webViewClose
  <2>2. /\ w \in Worlds
        /\ w.mem = t.mem /\ w.owners = t.owners /\ w.window = window
        /\ w.hosts = hosts /\ w.wrong = t.wrong
        /\ \A q \in Numbers :
              /\ w.pages[q].kind = t.pages[q].kind /\ w.pages[q].name = t.pages[q].name
              /\ w.pages[q].sess = t.pages[q].sess /\ w.pages[q].host = t.pages[q].host
              /\ w.pages[q].view = t.pages[q].view
              /\ w.pages[q].hwnd <=> (t.pages[q].hwnd /\ q \notin {p})
              /\ q \notin {p} => w.pages[q] = t.pages[q]
    BY <1>1, DestroyedWorld DEF Informed
  <2> HIDE DEF w
  <2>3. t.wrong = Nil
    BY <1>3 DEF Informed
  <2>4. pages[p].host = Nil /\ pages[p].kind # Nil
    BY ClosingPage, Apart DEF PageMade
  <2>5. There \ {p} = There
    BY <2>4 DEF There, Tabbed
  <2>6. Shut(w, {p}, {p}, {}, FALSE)
    <3>1. \A b \in Addresses :
             /\ w.mem[b].live = mem[b].live /\ w.mem[b].name = mem[b].name
             /\ w.mem[b].born = mem[b].born /\ w.mem[b].pages = mem[b].pages \ {p}
             /\ w.mem[b].hosts = mem[b].hosts /\ w.mem[b].window = mem[b].window
      BY <2>2, <2>3 DEF Informed
    <3>2. \A q \in Numbers :
             /\ w.pages[q].kind = pages[q].kind /\ w.pages[q].name = pages[q].name
             /\ w.pages[q].sess = pages[q].sess /\ w.pages[q].host = pages[q].host
             /\ w.pages[q].view = IF q \in {p} THEN "closed" ELSE pages[q].view
             /\ w.pages[q].hwnd <=> (pages[q].hwnd /\ q \notin {p})
             /\ w.pages[q] = pages[q] \/ pages[q].kind # Nil
      BY <2>2, <2>4 DEF Informed
    <3>3. \A name \in PageNames :
             \/ w.owners[name] = owners[name]
             \/ w.owners[name] = 0 /\ \E q \in {p} : pages[q].name = name
      BY <2>2 DEF Informed
    <3>4. "endings" \notin env => \A q \in {p} : w.owners[pages[q].name] = 0
      BY <2>2 DEF Informed
    <3>5. window.state = "open" => /\ w.window.nrViews = Cardinality(There \ {p})
                                   /\ There \ {p} # {}
      BY <2>2, <2>5 DEF IInv, Sound, WindowCounts
    <3>6. QED
      BY <2>2, <3>1, <3>2, <3>3, <3>4, <3>5 DEF Shut
  <2>7. QED
    BY <1>1, <2>1, <2>2, <2>3, <2>6 DEF Fine
<1>4. QED
  BY <1>2, <1>3

(* World t is the state once the views of the pages P have closed and their *)
(* sessions, which are there, were told.                                    *)
Left(t, P) ==
    /\ t \in Worlds /\ t.window = window /\ t.hosts = hosts /\ t.wrong = Nil
    /\ \A p \in P : pages[p].view = "closing" /\ pages[p].kind \in {"pane", "tab"}
    /\ \A q \in Numbers :
          /\ t.pages[q].kind = pages[q].kind /\ t.pages[q].name = pages[q].name
          /\ t.pages[q].sess = pages[q].sess /\ t.pages[q].host = pages[q].host
          /\ t.pages[q].view = IF q \in P THEN "closed" ELSE pages[q].view
          /\ t.pages[q].hwnd = pages[q].hwnd
          /\ t.pages[q] = pages[q] \/ pages[q].kind # Nil
    /\ \A b \in Addresses :
          /\ t.mem[b].live = mem[b].live /\ t.mem[b].name = mem[b].name
          /\ t.mem[b].born = mem[b].born /\ t.mem[b].hosts = mem[b].hosts
          /\ t.mem[b].window = mem[b].window /\ t.mem[b].pages = mem[b].pages \ P
    /\ \A name \in PageNames :
          \/ t.owners[name] = owners[name]
          \/ t.owners[name] = 0 /\ \E p \in P : pages[p].name = name
    /\ "endings" \notin env => \A p \in P : t.owners[pages[p].name] = 0

LEMMA InformedLeft ==
    ASSUME IInv, wrong = Nil, NEW p \in Numbers, pages[p].view = "closing",
           pages[p].kind \in {"pane", "tab"}, NEW t, Informed(t, p), t.wrong = Nil
    PROVE  Left(t, {p})
<1>1. pages[p].kind # Nil
  BY Apart
<1>2. \A q \in Numbers :
         /\ t.pages[q].kind = pages[q].kind /\ t.pages[q].name = pages[q].name
         /\ t.pages[q].sess = pages[q].sess /\ t.pages[q].host = pages[q].host
         /\ t.pages[q].view = IF q \in {p} THEN "closed" ELSE pages[q].view
         /\ t.pages[q].hwnd = pages[q].hwnd
         /\ t.pages[q] = pages[q] \/ pages[q].kind # Nil
  BY <1>1 DEF Informed
<1>3. \A b \in Addresses :
         /\ t.mem[b].live = mem[b].live /\ t.mem[b].name = mem[b].name
         /\ t.mem[b].born = mem[b].born /\ t.mem[b].hosts = mem[b].hosts
         /\ t.mem[b].window = mem[b].window /\ t.mem[b].pages = mem[b].pages \ {p}
  BY DEF Informed
<1>4. /\ \A name \in PageNames :
            \/ t.owners[name] = owners[name]
            \/ t.owners[name] = 0 /\ \E q \in {p} : pages[q].name = name
      /\ "endings" \notin env => \A q \in {p} : t.owners[pages[q].name] = 0
      /\ t \in Worlds /\ t.window = window /\ t.hosts = hosts
  BY DEF Informed
<1>5. QED
  BY <1>2, <1>3, <1>4 DEF Left

(* World w is t without the windows of D and the containers H, and if last is *)
(* true the tabbed window.                                                    *)
Removed(w, t, P, D, H, last) ==
    /\ w \in Worlds /\ D \subseteq Numbers /\ H \subseteq Hosts
    /\ \A d \in D : d \in P \/ pages[d].host # Nil
    /\ w.pages = Destroyed(t, D).pages /\ w.owners = t.owners
    /\ \A b \in Addresses :
          /\ w.mem[b].live = t.mem[b].live /\ w.mem[b].name = t.mem[b].name
          /\ w.mem[b].born = t.mem[b].born /\ w.mem[b].pages = t.mem[b].pages
          /\ w.mem[b].window <=> (t.mem[b].window /\ ~(last /\ b = window.sess))
          /\ w.mem[b].hosts = IF b = window.sess THEN t.mem[b].hosts \ H ELSE t.mem[b].hosts
    /\ w.window.sess = window.sess
    /\ last => /\ w.window.state = "gone" /\ H = {h \in Hosts : hosts[h].open}
               /\ "frames" \in env \/ There \subseteq P
    /\ ~last => /\ w.window.state = window.state
                /\ window.state = "open" => /\ w.window.nrViews = Cardinality(There \ P)
                                            /\ There \ P # {}
    /\ \A h \in Hosts :
          /\ w.hosts[h].open <=> (hosts[h].open /\ h \notin H)
          /\ \A i \in 1..Len(w.hosts[h].sheet) :
                \E j \in 1..Len(hosts[h].sheet) : w.hosts[h].sheet[i] = hosts[h].sheet[j]
    /\ env \cap {"siblings", "frames"} = {} =>
          \A q \in Numbers : Open(q) /\ q \notin P => q \notin D /\ pages[q].host \notin H

LEMMA LeftShut ==
    ASSUME IInv, wrong = Nil, NEW P \in SUBSET Numbers, NEW t, Left(t, P), NEW D, NEW H,
           NEW last \in BOOLEAN, NEW w, Removed(w, t, P, D, H, last)
    PROVE  Shut(w, P, D, H, last)
<1> w \in Worlds /\ D \in SUBSET Numbers /\ H \in SUBSET Hosts
  BY DEF Removed
<1>1. t \in Worlds
  BY DEF Left
<1> DEFINE u == Destroyed(t, D)
<1>2. \A q \in Numbers :
         /\ u.pages[q].kind = t.pages[q].kind /\ u.pages[q].name = t.pages[q].name
         /\ u.pages[q].sess = t.pages[q].sess /\ u.pages[q].host = t.pages[q].host
         /\ u.pages[q].view = t.pages[q].view
         /\ u.pages[q].hwnd <=> (t.pages[q].hwnd /\ q \notin D)
         /\ q \notin D => u.pages[q] = t.pages[q]
  BY <1>1, DestroyedWorld
<1>3. w.pages = u.pages
  BY DEF Removed
<1> HIDE DEF u
<1>4. \A d \in D : pages[d].kind # Nil
  <2>1. \A q \in Numbers : pages[q].kind = Nil => pages[q].host = Nil /\ pages[q].view = Nil
    <3>1. NoPage.host = Nil /\ NoPage.view = Nil
      BY DEF NoPage
    <3>2. QED
      BY <3>1 DEF IInv, Sound, PagesMade
  <2>2. \A p \in P : pages[p].view # Nil
    BY Apart DEF Left
  <2>3. \A d \in D : d \in P \/ pages[d].host # Nil
    BY DEF Removed
  <2>4. QED
    BY <2>1, <2>2, <2>3
<1>5. \A q \in Numbers :
         /\ w.pages[q].kind = pages[q].kind /\ w.pages[q].name = pages[q].name
         /\ w.pages[q].sess = pages[q].sess /\ w.pages[q].host = pages[q].host
         /\ w.pages[q].view = IF q \in P THEN "closed" ELSE pages[q].view
         /\ w.pages[q].hwnd <=> (pages[q].hwnd /\ q \notin D)
         /\ w.pages[q] = pages[q] \/ pages[q].kind # Nil
  BY <1>2, <1>3, <1>4 DEF Left
<1>6. \A b \in Addresses :
         /\ w.mem[b].live = mem[b].live /\ w.mem[b].name = mem[b].name
         /\ w.mem[b].born = mem[b].born /\ w.mem[b].pages = mem[b].pages \ P
         /\ w.mem[b].hosts = IF b = window.sess THEN mem[b].hosts \ H ELSE mem[b].hosts
         /\ w.mem[b].window <=> (mem[b].window /\ ~(last /\ b = window.sess))
  <2>1. \A b \in Addresses :
           /\ w.mem[b].live = t.mem[b].live /\ w.mem[b].name = t.mem[b].name
           /\ w.mem[b].born = t.mem[b].born /\ w.mem[b].pages = t.mem[b].pages
           /\ w.mem[b].window <=> (t.mem[b].window /\ ~(last /\ b = window.sess))
           /\ w.mem[b].hosts = IF b = window.sess THEN t.mem[b].hosts \ H ELSE t.mem[b].hosts
    BY DEF Removed
  <2>2. \A b \in Addresses :
           /\ t.mem[b].live = mem[b].live /\ t.mem[b].name = mem[b].name
           /\ t.mem[b].born = mem[b].born /\ t.mem[b].hosts = mem[b].hosts
           /\ t.mem[b].window = mem[b].window /\ t.mem[b].pages = mem[b].pages \ P
    BY DEF Left
  <2>3. QED
    BY <2>1, <2>2
<1>7. \A p \in P : pages[p].view = "closing" /\ (pages[p].kind = "plain" => p \in D)
  BY MiniguiAssumption DEF Left
<1>8. /\ \A name \in PageNames :
            \/ w.owners[name] = owners[name]
            \/ w.owners[name] = 0 /\ \E p \in P : pages[p].name = name
      /\ "endings" \notin env => \A p \in P : w.owners[pages[p].name] = 0
  BY DEF Left, Removed
<1>9. QED
  BY <1>5, <1>6, <1>7, <1>8 DEF Shut, Removed

LEMMA RemovedFine ==
    ASSUME IInv, wrong = Nil, NEW P \in SUBSET Numbers, NEW t, Left(t, P), NEW D, NEW H,
           NEW last \in BOOLEAN, NEW w, Removed(w, t, P, D, H, last), w.wrong = Nil
    PROVE  Fine(w)
<1>1. Shut(w, P, D, H, last)
  BY LeftShut
<1>2. w \in Worlds /\ \A b \in Addresses : w.mem[b].live = mem[b].live
  BY <1>1 DEF Shut
<1>3. QED
  BY <1>1, <1>2 DEF Fine

(* Where pages are alone, containers have no open page but the closing one. *)
LEMMA LastFine ==
    ASSUME IInv, wrong = Nil, window.state = "open", NEW P \in SUBSET Numbers, NEW t, Left(t, P),
           "frames" \in env \/ There \subseteq P
    PROVE  Fine(DestroyTabbedWindow(t))
<1>1. /\ t \in Worlds /\ t.window = window /\ t.hosts = hosts /\ t.wrong = Nil
      /\ \A b \in Addresses : t.mem[b].live = mem[b].live
  BY DEF Left
<1>2. window.sess \in Addresses /\ (~Live(window.sess) => env # {})
  BY DEF IInv, Sound, HostsInWindow, Outlived
<1>3. CASE ~Live(window.sess)
  <2>1. on_destroy_container(t, {h \in Hosts : t.hosts[h].open}) = Fails(t, "close")
    BY <1>3 DEF on_destroy_container
  <2>2. DestroyTabbedWindow(t) = Fails(t, "close")
    BY <1>3, <2>1 DEF DestroyTabbedWindow
  <2>3. QED
    BY <1>1, <1>2, <1>3, <2>2, FailsFine DEF IInv
<1>4. CASE Live(window.sess)
  <2> DEFINE H == {h \in Hosts : hosts[h].open}
             D == UNION {PagesOf(h) : h \in H}
             w == DestroyTabbedWindow(t)
  <2>1. Gone(w, t, H)
    BY <1>1, <1>2, <1>4, WindowWorld DEF IInv
  <2>2. \A d \in D : d \in Numbers /\ pages[d].host # Nil
    BY Apart DEF PagesOf
  <2>3. \A h \in Hosts : /\ w.hosts[h].open <=> (hosts[h].open /\ h \notin H)
                         /\ w.hosts[h].sheet = hosts[h].sheet
    BY <2>1 DEF Gone
  <2>4. env \cap {"siblings", "frames"} = {} =>
          \A q \in Numbers : Open(q) /\ q \notin P => q \notin D /\ pages[q].host \notin H
    <3> SUFFICES ASSUME env \cap {"siblings", "frames"} = {}, NEW q \in Numbers, Open(q), q \notin P
                 PROVE  q \notin D /\ pages[q].host \notin H
      OBVIOUS
    <3>1. pages[q].host = Nil
      BY DEF There, Tabbed
    <3>2. QED
      BY <2>2, <3>1, Apart
  <2>5. H \subseteq Hosts /\ D \subseteq Numbers /\ H = {h \in Hosts : hosts[h].open}
    BY <2>2
  <2> HIDE DEF w, H
  <2>6. w.pages = Destroyed(t, D).pages /\ w \in Worlds /\ w.owners = t.owners
        /\ w.window.sess = window.sess /\ w.window.state = "gone" /\ w.wrong = Nil
    BY <1>1, <2>1 DEF Gone
  <2> HIDE DEF D
  <2>7. \A b \in Addresses :
           /\ w.mem[b].live = t.mem[b].live /\ w.mem[b].name = t.mem[b].name
           /\ w.mem[b].born = t.mem[b].born /\ w.mem[b].pages = t.mem[b].pages
           /\ w.mem[b].window <=> (t.mem[b].window /\ ~(TRUE /\ b = window.sess))
           /\ w.mem[b].hosts = IF b = window.sess THEN t.mem[b].hosts \ H ELSE t.mem[b].hosts
    BY <2>1 DEF Gone
  <2>8. \A h \in Hosts :
           /\ w.hosts[h].open <=> (hosts[h].open /\ h \notin H)
           /\ \A i \in 1..Len(w.hosts[h].sheet) :
                 \E j \in 1..Len(hosts[h].sheet) : w.hosts[h].sheet[i] = hosts[h].sheet[j]
    BY <2>3
  <2>9. Removed(w, t, P, D, H, TRUE)
    BY <2>2, <2>4, <2>5, <2>6, <2>7, <2>8 DEF Removed
  <2>10. QED
    BY <2>6, <2>9, RemovedFine DEF w
<1>5. QED
  BY <1>3, <1>4

(* Once something read freed memory, nothing is said but that. *)
LEMMA AfterFailure ==
    ASSUME IInv, wrong = Nil, env # {}, NEW w \in Worlds, w.wrong # Nil,
           \A b \in Addresses : w.mem[b].live = mem[b].live
    PROVE  Fine(w)
BY DEF Fine

LEMMA FailedWindow ==
    ASSUME IInv, wrong = Nil, env # {}, NEW t \in Worlds, t.wrong # Nil, t.window = window,
           t.hosts = hosts, window.state = "open",
           \A b \in Addresses : t.mem[b].live = mem[b].live
    PROVE  Fine(DestroyTabbedWindow(t))
<1>1. window.sess \in Addresses
  BY DEF IInv, Sound, HostsInWindow
<1>2. CASE ~Live(window.sess)
  <2>1. on_destroy_container(t, {h \in Hosts : t.hosts[h].open}) = Fails(t, "close")
    BY <1>2 DEF on_destroy_container
  <2>2. DestroyTabbedWindow(t) = Fails(t, "close")
    BY <1>2, <2>1 DEF DestroyTabbedWindow
  <2>3. QED
    BY <2>2, FailsFine DEF IInv
<1>3. CASE Live(window.sess)
  <2> DEFINE w == DestroyTabbedWindow(t)
  <2>1. Gone(w, t, {h \in Hosts : hosts[h].open})
    BY <1>1, <1>3, WindowWorld DEF IInv
  <2> HIDE DEF w
  <2>2. w \in Worlds /\ w.wrong # Nil /\ \A b \in Addresses : w.mem[b].live = t.mem[b].live
    BY <2>1 DEF Gone
  <2>3. QED
    BY <2>2, AfterFailure DEF w
<1>4. QED
  BY <1>2, <1>3

(* The window counts one page less. *)
LEMMA OneLess ==
    ASSUME IInv, wrong = Nil, window.state = "open", NEW p \in There
    PROVE  /\ window.nrViews = Cardinality(There) /\ window.nrViews \in Nat \ {0}
           /\ window.nrViews = 1 => There \subseteq {p}
           /\ window.nrViews # 1 => There \ {p} # {}
           /\ Cardinality(There \ {p}) = window.nrViews - 1
<1>1. There \subseteq Numbers
  BY DEF There, Tabbed
<1>2. IsFiniteSet(There) /\ Cardinality(There) \in Nat
  BY <1>1, ThereFinite
<1>3. window.nrViews = Cardinality(There)
  BY DEF IInv, Sound, WindowCounts
<1>4. IsFiniteSet(There \ {p}) /\ Cardinality(There \ {p}) = Cardinality(There) - 1
  BY <1>2, FS_RemoveElement
<1>5. Cardinality(There \ {p}) \in Nat /\ (Cardinality(There \ {p}) = 0 <=> There \ {p} = {})
  BY <1>4, FS_CardinalityType, FS_EmptySet
<1>6. QED
  BY <1>2, <1>3, <1>4, <1>5

(* The window is told that it has a view less. *)
LEMMA CountedWorld ==
    ASSUME NEW w \in Worlds, w.window.nrViews \in Nat \ {0}
    PROVE  LET v == [w EXCEPT !.window.nrViews = @ - 1]
           IN  /\ v \in Worlds /\ v.mem = w.mem /\ v.pages = w.pages /\ v.owners = w.owners
               /\ v.hosts = w.hosts /\ v.wrong = w.wrong
               /\ v.window.state = w.window.state /\ v.window.sess = w.window.sess
               /\ v.window.nrViews = w.window.nrViews - 1
<1> DEFINE win == [w.window EXCEPT !.nrViews = @ - 1]
           v == [w EXCEPT !.window = win]
<1>1. w.window \in WindowRec
  BY DEF Worlds
<1>2. /\ win \in WindowRec /\ win.state = w.window.state /\ win.sess = w.window.sess
      /\ win.nrViews = w.window.nrViews - 1
  BY <1>1 DEF WindowRec
<1>3. [w EXCEPT !.window.nrViews = @ - 1] = v
  OBVIOUS
<1> HIDE DEF win
<1>4. /\ v \in Worlds /\ v.mem = w.mem /\ v.pages = w.pages /\ v.owners = w.owners
      /\ v.hosts = w.hosts /\ v.wrong = w.wrong /\ v.window = win
  BY <1>2 DEF Worlds
<1>5. QED
  BY <1>2, <1>3, <1>4

LEMMA PaneFine ==
    ASSUME IInv, wrong = Nil, NEW p \in Numbers, pages[p].view = "closing",
           pages[p].kind = "pane", NEW t, Informed(t, p)
    PROVE  Fine(browserPaneWebViewClose(t, p))
<1>1. /\ t \in Worlds /\ t.window = window /\ t.hosts = hosts
      /\ \A b \in Addresses : t.mem[b].live = mem[b].live
      /\ t.wrong # Nil => env # {}
  BY ClosingPage DEF Informed
<1>2. /\ Open(p) /\ pages[p].host \in Hosts /\ p \in There
      /\ window.state \in {"open", "gone"} /\ (window.state = "gone" => env # {})
      /\ window.state = "open" => /\ window.sess \in Addresses
                                  /\ ~Live(window.sess) => env # {}
  BY ClosingPage, MiniguiAssumption
<1>3. t.wrong = Nil => Left(t, {p})
  BY InformedLeft
<1>4. CASE window.state = "gone"
  <2>1. browserPaneWebViewClose(t, p) = Fails(t, "window")
    BY <1>1, <1>4 DEF browserPaneWebViewClose
  <2>2. QED
    BY <1>1, <1>2, <1>4, <2>1, FailsFine DEF IInv
<1>5. CASE window.state = "open" /\ window.nrViews = 1
  <2>1. browserPaneWebViewClose(t, p) = DestroyTabbedWindow(t)
    BY <1>1, <1>5, MiniguiAssumption DEF browserPaneWebViewClose
  <2>2. CASE t.wrong = Nil
    BY <1>2, <1>3, <1>5, <2>1, <2>2, OneLess, LastFine
  <2>3. CASE t.wrong # Nil
    BY <1>1, <1>5, <2>1, <2>3, FailedWindow
  <2>4. QED
    BY <2>2, <2>3
<1>6. CASE window.state = "open" /\ window.nrViews # 1 /\ ~hosts[pages[p].host].open
  <2>1. browserPaneWebViewClose(t, p) = Fails(t, "window")
    BY <1>1, <1>6 DEF browserPaneWebViewClose
  <2>2. env # {}
    BY <1>2, <1>6, Apart DEF IInv, Sound, Alone
  <2>3. QED
    BY <1>1, <2>1, <2>2, FailsFine DEF IInv
<1>7. CASE window.state = "open" /\ window.nrViews # 1 /\ hosts[pages[p].host].open
  <2> DEFINE h == pages[p].host
             H == {h}
             u == on_destroy_container(t, H)
             w == [u EXCEPT !.window.nrViews = @ - 1]
             D == UNION {PagesOf(x) : x \in H}
  <2>1. browserPaneWebViewClose(t, p) = w
    BY <1>1, <1>7, MiniguiAssumption DEF browserPaneWebViewClose
  <2>2. window.nrViews \in Nat \ {0} /\ There \ {p} # {}
        /\ Cardinality(There \ {p}) = window.nrViews - 1
    BY <1>2, <1>7, OneLess
  <2>3. D = PagesOf(h) /\ D \subseteq Numbers /\ H \subseteq Hosts
    BY <1>2 DEF PagesOf
  <2>4. \A d \in D : pages[d].host = h /\ h # Nil
    BY <1>2, <2>3, Apart DEF PagesOf
  <2>5. env \cap {"siblings", "frames"} = {} =>
           \A q \in Numbers : Open(q) /\ q \notin {p} => q \notin D /\ pages[q].host \notin H
    <3> SUFFICES ASSUME env \cap {"siblings", "frames"} = {}, NEW q \in Numbers, Open(q),
                        q \notin {p}
                 PROVE  pages[q].host # h
      BY <2>4
    <3>1. QED
      BY <1>2, Apart DEF IInv, Sound, Alone
  <2>6. CASE ~Live(window.sess)
    <3>1. u = Fails(t, "close")
      BY <2>6 DEF on_destroy_container
    <3>2. /\ u \in Worlds /\ u.wrong # Nil /\ u.mem = t.mem /\ u.window = window
      BY <1>1, <3>1, FailsWorld
    <3> HIDE DEF u
    <3>3. w \in Worlds /\ w.wrong # Nil /\ w.mem = t.mem
      BY <2>2, <3>2, CountedWorld
    <3> HIDE DEF w
    <3>4. QED
      BY <1>1, <1>2, <1>7, <2>1, <2>6, <3>3, AfterFailure
  <2>7. CASE Live(window.sess)
    <3>1. Emptied(u, t, H)
      BY <1>1, <1>2, <1>7, <2>3, <2>7, ContainersWorld DEF IInv
    <3> HIDE DEF u, H
    <3>2. u \in Worlds /\ u.window = window /\ u.wrong = t.wrong
      BY <1>1, <3>1 DEF Emptied
    <3>3. /\ w \in Worlds /\ w.mem = u.mem /\ w.pages = u.pages /\ w.owners = u.owners
          /\ w.hosts = u.hosts /\ w.wrong = t.wrong
          /\ w.window.state = window.state /\ w.window.sess = window.sess
          /\ w.window.nrViews = Cardinality(There \ {p})
      BY <2>2, <3>2, CountedWorld
    <3> HIDE DEF w
    <3>4. /\ w.owners = t.owners /\ w.pages = Destroyed(t, D).pages
          /\ \A x \in Hosts : /\ w.hosts[x].sheet = hosts[x].sheet
                              /\ w.hosts[x].open <=> (hosts[x].open /\ x \notin H)
      BY <1>1, <3>1, <3>3 DEF Emptied
    <3> HIDE DEF D
    <3>5. \A b \in Addresses :
             /\ w.mem[b].live = t.mem[b].live /\ w.mem[b].name = t.mem[b].name
             /\ w.mem[b].born = t.mem[b].born /\ w.mem[b].pages = t.mem[b].pages
             /\ w.mem[b].window <=> (t.mem[b].window /\ ~(FALSE /\ b = window.sess))
             /\ w.mem[b].hosts = IF b = window.sess THEN t.mem[b].hosts \ H ELSE t.mem[b].hosts
      BY <3>1, <3>3 DEF Emptied
    <3>6. CASE t.wrong = Nil
      <4>1. \A x \in Hosts :
               /\ w.hosts[x].open <=> (hosts[x].open /\ x \notin H)
               /\ \A i \in 1..Len(w.hosts[x].sheet) :
                     \E j \in 1..Len(hosts[x].sheet) : w.hosts[x].sheet[i] = hosts[x].sheet[j]
        BY <3>4
      <4>2. Removed(w, t, {p}, D, H, FALSE)
        BY <2>2, <2>3, <2>4, <2>5, <3>3, <3>4, <3>5, <4>1 DEF Removed
      <4>3. QED
        BY <1>3, <2>1, <3>3, <3>6, <4>2, RemovedFine
    <3>7. CASE t.wrong # Nil
      <4>1. \A b \in Addresses : w.mem[b].live = mem[b].live
        BY <1>1, <3>5
      <4>2. QED
        BY <1>1, <2>1, <3>3, <3>7, <4>1, AfterFailure
    <3>8. QED
      BY <3>6, <3>7
  <2>8. QED
    BY <2>6, <2>7
<1>8. QED
  BY <1>2, <1>4, <1>5, <1>6, <1>7

(* What is left of a sheet was in it. *)
LEMMA SheetRemoved ==
    ASSUME NEW sheet \in Seq(Numbers), NEW i \in 1..Len(sheet)
    PROVE  /\ RemoveAt(sheet, i) \in Seq(Numbers)
           /\ \A k \in 1..Len(RemoveAt(sheet, i)) :
                 \E j \in 1..Len(sheet) : RemoveAt(sheet, i)[k] = sheet[j]
<1> DEFINE r == RemoveAt(sheet, i)
           u == SubSeq(sheet, 1, i - 1)
           v == SubSeq(sheet, i + 1, Len(sheet))
<1>1. Len(sheet) \in Nat /\ i \in Nat \ {0} /\ i <= Len(sheet)
  OBVIOUS
<1>2. r = u \o v
  BY DEF RemoveAt
<1>3. u \in Seq(Numbers) /\ Len(u) = i - 1 /\ \A k \in 1..(i - 1) : u[k] = sheet[k]
  BY <1>1
<1>4. v \in Seq(Numbers) /\ Len(v) = Len(sheet) - i
      /\ \A k \in 1..(Len(sheet) - i) : v[k] = sheet[i + k]
  BY <1>1
<1> HIDE DEF u, v, r
<1>5. /\ r \in Seq(Numbers) /\ Len(r) = Len(u) + Len(v)
      /\ \A k \in 1..Len(r) : r[k] = IF k <= Len(u) THEN u[k] ELSE v[k - Len(u)]
  <2>1. u \in Seq(Numbers) /\ v \in Seq(Numbers)
    BY <1>3, <1>4
  <2>2. /\ u \o v \in Seq(Numbers) /\ Len(u \o v) = Len(u) + Len(v)
        /\ \A k \in 1..Len(u) + Len(v) :
              (u \o v)[k] = IF k <= Len(u) THEN u[k] ELSE v[k - Len(u)]
    BY <2>1, ConcatProperties, Zenon
  <2>3. QED
    BY <1>2, <2>2
<1>6. ASSUME NEW k \in 1..Len(r)
      PROVE  \E j \in 1..Len(sheet) : r[k] = sheet[j]
  <2>1. CASE k <= Len(u)
    <3>1. k \in 1..(i - 1) /\ r[k] = u[k] /\ k \in 1..Len(sheet)
      BY <1>1, <1>3, <1>5, <1>6, <2>1
    <3>2. QED
      BY <1>3, <3>1
  <2>2. CASE ~(k <= Len(u))
    <3> DEFINE l == k - Len(u)
    <3>1. l \in 1..(Len(sheet) - i) /\ r[k] = v[l] /\ i + l \in 1..Len(sheet)
      BY <1>1, <1>3, <1>4, <1>5, <1>6, <2>2
    <3> HIDE DEF l
    <3>2. r[k] = sheet[i + l]
      BY <1>4, <3>1
    <3>3. QED
      BY <3>1, <3>2
  <2>3. QED
    BY <2>1, <2>2
<1>7. QED
  BY <1>5, <1>6 DEF r

LEMMA TabFine ==
    ASSUME IInv, wrong = Nil, NEW p \in Numbers, pages[p].view = "closing",
           pages[p].kind = "tab", NEW t, Informed(t, p)
    PROVE  Fine(browserTabWebViewClose(t, p))
<1>1. /\ t \in Worlds /\ t.window = window /\ t.hosts = hosts
      /\ \A b \in Addresses : t.mem[b].live = mem[b].live
      /\ t.wrong # Nil => env # {}
  BY ClosingPage DEF Informed
<1>2. /\ Open(p) /\ pages[p].host \in Hosts /\ p \in There
      /\ window.state \in {"open", "gone"} /\ (window.state = "gone" => env # {})
      /\ window.state = "open" => /\ window.sess \in Addresses
                                  /\ ~Live(window.sess) => env # {}
  BY ClosingPage, MiniguiAssumption
<1>3. t.wrong = Nil => Left(t, {p})
  BY InformedLeft
<1> DEFINE h == pages[p].host
           sheet == t.hosts[h].sheet
           i == pages[p].idx + 1
           removed == IF i \in DOMAIN sheet THEN {sheet[i]} ELSE {}
<1>4. CASE window.state = "gone"
  <2>1. browserTabWebViewClose(t, p) = Fails(t, "window")
    BY <1>1, <1>4, MiniguiAssumption DEF browserTabWebViewClose
  <2>2. QED
    BY <1>1, <1>2, <1>4, <2>1, FailsFine DEF IInv
<1>5. CASE window.state = "open" /\ window.nrViews = 1
  <2>1. browserTabWebViewClose(t, p) = DestroyTabbedWindow(t)
    BY <1>1, <1>5 DEF browserTabWebViewClose
  <2>2. CASE t.wrong = Nil
    BY <1>2, <1>3, <1>5, <2>1, <2>2, OneLess, LastFine
  <2>3. CASE t.wrong # Nil
    BY <1>1, <1>5, <2>1, <2>3, FailedWindow
  <2>4. QED
    BY <2>2, <2>3
<1>6. CASE window.state = "open" /\ window.nrViews # 1
  <2> DEFINE D == {p} \cup removed
             u == Destroyed(t, D)
             s == IF removed = {} THEN sheet ELSE RemoveAt(sheet, i)
             w == [u EXCEPT !.window.nrViews = @ - 1,
                            !.hosts[h].sheet = IF removed = {} THEN @ ELSE RemoveAt(@, i)]
  <2>1. browserTabWebViewClose(t, p) = w
    BY <1>1, <1>6 DEF browserTabWebViewClose
  <2>2. /\ window.nrViews \in Nat \ {0} /\ There \ {p} # {}
        /\ Cardinality(There \ {p}) = window.nrViews - 1
    BY <1>2, <1>6, OneLess
  <2>3. sheet = hosts[h].sheet /\ sheet \in Seq(Numbers) /\ hosts[h] \in HostRec
    BY <1>1, <1>2 DEF IInv, TypeOK, HostRec
  <2>4. removed \subseteq Numbers /\ \A d \in removed : pages[d].host = h
    BY <1>2, <2>3, SheetPages DEF IInv, Sound, HostsInWindow
  <2>5. /\ s \in Seq(Numbers)
        /\ \A k \in 1..Len(s) : \E j \in 1..Len(sheet) : s[k] = sheet[j]
    <3>1. removed # {} => i \in 1..Len(sheet)
      BY <2>3
    <3>2. QED
      BY <2>3, <3>1, SheetRemoved
  <2>6. D \subseteq Numbers /\ \A d \in D : d = p \/ (pages[d].host = h /\ h # Nil)
    BY <1>2, <2>4, Apart
  <2>7. /\ u \in Worlds /\ u.mem = t.mem /\ u.owners = t.owners /\ u.window = window
        /\ u.hosts = hosts /\ u.wrong = t.wrong
    <3> HIDE DEF D
    <3>1. QED
      BY <1>1, <2>6, DestroyedWorld
  <2>8. env \cap {"siblings", "frames"} = {} =>
           \A q \in Numbers : Open(q) /\ q \notin {p} => q \notin D /\ pages[q].host \notin {}
    <3> SUFFICES ASSUME env \cap {"siblings", "frames"} = {}, NEW q \in Numbers, Open(q),
                        q \notin {p}
                 PROVE  q \notin D
      OBVIOUS
    <3> HIDE DEF D
    <3>1. pages[q].host # h
      BY <1>2, Apart DEF IInv, Sound, Alone
    <3>2. QED
      BY <2>6, <3>1
  <2> HIDE DEF removed, sheet, i
  <2> DEFINE x == [u EXCEPT !.window.nrViews = @ - 1]
             rec == [hosts[h] EXCEPT !.sheet = s]
             hs == [hosts EXCEPT ![h] = rec]
             v == [x EXCEPT !.hosts = hs]
  <2>9. /\ x \in Worlds /\ x.mem = u.mem /\ x.pages = u.pages /\ x.owners = u.owners
        /\ x.hosts = u.hosts /\ x.wrong = u.wrong
        /\ x.window.state = u.window.state /\ x.window.sess = u.window.sess
        /\ x.window.nrViews = u.window.nrViews - 1
    <3> HIDE DEF u
    <3>1. QED
      BY <2>2, <2>7, CountedWorld
  <2>10. w = v
    <3> HIDE DEF u
    <3>1. w = [x EXCEPT !.hosts[h].sheet = IF removed = {} THEN @ ELSE RemoveAt(@, i)]
      OBVIOUS
    <3> HIDE DEF x, w
    <3>2. [x EXCEPT !.hosts[h].sheet = IF removed = {} THEN @ ELSE RemoveAt(@, i)]
             = [x EXCEPT !.hosts = [x.hosts EXCEPT ![h].sheet =
                                      IF removed = {} THEN @ ELSE RemoveAt(@, i)]]
      OBVIOUS
    <3>3. x.hosts = hosts /\ hosts \in [Hosts -> HostRec]
      BY <2>7, <2>9 DEF IInv, TypeOK
    <3>4. [hosts EXCEPT ![h].sheet = IF removed = {} THEN @ ELSE RemoveAt(@, i)] = hs
      BY <1>2, <2>3, <3>3
    <3>5. QED
      BY <3>1, <3>2, <3>3, <3>4
  <2> HIDE DEF s
  <2>11. rec \in HostRec /\ rec.open = hosts[h].open /\ rec.sheet = s
    BY <2>3, <2>5 DEF HostRec
  <2> HIDE DEF rec
  <2>12. hs \in [Hosts -> HostRec] /\ hs[h] = rec /\ \A y \in Hosts : y # h => hs[y] = hosts[y]
    BY <1>2, <2>11 DEF IInv, TypeOK
  <2> HIDE DEF hs, x, u
  <2>13. /\ v \in Worlds /\ v.mem = t.mem /\ v.pages = u.pages /\ v.owners = t.owners
         /\ v.hosts = hs /\ v.wrong = t.wrong /\ v.window = x.window
    BY <2>7, <2>9, <2>12 DEF Worlds
  <2> HIDE DEF w, v
  <2>14. CASE t.wrong = Nil
    <3>1. \A y \in Hosts :
             /\ v.hosts[y].open <=> (hosts[y].open /\ y \notin {})
             /\ \A k \in 1..Len(v.hosts[y].sheet) :
                   \E j \in 1..Len(hosts[y].sheet) : v.hosts[y].sheet[k] = hosts[y].sheet[j]
      <4> SUFFICES ASSUME NEW y \in Hosts
                   PROVE  /\ v.hosts[y].open <=> hosts[y].open
                          /\ \A k \in 1..Len(v.hosts[y].sheet) :
                                \E j \in 1..Len(hosts[y].sheet) :
                                   v.hosts[y].sheet[k] = hosts[y].sheet[j]
        OBVIOUS
      <4>1. CASE y = h
        BY <2>3, <2>5, <2>11, <2>12, <2>13, <4>1
      <4>2. CASE y # h
        BY <2>12, <2>13, <4>2
      <4>3. QED
        BY <4>1, <4>2
    <3>2. \A b \in Addresses :
             /\ v.mem[b].live = t.mem[b].live /\ v.mem[b].name = t.mem[b].name
             /\ v.mem[b].born = t.mem[b].born /\ v.mem[b].pages = t.mem[b].pages
             /\ v.mem[b].window <=> (t.mem[b].window /\ ~(FALSE /\ b = window.sess))
             /\ v.mem[b].hosts = IF b = window.sess THEN t.mem[b].hosts \ {} ELSE t.mem[b].hosts
      BY <2>13
    <3>3. v.pages = Destroyed(t, D).pages /\ v.owners = t.owners /\ v \in Worlds
      BY <2>13 DEF u
    <3>4. /\ v.window.sess = window.sess /\ v.window.state = window.state
          /\ v.window.nrViews = Cardinality(There \ {p})
      BY <2>2, <2>7, <2>9, <2>13
    <3> HIDE DEF D
    <3>5. \A d \in D : d \in {p} \/ pages[d].host # Nil
      BY <2>6
    <3>6. Removed(v, t, {p}, D, {}, FALSE)
      BY <2>2, <2>6, <2>8, <3>1, <3>2, <3>3, <3>4, <3>5 DEF Removed
    <3>7. QED
      BY <1>3, <2>1, <2>10, <2>13, <2>14, <3>6, RemovedFine
  <2>15. CASE t.wrong # Nil
    BY <1>1, <2>1, <2>10, <2>13, <2>15, AfterFailure
  <2>16. QED
    BY <2>14, <2>15
<1>7. QED
  BY <1>2, <1>4, <1>5, <1>6


(* A view closes: the handlers of its session, then those of its window. *)
LEMMA ViewClosedStep ==
    ASSUME IInv, wrong = Nil, NEW p \in Numbers, ViewClosed(p)
    PROVE  IInv'
<1> DEFINE closed == [World EXCEPT !.pages[p].view = "closed"]
           told == on_webview_close(closed, p)
           plain == webViewClose(told, p)
           pane == browserPaneWebViewClose(told, p)
           tab == browserTabWebViewClose(told, p)
           world == CASE pages[p].kind = "plain" -> plain
                      [] pages[p].kind = "pane" -> pane
                      [] OTHER -> tab
<1>1. /\ pages[p].view = "closing"
      /\ mem' = world.mem /\ pages' = world.pages /\ owners' = world.owners
      /\ window' = world.window /\ hosts' = world.hosts /\ wrong' = world.wrong
      /\ UNCHANGED <<env, conn, sess_list, starts, flights, strays>>
  BY DEF ViewClosed
<1>2. Informed(told, p)
  BY <1>1, ToldWorld
<1>3. pages[p].kind \in {"plain", "pane", "tab"}
  BY <1>1, ClosingPage
<1> HIDE DEF told
<1>4. pages[p].kind = "plain" => Fine(plain)
  BY <1>1, <1>2, PlainFine
<1>5. pages[p].kind = "pane" => Fine(pane)
  BY <1>1, <1>2, PaneFine
<1>6. pages[p].kind = "tab" => Fine(tab)
  BY <1>1, <1>2, TabFine
<1> HIDE DEF plain, pane, tab
<1>7. Fine(world)
  BY <1>3, <1>4, <1>5, <1>6
<1> HIDE DEF world
<1>8. QED
  BY <1>1, <1>7, FineStep

(* The user closes the frame of the tabbed window, whatever is in it. *)
LEMMA FrameStep ==
    ASSUME IInv, wrong = Nil, BrowserTabbedWindowProc
    PROVE  IInv'
<1> DEFINE world == DestroyTabbedWindow(World)
<1>1. /\ "frames" \in env /\ window.state = "open"
      /\ mem' = world.mem /\ pages' = world.pages /\ hosts' = world.hosts
      /\ window' = world.window /\ wrong' = world.wrong
      /\ UNCHANGED <<env, conn, sess_list, starts, owners, flights, strays>>
  BY DEF BrowserTabbedWindowProc
<1>2. /\ World \in Worlds /\ World.mem = mem /\ World.pages = pages /\ World.owners = owners
      /\ World.window = window /\ World.hosts = hosts /\ World.wrong = Nil
  BY WorldTypes DEF IInv
<1>3. Left(World, {})
  BY <1>2 DEF Left
<1>4. Fine(world)
  BY <1>1, <1>3, LastFine
<1>5. world.owners = World.owners
  <2>1. CASE Live(window.sess)
    <3>1. window.sess \in Addresses
      BY <1>1 DEF IInv, Sound, HostsInWindow
    <3>2. Gone(world, World, {h \in Hosts : hosts[h].open})
      BY <1>2, <2>1, <3>1, WindowWorld DEF IInv
    <3>3. QED
      BY <3>2 DEF Gone
  <2>2. CASE ~Live(window.sess)
    <3>1. world = Fails(World, "close")
      BY <2>2 DEF DestroyTabbedWindow, on_destroy_container
    <3>2. QED
      BY <1>2, <3>1, FailsWorld
  <2>3. QED
    BY <2>1, <2>2
<1> HIDE DEF world
<1>6. owners' = world.owners
  BY <1>1, <1>2, <1>5
<1>7. QED
  BY <1>1, <1>4, <1>6, FineStep

-----------------------------------------------------------------------------
(***************************************************************************)
(* The theorems.                                                           *)
(***************************************************************************)
LEMMA NextIInv == IInv /\ [Next]_vars => IInv'
<1> SUFFICES ASSUME IInv, [Next]_vars
             PROVE  IInv'
  OBVIOUS
<1>1. CASE UNCHANGED vars
  <2>1. /\ env' = env /\ conn' = conn /\ mem' = mem /\ sess_list' = sess_list
        /\ starts' = starts /\ owners' = owners /\ pages' = pages /\ window' = window
        /\ hosts' = hosts /\ flights' = flights /\ strays' = strays /\ wrong' = wrong
    BY <1>1 DEF vars
  <2>2. TypeOK' /\ ListSound'
    BY <2>1 DEF IInv, TypeOK, ListSound, Live
  <2>3. Sound' <=> Sound
    BY <2>1 DEF Sound, Connected, HandlesOwn, PagesMade, PageMade, HostsInWindow, WindowCounts,
                Alone, Outlived, Remembered, There, Tabbed, Open, Live
  <2>4. QED
    BY <2>1, <2>2, <2>3 DEF IInv
<1>2. CASE Next
  <2>1. wrong = Nil
    BY <1>2 DEF Next
  <2>2. ASSUME NEW n \in Names, StartSession(n) \/ EndSession(n)
        PROVE  IInv'
    BY <2>1, <2>2, StartStep, EndStep
  <2>3. ASSUME NEW n \in Names, NEW name \in PageNames, NEW r \in Ids,
               mg_create_plainwin(n, name, r)
        PROVE  IInv'
    BY <2>1, <2>3, PlainStep
  <2>4. ASSUME NEW n \in Names, NEW name \in PageNames, NEW r \in Ids, NEW h \in Hosts,
               OpenTabbedWindow(n, name, h, r) \/ mg_create_widget(n, name, h, r)
        PROVE  IInv'
    BY <2>1, <2>4, OpenWindowStep, WidgetStep
  <2>5. ASSUME NEW n \in Names, NEW h \in Hosts, CreateInClosed(n, h)
        PROVE  IInv'
    BY <2>1, <2>5, CreateInClosedStep
  <2>6. ASSUME NEW n \in Names, NEW p \in Numbers,
               mg_destroy_plainwin(n, p) \/ mg_destroy_widget(n, p)
        PROVE  IInv'
    BY <2>1, <2>6, DestroyStep DEF mg_destroy_plainwin, mg_destroy_widget
  <2>7. ASSUME NEW n \in Names, NEW p \in Numbers, NEW r \in Ids, AskPage(n, p, r)
        PROVE  IInv'
    BY <2>1, <2>7, AskStep
  <2>8. ASSUME NEW f \in flights, user_message_received_callback(f) \/ request_ready_callback(f)
        PROVE  IInv'
    BY <2>1, <2>8, ReplyStep
  <2>9. ASSUME NEW p \in Numbers, PostEvent(p) \/ ViewClosed(p) \/ UserCloses(p)
        PROVE  IInv'
    BY <2>1, <2>9, PostEventStep, ViewClosedStep, UserClosesStep
  <2>10. ASSUME BrowserTabbedWindowProc
         PROVE  IInv'
    BY <2>1, <2>10, FrameStep
  <2>11. QED
    BY <1>2, <2>2, <2>3, <2>4, <2>5, <2>6, <2>7, <2>8, <2>9, <2>10
       DEF Next, mg_load_or_write, mg_update_dom, mg_get_property_in_dom,
           mg_set_property_in_dom, mg_call_method_in_dom
<1>3. QED
  BY <1>1, <1>2

\* Whoever connects, creates, closes and goes, in any order and environment: the
\* lists, handles, windows, names and messages in flight refer to each other as
\* the invariant says.
THEOREM Invariance == Spec => []IInv
<1>1. IInv /\ [Next]_vars => IInv'
  BY NextIInv
<1>2. QED
  BY InitIInv, <1>1, PTL DEF Spec

\* For any number of sessions, addresses, names, containers, identifiers and
\* pages: handle_response_from_webpage and the handlers of page-ready never read a
\* session that was freed, although its address may be another's by then; and
\* where clients close their windows before they go, nothing is read that was
\* freed, and no late reply answers another session's request.
THEOREM RepliesAreSafe == Spec => []RepliesSafe
<1>1. IInv => RepliesSafe
  BY DEF IInv, Sound, Outlived, RepliesSafe
<1>2. QED
  BY Invariance, <1>1, PTL

\* What validate_handle lets a request use is there: the tabbed window, its
\* containers, and unless pages share a container, the windows of the pages.
THEOREM HandlesAreOpen == Spec => []HandlesOpen
<1>1. IInv => HandlesOpen
  <2> SUFFICES ASSUME IInv, wrong = Nil, NEW a \in Addresses, Live(a)
               PROVE  /\ mem[a].window => window.state = "open"
                      /\ \A h \in mem[a].hosts : hosts[h].open
                      /\ env \cap {"siblings", "frames"} = {} =>
                            \A p \in mem[a].pages : pages[p].hwnd
    BY DEF HandlesOpen
  <2>1. Sound /\ mem[a] \in SessionRec
    BY DEF IInv, TypeOK
  <2>2. mem[a].window => window.state = "open"
    BY <2>1 DEF Sound, HandlesOwn
  <2>3. \A h \in mem[a].hosts : hosts[h].open
    BY <2>1 DEF Sound, HandlesOwn
  <2>4. ASSUME env \cap {"siblings", "frames"} = {}, NEW p \in mem[a].pages
        PROVE  pages[p].hwnd
    <3>1. p \in Numbers /\ Open(p)
      BY <2>1, <2>4 DEF Sound, HandlesOwn, SessionRec
    <3>2. QED
      BY <2>1, <2>4, <3>1 DEF Sound, Alone
  <2>5. QED
    BY <2>2, <2>3, <2>4
<1>2. QED
  BY Invariance, <1>1, PTL

\* nrViews is the number of the pages that are in the tabbed window, which goes
\* with the last of them; and page_owners has the names of the open pages, so
\* that the name of a page that closed can be used again.
THEOREM PagesAreSound == Spec => []PagesSound
<1>1. IInv => PagesSound
  <2> SUFFICES ASSUME IInv
               PROVE  PagesSound
    OBVIOUS
  <2>1. wrong = Nil => Sound
    BY DEF IInv
  <2>2. WindowOfItsPages
    BY <2>1 DEF Sound, WindowCounts, There, WindowOfItsPages
  <2>3. NamesOfOpenPages
    BY <2>1 DEF Sound, Outlived, NamesOfOpenPages
  <2>4. QED
    BY <2>2, <2>3 DEF PagesSound
<1>2. QED
  BY Invariance, <1>1, PTL

=============================================================================
