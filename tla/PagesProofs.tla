----------------------------- MODULE PagesProofs -----------------------------
(***************************************************************************)
(* Proofs about Pages.                                                     *)
(***************************************************************************)
EXTENDS Pages, TLAPS, SequenceTheorems, FiniteSetTheorems, WellFoundedInduction

-----------------------------------------------------------------------------
(***************************************************************************)
(* Types                                                                   *)
(***************************************************************************)
AllNames == Names \cup Groups \cup Reserved \cup {Nil, "e", "_other"}
Sent == [leaves : BOOLEAN, id : Ids \cup {NoReturn}]
PageRec ==
    [kind : {Nil, "plainwin", "widget"}, name : AllNames, group : Groups \cup {Nil},
     closed : BOOLEAN, stack : Seq(Nat)]
WebRec ==
    [info : {Nil, "deaf", "hears", "freed"}, irId : Ids \cup {Nil, NoReturn},
     loading : BOOLEAN, old : BOOLEAN, queue : Seq(Sent)]

TypeOK ==
    /\ env \in Environments /\ cbs \in Callbacks /\ layouter \in BOOLEAN
    /\ pages \in [Numbers -> PageRec]
    /\ web \in [Numbers -> WebRec]
    /\ pending \in [Ids -> Pendings \cup {Nil}]
    /\ told \in [Numbers -> SUBSET Nat]
    /\ visible \in [Numbers -> Nat]

(***************************************************************************)
(* The inductive invariant                                                 *)
(***************************************************************************)
\* A coroutine is in the stack of a page once.
Once(stack) == \A i, j \in 1..Len(stack) : stack[i] = stack[j] => i = j

\* Nobody waits for, or owns, a page that was not made.
PagesMade ==
    /\ \A p \in Numbers : pages[p].kind = Nil => visible[p] = 0 /\ pages[p].stack = <<>>
    /\ \A r \in Waiting : pages[pending[r].page].kind # Nil

\* Unless pages are told to load a document, they have one for good once the
\* client knows them, and nobody asks them before.
PagesHear ==
    "urls" \notin env =>
        \A p \in Numbers :
            /\ web[p].info # "freed" /\ ~web[p].old
            /\ web[p].info # "hears" => web[p].queue = <<>>
            /\ web[p].info = "hears" => ~web[p].loading
            /\ \A i \in 1..Len(web[p].queue) : ~web[p].queue[i].leaves

\* A client that sends one request at a time knows the owner of a page, or the
\* answer that it waits for names it; no answer names another.
OwnerNamed ==
    "pipelines" \notin env /\ "urls" \notin env =>
        \A p \in Numbers : Open(p) =>
            /\ \A r \in Waiting :
                  pending[r].page = p => pending[r].owner \in {Nil, Top(pages[p].stack)}
            /\ \/ visible[p] = Top(pages[p].stack)
               \/ \E r \in Waiting :
                     pending[r].page = p /\ pending[r].owner = Top(pages[p].stack)

IInv ==
    /\ TypeOK
    /\ \A p \in Numbers : Once(pages[p].stack)
    /\ PagesMade /\ PagesHear /\ OwnerNamed /\ OwnersTold /\ WaitsForPage /\ NoCrash


-----------------------------------------------------------------------------
LEMMA Constants ==
    /\ MaxPages \in Nat /\ Numbers \subseteq Nat \ {0}
    /\ Nil \notin Ids /\ NoReturn \notin Ids /\ Nil \notin Nat /\ Nil \notin Pendings
    /\ Nil \notin {"plainwin", "widget", "deaf", "hears", "freed"}
    /\ Unknown \in Coroutines /\ Coroutines \subseteq Nat \ 0..2 * MaxPages
    /\ \A cb \in Callbacks : Untested \subseteq cb /\ cb \cap Absent = {}
BY PagesAssumption DEF Numbers, Unknown

LEMMA InitIInv == Init => IInv
<1> SUFFICES ASSUME Init
             PROVE  IInv
  OBVIOUS
<1>1. NoPage \in PageRec /\ NoWeb \in WebRec
  BY EmptySeq DEF NoPage, NoWeb, PageRec, WebRec, AllNames
<1>2. TypeOK
  BY <1>1, Constants DEF Init, TypeOK
<1>3. /\ Waiting = {}
      /\ \A p \in Numbers : /\ pages[p] = NoPage /\ pages[p].stack = <<>> /\ ~Open(p)
                            /\ visible[p] = 0 /\ web[p] = NoWeb /\ web[p].queue = <<>>
                            /\ web[p].info = Nil /\ ~web[p].old
      /\ crash = Nil /\ Len(<<>>) = 0
  BY DEF Init, Waiting, NoPage, NoWeb, Open
<1>4. (\A p \in Numbers : Once(pages[p].stack)) /\ PagesMade /\ PagesHear
  <2>1. \A p \in Numbers : Once(pages[p].stack)
    BY <1>3 DEF Once
  <2>2. \A p \in Numbers : \A i \in 1..Len(web[p].queue) : FALSE
    BY <1>3
  <2>3. PagesMade
    BY <1>3 DEF PagesMade
  <2>4. PagesHear
    BY <1>3, <2>2, Constants DEF PagesHear
  <2>5. QED
    BY <2>1, <2>3, <2>4
<1>5. OwnerNamed /\ OwnersTold /\ WaitsForPage /\ NoCrash
  BY <1>3 DEF OwnerNamed, OwnersTold, WaitsForPage, NoCrash
<1>6. QED
  BY <1>2, <1>4, <1>5 DEF IInv

-----------------------------------------------------------------------------
(***************************************************************************)
(* The stack of the owners of a page.                                      *)
(***************************************************************************)
\* Stack t is s without its element i.
Without(t, s, i) ==
    /\ t \in Seq(Nat) /\ Len(t) = Len(s) - 1
    /\ \A k \in 1..Len(t) : t[k] = IF k < i THEN s[k] ELSE s[k + 1]

LEMMA RemovedAt ==
    ASSUME NEW s \in Seq(Nat), NEW i \in 1..Len(s)
    PROVE  Without(RemoveAt(s, i), s, i)
<1> DEFINE u == SubSeq(s, 1, i - 1)
           v == SubSeq(s, i + 1, Len(s))
<1>1. Len(s) \in Nat /\ i \in Nat \ {0} /\ i <= Len(s)
  OBVIOUS
<1>2. RemoveAt(s, i) = u \o v
  BY DEF RemoveAt
<1>3. u \in Seq(Nat) /\ Len(u) = i - 1 /\ \A k \in 1..(i - 1) : u[k] = s[k]
  BY <1>1
<1>4. v \in Seq(Nat) /\ Len(v) = Len(s) - i
      /\ \A k \in 1..(Len(s) - i) : v[k] = s[i + k]
  BY <1>1
<1> HIDE DEF u, v
<1>5. /\ u \o v \in Seq(Nat) /\ Len(u \o v) = Len(u) + Len(v)
      /\ \A k \in 1..Len(u) + Len(v) :
            (u \o v)[k] = IF k <= Len(u) THEN u[k] ELSE v[k - Len(u)]
  <2>1. u \in Seq(Nat) /\ v \in Seq(Nat)
    BY <1>3, <1>4
  <2>2. QED
    BY <2>1, ConcatProperties, Zenon
<1> DEFINE t == u \o v
<1> HIDE DEF t
<1>6. t \in Seq(Nat) /\ Len(t) = Len(s) - 1
  BY <1>1, <1>3, <1>4, <1>5 DEF t
<1>7. ASSUME NEW k \in 1..Len(t)
      PROVE  t[k] = IF k < i THEN s[k] ELSE s[k + 1]
  <2>1. CASE k < i
    <3>1. k \in 1..(i - 1) /\ t[k] = u[k]
      BY <1>1, <1>3, <1>4, <1>5, <1>6, <1>7, <2>1 DEF t
    <3>2. QED
      BY <1>3, <2>1, <3>1
  <2>2. CASE ~(k < i)
    <3> DEFINE l == k - (i - 1)
    <3>1. l \in 1..(Len(s) - i) /\ t[k] = v[l] /\ i + l = k + 1
      BY <1>1, <1>3, <1>4, <1>5, <1>6, <1>7, <2>2 DEF t
    <3> HIDE DEF l
    <3>2. v[l] = s[i + l]
      BY <1>4, <3>1
    <3>3. QED
      BY <2>2, <3>1, <3>2
  <2>3. QED
    BY <2>1, <2>2
<1>8. QED
  BY <1>2, <1>6, <1>7 DEF Without, t

\* A coroutine that is removed is in the stack no more, and the order of the
\* others stays.
Revoked(t, s, c) ==
    /\ t \in Seq(Nat) /\ Once(t)
    /\ \A k \in 1..Len(t) : t[k] # c
    /\ \A k \in 1..Len(t) : \E j \in 1..Len(s) : t[k] = s[j] /\ (k < Len(t) => j < Len(s))
    /\ Top(s) # c => Top(t) = Top(s)

LEMMA StackRevoked ==
    ASSUME NEW s \in Seq(Nat), Once(s), NEW c \in Nat
    PROVE  Revoked(purc_page_ostack_revoke(s, c), s, c)
<1> DEFINE t == purc_page_ostack_revoke(s, c)
<1>0. Len(s) \in Nat /\ (s = <<>> <=> Len(s) = 0)
  BY EmptySeq
<1>1. CASE \E i \in 1..Len(s) : s[i] = c
  <2>1. PICK i \in 1..Len(s) : s[i] = c
    BY <1>1
  <2> DEFINE I == {j \in 1..Len(s) : s[j] = c}
  <2>2. I = {i}
    BY <2>1 DEF Once
  <2>3. Min({i}) = i
    BY DEF Min
  <2> HIDE DEF I
  <2>4. t = RemoveAt(s, i)
    BY <1>1, <2>2, <2>3 DEF purc_page_ostack_revoke, RemoveFirst, SelectInSeq, I
  <2>5. Without(t, s, i)
    BY <2>4, RemovedAt
  <2> HIDE DEF t
  <2>6. /\ t \in Seq(Nat) /\ Len(t) = Len(s) - 1 /\ Len(s) \in Nat \ {0} /\ Len(t) \in Nat
        /\ \A k \in 1..Len(t) : t[k] = IF k < i THEN s[k] ELSE s[k + 1]
    BY <1>0, <2>5 DEF Without
  <2>7. ASSUME NEW k \in 1..Len(t)
        PROVE  /\ t[k] # c
               /\ \E j \in 1..Len(s) : t[k] = s[j] /\ (k < Len(t) => j < Len(s))
    <3>1. CASE k < i
      <4>1. k \in 1..Len(s) /\ k # i /\ t[k] = s[k] /\ (k < Len(t) => k < Len(s))
        BY <2>1, <2>6, <2>7, <3>1
      <4>2. QED
        BY <2>1, <4>1 DEF Once
    <3>2. CASE ~(k < i)
      <4>1. k + 1 \in 1..Len(s) /\ k + 1 # i /\ t[k] = s[k + 1] /\ (k < Len(t) => k + 1 < Len(s))
        BY <2>1, <2>6, <2>7, <3>2
      <4>2. QED
        BY <2>1, <4>1 DEF Once
    <3>3. QED
      BY <3>1, <3>2
  <2>8. Once(t)
    <3> SUFFICES ASSUME NEW k \in 1..Len(t), NEW l \in 1..Len(t), t[k] = t[l]
                 PROVE  k = l
      BY DEF Once
    <3> DEFINE kk == IF k < i THEN k ELSE k + 1
               ll == IF l < i THEN l ELSE l + 1
    <3>0. /\ k \in Nat /\ l \in Nat /\ i \in Nat /\ Len(s) \in Nat
          /\ 1 <= k /\ k <= Len(s) - 1 /\ 1 <= l /\ l <= Len(s) - 1
      BY <2>6
    <3>1. kk \in 1..Len(s) /\ ll \in 1..Len(s) /\ (kk = ll => k = l)
      BY <3>0
    <3>2. t[k] = s[kk] /\ t[l] = s[ll]
      BY <2>6
    <3> HIDE DEF kk, ll
    <3>3. QED
      BY <3>1, <3>2 DEF Once
  <2>9. ASSUME Top(s) # c
        PROVE  Top(t) = Top(s)
    <3>1. Top(s) = s[Len(s)] /\ i # Len(s)
      BY <1>0, <2>1, <2>6, <2>9 DEF Top
    <3>2. Len(t) \in 1..Len(t) /\ ~(Len(t) < i) /\ Len(t) + 1 = Len(s)
      BY <2>1, <2>6, <3>1
    <3>3. t[Len(t)] = s[Len(s)]
      BY <2>6, <3>2
    <3>4. t # <<>>
      BY <3>2, EmptySeq
    <3>5. QED
      BY <3>1, <3>3, <3>4 DEF Top
  <2>10. QED
    BY <2>6, <2>7, <2>8, <2>9 DEF Revoked, t
<1>2. CASE ~\E i \in 1..Len(s) : s[i] = c
  <2>1. t = s
    BY <1>2 DEF purc_page_ostack_revoke, RemoveFirst
  <2> HIDE DEF t
  <2>2. QED
    BY <1>2, <2>1 DEF Revoked, t
<1>3. QED
  BY <1>1, <1>2

\* A coroutine that registers is on top; the one that was is next to it at most.
Registered(t, s, c) ==
    /\ t \in Seq(Nat) /\ Once(t) /\ Top(t) = c
    /\ \A k \in 1..Len(t) - 1 :
          /\ t[k] # c
          /\ t[k] = Suppressed(s, c) \/ \E j \in 1..Len(s) - 1 : t[k] = s[j]

LEMMA StackRegistered ==
    ASSUME NEW s \in Seq(Nat), Once(s), NEW c \in Nat
    PROVE  Registered(purc_page_ostack_register(s, c), s, c)
<1> DEFINE t == purc_page_ostack_register(s, c)
<1>0. Len(s) \in Nat /\ (s = <<>> <=> Len(s) = 0)
  BY EmptySeq
<1>1. CASE Top(s) = c
  <2>1. t = s
    BY <1>1 DEF purc_page_ostack_register
  <2>2. ASSUME NEW k \in 1..Len(s) - 1
        PROVE  s[k] # c
    <3>1. s # <<>> /\ k \in 1..Len(s) /\ Len(s) \in 1..Len(s) /\ k # Len(s)
      BY <1>0, <2>2
    <3>2. QED
      BY <1>1, <3>1 DEF Top, Once
  <2> HIDE DEF t
  <2>3. QED
    BY <1>1, <2>1, <2>2 DEF Registered, t
<1>2. CASE Top(s) # c
  <2> DEFINE r == purc_page_ostack_revoke(s, c)
  <2>1. Revoked(r, s, c)
    BY StackRevoked
  <2>2. t = Append(r, c)
    BY <1>2 DEF purc_page_ostack_register, purc_page_ostack_revoke
  <2> HIDE DEF r
  <2>3. r \in Seq(Nat) /\ Len(r) \in Nat
    BY <2>1 DEF Revoked
  <2>4. /\ t \in Seq(Nat) /\ Len(t) = Len(r) + 1 /\ t[Len(t)] = c
        /\ \A k \in 1..Len(r) : t[k] = r[k]
    BY <2>2, <2>3
  <2> HIDE DEF t
  <2>5. t # <<>>
    BY <2>3, <2>4, EmptySeq
  <2>6. Once(t)
    <3>1. \A k \in 1..Len(t) : k = Len(t) \/ k \in 1..Len(r)
      BY <2>3, <2>4
    <3>2. \A k \in 1..Len(r) : t[k] = r[k] /\ r[k] # c
      BY <2>1, <2>4 DEF Revoked
    <3>3. \A k, l \in 1..Len(r) : r[k] = r[l] => k = l
      BY <2>1 DEF Revoked, Once
    <3>4. QED
      BY <2>4, <3>1, <3>2, <3>3 DEF Once
  <2>7. ASSUME NEW k \in 1..Len(t) - 1
        PROVE  /\ t[k] # c
               /\ t[k] = Suppressed(s, c) \/ \E j \in 1..Len(s) - 1 : t[k] = s[j]
    <3>1. k \in 1..Len(r) /\ t[k] = r[k]
      BY <2>3, <2>4, <2>7
    <3>2. r[k] # c /\ \E j \in 1..Len(s) : r[k] = s[j]
      BY <2>1, <3>1 DEF Revoked
    <3>3. PICK j \in 1..Len(s) : r[k] = s[j]
      BY <3>2
    <3>4. CASE j = Len(s)
      <4>1. Top(s) = s[j]
        BY <1>0, <3>4 DEF Top
      <4>2. QED
        BY <1>2, <3>1, <3>2, <3>3, <4>1 DEF Suppressed
    <3>5. CASE j # Len(s)
      <4>1. j \in 1..Len(s) - 1
        BY <1>0, <3>5
      <4>2. QED
        BY <3>1, <3>2, <3>3, <4>1
    <3>6. QED
      BY <3>4, <3>5
  <2>8. QED
    BY <2>4, <2>5, <2>6, <2>7 DEF Registered, Top, t
<1>3. QED
  BY <1>1, <1>2


-----------------------------------------------------------------------------
(***************************************************************************)
(* The messages of a client.                                               *)
(***************************************************************************)
Elements == [name : AllNames, group : Groups \cup {Nil}, number : Nat \cup {Nil}]
Operations ==
    {"setPageGroups", "addPageGroups", "removePageGroup", "createWorkspace", "updateWorkspace",
     "destroyWorkspace", "createPlainWindow", "updatePlainWindow", "destroyPlainWindow",
     "createWidget", "updateWidget", "destroyWidget", "load", "loadFromURL", "writeBegin",
     "writeMore", "writeEnd", "register", "revoke", "append", "erase", "callMethod",
     "getProperty", "setProperty"}
Targets == {"session", "workspace", "plainwindow", "widget", "dom", "user"}
DataTypes == {"void", "plain", "html", "json"}
DataKinds == {"none", "empty", "text", "object", "blank", "method"}
Properties == {"none", "bad", "title"}
MessageRec ==
    [op : Operations, target : Targets, value : Nat, etype : {"void", "id", "handle"},
     element : Elements, dtype : DataTypes, data : DataKinds, property : Properties,
     id : Ids \cup {NoReturn}]

\* A message that is complete; one that a client sends.
Named(m) == m.value = 0 \/ \E p \in Created : m.value = Container(p) \/ m.value = View(p)
Proper(m) ==
    /\ m \in MessageRec
    /\ ByHandle(m) => NumberOf(m) \in Nat
    /\ Named(m)
    /\ m.op = "loadFromURL" => "urls" \in env
    /\ m.op = "updatePlainWindow" => m.data = "object"
    /\ m.op = "callMethod" => m.etype = "id" /\ m.data = "method"
Sane(m) ==
    /\ m \in MessageRec
    /\ ByHandle(m) => NumberOf(m) \in Nat
    /\ m.value = Unknown \/ Named(m)
    /\ m.op = "loadFromURL" => "urls" \in env
    /\ m.op = "updatePlainWindow" => m.data \in {"object", "none", "empty"} \/ "blank" \in env
    /\ m.op = "callMethod" => ~Blank(m) \/ "blank" \in env

LEMMA Words ==
    /\ {"setPageGroups", "addPageGroups", "removePageGroup", "createWorkspace",
        "updateWorkspace", "destroyWorkspace", "createPlainWindow", "updatePlainWindow",
        "destroyPlainWindow", "createWidget", "updateWidget", "destroyWidget"} \subseteq Operations
    /\ {"load", "loadFromURL", "writeBegin", "writeMore", "writeEnd", "register", "revoke",
        "append", "erase", "callMethod", "getProperty", "setProperty"} \subseteq Operations
    /\ {"session", "workspace", "plainwindow", "widget", "dom", "user"} \subseteq Targets
    /\ {"void", "plain", "html", "json"} \subseteq DataTypes
    /\ {"none", "empty", "text", "object", "blank", "method"} \subseteq DataKinds
    /\ {"none", "bad", "title"} \subseteq Properties
BY DEF Operations, Targets, DataTypes, DataKinds, Properties

LEMMA ElementTypes ==
    /\ NoElement \in Elements
    /\ \A e \in WindowNames \cup WidgetNames : e \in Elements
    /\ \A n \in Nat : ByNumber(n) \in Elements /\ ByNumber(n).number = n
    /\ \A g \in Groups : Element(g, Nil, Nil) \in Elements
    /\ Element("e", Nil, Nil) \in Elements /\ Element("_other", Nil, Nil) \in Elements
BY DEF NoElement, Element, Elements, WindowNames, WidgetNames, ByNumber, AllNames

LEMMA Handles ==
    /\ \A p \in Created : p \in Numbers /\ p \in Nat
    /\ \A h \in Windows : h \in Nat /\ \E p \in Created : h = Container(p)
    /\ \A h \in Views : h \in Nat /\ \E p \in Created : h = View(p)
    /\ \A c \in Coroutines : c \in Nat
    /\ Unknown \in Nat
BY Constants DEF Created, Windows, Views, Container, View, Numbers

LEMMA MessageProper ==
    ASSUME NEW op \in Operations, NEW target \in Targets, NEW value \in Nat,
           NEW etype \in {"void", "id", "handle"}, NEW element \in Elements,
           NEW dtype \in DataTypes, NEW data \in DataKinds, NEW property \in Properties,
           etype = "handle" => element.number \in Nat,
           value = 0 \/ \E p \in Created : value = Container(p) \/ value = View(p),
           op = "loadFromURL" => "urls" \in env,
           op = "updatePlainWindow" => data = "object",
           op = "callMethod" => etype = "id" /\ data = "method"
    PROVE  Proper(Message(op, target, value, etype, element, dtype, data, property))
<1> DEFINE m == Message(op, target, value, etype, element, dtype, data, property)
<1>1. /\ m \in MessageRec
      /\ m.op = op /\ m.target = target /\ m.value = value /\ m.etype = etype
      /\ m.element = element /\ m.data = data
  BY DEF Message, MessageRec
<1> HIDE DEF m
<1>2. Proper(m)
  BY <1>1 DEF Proper, Named, ByHandle, NumberOf
<1>3. QED
  BY <1>2 DEF m

LEMMA GroupsProper == \A m \in OnGroups : Proper(m)
<1> SUFFICES ASSUME NEW m \in OnGroups
             PROVE  Proper(m)
  OBVIOUS
<1>1. ASSUME NEW op \in {"setPageGroups", "addPageGroups"}
      PROVE  Proper(Message(op, "workspace", 0, "void", NoElement, "html", "text", "none"))
  BY ElementTypes, MessageProper, Words
<1>2. ASSUME NEW g \in Groups
      PROVE  Proper(Message("removePageGroup", "workspace", 0, "id", Element(g, Nil, Nil),
                            "void", "none", "none"))
  BY ElementTypes, MessageProper, Words
<1>3. ASSUME NEW op \in {"createWorkspace", "updateWorkspace", "destroyWorkspace"}
      PROVE  Proper(Message(op, "session", 0, "handle", ByNumber(Unknown), "json", "object",
                            "title"))
  <2>1. ByNumber(Unknown) \in Elements /\ ByNumber(Unknown).number \in Nat
    BY ElementTypes, Handles
  <2>2. QED
    BY <2>1, MessageProper, Words
<1>4. QED
  BY <1>1, <1>2, <1>3 DEF OnGroups

LEMMA WindowsProper == \A m \in OnWindows : Proper(m)
<1> SUFFICES ASSUME NEW m \in OnWindows
             PROVE  Proper(m)
  OBVIOUS
<1>1. ASSUME NEW e \in WindowNames \cup WidgetNames
      PROVE  /\ Proper(Message("createPlainWindow", "workspace", 0, "id", e, "void", "none", "none"))
             /\ Proper(Message("createWidget", "workspace", 0, "id", e, "void", "none", "none"))
             /\ Proper(Message("updatePlainWindow", "workspace", 0, "id", e, "json", "object", "none"))
  <2>1. e \in Elements
    BY ElementTypes
  <2>2. QED
    BY <2>1, MessageProper, Words
<1>2. ASSUME NEW op \in {"updatePlainWindow", "updateWidget", "destroyPlainWindow",
                         "destroyWidget"}, NEW h \in Windows
      PROVE  Proper(Message(op, "workspace", 0, "handle", ByNumber(h), "json", "object", "title"))
  <2>1. ByNumber(h) \in Elements /\ ByNumber(h).number \in Nat
    BY ElementTypes, Handles
  <2>2. QED
    BY <2>1, MessageProper, Words
<1>3. QED
  BY <1>1, <1>2 DEF OnWindows

LEMMA ContentsProper == \A m \in OnContents : Proper(m)
<1> SUFFICES ASSUME NEW m \in OnContents
             PROVE  Proper(m)
  OBVIOUS
<1> DEFINE ops == {"load", "register", "revoke"} \cup WriteOperations
                  \cup (IF "urls" \in env THEN {"loadFromURL"} ELSE {})
<1>1. ASSUME NEW op \in ops, NEW h \in Windows, NEW c \in Coroutines
      PROVE  Proper(Message(op, "plainwindow", h, "handle", ByNumber(c), "plain", "text", "none"))
  <2>1. /\ h \in Nat /\ \E p \in Created : h = Container(p)
        /\ ByNumber(c) \in Elements /\ ByNumber(c).number \in Nat
    BY ElementTypes, Handles
  <2>2. /\ op \in Operations /\ (op = "loadFromURL" => "urls" \in env)
        /\ op # "updatePlainWindow" /\ op # "callMethod"
    BY Words DEF WriteOperations
  <2>3. QED
    BY <2>1, <2>2, MessageProper, Words
<1>2. ASSUME NEW op \in {"append", "erase", "getProperty", "setProperty"}, NEW h \in Views
      PROVE  Proper(Message(op, "dom", h, "id", Element("e", Nil, Nil), "plain", "text", "title"))
  <2>1. h \in Nat /\ (\E p \in Created : h = View(p)) /\ Element("e", Nil, Nil) \in Elements
    BY ElementTypes, Handles
  <2>2. QED
    BY <2>1, MessageProper, Words
<1>3. ASSUME NEW t \in {"dom", "workspace"}, NEW h \in Views
      PROVE  Proper(Message("callMethod", t, h, "id", Element("e", Nil, Nil), "json", "method",
                            "none"))
  <2>1. h \in Nat /\ (\E p \in Created : h = View(p)) /\ Element("e", Nil, Nil) \in Elements
    BY ElementTypes, Handles
  <2>2. QED
    BY <2>1, MessageProper, Words
<1> HIDE DEF ops
<1>4. OnContents =
        {Message(op, "plainwindow", h, "handle", ByNumber(c), "plain", "text", "none")
           : op \in ops, h \in Windows, c \in Coroutines}
        \cup {Message(op, "dom", h, "id", Element("e", Nil, Nil), "plain", "text", "title")
                : op \in {"append", "erase", "getProperty", "setProperty"}, h \in Views}
        \cup {Message("callMethod", t, h, "id", Element("e", Nil, Nil), "json", "method", "none")
                : t \in {"dom", "workspace"}, h \in Views}
  BY DEF OnContents, ops
<1>5. QED
  BY <1>1, <1>2, <1>3, <1>4

\* A change of one field.
Altered(x, m) ==
    /\ x \in MessageRec /\ x.op = m.op
    /\ x.value = m.value \/ x.value \in {0, Unknown}
    /\ (x.etype = m.etype /\ x.element = m.element) \/ (ByHandle(x) => NumberOf(x) \in Nat)
    /\ x.data \in {m.data, "object", "none", "empty"}

LEMMA ChangedAltered ==
    ASSUME NEW m \in MessageRec, NEW x \in Changed(m)
    PROVE  Altered(x, m)
<1>1. ASSUME NEW t \in {"session", "workspace", "widget", "dom", "user"},
             x = [m EXCEPT !.target = t]
      PROVE  Altered(x, m)
  <2>1. t \in Targets
    BY Words
  <2>2. QED
    BY <1>1, <2>1 DEF Altered, MessageRec
<1>2. ASSUME NEW n \in {0, Unknown}, x = [m EXCEPT !.value = n]
      PROVE  Altered(x, m)
  <2>1. n \in Nat
    BY Handles
  <2>2. QED
    BY <1>2, <2>1 DEF Altered, MessageRec
<1>3. ASSUME NEW k \in {"void", "id"}, NEW e \in Elements,
             x = [m EXCEPT !.etype = k, !.element = e]
      PROVE  Altered(x, m)
  BY <1>3 DEF Altered, MessageRec, ByHandle
<1>4. ASSUME NEW n \in {0, Unknown}, x = [m EXCEPT !.etype = "handle", !.element = ByNumber(n)]
      PROVE  Altered(x, m)
  <2>1. ByNumber(n) \in Elements /\ ByNumber(n).number \in Nat
    BY ElementTypes, Handles
  <2>2. QED
    BY <1>4, <2>1 DEF Altered, MessageRec, NumberOf
<1>5. ASSUME NEW k \in DataTypes, NEW d \in {"none", "object", "empty"},
             x = [m EXCEPT !.dtype = k, !.data = d]
      PROVE  Altered(x, m)
  <2>1. d \in DataKinds
    BY Words
  <2>2. QED
    BY <1>5, <2>1 DEF Altered, MessageRec
<1>6. ASSUME NEW y \in {"none", "bad"}, x = [m EXCEPT !.property = y]
      PROVE  Altered(x, m)
  <2>1. y \in Properties
    BY Words
  <2>2. QED
    BY <1>6, <2>1 DEF Altered, MessageRec
<1>7. /\ NoElement \in Elements /\ Element("_other", Nil, Nil) \in Elements
      /\ {"void", "json", "plain"} \subseteq DataTypes
  BY ElementTypes, Words
<1>8. QED
  BY <1>1, <1>2, <1>3, <1>4, <1>5, <1>6, <1>7 DEF Changed

LEMMA ChangedSane ==
    ASSUME NEW m, Proper(m), NEW x \in Changed(m)
    PROVE  /\ x \in MessageRec /\ x.op = m.op
           /\ ByHandle(x) => NumberOf(x) \in Nat
           /\ x.value = Unknown \/ Named(x)
           /\ x.data \in {m.data, "object", "none", "empty"}
<1>1. Altered(x, m)
  BY ChangedAltered DEF Proper
<1>2. QED
  BY <1>1 DEF Altered, Proper, Named, ByHandle, NumberOf

LEMMA MessageSane ==
    ASSUME NEW m \in Messages, NEW r \in Ids \cup {NoReturn}
    PROVE  Sane([m EXCEPT !.id = r]) /\ [m EXCEPT !.id = r].id = r
<1> DEFINE proper == OnGroups \cup OnWindows \cup OnContents
           blank == {[x EXCEPT !.dtype = "json", !.data = "blank", !.property = "none"]
                       : x \in {y \in OnWindows : y.op = "updatePlainWindow"}}
           changed == UNION {Changed(x) : x \in proper}
<1>1. \A x \in proper : Proper(x)
  BY GroupsProper, WindowsProper, ContentsProper
<1>2. \/ m \in proper
      \/ m \in blank /\ "blank" \in env
      \/ m \in changed /\ ("blank" \in env \/ m.op # "callMethod" \/ ~Blank(m))
  BY DEF Messages
<1>3. CASE m \in proper
  <2>1. Proper(m)
    BY <1>1, <1>3
  <2>2. Sane(m)
    BY <2>1 DEF Proper, Sane, Blank
  <2>3. QED
    BY <2>2 DEF Sane, MessageRec, ByHandle, NumberOf, Named, Blank
<1>4. CASE m \in blank /\ "blank" \in env
  <2>1. PICK x \in OnWindows : /\ x.op = "updatePlainWindow"
                               /\ m = [x EXCEPT !.dtype = "json", !.data = "blank", !.property = "none"]
    BY <1>4
  <2>2. Proper(x)
    BY WindowsProper
  <2>3. x \in MessageRec /\ {"json"} \subseteq DataTypes /\ {"blank"} \subseteq DataKinds
        /\ {"none"} \subseteq Properties
    BY <2>2, Words DEF Proper
  <2>4. /\ m \in MessageRec /\ m.op = x.op /\ m.value = x.value
        /\ m.etype = x.etype /\ m.element = x.element
    BY <2>1, <2>3 DEF MessageRec
  <2>5. Sane(m)
    BY <1>4, <2>1, <2>2, <2>4 DEF Proper, Sane, ByHandle, NumberOf, Named
  <2>6. QED
    BY <2>5 DEF Sane, MessageRec, ByHandle, NumberOf, Named, Blank
<1>5. CASE m \in changed /\ ("blank" \in env \/ m.op # "callMethod" \/ ~Blank(m))
  <2>1. PICK x \in proper : m \in Changed(x)
    BY <1>5
  <2>2. Proper(x)
    BY <1>1
  <2>3. /\ m \in MessageRec /\ m.op = x.op
        /\ ByHandle(m) => NumberOf(m) \in Nat
        /\ m.value = Unknown \/ Named(m)
        /\ m.data \in {x.data, "object", "none", "empty"}
    BY <2>1, <2>2, ChangedSane
  <2>4. Sane(m)
    BY <1>5, <2>2, <2>3 DEF Proper, Sane
  <2>5. QED
    BY <2>4 DEF Sane, MessageRec, ByHandle, NumberOf, Named, Blank
<1>6. QED
  BY <1>2, <1>3, <1>4, <1>5


-----------------------------------------------------------------------------
(***************************************************************************)
(* What the request handlers let through.                                  *)
(***************************************************************************)
OnContentCalls ==
    {"load", "load_from_url", "write", "register_crtn", "revoke_crtn", "update_dom",
     "call_method_in_dom", "get_property_in_dom", "set_property_in_dom"}
OtherCalls ==
    {"set_page_groups", "add_page_groups", "remove_page_group", "create_plainwin",
     "update_plainwin", "destroy_plainwin", "create_widget", "update_widget", "destroy_widget",
     "call_method_in_session"}
LoadCalls == {"load", "load_from_url", "write"}

\* A call is of a callback that is there, with the arguments it reads.
LetThrough(m, out) ==
    /\ out.call \in cbs /\ out.call \in OnContentCalls \cup OtherCalls
    /\ ~Reads(m, out.call)
    /\ out.call \in OnContentCalls => out.page = m.value
    /\ out.call \in LoadCalls =>
          /\ m.op \in {"load", "loadFromURL", "writeBegin", "writeMore", "writeEnd"}
          /\ m.op \in {"load", "loadFromURL", "writeBegin"} => ByHandle(m)
    /\ out.call \in {"register_crtn", "revoke_crtn"} => ByHandle(m) /\ NumberOf(m) # 0
    /\ out.call = "update_plainwin" =>
          /\ m.op = "updatePlainWindow"
          /\ m.property = "none" => m.data \in {"object", "blank", "method"}
    /\ out.call = "call_method_in_session" => m.op = "callMethod"

LEMMA RequestLetThrough ==
    ASSUME cbs \in Callbacks, NEW m, Sane(m), NEW found,
           find_request_handler(cbs, m, found).call # Nil
    PROVE  LetThrough(m, find_request_handler(cbs, m, found))
<1> DEFINE out == find_request_handler(cbs, m, found)
<1>1. Untested \subseteq cbs /\ cbs \cap Absent = {}
  BY Constants
<1>2. CASE m.op \in {"createWorkspace", "updateWorkspace", "destroyWorkspace"}
  <2>1. \/ m.op = "createWorkspace" /\ out = on_create_workspace(cbs, m)
        \/ m.op = "updateWorkspace" /\ out = on_update_workspace(cbs, m)
        \/ m.op = "destroyWorkspace" /\ out = on_destroy_workspace(cbs, m)
    BY <1>2 DEF find_request_handler, WriteOperations, DomOperations
  <2> HIDE DEF out
  <2>2. "create_workspace" \notin cbs
    BY <1>1 DEF Absent
  <2>3. QED
    BY <2>1, <2>2 DEF on_create_workspace, on_update_workspace, on_destroy_workspace, Given,
                      Refuses, Responds, out
<1>3. CASE m.op \in {"setPageGroups", "addPageGroups", "removePageGroup"}
  <2>1. \/ m.op = "setPageGroups" /\ out = on_set_page_groups(cbs, m)
        \/ m.op = "addPageGroups" /\ out = on_add_page_groups(cbs, m)
        \/ m.op = "removePageGroup" /\ out = on_remove_page_group(cbs, m)
    BY <1>3 DEF find_request_handler, WriteOperations, DomOperations
  <2> HIDE DEF out
  <2>2. out.call # Nil
    BY DEF out
  <2>3. QED
    BY <2>1, <2>2 DEF on_set_page_groups, on_add_page_groups, on_remove_page_group, Given,
                      Refuses, Responds, Calls, HasText, LetThrough, Reads, OnContentCalls,
                      OtherCalls, LoadCalls, out
<1>4. CASE m.op \in {"createPlainWindow", "updatePlainWindow", "destroyPlainWindow"}
  <2>1. \/ m.op = "createPlainWindow" /\ out = on_create_plain_window(cbs, m, found)
        \/ m.op = "updatePlainWindow" /\ out = on_update_plain_window(cbs, m, found)
        \/ m.op = "destroyPlainWindow" /\ out = on_destroy_plain_window(cbs, m)
    BY <1>4 DEF find_request_handler, WriteOperations, DomOperations
  <2> HIDE DEF out
  <2>2. out.call # Nil
    BY DEF out
  <2>3. QED
    BY <1>1, <2>1, <2>2
       DEF on_create_plain_window, on_update_plain_window, on_destroy_plain_window, Given, Refuses,
           Responds, Calls, LetThrough, Reads, OnContentCalls, OtherCalls, LoadCalls, Untested, out
<1>5. CASE m.op \in {"createWidget", "updateWidget", "destroyWidget"}
  <2>1. \/ m.op = "createWidget" /\ out = on_create_widget(cbs, m, found)
        \/ m.op = "updateWidget" /\ out = on_update_widget(cbs, m)
        \/ m.op = "destroyWidget" /\ out = on_destroy_widget(cbs, m)
    BY <1>5 DEF find_request_handler, WriteOperations, DomOperations
  <2> HIDE DEF out
  <2>2. out.call # Nil
    BY DEF out
  <2>3. QED
    BY <1>1, <2>1, <2>2
       DEF on_create_widget, on_update_widget, on_destroy_widget, Given, Refuses,
           Responds, Calls, LetThrough, Reads, OnContentCalls, OtherCalls, LoadCalls, out
<1>6. CASE m.op \in {"load", "loadFromURL", "writeBegin", "writeMore", "writeEnd"}
  <2>1. \/ m.op = "load" /\ out = on_load(cbs, m)
        \/ m.op = "loadFromURL" /\ out = on_load_from_url(cbs, m)
        \/ m.op \in WriteOperations /\ out = write_xxx(cbs, m)
    BY <1>6 DEF find_request_handler, WriteOperations, DomOperations
  <2> HIDE DEF out
  <2>2. out.call # Nil
    BY DEF out
  <2>3. CASE out = on_load(cbs, m) /\ m.op = "load"
    BY <1>1, <2>2, <2>3
       DEF on_load, Given, Refuses, HasText, PageTarget,
           Responds, Calls, LetThrough, Reads, OnContentCalls, OtherCalls, LoadCalls, Untested, out
  <2>4. CASE out = on_load_from_url(cbs, m) /\ m.op = "loadFromURL"
    BY <1>1, <2>2, <2>4
       DEF on_load_from_url, Given, Refuses, HasText, PageTarget,
           Responds, Calls, LetThrough, Reads, OnContentCalls, OtherCalls, LoadCalls, Untested, out
  <2>5. CASE out = write_xxx(cbs, m) /\ m.op \in {"writeBegin", "writeMore", "writeEnd"}
    BY <1>1, <2>2, <2>5
       DEF write_xxx, Given, Refuses, HasText, PageTarget,
           Responds, Calls, LetThrough, Reads, OnContentCalls, OtherCalls, LoadCalls, Untested, out
  <2>6. QED
    BY <2>1, <2>3, <2>4, <2>5 DEF WriteOperations
<1>7. CASE m.op \in {"register", "revoke"}
  <2>1. \/ m.op = "register" /\ out = on_register(cbs, m)
        \/ m.op = "revoke" /\ out = on_revoke(cbs, m)
    BY <1>7 DEF find_request_handler, WriteOperations, DomOperations
  <2> HIDE DEF out
  <2>2. out.call # Nil
    BY DEF out
  <2>3. QED
    BY <1>1, <2>1, <2>2
       DEF on_register, on_revoke, Given, Refuses, PageTarget, PageElement,
           Responds, Calls, LetThrough, Reads, OnContentCalls, OtherCalls, LoadCalls, Untested, out
<1>8. CASE m.op \in DomOperations
  <2>1. out = update_dom(cbs, m)
    BY <1>8 DEF find_request_handler, WriteOperations, DomOperations
  <2> HIDE DEF out
  <2>2. out.call # Nil
    BY DEF out
  <2>3. QED
    BY <1>1, <2>1, <2>2
       DEF update_dom, Given, Refuses, Responds, Calls, LetThrough, Reads, OnContentCalls,
           OtherCalls, LoadCalls, Untested, out
<1>9. CASE m.op \in {"callMethod", "getProperty", "setProperty"}
  <2>1. \/ m.op = "callMethod" /\ out = on_call_method(cbs, m)
        \/ m.op = "getProperty" /\ out = on_get_property(cbs, m)
        \/ m.op = "setProperty" /\ out = on_set_property(cbs, m)
    BY <1>9 DEF find_request_handler, WriteOperations, DomOperations
  <2> HIDE DEF out
  <2>2. out.call # Nil
    BY DEF out
  <2>3. "get_property_in_session" \notin cbs /\ "set_property_in_session" \notin cbs
    BY <1>1 DEF Absent
  <2>4. QED
    BY <2>1, <2>2, <2>3
       DEF on_call_method, on_get_property, on_set_property, InDomOrSession, Given, Refuses,
           Responds, Calls, LetThrough, Reads, OnContentCalls, OtherCalls, LoadCalls, out
<1>10. QED
  <2>1. m.op \in Operations
    BY DEF Sane, MessageRec
  <2>2. QED
    BY <1>2, <1>3, <1>4, <1>5, <1>6, <1>7, <1>8, <1>9, <2>1 DEF Operations, DomOperations


-----------------------------------------------------------------------------
(***************************************************************************)
(* Handles, and requests that wait.                                        *)
(***************************************************************************)
LEMMA ValidHandle ==
    ASSUME NEW h
    PROVE  LET p == validate_handle(h)
           IN  p = 0 \/ (p \in Numbers /\ Open(p) /\ (h = Container(p) \/ h = View(p)))
BY DEF validate_handle

\* The page that a client names is one it knows.
LEMMA NamedPage ==
    ASSUME NEW m, Sane(m), validate_handle(m.value) # 0
    PROVE  validate_handle(m.value) \in Created
<1> DEFINE p == validate_handle(m.value)
<1>1. p \in Numbers /\ (m.value = 2 * p - 1 \/ m.value = 2 * p)
  BY ValidHandle DEF Container, View
<1> HIDE DEF p
<1>2. p \in Nat /\ 1 <= p /\ p <= MaxPages /\ MaxPages \in Nat
  BY <1>1, Constants DEF Numbers
<1>3. m.value \in 1..2 * MaxPages
  BY <1>1, <1>2
<1>4. m.value # Unknown /\ m.value # 0
  BY <1>2, <1>3, Constants
<1>5. PICK q \in Created : m.value = Container(q) \/ m.value = View(q)
  BY <1>4 DEF Sane, Named
<1>6. q \in Nat /\ (m.value = 2 * q - 1 \/ m.value = 2 * q)
  BY <1>5, Handles DEF Container, View
<1>7. q = p
  BY <1>1, <1>2, <1>6
<1>8. QED
  BY <1>7 DEF p

LEMMA TopTypes ==
    ASSUME NEW s \in Seq(Nat)
    PROVE  Top(s) \in Nat /\ \A c \in Nat : Suppressed(s, c) \in Nat
<1>1. Len(s) \in Nat /\ (s # <<>> => Len(s) \in 1..Len(s))
  BY EmptySeq
<1>2. s # <<>> => s[Len(s)] \in Nat
  BY <1>1
<1>3. QED
  BY <1>2 DEF Top, Suppressed

\* What is known of a page and of who waits for it.
LEMMA Facts ==
    ASSUME TypeOK
    PROVE  /\ \A p \in Numbers :
                 /\ pages[p] \in PageRec /\ web[p] \in WebRec /\ pages[p].stack \in Seq(Nat)
                 /\ Len(pages[p].stack) \in Nat /\ Top(pages[p].stack) \in Nat
                 /\ web[p].queue \in Seq(Sent) /\ told[p] \subseteq Nat /\ visible[p] \in Nat
           /\ \A r \in Waiting : /\ r \in Ids /\ pending[r] \in Pendings
                                 /\ pending[r].page \in Numbers
                                 /\ pending[r].owner \in Nat \cup {Nil}
                                 /\ pending[r].plain \in Nat
<1>1. \A p \in Numbers : pages[p] \in PageRec /\ web[p] \in WebRec
  BY DEF TypeOK
<1>2. \A p \in Numbers : pages[p].stack \in Seq(Nat) /\ web[p].queue \in Seq(Sent)
  BY <1>1 DEF PageRec, WebRec
<1>3. \A p \in Numbers : Len(pages[p].stack) \in Nat /\ Top(pages[p].stack) \in Nat
  BY <1>2, TopTypes
<1>4. QED
  BY <1>1, <1>2, <1>3 DEF TypeOK, Waiting, Pendings

\* The request waits for page p, if it has an identifier; the others as before.
Pended(id, p, owner, s) ==
    /\ pending' \in [Ids -> Pendings \cup {Nil}]
    /\ \A r \in Ids : r # id => pending'[r] = pending[r]
    /\ id \in Ids => /\ pending[id] = Nil /\ pending'[id] # Nil /\ pending'[id].page = p
                     /\ pending'[id].owner = owner /\ pending'[id].plain = s

LEMMA PendPended ==
    ASSUME TypeOK, NEW m, m.id \in Ids \cup {NoReturn}, m.id \in Ids => pending[m.id] = Nil,
           NEW p \in Numbers, NEW owner \in Nat \cup {Nil}, NEW s \in Nat, Pend(m, p, owner, s)
    PROVE  Pended(m.id, p, owner, s)
<1> DEFINE x == [page |-> p, owner |-> owner, plain |-> s]
<1>1. x \in Pendings /\ x # Nil /\ x.page = p /\ x.owner = owner /\ x.plain = s
  BY Constants DEF Pendings
<1>2. pending' = IF m.id = NoReturn THEN pending ELSE [pending EXCEPT ![m.id] = x]
  BY DEF Pend
<1> HIDE DEF x
<1>3. QED
  BY <1>1, <1>2, Constants DEF Pended, TypeOK

\* The request r, if there is one, was answered.
Finished(r) ==
    /\ pending' \in [Ids -> Pendings \cup {Nil}]
    /\ told' \in [Numbers -> SUBSET Nat]
    /\ visible' \in [Numbers -> Nat]
    /\ \A x \in Ids : x # r => pending'[x] = pending[x]
    /\ r \in Ids => pending'[r] = Nil
    /\ \A p \in Numbers : told[p] \subseteq told'[p]
    /\ r \in Waiting /\ pending[r].plain # 0 => pending[r].plain \in told'[pending[r].page]
    /\ \A p \in Numbers :
          \/ visible'[p] = visible[p]
          \/ r \in Waiting /\ pending[r].page = p /\ pending[r].owner # Nil
             /\ visible'[p] = pending[r].owner
    /\ r \in Waiting /\ pending[r].owner # Nil => visible'[pending[r].page] = pending[r].owner

LEMMA ResponseFinished ==
    ASSUME TypeOK, NEW r \in Ids \cup {Nil, NoReturn}, finish_response(r)
    PROVE  Finished(r)
<1>1. CASE r \in Waiting
  <2> DEFINE q == pending[r]
             t == told[q.page] \cup ({q.plain} \ {0})
             v == IF q.owner = Nil THEN visible[q.page] ELSE q.owner
  <2>1. /\ r \in Ids /\ q.page \in Numbers /\ q.owner \in Nat \cup {Nil} /\ q.plain \in Nat
    BY <1>1, Facts
  <2>2. /\ pending' = [pending EXCEPT ![r] = Nil]
        /\ told' = [told EXCEPT ![q.page] = t]
        /\ visible' = [visible EXCEPT ![q.page] = v]
    BY <1>1, <2>1, Constants DEF finish_response, Waiting
  <2>3. t \subseteq Nat /\ told[q.page] \subseteq t /\ (q.plain # 0 => q.plain \in t)
    BY <2>1, Facts
  <2>4. v \in Nat /\ (v = visible[q.page] \/ (q.owner # Nil /\ v = q.owner))
        /\ (q.owner # Nil => v = q.owner)
    BY <2>1, Facts
  <2> HIDE DEF t, v
  <2>5. /\ pending' \in [Ids -> Pendings \cup {Nil}]
        /\ \A x \in Ids : x # r => pending'[x] = pending[x]
        /\ pending'[r] = Nil
    BY <2>1, <2>2 DEF TypeOK
  <2>6. /\ told' \in [Numbers -> SUBSET Nat] /\ told'[q.page] = t
        /\ \A p \in Numbers : p # q.page => told'[p] = told[p]
    BY <2>1, <2>2, <2>3 DEF TypeOK
  <2>7. /\ visible' \in [Numbers -> Nat] /\ visible'[q.page] = v
        /\ \A p \in Numbers : p # q.page => visible'[p] = visible[p]
    BY <2>1, <2>2, <2>4 DEF TypeOK
  <2>8. QED
    BY <1>1, <2>1, <2>3, <2>4, <2>5, <2>6, <2>7 DEF Finished
<1>2. CASE r \notin Waiting
  <2>1. UNCHANGED <<pending, told, visible>>
    BY <1>2 DEF finish_response, Waiting
  <2>2. QED
    BY <1>2, <2>1 DEF Finished, TypeOK, Waiting
<1>3. QED
  BY <1>1, <1>2


-----------------------------------------------------------------------------
(***************************************************************************)
(* Steps that at most close pages.                                         *)
(***************************************************************************)
LEMMA StillStep ==
    ASSUME IInv, UNCHANGED <<env, cbs, web, pending, told, visible>>,
           pages' \in [Numbers -> PageRec], layouter' \in BOOLEAN,
           \A q \in Numbers : /\ pages'[q].kind = pages[q].kind /\ pages'[q].stack = pages[q].stack
                              /\ Open(q)' => Open(q),
           crash' # Nil => "blank" \in env
    PROVE  IInv'
<1>1. TypeOK'
  BY DEF IInv, TypeOK
<1>2. Waiting' = Waiting
  BY DEF Waiting
<1>3. \A p \in Numbers : Once(pages[p].stack)'
  BY DEF IInv, Once
<1>4. PagesMade'
  BY <1>2, Facts DEF IInv, PagesMade
<1>5. PagesHear'
  BY DEF IInv, PagesHear
<1>6. OwnerNamed'
  BY <1>2 DEF IInv, OwnerNamed
<1>7. OwnersTold'
  BY <1>2 DEF IInv, OwnersTold
<1>8. WaitsForPage'
  BY <1>2, Facts DEF IInv, WaitsForPage
<1>9. NoCrash'
  BY DEF NoCrash
<1>10. QED
  BY <1>1, <1>3, <1>4, <1>5, <1>6, <1>7, <1>8, <1>9 DEF IInv

LEMMA CloseStep ==
    ASSUME IInv, UNCHANGED <<env, cbs, layouter, web, pending, told, visible, crash>>,
           NEW p \in Numbers, pages' = [pages EXCEPT ![p].closed = TRUE]
    PROVE  IInv'
<1>1. \A q \in Numbers : pages[q] \in PageRec
  BY DEF IInv, TypeOK
<1>2. pages' \in [Numbers -> PageRec]
  BY <1>1 DEF IInv, TypeOK, PageRec
<1>3. \A q \in Numbers : pages'[q] = IF q = p THEN [pages[p] EXCEPT !.closed = TRUE] ELSE pages[q]
  BY DEF IInv, TypeOK
<1>4. /\ [pages[p] EXCEPT !.closed = TRUE].kind = pages[p].kind
      /\ [pages[p] EXCEPT !.closed = TRUE].stack = pages[p].stack
      /\ [pages[p] EXCEPT !.closed = TRUE].closed
  BY <1>1 DEF PageRec
<1>5. \A q \in Numbers : /\ pages'[q].kind = pages[q].kind /\ pages'[q].stack = pages[q].stack
                         /\ Open(q)' => Open(q)
  BY <1>3, <1>4 DEF Open
<1>6. layouter' \in BOOLEAN /\ (crash' # Nil => "blank" \in env)
  BY DEF IInv, TypeOK, NoCrash
<1>7. QED
  BY <1>2, <1>5, <1>6, StillStep

LEMMA UserClosesStep ==
    ASSUME IInv, NEW p \in Numbers, UserCloses(p)
    PROVE  IInv'
BY CloseStep DEF UserCloses

-----------------------------------------------------------------------------
(***************************************************************************)
(* Steps of the web process.                                               *)
(***************************************************************************)
LEMMA NothingFinished ==
    ASSUME TypeOK, UNCHANGED <<pending, told, visible>>
    PROVE  Finished(Nil)
BY Constants DEF Finished, TypeOK, Waiting

LEMMA WebStep ==
    ASSUME IInv, NEW r \in Ids \cup {Nil, NoReturn}, Finished(r),
           UNCHANGED <<env, cbs, layouter, pages, crash>>,
           web' \in [Numbers -> WebRec], PagesHear', WaitsForPage'
    PROVE  IInv'
<1>1. TypeOK'
  BY DEF IInv, TypeOK, Finished
<1>2. /\ \A x \in Waiting' : x \in Waiting /\ x # r /\ pending'[x] = pending[x]
      /\ \A x \in Waiting : x # r => x \in Waiting' /\ pending'[x] = pending[x]
      /\ \A p \in Numbers : Open(p)' <=> Open(p)
  BY DEF Finished, Waiting, Open
<1>3. \A p \in Numbers : Once(pages[p].stack)'
  BY DEF IInv
<1>4. PagesMade'
  <2>1. \A p \in Numbers : pages[p].kind = Nil => visible'[p] = 0
    BY DEF IInv, PagesMade, Finished
  <2>2. QED
    BY <1>2, <2>1 DEF IInv, PagesMade
<1>5. OwnerNamed'
  <2> SUFFICES ASSUME "pipelines" \notin env /\ "urls" \notin env, NEW p \in Numbers, Open(p)
               PROVE  /\ \A x \in Waiting' : pending'[x].page = p =>
                            pending'[x].owner \in {Nil, Top(pages[p].stack)}
                      /\ \/ visible'[p] = Top(pages[p].stack)
                         \/ \E x \in Waiting' : /\ pending'[x].page = p
                                                /\ pending'[x].owner = Top(pages[p].stack)
    BY <1>2 DEF OwnerNamed
  <2>1. /\ \A x \in Waiting :
              pending[x].page = p => pending[x].owner \in {Nil, Top(pages[p].stack)}
        /\ \/ visible[p] = Top(pages[p].stack)
           \/ \E x \in Waiting : pending[x].page = p /\ pending[x].owner = Top(pages[p].stack)
    BY DEF IInv, OwnerNamed
  <2>2. Top(pages[p].stack) # Nil
    BY Facts, Constants DEF IInv
  <2>3. CASE visible[p] = Top(pages[p].stack)
    <3>1. visible'[p] = Top(pages[p].stack)
      BY <2>1, <2>3 DEF Finished
    <3>2. QED
      BY <1>2, <2>1, <3>1
  <2>4. CASE \E x \in Waiting : pending[x].page = p /\ pending[x].owner = Top(pages[p].stack)
    <3>1. PICK x \in Waiting : pending[x].page = p /\ pending[x].owner = Top(pages[p].stack)
      BY <2>4
    <3>2. CASE x = r
      BY <1>2, <2>1, <2>2, <3>1, <3>2 DEF Finished
    <3>3. CASE x # r
      BY <1>2, <2>1, <3>1, <3>3
    <3>4. QED
      BY <3>2, <3>3
  <2>5. QED
    BY <2>1, <2>3, <2>4
<1>6. OwnersTold'
  <2> SUFFICES ASSUME NEW p \in Numbers, Open(p), NEW i \in 1..Len(pages[p].stack) - 1
               PROVE  LET c == pages[p].stack[i]
                      IN \/ c \in told'[p]
                         \/ \E x \in Waiting' : pending'[x].page = p /\ pending'[x].plain = c
                         \/ c = 0
    BY <1>2 DEF OwnersTold
  <2> DEFINE c == pages[p].stack[i]
  <2>1. \/ c \in told[p]
        \/ \E x \in Waiting : pending[x].page = p /\ pending[x].plain = c
        \/ c = 0
    BY DEF IInv, OwnersTold
  <2> HIDE DEF c
  <2>2. CASE \E x \in Waiting : pending[x].page = p /\ pending[x].plain = c
    BY <1>2, <2>2 DEF Finished, c
  <2>3. CASE c \in told[p]
    BY <2>3 DEF Finished, c
  <2>4. QED
    BY <2>1, <2>2, <2>3 DEF c
<1>7. NoCrash'
  BY DEF IInv, NoCrash
<1>8. QED
  BY <1>1, <1>3, <1>4, <1>5, <1>6, <1>7 DEF IInv

\* The page gets an instance.
LEMMA ClearedStep ==
    ASSUME IInv, NEW p \in Numbers, WindowObjectCleared(p)
    PROVE  IInv'
<1> DEFINE w == [web[p] EXCEPT !.info = "deaf", !.old = @ \/ web[p].info # Nil]
<1>1. /\ Open(p) /\ web[p].loading /\ web[p].info # "freed" /\ web[p].info # "deaf"
      /\ UNCHANGED <<env, cbs, layouter, pages, pending, told, visible, crash>>
      /\ web[p] \in WebRec
  BY Facts DEF WindowObjectCleared, IInv
<1>2. web' = [web EXCEPT ![p] = w]
  BY DEF WindowObjectCleared, IInv, TypeOK
<1>3. /\ w \in WebRec /\ w.info = "deaf" /\ w.irId = web[p].irId /\ w.loading = web[p].loading
      /\ w.queue = web[p].queue /\ (web[p].info = Nil => w.old = web[p].old)
  BY <1>1 DEF WebRec
<1> HIDE DEF w
<1>4. /\ web' \in [Numbers -> WebRec] /\ web'[p] = w
      /\ \A q \in Numbers : q # p => web'[q] = web[q]
  BY <1>2, <1>3 DEF IInv, TypeOK
<1>5. PagesHear'
  <2>1. "urls" \notin env => web[p].info = Nil
    <3>1. web[p].info \in {Nil, "deaf", "hears", "freed"}
      BY <1>1 DEF WebRec
    <3>2. QED
      BY <1>1, <3>1 DEF IInv, PagesHear
  <2>2. QED
    BY <1>1, <1>3, <1>4, <2>1, Constants DEF IInv, PagesHear
<1>6. WaitsForPage'
  <2> SUFFICES ASSUME env \cap {"urls", "blank"} = {}, NEW x \in Waiting, Open(pending[x].page)
               PROVE  LET q == pending[x].page
                      IN  \/ web'[q].loading /\ web'[q].irId = x
                          \/ \E i \in DOMAIN web'[q].queue : web'[q].queue[i].id = x
    BY <1>1 DEF WaitsForPage, Open, Waiting
  <2>1. pending[x].page \in Numbers
    BY Facts DEF IInv
  <2>2. LET q == pending[x].page
        IN  \/ web[q].loading /\ web[q].irId = x
            \/ \E i \in DOMAIN web[q].queue : web[q].queue[i].id = x
    BY DEF IInv, WaitsForPage
  <2>3. QED
    BY <1>3, <1>4, <2>1, <2>2
<1>7. Finished(Nil)
  BY <1>1, NothingFinished DEF IInv
<1>8. QED
  BY <1>1, <1>4, <1>5, <1>6, <1>7, WebStep

LEMMA LoadedStep ==
    ASSUME IInv, NEW p \in Numbers, DocumentLoaded(p)
    PROVE  IInv'
<1> DEFINE r == web[p].irId
           w == [web[p] EXCEPT !.info = "hears", !.irId = Nil, !.loading = FALSE]
<1>1. /\ Open(p) /\ web[p].loading /\ web[p].info = "deaf"
      /\ UNCHANGED <<env, cbs, layouter, pages, crash>>
      /\ finish_response(r) /\ web[p] \in WebRec
  BY Facts DEF DocumentLoaded, IInv
<1>2. web' = [web EXCEPT ![p] = w]
  BY DEF DocumentLoaded, IInv, TypeOK
<1>3. r \in Ids \cup {Nil, NoReturn}
  BY <1>1 DEF WebRec
<1>4. /\ w \in WebRec /\ w.info = "hears" /\ ~w.loading /\ w.queue = web[p].queue
      /\ w.old = web[p].old
  BY <1>1 DEF WebRec
<1> HIDE DEF w
<1>5. /\ web' \in [Numbers -> WebRec] /\ web'[p] = w
      /\ \A q \in Numbers : q # p => web'[q] = web[q]
  BY <1>2, <1>4 DEF IInv, TypeOK
<1>6. Finished(r)
  BY <1>1, <1>3, ResponseFinished DEF IInv
<1>7. PagesHear'
  BY <1>1, <1>4, <1>5, Constants DEF IInv, PagesHear
<1>8. WaitsForPage'
  <2> SUFFICES ASSUME env \cap {"urls", "blank"} = {}, NEW x \in Waiting', Open(pending'[x].page)
               PROVE  LET q == pending'[x].page
                      IN  \/ web'[q].loading /\ web'[q].irId = x
                          \/ \E i \in DOMAIN web'[q].queue : web'[q].queue[i].id = x
    BY <1>1 DEF WaitsForPage, Open
  <2>1. x \in Waiting /\ x # r /\ pending'[x] = pending[x] /\ pending[x].page \in Numbers
    BY <1>6, Facts DEF IInv, Waiting, Finished
  <2>2. LET q == pending[x].page
        IN  \/ web[q].loading /\ web[q].irId = x
            \/ \E i \in DOMAIN web[q].queue : web[q].queue[i].id = x
    BY <2>1 DEF IInv, WaitsForPage
  <2>3. QED
    BY <1>4, <1>5, <2>1, <2>2
<1> HIDE DEF r
<1>9. QED
  BY <1>1, <1>3, <1>5, <1>6, <1>7, <1>8, WebStep

LEMMA DestroyedStep ==
    ASSUME IInv, NEW p \in Numbers, DestroyedNotify(p)
    PROVE  IInv'
<1> DEFINE w == [web[p] EXCEPT !.info = "freed", !.old = FALSE]
<1>1. /\ web[p].old /\ web[p] \in WebRec
      /\ UNCHANGED <<env, cbs, layouter, pages, pending, told, visible, crash>>
  BY Facts DEF DestroyedNotify, IInv
<1>2. web' = [web EXCEPT ![p] = w]
  BY DEF DestroyedNotify, IInv, TypeOK
<1>3. w \in WebRec /\ w.irId = web[p].irId /\ w.loading = web[p].loading /\ w.queue = web[p].queue
  BY <1>1 DEF WebRec
<1> HIDE DEF w
<1>4. /\ web' \in [Numbers -> WebRec] /\ web'[p] = w
      /\ \A q \in Numbers : q # p => web'[q] = web[q]
  BY <1>2, <1>3 DEF IInv, TypeOK
<1>5. "urls" \in env
  BY <1>1 DEF IInv, PagesHear
<1>6. PagesHear' /\ WaitsForPage'
  BY <1>1, <1>5 DEF PagesHear, WaitsForPage
<1>7. Finished(Nil)
  BY <1>1, NothingFinished DEF IInv
<1>8. QED
  BY <1>1, <1>4, <1>6, <1>7, WebStep

\* The page handles the first of its messages.
LEMMA HandledStep ==
    ASSUME IInv, NEW p \in Numbers, MessageHandled(p)
    PROVE  IInv'
<1> DEFINE m == Head(web[p].queue)
           leaves == m.leaves /\ web[p].info = "hears"
           w == [web[p] EXCEPT !.queue = Tail(@), !.loading = @ \/ leaves,
                               !.irId = IF leaves THEN m.id ELSE @]
           q == web[p].queue
           r == IF web[p].info = "hears" THEN m.id ELSE Nil
<1>1. /\ Open(p) /\ q # <<>> /\ web[p].info \in {"deaf", "hears"}
      /\ UNCHANGED <<env, cbs, layouter, pages, crash>>
      /\ IF web[p].info = "hears" THEN finish_response(m.id)
         ELSE UNCHANGED <<pending, told, visible>>
      /\ web[p] \in WebRec /\ q \in Seq(Sent)
  BY Facts DEF MessageHandled, IInv
<1>2. web' = [web EXCEPT ![p] = w]
  BY DEF MessageHandled, IInv, TypeOK
<1>3. /\ Tail(q) \in Seq(Sent) /\ Len(q) \in Nat \ {0} /\ Len(Tail(q)) = Len(q) - 1
      /\ \A i \in 1..Len(Tail(q)) : Tail(q)[i] = q[i + 1]
      /\ m = q[1] /\ m \in Sent
  BY <1>1, EmptySeq, HeadTailProperties
<1>4. m.id \in Ids \cup {NoReturn} /\ m.leaves \in BOOLEAN
  BY <1>3 DEF Sent
<1> HIDE DEF m
<1>5. /\ w \in WebRec /\ w.info = web[p].info /\ w.old = web[p].old
      /\ w.queue = Tail(q) /\ (~leaves => w.loading = web[p].loading /\ w.irId = web[p].irId)
  <2>1. leaves \in BOOLEAN
    BY <1>4
  <2> HIDE DEF leaves
  <2>2. QED
    BY <1>1, <1>3, <1>4, <2>1 DEF WebRec
<1> HIDE DEF w
<1>6. /\ web' \in [Numbers -> WebRec] /\ web'[p] = w
      /\ \A y \in Numbers : y # p => web'[y] = web[y]
  BY <1>2, <1>5 DEF IInv, TypeOK
<1>7. r \in Ids \cup {Nil, NoReturn} /\ Finished(r)
  BY <1>1, <1>4, ResponseFinished, NothingFinished DEF IInv
<1>8. "urls" \notin env => ~leaves /\ web[p].info = "hears" /\ r = m.id
  <2>1. "urls" \notin env => ~m.leaves /\ web[p].info = "hears"
    BY <1>1, <1>3 DEF IInv, PagesHear
  <2>2. QED
    BY <2>1
<1>9. PagesHear'
  <2> SUFFICES ASSUME "urls" \notin env, NEW y \in Numbers
               PROVE  /\ web'[y].info # "freed" /\ ~web'[y].old
                      /\ web'[y].info # "hears" => web'[y].queue = <<>>
                      /\ web'[y].info = "hears" => ~web'[y].loading
                      /\ \A i \in 1..Len(web'[y].queue) : ~web'[y].queue[i].leaves
    BY <1>1 DEF PagesHear
  <2>1. CASE y # p
    BY <1>6, <2>1 DEF IInv, PagesHear
  <2>2. CASE y = p
    <3>1. ~web[p].old /\ ~web[p].loading /\ \A i \in 1..Len(q) : ~q[i].leaves
      BY <1>8 DEF IInv, PagesHear
    <3>2. \A i \in 1..Len(Tail(q)) : i + 1 \in 1..Len(q)
      BY <1>3
    <3>3. \A i \in 1..Len(Tail(q)) : ~Tail(q)[i].leaves
      BY <1>3, <3>1, <3>2
    <3>4. QED
      BY <1>5, <1>6, <1>8, <2>2, <3>1, <3>3
  <2>3. QED
    BY <2>1, <2>2
<1>10. WaitsForPage'
  <2> SUFFICES ASSUME env \cap {"urls", "blank"} = {}, NEW x \in Waiting', Open(pending'[x].page)
               PROVE  LET y == pending'[x].page
                      IN  \/ web'[y].loading /\ web'[y].irId = x
                          \/ \E i \in DOMAIN web'[y].queue : web'[y].queue[i].id = x
    BY <1>1 DEF WaitsForPage, Open
  <2> DEFINE y == pending[x].page
  <2>1. x \in Waiting /\ x # m.id /\ pending'[x] = pending[x] /\ y \in Numbers
    BY <1>7, <1>8, Facts DEF IInv, Waiting, Finished
  <2>2. \/ web[y].loading /\ web[y].irId = x
        \/ \E i \in DOMAIN web[y].queue : web[y].queue[i].id = x
    BY <2>1 DEF IInv, WaitsForPage
  <2>3. CASE y # p
    BY <1>6, <2>1, <2>2, <2>3
  <2>4. CASE y = p /\ web[p].loading /\ web[p].irId = x
    BY <1>5, <1>6, <1>8, <2>1, <2>4
  <2>5. CASE y = p /\ \E i \in DOMAIN q : q[i].id = x
    <3>1. PICK i \in 1..Len(q) : q[i].id = x
      BY <1>1, <2>5
    <3>2. i # 1
      BY <1>3, <2>1, <3>1
    <3>3. i - 1 \in 1..Len(Tail(q)) /\ Tail(q)[i - 1] = q[i]
      BY <1>3, <3>1, <3>2
    <3>4. i - 1 \in DOMAIN Tail(q)
      BY <1>3, <3>3
    <3>5. web'[y].queue = Tail(q)
      BY <1>5, <1>6, <2>5
    <3>6. QED
      BY <2>1, <3>1, <3>3, <3>4, <3>5
  <2>6. QED
    BY <2>2, <2>3, <2>4, <2>5
<1> HIDE DEF r
<1>11. QED
  BY <1>1, <1>6, <1>7, <1>9, <1>10, WebStep

-----------------------------------------------------------------------------
(***************************************************************************)
(* Requests that are sent to a page.                                       *)
(***************************************************************************)
\* A message is the last in the queue of page p.
Queued(p, id, leaves) ==
    web' = [web EXCEPT ![p].queue = Append(@, [leaves |-> leaves, id |-> id])]

LEMMA MessageSent ==
    ASSUME IInv, UNCHANGED <<env, cbs, layouter, visible, crash>>,
           \A q \in Numbers : Open(q)' <=> Open(q),
           NEW p \in Numbers, NEW id \in Ids \cup {NoReturn}, NEW leaves \in BOOLEAN,
           NEW owner, NEW s,
           "urls" \notin env => web[p].info = "hears" /\ ~leaves,
           Queued(p, id, leaves), Pended(id, p, owner, s)
    PROVE  web' \in [Numbers -> WebRec] /\ PagesHear' /\ WaitsForPage'
<1> DEFINE m == [leaves |-> leaves, id |-> id]
           q == web[p].queue
           w == [web[p] EXCEPT !.queue = Append(q, m)]
<1>1. m \in Sent /\ m.id = id /\ m.leaves = leaves
  BY DEF Sent
<1>2. web' = [web EXCEPT ![p] = w]
  BY DEF Queued, IInv, TypeOK
<1> HIDE DEF m
<1>3. web[p] \in WebRec /\ q \in Seq(Sent) /\ Len(q) \in Nat
  BY Facts DEF IInv
<1>4. /\ Append(q, m) \in Seq(Sent) /\ Len(Append(q, m)) = Len(q) + 1
      /\ Append(q, m)[Len(q) + 1] = m
      /\ \A i \in 1..Len(q) : Append(q, m)[i] = q[i]
  BY <1>1, <1>3
<1>5. /\ w \in WebRec /\ w.info = web[p].info /\ w.old = web[p].old /\ w.irId = web[p].irId
      /\ w.loading = web[p].loading /\ w.queue = Append(q, m)
  BY <1>3, <1>4 DEF WebRec
<1> HIDE DEF w
<1>6. /\ web' \in [Numbers -> WebRec] /\ web'[p] = w
      /\ \A y \in Numbers : y # p => web'[y] = web[y]
  BY <1>2, <1>5 DEF IInv, TypeOK
<1>7. PagesHear'
  <2> SUFFICES ASSUME "urls" \notin env, NEW y \in Numbers
               PROVE  /\ web'[y].info # "freed" /\ ~web'[y].old
                      /\ web'[y].info # "hears" => web'[y].queue = <<>>
                      /\ web'[y].info = "hears" => ~web'[y].loading
                      /\ \A i \in 1..Len(web'[y].queue) : ~web'[y].queue[i].leaves
    BY DEF PagesHear
  <2>1. CASE y # p
    BY <1>6, <2>1 DEF IInv, PagesHear
  <2>2. CASE y = p
    <3>1. ~web[p].old /\ ~web[p].loading /\ \A i \in 1..Len(q) : ~q[i].leaves
      BY DEF IInv, PagesHear
    <3>2. \A i \in 1..Len(q) + 1 : i \in 1..Len(q) \/ i = Len(q) + 1
      BY <1>3
    <3>3. \A i \in 1..Len(Append(q, m)) : ~Append(q, m)[i].leaves
      BY <1>1, <1>4, <3>1, <3>2
    <3>4. QED
      BY <1>5, <1>6, <2>2, <3>1, <3>3
  <2>3. QED
    BY <2>1, <2>2
<1>8. WaitsForPage'
  <2>0. \A x \in Waiting' : x \in Ids /\ pending'[x].page \in Numbers
    BY DEF Pended, Waiting, Pendings
  <2> SUFFICES ASSUME env \cap {"urls", "blank"} = {}, NEW x \in Waiting', Open(pending'[x].page)
               PROVE  LET y == pending'[x].page
                      IN  \/ web'[y].loading /\ web'[y].irId = x
                          \/ \E i \in DOMAIN web'[y].queue : web'[y].queue[i].id = x
    BY <2>0 DEF WaitsForPage
  <2>1. CASE x = id
    <3>1. pending'[x].page = p
      BY <2>1 DEF Pended, Waiting
    <3>2. Len(q) + 1 \in DOMAIN Append(q, m)
      BY <1>3, <1>4
    <3>3. QED
      BY <1>1, <1>4, <1>5, <1>6, <2>1, <3>1, <3>2
  <2>2. CASE x # id
    <3> DEFINE y == pending[x].page
    <3>1. x \in Waiting /\ pending'[x] = pending[x] /\ y \in Numbers /\ Open(y)
      BY <2>0, <2>2 DEF Waiting, Pended
    <3>2. \/ web[y].loading /\ web[y].irId = x
          \/ \E i \in DOMAIN web[y].queue : web[y].queue[i].id = x
      BY <3>1 DEF IInv, WaitsForPage
    <3>3. \A i \in DOMAIN q : i \in DOMAIN Append(q, m) /\ Append(q, m)[i] = q[i]
      BY <1>3, <1>4
    <3>4. QED
      BY <1>5, <1>6, <3>1, <3>2, <3>3
  <2>3. QED
    BY <2>1, <2>2
<1>9. QED
  BY <1>6, <1>7, <1>8

\* What waits for a page, seen from the answers that it will give.
LEMMA PendedWaits ==
    ASSUME IInv, NEW id \in Ids \cup {NoReturn}, NEW p \in Numbers, NEW owner, NEW s,
           Pended(id, p, owner, s)
    PROVE  /\ \A x \in Waiting : x # id /\ x \in Waiting' /\ pending'[x] = pending[x]
           /\ \A x \in Waiting' : x \in Waiting \/ x = id
           /\ id \in Ids => /\ id \in Waiting' /\ pending'[id].page = p
                            /\ pending'[id].owner = owner /\ pending'[id].plain = s
BY DEF Pended, Waiting

\* A request that leaves the owners of the page alone.
LEMMA AskStep ==
    ASSUME IInv, UNCHANGED <<env, cbs, layouter, pages, told, visible, crash>>,
           NEW p \in Numbers, Open(p), NEW id \in Ids \cup {NoReturn},
           NEW owner \in Nat \cup {Nil}, owner = Nil \/ "urls" \in env,
           Pended(id, p, owner, 0),
           web' \in [Numbers -> WebRec], PagesHear', WaitsForPage'
    PROVE  IInv'
<1>1. TypeOK'
  BY DEF IInv, TypeOK, Pended
<1>2. /\ \A x \in Waiting : x # id /\ x \in Waiting' /\ pending'[x] = pending[x]
      /\ \A x \in Waiting' : x \in Waiting \/ x = id
      /\ id \in Ids => /\ id \in Waiting' /\ pending'[id].page = p
                       /\ pending'[id].owner = owner
      /\ \A x \in Waiting' : x \in Ids
      /\ \A q \in Numbers : Open(q)' <=> Open(q)
  BY PendedWaits DEF Waiting, Open
<1>3. \A q \in Numbers : Once(pages[q].stack)'
  BY DEF IInv
<1>4. PagesMade'
  BY <1>2 DEF IInv, PagesMade, Open
<1>5. OwnerNamed'
  <2> SUFFICES ASSUME "pipelines" \notin env /\ "urls" \notin env, NEW q \in Numbers, Open(q)
               PROVE  /\ \A x \in Waiting' : pending'[x].page = q =>
                            pending'[x].owner \in {Nil, Top(pages[q].stack)}
                      /\ \/ visible[q] = Top(pages[q].stack)
                         \/ \E x \in Waiting' : /\ pending'[x].page = q
                                                /\ pending'[x].owner = Top(pages[q].stack)
    BY <1>2 DEF OwnerNamed
  <2>1. /\ \A x \in Waiting :
              pending[x].page = q => pending[x].owner \in {Nil, Top(pages[q].stack)}
        /\ \/ visible[q] = Top(pages[q].stack)
           \/ \E x \in Waiting : pending[x].page = q /\ pending[x].owner = Top(pages[q].stack)
    BY DEF IInv, OwnerNamed
  <2>2. QED
    BY <1>2, <2>1
<1>6. OwnersTold'
  <2> SUFFICES ASSUME NEW q \in Numbers, Open(q), NEW i \in 1..Len(pages[q].stack) - 1
               PROVE  LET c == pages[q].stack[i]
                      IN \/ c \in told[q]
                         \/ \E x \in Waiting' : pending'[x].page = q /\ pending'[x].plain = c
                         \/ c = 0
    BY <1>2 DEF OwnersTold
  <2>1. LET c == pages[q].stack[i]
        IN \/ c \in told[q]
           \/ \E x \in Waiting : pending[x].page = q /\ pending[x].plain = c
           \/ c = 0
    BY DEF IInv, OwnersTold
  <2>2. QED
    BY <1>2, <2>1
<1>7. NoCrash'
  BY DEF IInv, NoCrash
<1>8. QED
  BY <1>1, <1>3, <1>4, <1>5, <1>6, <1>7 DEF IInv

\* The stack of page p is t, the pages are otherwise as before.
Restacked(p, t) ==
    /\ pages' \in [Numbers -> PageRec]
    /\ pages'[p].stack = t
    /\ \A q \in Numbers : q # p => pages'[q] = pages[q]
    /\ \A q \in Numbers : pages'[q].kind = pages[q].kind /\ (Open(q)' <=> Open(q))

LEMMA PagesRestacked ==
    ASSUME TypeOK, NEW p \in Numbers, NEW t \in Seq(Nat),
           pages' = [pages EXCEPT ![p].stack = t]
    PROVE  Restacked(p, t)
<1> DEFINE x == [pages[p] EXCEPT !.stack = t]
<1>1. pages[p] \in PageRec
  BY Facts
<1>2. x \in PageRec /\ x.stack = t /\ x.kind = pages[p].kind /\ x.closed = pages[p].closed
  BY <1>1 DEF PageRec
<1>3. pages' = [pages EXCEPT ![p] = x]
  BY DEF TypeOK
<1> HIDE DEF x
<1>4. /\ pages' \in [Numbers -> PageRec] /\ pages'[p] = x
      /\ \A q \in Numbers : q # p => pages'[q] = pages[q]
  BY <1>2, <1>3 DEF TypeOK
<1>5. QED
  BY <1>2, <1>4 DEF Restacked, Open

\* A coroutine takes the page over with its document.
LEMMA TakeStep ==
    ASSUME IInv, UNCHANGED <<env, cbs, layouter, visible, crash>>,
           "pipelines" \in env \/ Idle,
           NEW p \in Numbers, Open(p), NEW id \in Ids, NEW c \in Nat,
           Restacked(p, purc_page_ostack_register(pages[p].stack, c)),
           told' = [told EXCEPT ![p] = @ \ {c}],
           Pended(id, p, c, Suppressed(pages[p].stack, c)),
           web' \in [Numbers -> WebRec], PagesHear', WaitsForPage'
    PROVE  IInv'
<1> DEFINE s == pages[p].stack
           t == purc_page_ostack_register(s, c)
<1>1. Registered(t, s, c) /\ s \in Seq(Nat)
  BY StackRegistered, Facts DEF IInv
<1> HIDE DEF t
<1>2. /\ pages' \in [Numbers -> PageRec] /\ pages'[p].stack = t
      /\ \A q \in Numbers : q # p => pages'[q] = pages[q]
      /\ \A q \in Numbers : pages'[q].kind = pages[q].kind /\ (Open(q)' <=> Open(q))
  BY DEF Restacked, t
<1>3. /\ told' \in [Numbers -> SUBSET Nat] /\ told'[p] = told[p] \ {c}
      /\ \A q \in Numbers : q # p => told'[q] = told[q]
  BY DEF IInv, TypeOK
<1>4. /\ \A x \in Waiting : x # id /\ x \in Waiting' /\ pending'[x] = pending[x]
      /\ \A x \in Waiting' : x \in Waiting \/ x = id
      /\ id \in Waiting' /\ pending'[id].page = p /\ pending'[id].owner = c
      /\ pending'[id].plain = Suppressed(s, c)
  BY PendedWaits
<1>5. TypeOK'
  BY <1>2, <1>3 DEF IInv, TypeOK, Pended
<1>6. \A q \in Numbers : Once(pages'[q].stack)
  BY <1>1, <1>2 DEF IInv, Registered
<1>7. PagesMade'
  BY <1>2, <1>4, Facts DEF IInv, PagesMade, Open
<1>8. OwnerNamed'
  <2> SUFFICES ASSUME "pipelines" \notin env /\ "urls" \notin env, NEW q \in Numbers, Open(q)
               PROVE  /\ \A x \in Waiting' : pending'[x].page = q =>
                            pending'[x].owner \in {Nil, Top(pages'[q].stack)}
                      /\ \/ visible[q] = Top(pages'[q].stack)
                         \/ \E x \in Waiting' : /\ pending'[x].page = q
                                                /\ pending'[x].owner = Top(pages'[q].stack)
    BY <1>2 DEF OwnerNamed
  <2>1. CASE q # p
    <3>1. /\ \A x \in Waiting :
                pending[x].page = q => pending[x].owner \in {Nil, Top(pages[q].stack)}
          /\ \/ visible[q] = Top(pages[q].stack)
             \/ \E x \in Waiting : pending[x].page = q /\ pending[x].owner = Top(pages[q].stack)
      BY DEF IInv, OwnerNamed
    <3>2. QED
      BY <1>2, <1>4, <2>1, <3>1
  <2>2. CASE q = p
    <3>1. \A x \in Waiting : pending[x].page # p
      BY DEF Idle
    <3>2. QED
      BY <1>1, <1>2, <1>4, <2>2, <3>1 DEF Registered
  <2>3. QED
    BY <2>1, <2>2
<1>9. OwnersTold'
  <2> SUFFICES ASSUME NEW q \in Numbers, Open(q), NEW i \in 1..Len(pages'[q].stack) - 1
               PROVE  LET d == pages'[q].stack[i]
                      IN \/ d \in told'[q]
                         \/ \E x \in Waiting' : pending'[x].page = q /\ pending'[x].plain = d
                         \/ d = 0
    BY <1>2 DEF OwnersTold
  <2>1. \A j \in 1..Len(pages[q].stack) - 1 :
           LET d == pages[q].stack[j]
           IN \/ d \in told[q]
              \/ \E x \in Waiting : pending[x].page = q /\ pending[x].plain = d
              \/ d = 0
    BY DEF IInv, OwnersTold
  <2>2. CASE q # p
    BY <1>2, <1>3, <1>4, <2>1, <2>2
  <2>3. CASE q = p
    <3>1. t[i] # c /\ (t[i] = Suppressed(s, c) \/ \E j \in 1..Len(s) - 1 : t[i] = s[j])
      BY <1>1, <1>2, <2>3 DEF Registered
    <3>2. QED
      BY <1>2, <1>3, <1>4, <2>1, <2>3, <3>1
  <2>4. QED
    BY <2>2, <2>3
<1>10. NoCrash'
  BY DEF IInv, NoCrash
<1>11. QED
  BY <1>5, <1>6, <1>7, <1>8, <1>9, <1>10 DEF IInv

-----------------------------------------------------------------------------
(***************************************************************************)
(* Requests that change the owners of a page.                              *)
(***************************************************************************)
LEMMA OwnerStep ==
    ASSUME IInv, UNCHANGED <<env, cbs, layouter, web, pending, crash>>,
           "pipelines" \in env \/ Idle,
           NEW p \in Numbers, Open(p), NEW t \in Seq(Nat), Once(t), Restacked(p, t),
           NEW others \in SUBSET Nat, NEW owner \in Nat,
           told' = [told EXCEPT ![p] = others], visible' = [visible EXCEPT ![p] = owner],
           visible[p] = Top(pages[p].stack) => owner = Top(t),
           \A i \in 1..Len(t) - 1 :
              \/ t[i] \in others
              \/ \E x \in Waiting : pending[x].page = p /\ pending[x].plain = t[i]
              \/ t[i] = 0
    PROVE  IInv'
<1>1. /\ pages' \in [Numbers -> PageRec] /\ pages'[p].stack = t
      /\ \A q \in Numbers : q # p => pages'[q] = pages[q]
      /\ \A q \in Numbers : pages'[q].kind = pages[q].kind /\ (Open(q)' <=> Open(q))
  BY DEF Restacked
<1>2. /\ told' \in [Numbers -> SUBSET Nat] /\ told'[p] = others
      /\ \A q \in Numbers : q # p => told'[q] = told[q]
      /\ visible' \in [Numbers -> Nat] /\ visible'[p] = owner
      /\ \A q \in Numbers : q # p => visible'[q] = visible[q]
  BY DEF IInv, TypeOK
<1>3. Waiting' = Waiting
  BY DEF Waiting
<1>4. TypeOK'
  BY <1>1, <1>2 DEF IInv, TypeOK
<1>5. \A q \in Numbers : Once(pages'[q].stack)
  BY <1>1 DEF IInv
<1>6. PagesMade'
  <2>1. \A q \in Numbers : pages[q].kind = Nil => q # p
    BY DEF Open
  <2>2. \A q \in Numbers : pages'[q].kind = Nil => visible'[q] = 0 /\ pages'[q].stack = <<>>
    BY <1>1, <1>2, <2>1 DEF IInv, PagesMade
  <2>3. \A r \in Waiting : pages'[pending[r].page].kind # Nil
    BY <1>1, Facts DEF IInv, PagesMade
  <2>4. QED
    BY <1>3, <2>2, <2>3 DEF PagesMade
<1>7. PagesHear'
  BY DEF IInv, PagesHear
<1>8. OwnerNamed'
  <2> SUFFICES ASSUME "pipelines" \notin env /\ "urls" \notin env, NEW q \in Numbers, Open(q)
               PROVE  /\ \A x \in Waiting : pending[x].page = q =>
                            pending[x].owner \in {Nil, Top(pages'[q].stack)}
                      /\ \/ visible'[q] = Top(pages'[q].stack)
                         \/ \E x \in Waiting : /\ pending[x].page = q
                                               /\ pending[x].owner = Top(pages'[q].stack)
    BY <1>1, <1>3 DEF OwnerNamed
  <2>1. /\ \A x \in Waiting :
              pending[x].page = q => pending[x].owner \in {Nil, Top(pages[q].stack)}
        /\ \/ visible[q] = Top(pages[q].stack)
           \/ \E x \in Waiting : pending[x].page = q /\ pending[x].owner = Top(pages[q].stack)
    BY DEF IInv, OwnerNamed
  <2>2. CASE q # p
    BY <1>1, <1>2, <2>1, <2>2
  <2>3. CASE q = p
    <3>1. \A x \in Waiting : pending[x].page # p
      BY DEF Idle
    <3>2. QED
      BY <1>1, <1>2, <2>1, <2>3, <3>1
  <2>4. QED
    BY <2>2, <2>3
<1>9. OwnersTold'
  <2> SUFFICES ASSUME NEW q \in Numbers, Open(q), NEW i \in 1..Len(pages'[q].stack) - 1
               PROVE  LET d == pages'[q].stack[i]
                      IN \/ d \in told'[q]
                         \/ \E x \in Waiting : pending[x].page = q /\ pending[x].plain = d
                         \/ d = 0
    BY <1>1, <1>3 DEF OwnersTold
  <2>1. CASE q # p
    BY <1>1, <1>2, <2>1 DEF IInv, OwnersTold
  <2>2. CASE q = p
    BY <1>1, <1>2, <2>2
  <2>3. QED
    BY <2>1, <2>2
<1>10. WaitsForPage'
  <2>1. \A x \in Waiting : pending[x].page \in Numbers
    BY Facts DEF IInv
  <2>2. QED
    BY <1>1, <1>3, <2>1 DEF IInv, WaitsForPage
<1>11. NoCrash'
  BY DEF IInv, NoCrash
<1>12. QED
  BY <1>4, <1>5, <1>6, <1>7, <1>8, <1>9, <1>10, <1>11 DEF IInv

\* What is known of the coroutines below the top of a page.
LEMMA Told ==
    ASSUME OwnersTold, NEW p \in Numbers, Open(p)
    PROVE  \A j \in 1..Len(pages[p].stack) - 1 :
              \/ pages[p].stack[j] \in told[p]
              \/ \E x \in Waiting : pending[x].page = p /\ pending[x].plain = pages[p].stack[j]
              \/ pages[p].stack[j] = 0
BY DEF OwnersTold

LEMMA RegisterStep ==
    ASSUME IInv, UNCHANGED <<env, cbs>>, "pipelines" \in env \/ Idle,
           NEW p \in Numbers, Open(p), NEW m, NumberOf(m) \in Nat, gtk_register_crtn(m, p)
    PROVE  IInv'
<1> DEFINE c == NumberOf(m)
           s == pages[p].stack
           t == purc_page_ostack_register(s, c)
           others == (told[p] \ {c}) \cup ({Suppressed(s, c)} \ {0})
<1>1. s \in Seq(Nat) /\ Suppressed(s, c) \in Nat /\ told[p] \subseteq Nat
  BY Facts, TopTypes DEF IInv
<1>2. Registered(t, s, c)
  BY <1>1, StackRegistered DEF IInv
<1>3. /\ pages' = [pages EXCEPT ![p].stack = t]
      /\ told' = [told EXCEPT ![p] = others] /\ visible' = [visible EXCEPT ![p] = c]
      /\ UNCHANGED <<web, pending, layouter, crash>>
  BY DEF gtk_register_crtn, Respond, IInv, TypeOK
<1> HIDE DEF t
<1>4. t \in Seq(Nat) /\ Once(t) /\ Top(t) = c
  BY <1>2 DEF Registered
<1>5. Restacked(p, t)
  BY <1>3, <1>4, PagesRestacked DEF IInv
<1>6. ASSUME NEW i \in 1..Len(t) - 1
      PROVE  \/ t[i] \in others
             \/ \E x \in Waiting : pending[x].page = p /\ pending[x].plain = t[i]
             \/ t[i] = 0
  <2>1. t[i] # c /\ (t[i] = Suppressed(s, c) \/ \E j \in 1..Len(s) - 1 : t[i] = s[j])
    BY <1>2, <1>6 DEF Registered
  <2>2. QED
    BY <2>1, Told DEF IInv
<1>7. others \in SUBSET Nat
  BY <1>1
<1> HIDE DEF others, c
<1>8. c \in Nat
  BY DEF c
<1>9. QED
  BY <1>3, <1>4, <1>5, <1>6, <1>7, <1>8, OwnerStep

LEMMA RevokeStep ==
    ASSUME IInv, UNCHANGED <<env, cbs>>, "pipelines" \in env \/ Idle,
           NEW p \in Numbers, Open(p), NEW m, NumberOf(m) \in Nat, NumberOf(m) # 0,
           gtk_revoke_crtn(m, p)
    PROVE  IInv'
<1> DEFINE c == NumberOf(m)
           s == pages[p].stack
           t == purc_page_ostack_revoke(s, c)
           l == ToReload(s, c)
           others == told[p] \ {l}
           owner == IF l # 0 THEN l ELSE IF visible[p] = c THEN 0 ELSE visible[p]
<1>1. s \in Seq(Nat) /\ told[p] \subseteq Nat /\ visible[p] \in Nat
  BY Facts DEF IInv
<1>2. Revoked(t, s, c)
  BY <1>1, StackRevoked DEF IInv
<1>3. /\ pages' = [pages EXCEPT ![p].stack = t]
      /\ told' = [told EXCEPT ![p] = others] /\ visible' = [visible EXCEPT ![p] = owner]
      /\ UNCHANGED <<web, pending, layouter, crash>>
  BY DEF gtk_revoke_crtn, Respond, IInv, TypeOK
<1>4. l = IF Top(s) = c THEN Top(t) ELSE 0
  BY DEF ToReload
<1> HIDE DEF t, l
<1>5. t \in Seq(Nat) /\ Once(t) /\ Top(t) \in Nat /\ Len(t) \in Nat
  BY <1>2, TopTypes DEF Revoked
<1>6. Restacked(p, t)
  BY <1>3, <1>5, PagesRestacked DEF IInv
<1>7. l \in Nat /\ owner \in Nat /\ others \in SUBSET Nat
  BY <1>1, <1>4, <1>5
<1>8. visible[p] = Top(s) => owner = Top(t)
  BY <1>2, <1>4 DEF Revoked
<1>9. ASSUME NEW i \in 1..Len(t) - 1
      PROVE  \/ t[i] \in others
             \/ \E x \in Waiting : pending[x].page = p /\ pending[x].plain = t[i]
             \/ t[i] = 0
  <2>1. i \in 1..Len(t) /\ i < Len(t) /\ Len(t) \in 1..Len(t) /\ i # Len(t) /\ t # <<>>
    BY <1>5, <1>9, EmptySeq
  <2>2. PICK j \in 1..Len(s) : t[i] = s[j] /\ j < Len(s)
    BY <1>2, <2>1 DEF Revoked
  <2>3. j \in 1..Len(s) - 1
    BY <1>1, <2>2
  <2>4. t[i] # l \/ l = 0
    BY <1>4, <1>5, <2>1 DEF Once, Top
  <2>5. QED
    BY <2>2, <2>3, <2>4, Told DEF IInv
<1> HIDE DEF others, owner
<1>10. QED
  BY <1>3, <1>5, <1>6, <1>7, <1>8, <1>9, OwnerStep

-----------------------------------------------------------------------------
(***************************************************************************)
(* The callbacks.                                                          *)
(***************************************************************************)
\* A request that a handler may pass on: the client waits for its answer unless
\* it may be silent.
Passed(m) ==
    /\ Sane(m) /\ m.id \in Ids \cup {NoReturn}
    /\ "pipelines" \in env \/ Idle
    /\ m.id \in Ids => pending[m.id] = Nil
    /\ m.id = NoReturn => MayBeSilent(m)
    /\ UNCHANGED <<env, cbs>>

LEMMA RefusedStep ==
    ASSUME IInv, UNCHANGED <<env, cbs>>, Refused
    PROVE  IInv'
BY StillStep DEF Refused, Respond, IInv, TypeOK, Open, NoCrash

LEMMA LoadStep ==
    ASSUME IInv, NEW m, Passed(m), NEW p \in Numbers, Open(p),
           "urls" \notin env => web[p].info = "hears",
           m.op \in {"load", "loadFromURL", "writeBegin", "writeMore", "writeEnd"},
           m.op \in {"load", "loadFromURL", "writeBegin"} => ByHandle(m),
           gtk_load_or_write(m, p)
    PROVE  IInv'
<1> DEFINE takes == m.op \in {"load", "writeBegin"}
           c == NumberOf(m)
           s == IF takes THEN Suppressed(pages[p].stack, c) ELSE 0
           owner == IF m.op \in {"load", "writeBegin", "loadFromURL"} THEN c ELSE Nil
           leaves == m.op = "loadFromURL"
<1>1. /\ Queued(p, m.id, leaves) /\ Pend(m, p, owner, s)
      /\ UNCHANGED <<env, cbs, layouter, visible, crash>>
      /\ takes => /\ told' = [told EXCEPT ![p] = @ \ {c}]
                  /\ pages' = [pages EXCEPT ![p].stack = purc_page_ostack_register(@, c)]
      /\ ~takes => UNCHANGED <<pages, told>>
  BY DEF gtk_load_or_write, SendMessageToPage, Queued, Passed
<1>2. m.op \in {"load", "loadFromURL", "writeBegin"} => c \in Nat
  BY DEF Passed, Sane
<1>3. s \in Nat /\ owner \in Nat \cup {Nil} /\ (~takes => s = 0)
  BY <1>2, TopTypes, Facts DEF IInv
<1>4. (takes => owner = c) /\ (~takes => owner = Nil \/ "urls" \in env)
      /\ ("urls" \notin env => ~leaves) /\ leaves \in BOOLEAN
  BY DEF Passed, Sane
<1>5. takes => m.id \in Ids
  BY DEF Passed, MayBeSilent, DomOperations
<1>6. takes => Suppressed(pages[p].stack, c) = s
  OBVIOUS
<1> HIDE DEF s, owner, leaves
<1>7. Pended(m.id, p, owner, s)
  BY <1>1, <1>3, PendPended DEF IInv, Passed
<1>8. CASE takes
  <2> DEFINE t == purc_page_ostack_register(pages[p].stack, c)
  <2>1. t \in Seq(Nat) /\ pages' = [pages EXCEPT ![p].stack = t]
    BY <1>1, <1>2, <1>8, StackRegistered, Facts DEF IInv, TypeOK, Registered
  <2>2. Restacked(p, t)
    BY <2>1, PagesRestacked DEF IInv
  <2>3. \A q \in Numbers : Open(q)' <=> Open(q)
    BY <2>2 DEF Restacked
  <2>4. web' \in [Numbers -> WebRec] /\ PagesHear' /\ WaitsForPage'
    BY <1>1, <1>4, <1>7, <2>3, MessageSent DEF Passed
  <2>5. m.id \in Ids /\ c \in Nat /\ ("pipelines" \in env \/ Idle)
        /\ Pended(m.id, p, c, Suppressed(pages[p].stack, c))
    BY <1>2, <1>4, <1>5, <1>6, <1>7, <1>8 DEF Passed
  <2> HIDE DEF c
  <2>6. QED
    BY <1>1, <1>8, <2>2, <2>4, <2>5, TakeStep
<1>9. CASE ~takes
  <2>1. \A q \in Numbers : Open(q)' <=> Open(q)
    BY <1>1, <1>9 DEF Open
  <2>2. web' \in [Numbers -> WebRec] /\ PagesHear' /\ WaitsForPage'
    BY <1>1, <1>4, <1>7, <2>1, MessageSent DEF Passed
  <2>3. s = 0 /\ (owner = Nil \/ "urls" \in env)
    BY <1>3, <1>4, <1>9
  <2>4. UNCHANGED <<env, cbs, layouter, pages, told, visible, crash>>
    BY <1>1, <1>9
  <2>5. QED
    BY <1>3, <1>7, <2>2, <2>3, <2>4, AskStep DEF Passed
<1>10. QED
  BY <1>8, <1>9

LEMMA AskPageStep ==
    ASSUME IInv, NEW m, Passed(m), NEW p \in Numbers, Open(p),
           "urls" \notin env => web[p].info = "hears",
           AskPage(m, p)
    PROVE  IInv'
<1>1. UNCHANGED <<env, cbs, layouter, pages, told, visible, crash>>
  BY DEF AskPage, Passed
<1>2. CASE Respond
  BY <1>1, <1>2, RefusedStep DEF Refused
<1>3. CASE SendMessageToPage(m, p) /\ Pend(m, p, Nil, 0)
  <2> DEFINE leaves == m.op = "loadFromURL"
  <2>1. Pended(m.id, p, Nil, 0)
    BY <1>3, PendPended DEF IInv, Passed
  <2>2. Queued(p, m.id, leaves) /\ leaves \in BOOLEAN /\ ("urls" \notin env => ~leaves)
    BY <1>3 DEF SendMessageToPage, Queued, Passed, Sane
  <2> HIDE DEF leaves
  <2>3. \A q \in Numbers : Open(q)' <=> Open(q)
    BY <1>1 DEF Open
  <2>4. web' \in [Numbers -> WebRec] /\ PagesHear' /\ WaitsForPage'
    BY <1>1, <2>1, <2>2, <2>3, MessageSent DEF Passed
  <2>5. QED
    BY <1>1, <2>1, <2>4, AskStep DEF Passed
<1>4. QED
  BY <1>2, <1>3 DEF AskPage

LEMMA UpdateStep ==
    ASSUME IInv, NEW m, Passed(m), NEW p \in Numbers, Open(p), m.op = "updatePlainWindow",
           m.property = "none" => m.data \in {"object", "blank", "method"},
           gtk_update_plainwin(m, p)
    PROVE  IInv'
<1>1. CASE Refused
  BY <1>1, RefusedStep DEF Passed
<1>2. CASE /\ m.property = "none" /\ m.data # "object"
           /\ Pend(m, p, Nil, 0)
           /\ UNCHANGED <<layouter, pages, web, told, visible, crash>>
  <2>1. "blank" \in env
    BY <1>2 DEF Passed, Sane
  <2>2. UNCHANGED <<env, cbs, layouter, pages, web, told, visible, crash>>
    BY <1>2 DEF Passed
  <2>3. Pended(m.id, p, Nil, 0)
    BY <1>2, PendPended DEF IInv, Passed
  <2>4. web' \in [Numbers -> WebRec] /\ PagesHear' /\ WaitsForPage'
    BY <2>1, <2>2 DEF IInv, TypeOK, PagesHear, WaitsForPage
  <2>5. QED
    BY <2>2, <2>3, <2>4, AskStep DEF Passed
<1>3. QED
  BY <1>1, <1>2 DEF gtk_update_plainwin

LEMMA DestroyStep ==
    ASSUME IInv, UNCHANGED <<env, cbs>>, NEW h, NEW kind, DestroyPage(h, kind)
    PROVE  IInv'
<1> DEFINE p == validate_handle(h)
<1>1. CASE p # 0 /\ h = Container(p) /\ pages[p].kind = kind
  <2>1. p \in Numbers
    BY <1>1, ValidHandle
  <2>2. /\ pages' = [pages EXCEPT ![p].closed = TRUE]
        /\ UNCHANGED <<env, cbs, layouter, web, pending, told, visible, crash>>
    BY <1>1 DEF DestroyPage, Respond
  <2> HIDE DEF p
  <2>3. QED
    BY <2>1, <2>2, CloseStep
<1>2. CASE ~(p # 0 /\ h = Container(p) /\ pages[p].kind = kind)
  <2>1. Refused
    BY <1>2 DEF DestroyPage
  <2>2. QED
    BY <2>1, RefusedStep
<1>3. QED
  BY <1>1, <1>2

\* The page that is made is one that was not.
LEMMA FirstUnmade ==
    ASSUME TypeOK, NEW q \in 1..PageBound[env], pages[q].kind = Nil
    PROVE  LET p == Min({x \in Numbers : pages[x].kind = Nil})
           IN  p \in Numbers /\ pages[p].kind = Nil
<1> DEFINE S == {x \in Numbers : pages[x].kind = Nil}
<1>1. S # {} /\ S \subseteq Nat
  <2>1. PageBound[env] \in 0..MaxPages
    BY PagesAssumption DEF TypeOK
  <2>2. q \in Numbers
    BY <2>1, Constants DEF Numbers
  <2>3. QED
    BY <2>2, Constants
<1> HIDE DEF S
<1>2. \E m \in S : \A k \in S : m <= k
  <2>1. \E m \in S : \A k \in S : ~(<<k, m>> \in OpToRel(<, Nat))
    BY <1>1, WFMin, NatLessThanWellFounded, Zenon
  <2>2. \A k, m \in Nat : k < m => <<k, m>> \in OpToRel(<, Nat)
    BY DEF OpToRel
  <2>3. \A k, m \in Nat : k < m \/ m <= k
    OBVIOUS
  <2>4. QED
    BY <1>1, <2>1, <2>2, <2>3, Zenon
<1>3. Min(S) \in S
  BY <1>2 DEF Min
<1>4. QED
  BY <1>3 DEF S

LEMMA CreateStep ==
    ASSUME IInv, NEW m, Passed(m), NEW kind \in {"plainwin", "widget"}, CreatePage(m, kind)
    PROVE  IInv'
<1> DEFINE p == Min({q \in Numbers : pages[q].kind = Nil})
           made == [kind |-> kind, name |-> m.element.name, group |-> m.element.group,
                    closed |-> FALSE, stack |-> <<>>]
           w == [NoWeb EXCEPT !.irId = m.id, !.loading = TRUE]
<1>1. CASE Refused
  BY <1>1, RefusedStep DEF Passed
<1>2. CASE /\ \E q \in 1..PageBound[env] : pages[q].kind = Nil
           /\ m.id # NoReturn
           /\ pages' = [pages EXCEPT ![p] = made]
           /\ web' = [web EXCEPT ![p] = w]
           /\ Pend(m, p, Nil, 0)
           /\ UNCHANGED <<layouter, told, visible, crash>>
  <2>1. p \in Numbers /\ pages[p].kind = Nil
    BY <1>2, FirstUnmade DEF IInv
  <2>2. made \in PageRec /\ made.kind = kind /\ ~made.closed /\ made.stack = <<>>
    <3>1. m.element \in Elements
      BY DEF Passed, Sane, MessageRec
    <3>2. QED
      BY <3>1, EmptySeq DEF Elements, PageRec
  <2>3. /\ w \in WebRec /\ w.info = Nil /\ w.irId = m.id /\ w.loading /\ ~w.old /\ w.queue = <<>>
    BY EmptySeq DEF NoWeb, WebRec, Passed
  <2> HIDE DEF p, made, w
  <2>4. /\ pages' \in [Numbers -> PageRec] /\ pages'[p] = made
        /\ \A q \in Numbers : q # p => pages'[q] = pages[q]
        /\ web' \in [Numbers -> WebRec] /\ web'[p] = w
        /\ \A q \in Numbers : q # p => web'[q] = web[q]
    BY <1>2, <2>1, <2>2, <2>3 DEF IInv, TypeOK
  <2>5. Pended(m.id, p, Nil, 0)
    BY <1>2, <2>1, PendPended DEF IInv, Passed
  <2>6. m.id \in Ids
    BY <1>2 DEF Passed
  <2>7. /\ \A x \in Waiting : x # m.id /\ x \in Waiting' /\ pending'[x] = pending[x]
        /\ \A x \in Waiting' : x \in Waiting \/ x = m.id
        /\ m.id \in Waiting' /\ pending'[m.id].page = p /\ pending'[m.id].owner = Nil
        /\ \A x \in Waiting : pending[x].page # p /\ pending[x].page \in Numbers
        /\ \A q \in Numbers : q # p => (Open(q)' <=> Open(q))
    <3>1. \A x \in Waiting : pending[x].page # p
      BY <2>1 DEF IInv, PagesMade
    <3>2. \A q \in Numbers : q # p => (Open(q)' <=> Open(q))
      BY <2>4 DEF Open
    <3>3. \A x \in Waiting : pending[x].page \in Numbers
      BY Facts DEF IInv
    <3>4. QED
      BY <2>1, <2>5, <2>6, <3>1, <3>2, <3>3, PendedWaits DEF Passed
  <2>8. UNCHANGED <<env, cbs, layouter, told, visible, crash>>
    BY <1>2 DEF Passed
  <2>9. TypeOK'
    BY <2>4, <2>5, <2>8 DEF IInv, TypeOK, Pended
  <2>10. \A q \in Numbers : Once(pages'[q].stack)
    <3>1. Once(<<>>)
      BY DEF Once
    <3>2. QED
      BY <2>2, <2>4, <3>1 DEF IInv
  <2>11. PagesMade'
    <3>1. kind # Nil
      BY Constants
    <3>2. QED
      BY <2>2, <2>4, <2>7, <2>8, <3>1 DEF IInv, PagesMade
  <2>12. PagesHear'
    <3>1. \A i \in 1..Len(w.queue) : FALSE
      BY <2>3
    <3>2. QED
      BY <2>3, <2>4, <2>8, <3>1, Constants DEF IInv, PagesHear
  <2>13. OwnerNamed'
    <3> SUFFICES ASSUME "pipelines" \notin env /\ "urls" \notin env, NEW q \in Numbers, Open(q)'
                 PROVE  /\ \A x \in Waiting' : pending'[x].page = q =>
                              pending'[x].owner \in {Nil, Top(pages'[q].stack)}
                        /\ \/ visible[q] = Top(pages'[q].stack)
                           \/ \E x \in Waiting' : /\ pending'[x].page = q
                                                  /\ pending'[x].owner = Top(pages'[q].stack)
      BY <2>8 DEF OwnerNamed
    <3>1. CASE q # p
      <4>1. /\ \A x \in Waiting :
                  pending[x].page = q => pending[x].owner \in {Nil, Top(pages[q].stack)}
            /\ \/ visible[q] = Top(pages[q].stack)
               \/ \E x \in Waiting : pending[x].page = q /\ pending[x].owner = Top(pages[q].stack)
        BY <2>7, <3>1 DEF IInv, OwnerNamed
      <4>2. QED
        BY <2>4, <2>7, <3>1, <4>1
    <3>2. CASE q = p
      <4>1. visible[p] = 0 /\ Top(<<>>) = 0
        BY <2>1 DEF IInv, PagesMade, Top
      <4>2. QED
        BY <2>2, <2>4, <2>7, <3>2, <4>1
    <3>3. QED
      BY <3>1, <3>2
  <2>14. OwnersTold'
    <3> SUFFICES ASSUME NEW q \in Numbers, Open(q)', NEW i \in 1..Len(pages'[q].stack) - 1
                 PROVE  LET d == pages'[q].stack[i]
                        IN \/ d \in told[q]
                           \/ \E x \in Waiting' : pending'[x].page = q /\ pending'[x].plain = d
                           \/ d = 0
      BY <2>8 DEF OwnersTold
    <3>1. CASE q # p
      <4>1. LET d == pages[q].stack[i]
            IN \/ d \in told[q]
               \/ \E x \in Waiting : pending[x].page = q /\ pending[x].plain = d
               \/ d = 0
        BY <2>4, <2>7, <3>1 DEF IInv, OwnersTold
      <4>2. QED
        BY <2>4, <2>7, <3>1, <4>1
    <3>2. CASE q = p
      BY <2>2, <2>4, <3>2
    <3>3. QED
      BY <3>1, <3>2
  <2>15. WaitsForPage'
    <3> SUFFICES ASSUME env \cap {"urls", "blank"} = {}, NEW x \in Waiting'
                 PROVE  LET y == pending'[x].page
                        IN  \/ y \in Numbers /\ y # p /\ ~Open(y)
                            \/ web'[y].loading /\ web'[y].irId = x
                            \/ \E i \in DOMAIN web'[y].queue : web'[y].queue[i].id = x
      BY <2>7, <2>8 DEF WaitsForPage
    <3>1. CASE x = m.id
      BY <2>3, <2>4, <2>7, <3>1
    <3>2. CASE x # m.id
      <4>1. x \in Waiting /\ pending[x].page # p /\ pending[x].page \in Numbers
            /\ pending'[x] = pending[x]
        BY <2>7, <3>2
      <4>2. \/ ~Open(pending[x].page)
            \/ web[pending[x].page].loading /\ web[pending[x].page].irId = x
            \/ \E i \in DOMAIN web[pending[x].page].queue : web[pending[x].page].queue[i].id = x
        BY <4>1 DEF IInv, WaitsForPage
      <4>3. QED
        BY <2>4, <2>7, <4>1, <4>2
    <3>3. QED
      BY <3>1, <3>2
  <2>16. NoCrash'
    BY <2>8 DEF IInv, NoCrash
  <2>17. QED
    BY <2>9, <2>10, <2>11, <2>12, <2>13, <2>14, <2>15, <2>16 DEF IInv
<1>3. QED
  BY <1>1, <1>2 DEF CreatePage

\* A page that a client names has a script that hears it, unless it leaves.
LEMMA KnownPage ==
    ASSUME IInv, NEW m, Sane(m), validate_handle(m.value) # 0
    PROVE  LET p == validate_handle(m.value)
           IN  p \in Numbers /\ Open(p) /\ ("urls" \notin env => web[p].info = "hears")
<1> DEFINE p == validate_handle(m.value)
<1>1. p \in Numbers /\ Open(p) /\ p \in Created
  BY ValidHandle, NamedPage
<1> HIDE DEF p
<1>2. "urls" \notin env => web[p].info = "hears"
  BY <1>1 DEF IInv, PagesHear, Created
<1>3. QED
  BY <1>1, <1>2 DEF p

LEMMA ContentStep ==
    ASSUME IInv, NEW m, Passed(m), NEW out, LetThrough(m, out), Call(m, out),
           out.call \in OnContentCalls, validate_handle(out.page) # 0
    PROVE  IInv'
<1> DEFINE p == validate_handle(out.page)
<1>1. p \in Numbers /\ Open(p) /\ ("urls" \notin env => web[p].info = "hears")
  BY KnownPage DEF Passed, LetThrough
<1>2. out.call \in cbs /\ ~Reads(m, out.call) /\ p # 0
  BY DEF LetThrough
<1>3. \/ out.call \in LoadCalls /\ gtk_load_or_write(m, p)
      \/ out.call = "register_crtn" /\ gtk_register_crtn(m, p)
      \/ out.call = "revoke_crtn" /\ gtk_revoke_crtn(m, p)
      \/ AskPage(m, p)
  BY <1>2 DEF Call, OnContentCalls, LoadCalls
<1>4. CASE out.call \in LoadCalls /\ gtk_load_or_write(m, p)
  BY <1>1, <1>4, LoadStep DEF LetThrough
<1>5. CASE out.call = "register_crtn" /\ gtk_register_crtn(m, p)
  <2>1. NumberOf(m) \in Nat
    BY <1>5 DEF LetThrough, Passed, Sane
  <2>2. QED
    BY <1>1, <1>5, <2>1, RegisterStep DEF Passed
<1>6. CASE out.call = "revoke_crtn" /\ gtk_revoke_crtn(m, p)
  <2>1. NumberOf(m) \in Nat /\ NumberOf(m) # 0
    BY <1>6 DEF LetThrough, Passed, Sane
  <2>2. QED
    BY <1>1, <1>6, <2>1, RevokeStep DEF Passed
<1>7. CASE AskPage(m, p)
  BY <1>1, <1>7, AskPageStep
<1>8. QED
  BY <1>3, <1>4, <1>5, <1>6, <1>7

LEMMA CallStep ==
    ASSUME IInv, NEW m, Passed(m), NEW out, LetThrough(m, out), Call(m, out)
    PROVE  IInv'
<1> DEFINE p == validate_handle(out.page)
<1>1. out.call \in cbs /\ ~Reads(m, out.call) /\ out.call \in OnContentCalls \cup OtherCalls
  BY DEF LetThrough
<1>2. UNCHANGED <<env, cbs>>
  BY DEF Passed
<1>3. CASE Refused
  BY <1>2, <1>3, RefusedStep
<1>4. CASE out.call \in OnContentCalls
  <2>1. CASE p = 0
    BY <1>1, <1>3, <1>4, <2>1 DEF Call, OnContentCalls
  <2>2. CASE p # 0
    BY <1>4, <2>2, ContentStep
  <2>3. QED
    BY <2>1, <2>2
<1>5. CASE out.call = "set_page_groups"
  <2>1. /\ layouter' \in {layouter, TRUE}
        /\ UNCHANGED <<env, cbs, web, pending, pages, told, visible, crash>>
    BY <1>1, <1>2, <1>5 DEF Call, Respond
  <2>2. QED
    BY <2>1, StillStep DEF IInv, TypeOK, Open, NoCrash
<1>6. CASE out.call \in {"add_page_groups", "remove_page_group", "update_widget"}
  BY <1>1, <1>3, <1>6 DEF Call
<1>7. CASE out.call = "create_plainwin"
  <2>1. CreatePage(m, "plainwin")
    BY <1>1, <1>7 DEF Call
  <2>2. QED
    BY <2>1, CreateStep
<1>8. CASE out.call = "create_widget"
  <2>1. CreatePage(m, "widget")
    BY <1>1, <1>8 DEF Call
  <2>2. QED
    BY <2>1, CreateStep
<1>9. CASE out.call = "update_plainwin"
  <2>1. Refused \/ (p # 0 /\ gtk_update_plainwin(m, p))
    BY <1>1, <1>9 DEF Call
  <2>2. CASE p # 0 /\ gtk_update_plainwin(m, p)
    <3>1. p \in Numbers /\ Open(p)
      BY <2>2, ValidHandle
    <3>2. QED
      BY <1>9, <2>2, <3>1, UpdateStep DEF LetThrough
  <2>3. QED
    BY <1>3, <2>1, <2>2
<1>10. CASE out.call = "destroy_plainwin"
  <2>1. DestroyPage(out.page, "plainwin")
    BY <1>1, <1>10 DEF Call
  <2>2. QED
    BY <1>2, <2>1, DestroyStep
<1>11. CASE out.call = "destroy_widget"
  <2>1. DestroyPage(out.page, "widget")
    BY <1>1, <1>11 DEF Call
  <2>2. QED
    BY <1>2, <2>1, DestroyStep
<1>12. CASE out.call = "call_method_in_session"
  <2>1. mg_call_method_in_session(m)
    BY <1>1, <1>12 DEF Call
  <2>2. CASE m.target = "workspace" /\ m.etype = "void" /\ Crashes("element")
    <3>1. "blank" \in env
      BY <1>12, <2>2 DEF LetThrough, Passed, Sane, Blank
    <3>2. UNCHANGED <<env, cbs, layouter, pages, web, pending, told, visible>>
      BY <1>2, <2>2 DEF Crashes
    <3>3. QED
      BY <3>1, <3>2, StillStep DEF IInv, TypeOK, Open
  <2>3. QED
    BY <1>3, <2>1, <2>2 DEF mg_call_method_in_session
<1>13. QED
  BY <1>1, <1>4, <1>5, <1>6, <1>7, <1>8, <1>9, <1>10, <1>11, <1>12 DEF OtherCalls

LEMMA RequestStep ==
    ASSUME IInv, NEW n \in Messages, NEW r \in Ids \cup {NoReturn}, Request([n EXCEPT !.id = r])
    PROVE  IInv'
<1> DEFINE m == [n EXCEPT !.id = r]
<1>1. Sane(m) /\ m.id = r
  BY MessageSane
<1> HIDE DEF m
<1>2. /\ "pipelines" \in env \/ Idle
      /\ m.id \in Ids => pending[m.id] = Nil
      /\ m.id = NoReturn => MayBeSilent(m)
      /\ UNCHANGED <<env, cbs>>
      /\ \E found \in Found(m) :
            LET out == find_request_handler(cbs, m, found)
            IN IF out.call = Nil THEN Refused ELSE Call(m, out)
  BY DEF Request, m
<1>3. Passed(m)
  BY <1>1, <1>2 DEF Passed
<1>4. PICK found \in Found(m) :
         LET out == find_request_handler(cbs, m, found)
         IN IF out.call = Nil THEN Refused ELSE Call(m, out)
  BY <1>2
<1> DEFINE out == find_request_handler(cbs, m, found)
<1>5. CASE out.call = Nil
  <2>1. Refused
    BY <1>4, <1>5
  <2>2. QED
    BY <1>2, <2>1, RefusedStep
<1>6. CASE out.call # Nil
  <2>1. LetThrough(m, out)
    BY <1>1, <1>6, RequestLetThrough DEF IInv, TypeOK
  <2>2. Call(m, out)
    BY <1>4, <1>6
  <2> HIDE DEF out
  <2>3. QED
    BY <1>3, <2>1, <2>2, CallStep
<1>7. QED
  BY <1>5, <1>6

LEMMA NextIInv == IInv /\ [Next]_vars => IInv'
<1> SUFFICES ASSUME IInv, [Next]_vars
             PROVE  IInv'
  OBVIOUS
<1>1. CASE \E m \in Messages, r \in Ids \cup {NoReturn} : Request([m EXCEPT !.id = r])
  BY <1>1, RequestStep
<1>2. ASSUME NEW p \in Numbers, WindowObjectCleared(p)
      PROVE  IInv'
  BY <1>2, ClearedStep
<1>3. ASSUME NEW p \in Numbers, DocumentLoaded(p)
      PROVE  IInv'
  BY <1>3, LoadedStep
<1>4. ASSUME NEW p \in Numbers, DestroyedNotify(p)
      PROVE  IInv'
  BY <1>4, DestroyedStep
<1>5. ASSUME NEW p \in Numbers, MessageHandled(p)
      PROVE  IInv'
  BY <1>5, HandledStep
<1>6. ASSUME NEW p \in Numbers, UserCloses(p)
      PROVE  IInv'
  BY <1>6, UserClosesStep
<1>7. CASE UNCHANGED vars
  BY <1>7, StillStep DEF vars, IInv, TypeOK, Open, NoCrash
<1>8. QED
  BY <1>1, <1>2, <1>3, <1>4, <1>5, <1>6, <1>7 DEF Next

-----------------------------------------------------------------------------
(***************************************************************************)
(* Theorems.                                                               *)
(***************************************************************************)
\* The invariant holds in every state: types, the requests that wait, the
\* messages on their way, the stacks of owners and what clients were told
\* of them.
THEOREM Invariance == Spec => []IInv
BY InitIInv, NextIInv, PTL DEF Spec

\* Whatever a client sends, a handler of endpoint.c calls only callbacks that
\* the renderer has, with what they read; the exceptions are the two requests
\* that "blank" stands for.
THEOREM NeverCrashes == Spec => []NoCrash
<1>1. IInv => NoCrash
  BY DEF IInv
<1>2. QED
  BY <1>1, Invariance, PTL

\* A request that waits for a page is on its way to it or the page is loading
\* for it: the reply, and with it gtk_pend_response's entry, is not forgotten.
THEOREM WaitsForItsPage == Spec => []WaitsForPage
<1>1. IInv => WaitsForPage
  BY DEF IInv
<1>2. QED
  BY <1>1, Invariance, PTL

\* Coroutines learn that another one took their page (purc_page_ostack_register
\* and finish_response of PurcmcCallbacks.c), and a client that waits for its
\* answers knows the owner of every page.
THEOREM OwnersAreTold == Spec => []OwnersSound
<1>1. ASSUME IInv
      PROVE  VisibleIsTop
  <2> SUFFICES ASSUME "pipelines" \notin env, "urls" \notin env, Idle,
                      NEW p \in Numbers, Open(p)
               PROVE  visible[p] = Top(pages[p].stack)
    BY DEF VisibleIsTop
  <2>1. \A r \in Waiting : pending[r].page # p
    BY DEF Idle
  <2>2. QED
    BY <1>1, <2>1 DEF IInv, OwnerNamed
<1>2. IInv => OwnersSound
  BY <1>1 DEF IInv, OwnersSound
<1>3. QED
  BY <1>2, Invariance, PTL

=============================================================================
