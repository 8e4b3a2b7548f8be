--------------------------- MODULE RendererProofs ---------------------------
(***************************************************************************)
(* Proofs about Renderer.                                                  *)
(***************************************************************************)
EXTENDS Renderer, TLAPS, SequenceTheorems

(***************************************************************************)
(* The inductive invariant.  Next to what is proved, it says what an entry *)
(* of pending_responses refers to, and what a session is known by.         *)
(***************************************************************************)
\* What is pending is an unanswered request under its own identifier.
PendingSound ==
    \A s \in Slots, r \in Ids :
        LET q == sessions[s].pending[r]
        IN  q # 0 => /\ Live(s)
                     /\ r # NoReturn
                     /\ q <= Len(requests)
                     /\ requests[q].id = r
                     /\ requests[q].answers = <<>>

\* No two sessions are to answer the same request.
PendingOnce ==
    \A s, t \in Slots, r \in Ids :
        sessions[s].pending[r] # 0 /\ sessions[s].pending[r] = sessions[t].pending[r]
            => s = t

\* Pages reply to requests that were made.
RepliesKnown ==
    /\ \A v \in Views : views[v].loading <= Len(requests)
    /\ \A f \in flights : f.req <= Len(requests)

\* An endpoint refers to a session of its own name.
SessionsKnown ==
    \A n \in Names : endpoints[n].sess # None =>
        endpoints[n].conn # 0 /\ sessions[endpoints[n].sess].name = n

IInv ==
    /\ TypeOK /\ AnsweredOnce /\ HandlesOpen
    /\ PendingSound /\ PendingOnce /\ RepliesKnown /\ SessionsKnown

-----------------------------------------------------------------------------
(***************************************************************************)
(* The history of requests.                                                *)
(***************************************************************************)
Answer == [to : 1..MaxConns, reply : 1..MaxRequests]

\* The requests r1 are those of r0 with at most one answer more, to request q.
AnswersOne(r0, r1, q, to, reply) ==
    /\ r1 \in Seq(RequestType)
    /\ Len(r1) = Len(r0)
    /\ \A i \in 1..Len(r0) :
          /\ r1[i].conn = r0[i].conn /\ r1[i].id = r0[i].id /\ r1[i].view = r0[i].view
          /\ \/ r1[i].answers = r0[i].answers
             \/ /\ i = q /\ to # 0
                /\ r1[i].answers = Append(r0[i].answers, [to |-> to, reply |-> reply])

(* GiveAnswer answers the request it is given and no other. *)
LEMMA GiveAnswerOne ==
    ASSUME requests \in Seq(RequestType), NEW q \in 1..Len(requests),
           NEW to \in 0..MaxConns, NEW reply \in 1..MaxRequests
    PROVE  AnswersOne(requests, GiveAnswer(q, to, reply), q, to, reply)
<1> DEFINE a == [to |-> to, reply |-> reply]
           x == [requests[q] EXCEPT !.answers = Append(@, a)]
<1>0. MaxConns \in Nat /\ MaxRequests \in Nat
  BY RendererAssumption
<1>1. CASE to = 0
  BY <1>1 DEF GiveAnswer, AnswersOne
<1>2. CASE to # 0
  <2>1. a \in Answer
    BY <1>0, <1>2 DEF Answer
  <2>2. requests[q] \in RequestType
    OBVIOUS
  <2>3. Append(requests[q].answers, a) \in Seq(Answer)
    BY <2>1, <2>2, AppendProperties DEF RequestType, Answer
  <2>4. /\ x \in RequestType
        /\ x.conn = requests[q].conn /\ x.id = requests[q].id /\ x.view = requests[q].view
        /\ x.answers = Append(requests[q].answers, a)
    BY <2>2, <2>3 DEF RequestType, Answer
  <2> HIDE DEF x
  <2>5. GiveAnswer(q, to, reply) = [requests EXCEPT ![q] = x]
    BY <1>2 DEF GiveAnswer, x
  <2>6. /\ [requests EXCEPT ![q] = x] \in Seq(RequestType)
        /\ Len([requests EXCEPT ![q] = x]) = Len(requests)
        /\ \A i \in 1..Len(requests) :
              [requests EXCEPT ![q] = x][i] = IF i = q THEN x ELSE requests[i]
    BY <2>4, ExceptSeq
  <2>7. QED
    BY <1>2, <2>4, <2>5, <2>6 DEF AnswersOne
<1>3. QED
  BY <1>1, <1>2

(* A new request is the last. *)
LEMMA NewRequestLast ==
    ASSUME requests \in Seq(RequestType),
           NEW c \in 1..MaxConns, NEW r \in Ids, NEW v \in Views,
           NEW R, R = Append(requests, NewRequest(c, r, v))
    PROVE  /\ R \in Seq(RequestType)
           /\ Len(R) = Len(requests) + 1
           /\ \A i \in 1..Len(requests) : R[i] = requests[i]
           /\ R[Len(requests) + 1] = NewRequest(c, r, v)
<1>1. NewRequest(c, r, v) \in RequestType
  BY EmptySeq DEF NewRequest, RequestType
<1>2. QED
  BY <1>1, AppendProperties

-----------------------------------------------------------------------------
(***************************************************************************)
(* Steps that leave sessions, views and requests alone.                    *)
(***************************************************************************)
LEMMA QuietStep ==
    ASSUME IInv, TypeOK',
           UNCHANGED <<endpoints, sessions, views, flights, requests>>
    PROVE  IInv'
BY DEF IInv, AnsweredOnce, HandlesOpen, PendingSound, PendingOnce, RepliesKnown,
       SessionsKnown, Live, Opened

SessionRec ==
    [name : Names \cup {None}, handles : SUBSET Views, pending : [Ids -> 0..MaxRequests]]
ViewRec ==
    [state : {"none", "open", "closing"}, sess : Slots \cup {None},
     page : Pages \cup {None}, loading : 0..MaxRequests, conn : 0..MaxConns]

(* TypeOK of the successor, from the variables that a step may change. *)
LEMMA TypeOfStep ==
    ASSUME TypeOK, UNCHANGED env,
           endpoints' \in [Names -> [conn : 0..MaxConns, sess : Slots \cup {None}]],
           conns' \in 0..MaxConns,
           sessions' \in [Slots -> SessionRec],
           owners' \in [Apps -> [Pages -> Views \cup {None}]],
           layouter' \in [Apps -> BOOLEAN],
           views' \in [Views -> ViewRec],
           flights' \subseteq [view : Views, sess : Slots, req : 1..MaxRequests],
           requests' \in Seq(RequestType), Len(requests') <= MaxRequests,
           strays' \subseteq 1..MaxConns,
           crashed' \in BOOLEAN
    PROVE  TypeOK'
BY DEF TypeOK, SessionRec, ViewRec

(* The parts of TypeOK under the names used here. *)
LEMMA Types ==
    ASSUME TypeOK
    PROVE  /\ env \in Environments
           /\ endpoints \in [Names -> [conn : 0..MaxConns, sess : Slots \cup {None}]]
           /\ conns \in 0..MaxConns
           /\ sessions \in [Slots -> SessionRec]
           /\ owners \in [Apps -> [Pages -> Views \cup {None}]]
           /\ layouter \in [Apps -> BOOLEAN]
           /\ views \in [Views -> ViewRec]
           /\ flights \subseteq [view : Views, sess : Slots, req : 1..MaxRequests]
           /\ requests \in Seq(RequestType) /\ Len(requests) <= MaxRequests
           /\ strays \subseteq 1..MaxConns
           /\ crashed \in BOOLEAN
BY DEF TypeOK, SessionRec, ViewRec

LEMMA FreeTypes ==
    /\ FreeSession \in SessionRec
    /\ FreeView \in ViewRec
    /\ \A n \in Names : [FreeSession EXCEPT !.name = n] \in SessionRec
BY RendererAssumption DEF FreeSession, FreeView, SessionRec, ViewRec

LEMMA SessionSteps ==
    ASSUME IInv, NEW n \in Names,
           \/ \E s \in Slots : StartSession(n, s)
           \/ RestartSession(n) \/ EndSession(n) \/ DelEndpoint(n)
    PROVE  IInv'
<1> USE DEF IInv
<1>0. None \notin Names \cup Slots \cup Views /\ AppOf \in [Names -> Apps] /\ MaxConns \in Nat
  BY RendererAssumption
<1>1. CASE \E s \in Slots : StartSession(n, s)
  <2>1. PICK s \in Slots : StartSession(n, s)
    BY <1>1
  <2>2. TypeOK'
    <3>1. /\ sessions' \in [Slots -> SessionRec]
          /\ conns' \in 0..MaxConns
          /\ endpoints' \in [Names -> [conn : 0..MaxConns, sess : Slots \cup {None}]]
      BY <1>0, <2>1, Types, FreeTypes DEF StartSession
    <3>2. QED
      BY <2>1, <3>1, Types, TypeOfStep DEF StartSession
  <2>3. \A t \in Slots : t # s => sessions'[t] = sessions[t]
    BY <2>1 DEF StartSession, TypeOK
  <2>4. /\ sessions'[s].name = n /\ sessions'[s].handles = {}
        /\ sessions'[s].pending = [r \in Ids |-> 0]
    BY <2>1 DEF StartSession, TypeOK, FreeSession
  <2>5. UNCHANGED <<views, flights, requests>>
    BY <2>1 DEF StartSession
  <2>6. HandlesOpen'
    BY <1>0, <2>3, <2>4, <2>5 DEF HandlesOpen, Live, Opened
  <2>7. PendingSound'
    BY <1>0, <2>3, <2>4, <2>5 DEF PendingSound, Live
  <2>8. PendingOnce'
    BY <1>0, <2>3, <2>4 DEF PendingOnce
  <2>9. SessionsKnown'
    BY <1>0, <2>1, <2>3, <2>4 DEF StartSession, SessionsKnown, TypeOK, Live
  <2>10. QED
    BY <2>2, <2>5, <2>6, <2>7, <2>8, <2>9 DEF AnsweredOnce, RepliesKnown
<1>2. CASE RestartSession(n)
  BY <1>0, <1>2 DEF RestartSession, TypeOK, AnsweredOnce, HandlesOpen, PendingSound, PendingOnce,
     RepliesKnown, SessionsKnown, Live, Opened
<1>3. CASE EndSession(n) \/ DelEndpoint(n)
  <2> DEFINE s == endpoints[n].sess
  <2>1. /\ env' = env /\ conns' = conns /\ owners' = owners /\ crashed' = crashed
        /\ flights' = flights /\ requests' = requests /\ strays' = strays
        /\ \E c \in {0, endpoints[n].conn} :
              endpoints' = [endpoints EXCEPT ![n] = [conn |-> c, sess |-> None]]
    BY <1>3 DEF EndSession, DelEndpoint, TypeOK
  <2>2. CASE s = None
    <3>1. UNCHANGED <<sessions, views, layouter>>
      BY <1>3, <2>2 DEF EndSession, DelEndpoint
    <3>2. QED
      <4>1. TypeOK'
        BY <1>0, <2>1, <3>1, Types, TypeOfStep
      <4>2. SessionsKnown'
        BY <2>1, <3>1, Types DEF SessionsKnown
      <4>3. QED
        BY <2>1, <3>1, <4>1, <4>2 DEF AnsweredOnce, HandlesOpen, PendingSound, PendingOnce,
           RepliesKnown, Live, Opened
  <2>3. CASE s # None
    <3>1. RemoveSession(s) /\ s \in Slots
      BY <1>3, <2>3 DEF EndSession, DelEndpoint, TypeOK
    <3>2. sessions[s].name = n
      BY <2>3 DEF SessionsKnown
    <3>3. /\ \A t \in Slots : t # s => sessions'[t] = sessions[t]
          /\ sessions'[s] = FreeSession
      BY <3>1 DEF RemoveSession, TypeOK
    <3>4. \A v \in Views :
             /\ views'[v].sess = views[v].sess /\ views'[v].loading = views[v].loading
             /\ Opened(v) => views'[v].state # "none"
      BY <3>1 DEF RemoveSession, TypeOK, Opened
    <3>5. TypeOK'
      <4>1. sessions' \in [Slots -> SessionRec]
        BY <3>1, Types, FreeTypes DEF RemoveSession
      <4>2. views' \in [Views -> ViewRec]
        <5>1. \A v \in Views : [views[v] EXCEPT !.state = "closing"] \in ViewRec
          BY Types DEF ViewRec
        <5>2. QED
          BY <3>1, <5>1, Types DEF RemoveSession
      <4>3. layouter' \in [Apps -> BOOLEAN]
        BY <3>1, Types DEF RemoveSession
      <4>4. endpoints' \in [Names -> [conn : 0..MaxConns, sess : Slots \cup {None}]]
        BY <1>0, <2>1, Types
      <4>5. QED
        BY <2>1, <4>1, <4>2, <4>3, <4>4, Types, TypeOfStep
    <3>6. HandlesOpen'
      <4> SUFFICES ASSUME NEW t \in Slots, NEW v \in sessions'[t].handles
                   PROVE  Live(t)' /\ Opened(v)' /\ views'[v].sess = t
        BY DEF HandlesOpen
      <4>1. t # s
        BY <3>3 DEF FreeSession
      <4>2. v \in sessions[t].handles /\ sessions'[t] = sessions[t]
        BY <3>3, <4>1
      <4>3. v \in Views
        BY <4>2, Types DEF SessionRec
      <4>4. QED
        BY <3>4, <4>2, <4>3 DEF HandlesOpen, Live, Opened
    <3>7. PendingSound'
      BY <1>0, <2>1, <3>3 DEF PendingSound, Live, FreeSession
    <3>8. PendingOnce'
      BY <1>0, <3>3 DEF PendingOnce, FreeSession
    <3>9. SessionsKnown'
      BY <1>0, <2>1, <3>2, <3>3, Types DEF SessionsKnown
    <3>10. QED
      BY <2>1, <3>4, <3>5, <3>6, <3>7, <3>8, <3>9 DEF AnsweredOnce, RepliesKnown
  <2>4. QED
    BY <2>2, <2>3
<1>4. QED
  BY <1>1, <1>2, <1>3

LEMMA EndpointOfType ==
    ASSUME TypeOK, NEW s \in Slots, Live(s)
    PROVE  EndpointOf(s) \in 0..MaxConns
BY Types DEF Live, EndpointOf, SessionRec

LEMMA QuietSteps ==
    ASSUME IInv,
           \/ \E n \in Names, r \in Ids : \/ RequestWithoutSession(n, r)
                                         \/ SpecialPlainWindow(n, r)
                                         \/ SetPageGroups(n, r)
           \/ \E v \in Views : PageEvent(v)
    PROVE  IInv'
<1> USE DEF IInv
<1>1. UNCHANGED <<env, conns, owners, endpoints, sessions, views, flights, requests>>
  BY DEF RequestWithoutSession, Crash, SpecialPlainWindow, SetPageGroups, PageEvent, AnswerNow
<1>2. crashed' \in BOOLEAN
  BY Types DEF RequestWithoutSession, Crash, SpecialPlainWindow, SetPageGroups, PageEvent
<1>3. layouter' \in [Apps -> BOOLEAN]
  <2>1. CASE \E n \in Names, r \in Ids : SetPageGroups(n, r)
    <3>1. PICK n \in Names, set \in BOOLEAN :
             layouter' = [layouter EXCEPT ![AppOf[n]] = @ \/ set]
      BY <2>1 DEF SetPageGroups
    <3>2. (layouter[AppOf[n]] \/ set) \in BOOLEAN
      OBVIOUS
    <3>3. QED
      BY <3>1, <3>2, Types
  <2>2. CASE ~\E n \in Names, r \in Ids : SetPageGroups(n, r)
    BY <2>2, Types DEF RequestWithoutSession, Crash, SpecialPlainWindow, PageEvent
  <2>3. QED
    BY <2>1, <2>2
<1>4. strays' \subseteq 1..MaxConns
  <2>1. CASE \E v \in Views : PageEvent(v)
    <3>1. PICK v \in Views : PageEvent(v)
      BY <2>1
    <3>2. CASE Freed(views[v].sess)
      BY <3>1, <3>2, Types DEF PageEvent
    <3>3. CASE ~Freed(views[v].sess)
      <4>1. views[v].sess \in Slots
        BY <3>3, Types DEF Freed, Live, ViewRec
      <4>2. EndpointOf(views[v].sess) \in 0..MaxConns
        BY <3>3, <4>1, EndpointOfType DEF Freed
      <4>3. QED
        BY <3>1, <3>3, <4>2, Types, RendererAssumption DEF PageEvent, PostEvent
    <3>4. QED
      BY <3>2, <3>3
  <2>2. CASE ~\E v \in Views : PageEvent(v)
    BY <2>2, Types DEF RequestWithoutSession, Crash, SpecialPlainWindow, SetPageGroups
  <2>3. QED
    BY <2>1, <2>2
<1>5. TypeOK'
  BY <1>1, <1>2, <1>3, <1>4, Types, TypeOfStep
<1>6. QED
  BY <1>1, <1>5, QuietStep

(***************************************************************************)
(* Steps that ask for a window to be closed.                               *)
(***************************************************************************)
LEMMA ClosingStep ==
    ASSUME IInv, NEW V \in SUBSET {v \in Views : Opened(v)},
           views' = [v \in Views |->
                        IF v \in V THEN [views[v] EXCEPT !.state = "closing"] ELSE views[v]],
           UNCHANGED <<env, endpoints, conns, sessions, owners, layouter, flights, requests,
                       strays, crashed>>
    PROVE  IInv'
<1> USE DEF IInv
<1>1. views' \in [Views -> ViewRec]
  <2>1. \A v \in Views : [views[v] EXCEPT !.state = "closing"] \in ViewRec
    BY Types DEF ViewRec
  <2>2. QED
    BY <2>1, Types
<1>2. TypeOK'
  BY <1>1, Types, TypeOfStep
<1>3. \A v \in Views :
         /\ views'[v].sess = views[v].sess /\ views'[v].loading = views[v].loading
         /\ Opened(v) => views'[v].state # "none"
  BY Types DEF Opened, ViewRec
<1>4. HandlesOpen'
  <2> SUFFICES ASSUME NEW t \in Slots, NEW v \in sessions[t].handles
               PROVE  Live(t)' /\ Opened(v)' /\ views'[v].sess = t
    BY DEF HandlesOpen
  <2>1. v \in Views
    BY Types DEF SessionRec
  <2>2. QED
    BY <1>3, <2>1 DEF HandlesOpen, Live, Opened
<1>5. QED
  BY <1>2, <1>3, <1>4
     DEF AnsweredOnce, PendingSound, PendingOnce, RepliesKnown, SessionsKnown, Live

LEMMA ClosingSteps ==
    ASSUME IInv, NEW v \in Views,
           UserCloses(v) \/ \E n \in Names, r \in Ids : DestroyPlainWindow(n, r, v)
    PROVE  IInv'
<1> USE DEF IInv
<1>1. CASE UserCloses(v)
  <2>1. Opened(v)
    BY <1>1 DEF UserCloses, Opened
  <2>2. views' = [w \in Views |->
                     IF w \in {v} THEN [views[w] EXCEPT !.state = "closing"] ELSE views[w]]
    BY <1>1, Types DEF UserCloses
  <2>3. QED
    BY <1>1, <2>1, <2>2, ClosingStep DEF UserCloses
<1>2. CASE \E n \in Names, r \in Ids : DestroyPlainWindow(n, r, v)
  <2> PICK n \in Names, r \in Ids : DestroyPlainWindow(n, r, v)
    BY <1>2
  <2>1. endpoints[n].sess \in Slots
    BY Types DEF DestroyPlainWindow
  <2>2. PICK V \in {{}, {v}} :
           /\ \A w \in V : w \in sessions[endpoints[n].sess].handles
           /\ views' = [w \in Views |->
                 IF w \in V THEN [views[w] EXCEPT !.state = "closing"] ELSE views[w]]
    <3>1. CASE v \in sessions[endpoints[n].sess].handles
      BY <3>1, Types DEF DestroyPlainWindow, DestroyPlainwin
    <3>2. CASE v \notin sessions[endpoints[n].sess].handles
      BY <3>2, Types DEF DestroyPlainWindow, DestroyPlainwin
    <3>3. QED
      BY <3>1, <3>2
  <2>3. V \in SUBSET {w \in Views : Opened(w)}
    BY <2>1, <2>2 DEF HandlesOpen
  <2>4. QED
    BY <2>2, <2>3, ClosingStep DEF DestroyPlainWindow, AnswerNow
<1>3. QED
  BY <1>1, <1>2

-----------------------------------------------------------------------------
(***************************************************************************)
(* Steps that pend a request.                                              *)
(***************************************************************************)
\* The request q of connection c is appended and pended in session s.
Pended(s, c, r, v) ==
    /\ requests' = Append(requests, NewRequest(c, r, v))
    /\ \A t \in Slots : t # s => sessions'[t] = sessions[t]
    /\ sessions'[s].name = sessions[s].name
    /\ sessions'[s].pending = PendResponse(sessions[s].pending, r, Len(requests) + 1)

LEMMA PendResponseType ==
    ASSUME NEW p \in [Ids -> 0..MaxRequests], NEW r \in Ids, NEW q \in 1..MaxRequests
    PROVE  /\ PendResponse(p, r, q) \in [Ids -> 0..MaxRequests]
           /\ \A i \in Ids : \/ PendResponse(p, r, q)[i] = p[i]
                             \/ i = r /\ r # NoReturn /\ PendResponse(p, r, q)[i] = q
BY RendererAssumption DEF PendResponse

LEMMA PendedFacts ==
    ASSUME IInv, NEW s \in Slots, Live(s), NEW c \in 1..MaxConns, NEW r \in Ids,
           NEW v \in Views, Pended(s, c, r, v), Len(requests) < MaxRequests
    PROVE  /\ requests' \in Seq(RequestType)
           /\ Len(requests') = Len(requests) + 1
           /\ \A i \in 1..Len(requests) : requests'[i] = requests[i]
           /\ requests'[Len(requests) + 1] = NewRequest(c, r, v)
           /\ \A t \in Slots, i \in Ids :
                 /\ sessions[t].pending[i] \in 0..MaxRequests
                 /\ \/ sessions'[t].pending[i] = sessions[t].pending[i]
                    \/ /\ t = s /\ i = r /\ r # NoReturn
                       /\ sessions'[t].pending[i] = Len(requests) + 1
           /\ \A t \in Slots : sessions'[t].name = sessions[t].name
<1> USE DEF IInv
<1> DEFINE N == Len(requests) + 1
<1>1. /\ requests \in Seq(RequestType) /\ Len(requests) \in Nat
      /\ MaxRequests \in Nat
  BY Types, LenProperties, RendererAssumption
<1>2. /\ requests' \in Seq(RequestType) /\ Len(requests') = N
      /\ \A i \in 1..Len(requests) : requests'[i] = requests[i]
      /\ requests'[N] = NewRequest(c, r, v)
  BY <1>1, NewRequestLast DEF Pended
<1>3. \A t \in Slots, i \in Ids :
         /\ sessions[t].pending[i] \in 0..MaxRequests
         /\ \/ sessions'[t].pending[i] = sessions[t].pending[i]
            \/ t = s /\ i = r /\ r # NoReturn /\ sessions'[t].pending[i] = N
  <2>1. N \in 1..MaxRequests
    BY <1>1
  <2> HIDE DEF N
  <2>2. \A t \in Slots : sessions[t].pending \in [Ids -> 0..MaxRequests]
    BY Types DEF SessionRec
  <2>3. \A t \in Slots : t # s => sessions'[t] = sessions[t]
    BY DEF Pended
  <2>4. sessions'[s].pending = PendResponse(sessions[s].pending, r, N)
    BY DEF Pended, N
  <2>5. \A i \in Ids : \/ sessions'[s].pending[i] = sessions[s].pending[i]
                       \/ i = r /\ r # NoReturn /\ sessions'[s].pending[i] = N
    BY <2>1, <2>2, <2>4, PendResponseType
  <2>6. QED
    BY <2>2, <2>3, <2>5
<1>4. \A t \in Slots : sessions'[t].name = sessions[t].name
  BY DEF Pended
<1>5. QED
  BY <1>2, <1>3, <1>4

LEMMA PendedSound ==
    ASSUME IInv, NEW s \in Slots, Live(s), NEW c \in 1..MaxConns, NEW r \in Ids,
           NEW v \in Views, Pended(s, c, r, v), Len(requests) < MaxRequests
    PROVE  /\ requests' \in Seq(RequestType)
           /\ Len(requests') = Len(requests) + 1
           /\ AnsweredOnce' /\ PendingSound' /\ PendingOnce'
<1> USE DEF IInv
<1> DEFINE N == Len(requests) + 1
<1>1. /\ requests \in Seq(RequestType) /\ Len(requests) \in Nat
      /\ MaxRequests \in Nat
  BY Types, LenProperties, RendererAssumption
<1>2. /\ requests' \in Seq(RequestType) /\ Len(requests') = N
      /\ \A i \in 1..Len(requests) : requests'[i] = requests[i]
      /\ requests'[N] = NewRequest(c, r, v)
  BY PendedFacts
<1>3. requests'[N].id = r /\ requests'[N].answers = <<>>
  BY <1>2 DEF NewRequest
<1>4. \A t \in Slots, i \in Ids :
         /\ sessions[t].pending[i] \in 0..MaxRequests
         /\ \/ sessions'[t].pending[i] = sessions[t].pending[i]
            \/ t = s /\ i = r /\ r # NoReturn /\ sessions'[t].pending[i] = N
  BY PendedFacts
<1>5. \A t \in Slots : sessions'[t].name = sessions[t].name
  BY DEF Pended
<1> HIDE DEF N
<1>6. N = Len(requests) + 1
  BY DEF N
<1>7. AnsweredOnce'
  <2> SUFFICES ASSUME NEW i \in 1..N
               PROVE  Len(requests'[i].answers) <= 1
    BY <1>2 DEF AnsweredOnce
  <2>1. CASE i = N
    BY <1>3, <2>1
  <2>2. CASE i # N
    BY <1>1, <1>2, <1>6, <2>2 DEF AnsweredOnce
  <2>3. QED
    BY <2>1, <2>2
<1>8. PendingSound'
  <2> SUFFICES ASSUME NEW t \in Slots, NEW i \in Ids, sessions'[t].pending[i] # 0
               PROVE  /\ Live(t)' /\ i # NoReturn
                      /\ sessions'[t].pending[i] <= Len(requests')
                      /\ requests'[sessions'[t].pending[i]].id = i
                      /\ requests'[sessions'[t].pending[i]].answers = <<>>
    BY DEF PendingSound
  <2>1. CASE sessions'[t].pending[i] = sessions[t].pending[i]
    <3>1. /\ Live(t) /\ i # NoReturn
          /\ sessions[t].pending[i] \in 1..Len(requests)
          /\ requests[sessions[t].pending[i]].id = i
          /\ requests[sessions[t].pending[i]].answers = <<>>
      BY <1>1, <1>4, <2>1 DEF PendingSound
    <3>2. QED
      BY <1>1, <1>2, <1>5, <1>6, <2>1, <3>1 DEF Live
  <2>2. CASE t = s /\ i = r /\ r # NoReturn /\ sessions'[t].pending[i] = N
    BY <1>2, <1>3, <1>5, <2>2 DEF Live
  <2>3. QED
    BY <1>4, <2>1, <2>2
<1>9. PendingOnce'
  <2>1. \A t \in Slots, i \in Ids : sessions[t].pending[i] # N
    BY <1>1, <1>4, <1>6 DEF PendingSound
  <2>2. QED
    BY <1>4, <2>1 DEF PendingOnce
<1>10. QED
  BY <1>2, <1>6, <1>7, <1>8, <1>9

\* What every handler but the first checks has found.
LEMMA Sender ==
    ASSUME IInv, NEW n \in Names, NEW r \in Ids, MaySend(n, r), endpoints[n].sess # None
    PROVE  /\ endpoints[n].sess \in Slots
           /\ Live(endpoints[n].sess)
           /\ sessions[endpoints[n].sess].name = n
           /\ endpoints[n].conn \in 1..MaxConns
           /\ Len(requests) \in Nat /\ Len(requests) < MaxRequests
           /\ Len(requests) + 1 \in 1..MaxRequests
<1>1. endpoints[n].sess \in Slots /\ endpoints[n].conn \in 0..MaxConns /\ endpoints[n].conn # 0
  BY Types DEF IInv, MaySend
<1>2. sessions[endpoints[n].sess].name = n
  BY DEF IInv, SessionsKnown
<1>3. RequestBound[env] \in 0..MaxRequests /\ MaxRequests \in Nat /\ MaxConns \in Nat
  BY Types, RendererAssumption DEF IInv
<1>4. Len(requests) \in Nat /\ Len(requests) < RequestBound[env]
  BY Types, LenProperties DEF IInv, MaySend
<1>5. QED
  BY <1>1, <1>2, <1>3, <1>4, RendererAssumption DEF Live

LEMMA PendFacts ==
    ASSUME IInv, NEW n \in Names, NEW r \in Ids, NEW v \in Views,
           MaySend(n, r), endpoints[n].sess # None, Pend(n, r, v)
    PROVE  /\ sessions' \in [Slots -> SessionRec]
           /\ \A t \in Slots : sessions'[t].handles = sessions[t].handles
           /\ Pended(endpoints[n].sess, endpoints[n].conn, r, v)
<1> USE DEF IInv
<1> DEFINE s == endpoints[n].sess
           N == Len(requests) + 1
           p == PendResponse(sessions[s].pending, r, N)
<1>1. /\ s \in Slots /\ Live(s) /\ endpoints[n].conn \in 1..MaxConns
      /\ N \in 1..MaxRequests /\ Len(requests) \in Nat /\ Len(requests) < MaxRequests
  BY Sender
<1>2. p \in [Ids -> 0..MaxRequests]
  BY <1>1, Types, PendResponseType DEF SessionRec
<1> HIDE DEF p
<1>3. sessions' = [sessions EXCEPT ![s].pending = p]
  BY DEF Pend, p
<1>4. /\ sessions' \in [Slots -> SessionRec]
      /\ \A t \in Slots : t # s => sessions'[t] = sessions[t]
      /\ \A t \in Slots : /\ sessions'[t].name = sessions[t].name
                          /\ sessions'[t].handles = sessions[t].handles
      /\ sessions'[s].pending = p
  BY <1>1, <1>2, <1>3, Types DEF SessionRec
<1>5. Pended(s, endpoints[n].conn, r, v)
  BY <1>1, <1>4 DEF Pended, Pend, p
<1>6. QED
  BY <1>4, <1>5

LEMMA PendStep ==
    ASSUME IInv, NEW n \in Names, NEW r \in Ids, NEW v \in Views,
           MaySend(n, r), endpoints[n].sess # None, Pend(n, r, v),
           flights' \subseteq flights \cup
               {[view |-> v, sess |-> endpoints[n].sess, req |-> Len(requests) + 1]},
           UNCHANGED <<env, endpoints, conns, owners, layouter, views, strays, crashed>>
    PROVE  IInv'
<1> USE DEF IInv
<1> DEFINE s == endpoints[n].sess
           N == Len(requests) + 1
<1>1. /\ s \in Slots /\ Live(s) /\ endpoints[n].conn \in 1..MaxConns
      /\ N \in 1..MaxRequests /\ Len(requests) \in Nat /\ Len(requests) < MaxRequests
  BY Sender
<1>4. /\ sessions' \in [Slots -> SessionRec]
      /\ \A t \in Slots : /\ sessions'[t].name = sessions[t].name
                          /\ sessions'[t].handles = sessions[t].handles
      /\ Pended(s, endpoints[n].conn, r, v)
  BY PendFacts DEF Pended
<1>6. /\ requests' \in Seq(RequestType)
      /\ Len(requests') = N
      /\ AnsweredOnce' /\ PendingSound' /\ PendingOnce'
  BY <1>1, <1>4, PendedSound
<1>7. flights' \subseteq [view : Views, sess : Slots, req : 1..MaxRequests]
  BY <1>1, Types
<1>8. TypeOK'
  BY <1>1, <1>4, <1>6, <1>7, Types, TypeOfStep
<1>9. RepliesKnown'
  <2>1. \A u \in Views : views'[u].loading <= Len(requests')
    BY <1>1, <1>6, Types DEF RepliesKnown, ViewRec
  <2>2. \A f \in flights' : f.req <= Len(requests')
    BY <1>1, <1>6, Types DEF RepliesKnown
  <2>3. QED
    BY <2>1, <2>2 DEF RepliesKnown
<1>10. HandlesOpen' /\ SessionsKnown'
  <2>1. HandlesOpen'
    BY <1>4 DEF HandlesOpen, Live, Opened
  <2>2. SessionsKnown'
    BY <1>4, Types DEF SessionsKnown
  <2>3. QED
    BY <2>1, <2>2
<1>11. QED
  BY <1>6, <1>8, <1>9, <1>10

LEMMA PageSteps ==
    ASSUME IInv, NEW n \in Names, NEW r \in Ids, NEW v \in Views, NEW blank \in BOOLEAN,
           AskPage(n, r, v) \/ UpdatePlainWindow(n, r, v, blank)
    PROVE  IInv'
<1>1. /\ MaySend(n, r) /\ endpoints[n].sess # None
      /\ UNCHANGED <<env, endpoints, conns, owners, layouter, views, strays, crashed>>
  BY DEF AskPage, UpdatePlainWindow
<1>2. CASE UNCHANGED <<sessions, flights, requests>>
  BY <1>1, <1>2, Types, TypeOfStep, QuietStep DEF IInv
<1>3. CASE Pend(n, r, v) /\ flights' \subseteq flights \cup
             {[view |-> v, sess |-> endpoints[n].sess, req |-> Len(requests) + 1]}
  BY <1>1, <1>3, PendStep
<1>4. QED
  BY <1>2, <1>3 DEF AskPage, UpdatePlainWindow, SendToPage, AnswerNow

(* A window that is made is of the session that made it. *)
LEMMA CreateFacts ==
    ASSUME IInv, NEW n \in Names, NEW r \in Ids, NEW p \in Pages, NEW v \in Views,
           MaySend(n, r), endpoints[n].sess # None, CreatePlainwin(n, r, p, v)
    PROVE  /\ ~Opened(v)
           /\ owners' = [owners EXCEPT ![AppOf[n]][p] = v]
           /\ views' \in [Views -> ViewRec]
           /\ \A u \in Views : u # v => views'[u] = views[u]
           /\ views'[v] = [state |-> "open", sess |-> endpoints[n].sess, page |-> p,
                           loading |-> Len(requests) + 1, conn |-> endpoints[n].conn]
           /\ sessions' \in [Slots -> SessionRec]
           /\ \A t \in Slots : t # endpoints[n].sess => sessions'[t] = sessions[t]
           /\ \A t \in Slots : sessions'[t].name = sessions[t].name
           /\ sessions'[endpoints[n].sess].handles
                 = sessions[endpoints[n].sess].handles \cup {v}
           /\ Pended(endpoints[n].sess, endpoints[n].conn, r, v)
<1> USE DEF IInv
<1> DEFINE s == endpoints[n].sess
           N == Len(requests) + 1
           w == [state |-> "open", sess |-> s, page |-> p, loading |-> N,
                 conn |-> endpoints[n].conn]
           d == PendResponse(sessions[s].pending, r, N)
<1>1. /\ s \in Slots /\ Live(s) /\ endpoints[n].conn \in 1..MaxConns
      /\ N \in 1..MaxRequests /\ Len(requests) \in Nat /\ Len(requests) < MaxRequests
  BY Sender
<1>2. d \in [Ids -> 0..MaxRequests]
  BY <1>1, Types, PendResponseType DEF SessionRec
<1>3. w \in ViewRec
  BY <1>1, RendererAssumption DEF ViewRec
<1>4. /\ ~Opened(v)
      /\ views' = [views EXCEPT ![v] = w]
      /\ owners' = [owners EXCEPT ![AppOf[n]][p] = v]
      /\ sessions' = [sessions EXCEPT ![s].handles = @ \cup {v}, ![s].pending = d]
  BY DEF CreatePlainwin
<1> HIDE DEF d, w
<1>6. /\ sessions' \in [Slots -> SessionRec]
      /\ \A t \in Slots : t # s => sessions'[t] = sessions[t]
      /\ \A t \in Slots : sessions'[t].name = sessions[t].name
      /\ sessions'[s].handles = sessions[s].handles \cup {v}
      /\ sessions'[s].pending = d
  BY <1>1, <1>2, <1>4, Types DEF SessionRec
<1>7. Pended(s, endpoints[n].conn, r, v)
  BY <1>1, <1>6 DEF Pended, CreatePlainwin, d
<1>8. /\ views' \in [Views -> ViewRec]
      /\ \A u \in Views : u # v => views'[u] = views[u]
      /\ views'[v] = w
  BY <1>3, <1>4, Types
<1>9. QED
  BY <1>4, <1>6, <1>7, <1>8 DEF w

LEMMA CreateStep ==
    ASSUME IInv, NEW n \in Names, NEW r \in Ids, NEW p \in Pages, NEW v \in Views,
           MaySend(n, r), endpoints[n].sess # None, CreatePlainwin(n, r, p, v),
           UNCHANGED <<env, endpoints, conns, layouter, flights, strays, crashed>>
    PROVE  IInv'
<1> USE DEF IInv
<1> DEFINE s == endpoints[n].sess
           N == Len(requests) + 1
<1>1. /\ s \in Slots /\ Live(s) /\ endpoints[n].conn \in 1..MaxConns
      /\ N \in 1..MaxRequests /\ Len(requests) \in Nat /\ Len(requests) < MaxRequests
  BY Sender
<1>4. /\ ~Opened(v)
      /\ owners' = [owners EXCEPT ![AppOf[n]][p] = v]
      /\ views' \in [Views -> ViewRec]
      /\ \A u \in Views : u # v => views'[u] = views[u]
      /\ views'[v] = [state |-> "open", sess |-> s, page |-> p, loading |-> N,
                      conn |-> endpoints[n].conn]
  BY CreateFacts
<1>5. views'[v].state = "open" /\ views'[v].sess = s /\ views'[v].loading = N
  BY <1>4
<1>6. /\ sessions' \in [Slots -> SessionRec]
      /\ \A t \in Slots : t # s => sessions'[t] = sessions[t]
      /\ \A t \in Slots : sessions'[t].name = sessions[t].name
      /\ sessions'[s].handles = sessions[s].handles \cup {v}
      /\ Pended(s, endpoints[n].conn, r, v)
  BY CreateFacts
<1>8. /\ requests' \in Seq(RequestType)
      /\ Len(requests') = N
      /\ AnsweredOnce' /\ PendingSound' /\ PendingOnce'
  BY <1>1, <1>6, PendedSound
<1>9. owners' \in [Apps -> [Pages -> Views \cup {None}]]
  BY <1>4, Types, RendererAssumption
<1>10. TypeOK'
  BY <1>1, <1>4, <1>6, <1>8, <1>9, Types, TypeOfStep
<1>11. HandlesOpen'
  <2> SUFFICES ASSUME NEW t \in Slots, NEW u \in sessions'[t].handles
               PROVE  Live(t)' /\ Opened(u)' /\ views'[u].sess = t
    BY DEF HandlesOpen
  <2>1. u \in Views
    BY <1>6 DEF SessionRec
  <2>2. CASE u = v
    <3>1. v \notin sessions[t].handles
      BY <1>4 DEF HandlesOpen
    <3>2. t = s
      BY <1>6, <2>2, <3>1
    <3>3. QED
      BY <1>1, <1>5, <1>6, <2>2, <3>2 DEF Live, Opened
  <2>3. CASE u # v
    <3>1. u \in sessions[t].handles /\ views'[u] = views[u]
      BY <1>4, <1>6, <2>1, <2>3, Types
    <3>2. QED
      BY <1>6, <3>1 DEF HandlesOpen, Live, Opened
  <2>4. QED
    BY <2>2, <2>3
<1>12. RepliesKnown'
  <2>1. \A u \in Views : views'[u].loading \in 0..N
    <3> SUFFICES ASSUME NEW u \in Views
                 PROVE  views'[u].loading \in 0..N
      OBVIOUS
    <3>1. views[u].loading \in 0..Len(requests)
      BY <1>1, Types DEF RepliesKnown, ViewRec
    <3>2. QED
      BY <1>1, <1>4, <1>5, <3>1
  <2>2. \A f \in flights' : f.req <= N
    BY <1>1, Types DEF RepliesKnown
  <2>3. QED
    BY <1>8, <2>1, <2>2 DEF RepliesKnown
<1>13. SessionsKnown'
  BY <1>6, Types DEF SessionsKnown
<1>14. QED
  BY <1>8, <1>10, <1>11, <1>12, <1>13

LEMMA CreateSteps ==
    ASSUME IInv, NEW n \in Names, NEW r \in Ids, NEW p \in Pages, NEW grouped \in BOOLEAN,
           NEW v \in Views, CreatePlainWindow(n, r, p, grouped, v)
    PROVE  IInv'
<1>1. /\ MaySend(n, r) /\ endpoints[n].sess # None
      /\ UNCHANGED <<env, endpoints, conns, layouter, flights, strays>>
  BY DEF CreatePlainWindow
<1>2. CASE UNCHANGED <<sessions, owners, views, requests>> /\ crashed' \in BOOLEAN
  BY <1>1, <1>2, Types, TypeOfStep, QuietStep DEF IInv
<1>3. CASE CreatePlainwin(n, r, p, v) /\ UNCHANGED crashed
  BY <1>1, <1>3, CreateStep
<1>4. QED
  BY <1>2, <1>3, Types DEF CreatePlainWindow, AnswerNow, IInv

-----------------------------------------------------------------------------
(***************************************************************************)
(* Callbacks.                                                              *)
(***************************************************************************)
(* finish_response gives an answer to the request it takes out of the pending ones. *)
LEMMA FinishFacts ==
    ASSUME IInv, NEW s \in Slots, Live(s), NEW reply \in 1..Len(requests),
           FinishResponse(s, reply)
    PROVE  \/ UNCHANGED <<sessions, requests>>
           \/ \E r \in Ids, q \in 1..Len(requests) :
                 /\ r # NoReturn /\ sessions[s].pending[r] = q /\ requests[q].answers = <<>>
                 /\ sessions' \in [Slots -> SessionRec]
                 /\ \A t \in Slots : t # s => sessions'[t] = sessions[t]
                 /\ \A t \in Slots : /\ sessions'[t].name = sessions[t].name
                                     /\ sessions'[t].handles = sessions[t].handles
                 /\ \A i \in Ids :
                       sessions'[s].pending[i] = IF i = r THEN 0 ELSE sessions[s].pending[i]
                 /\ AnswersOne(requests, requests', q, EndpointOf(s), reply)
<1> USE DEF IInv
<1> DEFINE r == requests[reply].id
           q == sessions[s].pending[r]
<1>1. /\ requests \in Seq(RequestType) /\ Len(requests) \in Nat /\ Len(requests) <= MaxRequests
      /\ MaxRequests \in Nat
  BY Types, LenProperties, RendererAssumption
<1>2. r \in Ids
  <2>1. requests[reply] \in RequestType
    BY <1>1
  <2>2. QED
    BY <2>1 DEF RequestType
<1> HIDE DEF r
<1>3. CASE r = NoReturn \/ q = 0
  BY <1>3 DEF FinishResponse, r
<1>4. CASE r # NoReturn /\ q # 0
  <2>1. /\ requests' = GiveAnswer(q, EndpointOf(s), reply)
        /\ sessions' = [sessions EXCEPT ![s].pending[r] = 0]
    BY <1>4 DEF FinishResponse, r
  <2>2. sessions[s] \in SessionRec /\ q \in 0..MaxRequests
    BY <1>2, Types DEF SessionRec
  <2>3. q \in 1..Len(requests) /\ requests[q].answers = <<>>
    BY <1>1, <1>2, <1>4, <2>2 DEF PendingSound
  <2>4. /\ sessions' \in [Slots -> SessionRec]
        /\ \A t \in Slots : t # s => sessions'[t] = sessions[t]
        /\ \A t \in Slots : /\ sessions'[t].name = sessions[t].name
                            /\ sessions'[t].handles = sessions[t].handles
        /\ \A i \in Ids : sessions'[s].pending[i] = IF i = r THEN 0 ELSE sessions[s].pending[i]
    <3> DEFINE d == [sessions[s].pending EXCEPT ![r] = 0]
    <3>1. /\ d \in [Ids -> 0..MaxRequests]
          /\ \A i \in Ids : d[i] = IF i = r THEN 0 ELSE sessions[s].pending[i]
      BY <1>1, <1>2, <2>2 DEF SessionRec
    <3>2. sessions' = [sessions EXCEPT ![s].pending = d]
      BY <2>1
    <3> HIDE DEF d
    <3>3. sessions'[s].pending = d
      BY <3>2, Types DEF SessionRec
    <3>4. QED
      BY <3>1, <3>2, <3>3, Types DEF SessionRec
  <2>5. reply \in 1..MaxRequests
    BY <1>1
  <2>6. AnswersOne(requests, requests', q, EndpointOf(s), reply)
    BY <1>1, <2>1, <2>3, <2>5, EndpointOfType, GiveAnswerOne
  <2> HIDE DEF q
  <2>7. sessions[s].pending[r] = q
    BY DEF q
  <2>8. QED
    BY <1>2, <1>4, <2>3, <2>4, <2>6, <2>7
<1>5. QED
  BY <1>3, <1>4

LEMMA FinishSound ==
    ASSUME IInv, NEW s \in Slots, Live(s), NEW reply \in 1..Len(requests),
           FinishResponse(s, reply)
    PROVE  /\ sessions' \in [Slots -> SessionRec]
           /\ \A t \in Slots : /\ sessions'[t].name = sessions[t].name
                               /\ sessions'[t].handles = sessions[t].handles
           /\ requests' \in Seq(RequestType)
           /\ Len(requests') = Len(requests)
           /\ AnsweredOnce' /\ PendingSound' /\ PendingOnce'
<1> USE DEF IInv
<1>1. /\ requests \in Seq(RequestType) /\ Len(requests) \in Nat /\ Len(requests) <= MaxRequests
      /\ MaxRequests \in Nat
  BY Types, LenProperties, RendererAssumption
<1>3. CASE UNCHANGED <<sessions, requests>>
  BY <1>1, <1>3, Types DEF AnsweredOnce, PendingSound, PendingOnce, Live
<1>4. ASSUME NEW r \in Ids, NEW q \in 1..Len(requests),
             r # NoReturn, sessions[s].pending[r] = q, requests[q].answers = <<>>,
             sessions' \in [Slots -> SessionRec],
             \A t \in Slots : t # s => sessions'[t] = sessions[t],
             \A t \in Slots : /\ sessions'[t].name = sessions[t].name
                             /\ sessions'[t].handles = sessions[t].handles,
             \A i \in Ids : sessions'[s].pending[i] = IF i = r THEN 0 ELSE sessions[s].pending[i],
             AnswersOne(requests, requests', q, EndpointOf(s), reply)
      PROVE  /\ requests' \in Seq(RequestType) /\ Len(requests') = Len(requests)
             /\ AnsweredOnce' /\ PendingSound' /\ PendingOnce'
  <2>7. AnsweredOnce'
    <3> SUFFICES ASSUME NEW i \in 1..Len(requests)
                 PROVE  Len(requests'[i].answers) <= 1
      BY <1>4 DEF AnsweredOnce, AnswersOne
    <3>1. CASE requests'[i].answers = requests[i].answers
      BY <3>1 DEF AnsweredOnce
    <3>2. CASE i = q /\ \E a : requests'[i].answers = Append(requests[i].answers, a)
      BY <1>4, <3>2
    <3>3. QED
      BY <1>4, <3>1, <3>2 DEF AnswersOne
  <2>8. \A t \in Slots, i \in Ids :
           sessions'[t].pending[i] # 0 => /\ sessions'[t].pending[i] = sessions[t].pending[i]
                                          /\ sessions[t].pending[i] # q
    <3> SUFFICES ASSUME NEW t \in Slots, NEW i \in Ids, sessions'[t].pending[i] # 0
                 PROVE  /\ sessions'[t].pending[i] = sessions[t].pending[i]
                        /\ sessions[t].pending[i] # q
      OBVIOUS
    <3>1. sessions'[t].pending[i] = sessions[t].pending[i] /\ (t = s => i # r)
      BY <1>4
    <3>2. q = sessions[s].pending[r] /\ q # 0
      BY <1>4
    <3>3. ASSUME sessions[t].pending[i] = q
          PROVE  FALSE
      <4>1. requests[q].id = r /\ requests[q].id = i
        BY <1>4, <3>2, <3>3 DEF PendingSound
      <4>2. t = s
        BY <3>2, <3>3, <4>1 DEF PendingOnce
      <4>3. QED
        BY <3>1, <4>1, <4>2
    <3>4. QED
      BY <3>1, <3>3
  <2>9. PendingSound'
    <3> SUFFICES ASSUME NEW t \in Slots, NEW i \in Ids, sessions'[t].pending[i] # 0
                 PROVE  /\ Live(t)' /\ i # NoReturn
                        /\ sessions'[t].pending[i] <= Len(requests')
                        /\ requests'[sessions'[t].pending[i]].id = i
                        /\ requests'[sessions'[t].pending[i]].answers = <<>>
      BY DEF PendingSound
    <3> DEFINE k == sessions[t].pending[i]
    <3>1. k \in 0..MaxRequests /\ k # 0 /\ k # q /\ sessions'[t].pending[i] = k
      BY <2>8, Types DEF SessionRec
    <3>2. /\ Live(t) /\ i # NoReturn /\ k \in 1..Len(requests)
          /\ requests[k].id = i /\ requests[k].answers = <<>>
      BY <1>1, <3>1 DEF PendingSound
    <3>3. /\ Len(requests') = Len(requests)
          /\ requests'[k].id = requests[k].id
          /\ requests'[k].answers = requests[k].answers
      BY <1>4, <3>1, <3>2 DEF AnswersOne
    <3>4. QED
      BY <1>4, <3>1, <3>2, <3>3 DEF Live
  <2>10. PendingOnce'
    BY <2>8 DEF PendingOnce
  <2>11. QED
    BY <1>4, <2>7, <2>9, <2>10 DEF AnswersOne
<1>5. QED
  BY <1>1, <1>3, <1>4, FinishFacts, Types

(* A callback that leaves windows as they are, but for what they wait for. *)
LEMMA AnswerStep ==
    ASSUME IInv, NEW s \in Slots, Live(s), NEW reply \in 1..Len(requests),
           FinishResponse(s, reply),
           views' \in [Views -> ViewRec],
           \A v \in Views : /\ views'[v].state = views[v].state
                            /\ views'[v].sess = views[v].sess
                            /\ views'[v].loading <= views[v].loading,
           flights' \subseteq flights,
           UNCHANGED <<env, endpoints, conns, owners, layouter, strays, crashed>>
    PROVE  IInv'
<1> USE DEF IInv
<1>1. /\ sessions' \in [Slots -> SessionRec]
      /\ \A t \in Slots : /\ sessions'[t].name = sessions[t].name
                          /\ sessions'[t].handles = sessions[t].handles
      /\ requests' \in Seq(RequestType)
      /\ Len(requests') = Len(requests)
      /\ AnsweredOnce' /\ PendingSound' /\ PendingOnce'
  BY FinishSound
<1>2. TypeOK'
  BY <1>1, Types, TypeOfStep
<1>3. HandlesOpen'
  <2> SUFFICES ASSUME NEW t \in Slots, NEW v \in sessions'[t].handles
               PROVE  Live(t)' /\ Opened(v)' /\ views'[v].sess = t
    BY DEF HandlesOpen
  <2>1. v \in sessions[t].handles /\ v \in Views
    BY <1>1, Types DEF SessionRec
  <2>2. QED
    BY <1>1, <2>1 DEF HandlesOpen, Live, Opened
<1>4. RepliesKnown'
  <2>1. \A v \in Views : views'[v].loading <= Len(requests)
    <3> SUFFICES ASSUME NEW v \in Views
                 PROVE  views'[v].loading <= Len(requests)
      OBVIOUS
    <3>1. /\ views'[v].loading \in Nat /\ views[v].loading \in Nat /\ Len(requests) \in Nat
          /\ views'[v].loading <= views[v].loading
          /\ views[v].loading <= Len(requests)
      BY Types, LenProperties DEF ViewRec, RepliesKnown
    <3>2. QED
      BY <3>1
  <2>2. QED
    BY <1>1, <2>1 DEF RepliesKnown
<1>5. SessionsKnown'
  <2>1. \A t \in Slots : sessions'[t].name = sessions[t].name
    BY <1>1
  <2>2. QED
    BY <2>1, Types DEF SessionsKnown
<1>6. QED
  BY <1>1, <1>2, <1>3, <1>4, <1>5

(* A callback that finds no session. *)
LEMMA FreedStep ==
    ASSUME IInv, UNCHANGED <<env, endpoints, conns, sessions, owners, layouter, requests,
                             strays>>,
           crashed' \in BOOLEAN,
           views' \in [Views -> ViewRec],
           \A v \in Views : /\ views'[v].state = views[v].state
                            /\ views'[v].sess = views[v].sess
                            /\ views'[v].loading \in {0, views[v].loading},
           flights' \subseteq flights
    PROVE  IInv'
<1> USE DEF IInv
<1>1. TypeOK'
  BY Types, TypeOfStep
<1>2. HandlesOpen'
  <2> SUFFICES ASSUME NEW t \in Slots, NEW v \in sessions[t].handles
               PROVE  Live(t)' /\ Opened(v)' /\ views'[v].sess = t
    BY DEF HandlesOpen
  <2>1. v \in Views
    BY Types DEF SessionRec
  <2>2. QED
    BY <2>1 DEF HandlesOpen, Live, Opened
<1>3. RepliesKnown'
  <2>1. \A v \in Views : views'[v].loading <= Len(requests)
    <3> SUFFICES ASSUME NEW v \in Views
                 PROVE  views'[v].loading <= Len(requests)
      OBVIOUS
    <3>1. /\ Len(requests) \in Nat /\ views[v].loading <= Len(requests)
          /\ views'[v].loading \in {0, views[v].loading}
      BY Types, LenProperties DEF RepliesKnown
    <3>2. QED
      BY <3>1
  <2>2. QED
    BY <2>1 DEF RepliesKnown
<1>4. QED
  BY <1>1, <1>2, <1>3
     DEF AnsweredOnce, PendingSound, PendingOnce, SessionsKnown, Live

LEMMA AnswerSteps ==
    ASSUME IInv, \/ \E v \in Views : PageReady(v)
                 \/ \E f \in flights : PageAnswers(f)
    PROVE  IInv'
<1> USE DEF IInv
<1>1. CASE \E v \in Views : PageReady(v)
  <2>1. PICK v \in Views : PageReady(v)
    BY <1>1
  <2>2. views' = [views EXCEPT ![v].loading = 0]
    BY <2>1 DEF PageReady
  <2>3. /\ views' \in [Views -> ViewRec]
        /\ \A u \in Views : /\ views'[u].state = views[u].state
                            /\ views'[u].sess = views[u].sess
                            /\ views'[u].loading \in {0, views[u].loading}
    <3> DEFINE w == [views[v] EXCEPT !.loading = 0]
    <3>1. views[v] \in ViewRec
      BY Types
    <3>2. w \in ViewRec /\ w.state = views[v].state /\ w.sess = views[v].sess /\ w.loading = 0
      BY <3>1, RendererAssumption DEF ViewRec
    <3>3. views' = [views EXCEPT ![v] = w]
      BY <2>2
    <3> HIDE DEF w
    <3>4. \A u \in Views : views'[u] = IF u = v THEN w ELSE views[u]
      BY <3>3, Types
    <3>5. views' \in [Views -> ViewRec]
      BY <3>2, <3>3, Types
    <3>6. QED
      BY <3>2, <3>4, <3>5
  <2>4. /\ UNCHANGED <<env, endpoints, conns, owners, layouter, flights, strays>>
        /\ views[v].loading # 0
    BY <2>1 DEF PageReady
  <2>5. CASE Freed(views[v].sess)
    <3>1. crashed' \in BOOLEAN /\ UNCHANGED <<sessions, requests>>
      BY <2>1, <2>5 DEF PageReady
    <3>2. QED
      BY <2>3, <2>4, <3>1, FreedStep
  <2>6. CASE ~Freed(views[v].sess)
    <3>1. FinishResponse(views[v].sess, views[v].loading) /\ UNCHANGED crashed
      BY <2>1, <2>6 DEF PageReady
    <3>2. views[v].sess \in Slots /\ Live(views[v].sess)
      BY <2>6, Types DEF Freed, Live, ViewRec
    <3>3. views[v].loading \in 1..Len(requests)
      BY <2>4, Types, LenProperties DEF RepliesKnown, ViewRec
    <3>4. \A u \in Views : views'[u].loading <= views[u].loading
      <4>1. \A u \in Views : views[u].loading \in Nat
        BY Types DEF ViewRec
      <4>2. QED
        BY <2>3, <4>1
    <3>5. QED
      BY <2>3, <2>4, <3>1, <3>2, <3>3, <3>4, AnswerStep
  <2>7. QED
    BY <2>5, <2>6
<1>2. CASE \E f \in flights : PageAnswers(f)
  <2>1. PICK f \in flights : PageAnswers(f)
    BY <1>2
  <2>2. /\ UNCHANGED <<env, endpoints, conns, owners, layouter, views, strays>>
        /\ flights' \subseteq flights
    BY <2>1 DEF PageAnswers
  <2>3. \A u \in Views : views[u].loading \in Nat
    BY Types DEF ViewRec
  <2>4. CASE Freed(f.sess)
    <3>1. crashed' \in BOOLEAN /\ UNCHANGED <<sessions, requests>>
      BY <2>1, <2>4 DEF PageAnswers
    <3>2. QED
      BY <2>2, <3>1, Types, FreedStep
  <2>5. CASE ~Freed(f.sess)
    <3>1. FinishResponse(f.sess, f.req) /\ UNCHANGED crashed
      BY <2>1, <2>5 DEF PageAnswers
    <3>2. f.sess \in Slots /\ Live(f.sess) /\ f.req \in 1..Len(requests)
      BY <2>5, Types, LenProperties DEF Freed, RepliesKnown
    <3>3. QED
      <4>1. /\ views' \in [Views -> ViewRec]
            /\ \A u \in Views : /\ views'[u].state = views[u].state
                                /\ views'[u].sess = views[u].sess
                                /\ views'[u].loading <= views[u].loading
        BY <2>2, <2>3, Types
      <4>2. QED
        BY <2>2, <3>1, <3>2, <4>1, AnswerStep
  <2>6. QED
    BY <2>4, <2>5
<1>3. QED
  BY <1>1, <1>2

(* A view that is released is no handle of any session. *)
LEMMA ClosedFacts ==
    ASSUME IInv, NEW v \in Views, ViewClosed(v)
    PROVE  /\ UNCHANGED <<env, endpoints, conns, layouter>>
           /\ flights' \subseteq flights
           /\ requests' \in Seq(RequestType)
           /\ Len(requests') = Len(requests)
           /\ \A q \in 1..Len(requests) : /\ requests'[q].answers = requests[q].answers
                                          /\ requests'[q].id = requests[q].id
                                          /\ requests'[q].conn = requests[q].conn
                                          /\ requests'[q].view = requests[q].view
           /\ views' \in [Views -> ViewRec]
           /\ \A u \in Views : u # v => views'[u] = views[u]
           /\ views'[v] = FreeView
           /\ sessions' \in [Slots -> SessionRec]
           /\ \A t \in Slots : /\ sessions'[t].name = sessions[t].name
                               /\ sessions'[t].pending = sessions[t].pending
                               /\ sessions'[t].handles = sessions[t].handles \ {v}
           /\ owners' \in [Apps -> [Pages -> Views \cup {None}]]
           /\ strays' \subseteq 1..MaxConns
           /\ crashed' \in BOOLEAN
<1> USE DEF IInv
<1> DEFINE s == views[v].sess
<1>1. /\ Opened(v)
      /\ views' = [views EXCEPT ![v] = FreeView]
      /\ flights' \subseteq flights
      /\ UNCHANGED <<env, endpoints, conns, layouter>>
      /\ requests' = [q \in 1..Len(requests) |->
            IF requests[q].view = v /\ requests[q].answers = <<>>
            THEN [requests[q] EXCEPT !.gone = TRUE] ELSE requests[q]]
  BY DEF ViewClosed, Opened
<1>2. /\ requests' \in Seq(RequestType)
      /\ Len(requests') = Len(requests)
      /\ \A q \in 1..Len(requests) : /\ requests'[q].answers = requests[q].answers
                                     /\ requests'[q].id = requests[q].id
                                     /\ requests'[q].conn = requests[q].conn
                                     /\ requests'[q].view = requests[q].view
  <2>1. requests \in Seq(RequestType) /\ Len(requests) \in Nat
    BY Types, LenProperties
  <2>2. \A q \in 1..Len(requests) :
           /\ requests[q] \in RequestType
           /\ [requests[q] EXCEPT !.gone = TRUE] \in RequestType
           /\ [requests[q] EXCEPT !.gone = TRUE].answers = requests[q].answers
           /\ [requests[q] EXCEPT !.gone = TRUE].id = requests[q].id
           /\ [requests[q] EXCEPT !.gone = TRUE].conn = requests[q].conn
           /\ [requests[q] EXCEPT !.gone = TRUE].view = requests[q].view
    <3> SUFFICES ASSUME NEW q \in 1..Len(requests)
                 PROVE  /\ requests[q] \in RequestType
                        /\ [requests[q] EXCEPT !.gone = TRUE] \in RequestType
                        /\ [requests[q] EXCEPT !.gone = TRUE].answers = requests[q].answers
                        /\ [requests[q] EXCEPT !.gone = TRUE].id = requests[q].id
                        /\ [requests[q] EXCEPT !.gone = TRUE].conn = requests[q].conn
           /\ [requests[q] EXCEPT !.gone = TRUE].view = requests[q].view
      OBVIOUS
    <3>1. requests[q] \in RequestType
      BY <2>1
    <3>2. QED
      BY <3>1 DEF RequestType
  <2>3. QED
    BY <1>1, <2>1, <2>2
<1>3. /\ views' \in [Views -> ViewRec]
      /\ \A u \in Views : u # v => views'[u] = views[u]
      /\ views'[v] = FreeView
  BY <1>1, Types, FreeTypes
<1>4. /\ sessions' \in [Slots -> SessionRec]
      /\ \A t \in Slots : /\ sessions'[t].name = sessions[t].name
                          /\ sessions'[t].pending = sessions[t].pending
                          /\ sessions'[t].handles = sessions[t].handles \ {v}
      /\ owners' \in [Apps -> [Pages -> Views \cup {None}]]
      /\ strays' \subseteq 1..MaxConns
      /\ crashed' \in BOOLEAN
  <2>1. \A t \in Slots : v \in sessions[t].handles => t = s /\ Live(s)
    BY DEF HandlesOpen
  <2>2. CASE s \in Slots /\ Live(s) /\ v \in sessions[s].handles
    <3>1. OnWebviewClose(s, v) /\ UNCHANGED crashed
      BY <2>2 DEF ViewClosed, Freed
    <3>2. /\ sessions' = [sessions EXCEPT ![s].handles = @ \ {v}]
          /\ owners' = [owners EXCEPT ![AppOf[sessions[s].name]][views[v].page] = None]
          /\ PostEvent(s, v)
      BY <2>2, <3>1 DEF OnWebviewClose
    <3>3. /\ sessions' \in [Slots -> SessionRec]
          /\ \A t \in Slots : /\ sessions'[t].name = sessions[t].name
                              /\ sessions'[t].pending = sessions[t].pending
                              /\ sessions'[t].handles = sessions[t].handles \
                                                            (IF t = s THEN {v} ELSE {})
      BY <2>2, <3>2, Types DEF SessionRec
    <3>4. owners' \in [Apps -> [Pages -> Views \cup {None}]]
      BY <3>2, Types
    <3>5. strays' \subseteq 1..MaxConns
      BY <2>2, <3>2, Types, EndpointOfType, RendererAssumption DEF PostEvent
    <3>6. QED
      BY <2>1, <3>1, <3>3, <3>4, <3>5, Types
  <2>3. CASE ~(s \in Slots /\ Live(s) /\ v \in sessions[s].handles)
    <3>1. UNCHANGED <<sessions, owners, strays>> /\ crashed' \in BOOLEAN
      <4>1. Live(s) => s \in Slots
        BY Types DEF Live, ViewRec
      <4>2. QED
        BY <2>3, <4>1, Types DEF ViewClosed, Freed, OnWebviewClose
    <3>2. QED
      BY <2>1, <2>3, <3>1, Types
  <2>4. QED
    BY <2>2, <2>3
<1>5. QED
  BY <1>1, <1>2, <1>3, <1>4

LEMMA ClosedStep ==
    ASSUME IInv, NEW v \in Views, ViewClosed(v)
    PROVE  IInv'
<1> USE DEF IInv
<1>1. /\ UNCHANGED <<env, endpoints, conns, layouter>>
      /\ flights' \subseteq flights
      /\ requests' \in Seq(RequestType)
      /\ Len(requests') = Len(requests)
      /\ \A q \in 1..Len(requests) : /\ requests'[q].answers = requests[q].answers
                                     /\ requests'[q].id = requests[q].id
                                     /\ requests'[q].conn = requests[q].conn
      /\ views' \in [Views -> ViewRec]
      /\ \A u \in Views : u # v => views'[u] = views[u]
      /\ views'[v] = FreeView
      /\ sessions' \in [Slots -> SessionRec]
      /\ \A t \in Slots : /\ sessions'[t].name = sessions[t].name
                          /\ sessions'[t].pending = sessions[t].pending
                          /\ sessions'[t].handles = sessions[t].handles \ {v}
      /\ owners' \in [Apps -> [Pages -> Views \cup {None}]]
      /\ strays' \subseteq 1..MaxConns
      /\ crashed' \in BOOLEAN
  BY ClosedFacts
<1>2. views'[v].loading = 0
  BY <1>1 DEF FreeView
<1>5. TypeOK'
  <2>1. Len(requests') <= MaxRequests
    BY <1>1, Types
  <2>2. flights' \subseteq [view : Views, sess : Slots, req : 1..MaxRequests]
    BY <1>1, Types
  <2>3. QED
    BY <1>1, <2>1, <2>2, Types, TypeOfStep
<1>6. AnsweredOnce'
  BY <1>1 DEF AnsweredOnce
<1>7. HandlesOpen'
  <2> SUFFICES ASSUME NEW t \in Slots, NEW u \in sessions'[t].handles
               PROVE  Live(t)' /\ Opened(u)' /\ views'[u].sess = t
    BY DEF HandlesOpen
  <2>1. u \in sessions[t].handles /\ u # v
    BY <1>1
  <2>2. u \in Views
    BY <2>1, Types DEF SessionRec
  <2>3. QED
    BY <1>1, <2>1, <2>2 DEF HandlesOpen, Live, Opened
<1>8. PendingSound'
  <2> SUFFICES ASSUME NEW t \in Slots, NEW i \in Ids, sessions'[t].pending[i] # 0
               PROVE  /\ Live(t)' /\ i # NoReturn
                      /\ sessions'[t].pending[i] <= Len(requests')
                      /\ requests'[sessions'[t].pending[i]].id = i
                      /\ requests'[sessions'[t].pending[i]].answers = <<>>
    BY DEF PendingSound
  <2> DEFINE k == sessions[t].pending[i]
  <2>1. sessions'[t].pending[i] = k /\ k \in 0..MaxRequests /\ k # 0
    BY <1>1, Types DEF SessionRec
  <2>2. Live(t) /\ i # NoReturn /\ k <= Len(requests)
        /\ requests[k].id = i /\ requests[k].answers = <<>>
    BY <2>1 DEF PendingSound
  <2>3. k \in 1..Len(requests)
    BY <2>1, <2>2, Types, LenProperties, RendererAssumption
  <2>4. QED
    BY <1>1, <2>1, <2>2, <2>3 DEF Live
<1>9. PendingOnce' /\ SessionsKnown'
  <2>1. \A t \in Slots : /\ sessions'[t].name = sessions[t].name
                        /\ sessions'[t].pending = sessions[t].pending
    BY <1>1
  <2>2. PendingOnce'
    BY <2>1 DEF PendingOnce
  <2>3. SessionsKnown'
    BY <1>1, <2>1, Types DEF SessionsKnown
  <2>4. QED
    BY <2>2, <2>3
<1>10. RepliesKnown'
  <2>1. \A u \in Views : views'[u].loading <= Len(requests)
    <3> SUFFICES ASSUME NEW u \in Views
                 PROVE  views'[u].loading <= Len(requests)
      OBVIOUS
    <3>1. Len(requests) \in Nat /\ views[u].loading <= Len(requests)
      BY Types, LenProperties DEF RepliesKnown
    <3>2. QED
      BY <1>1, <1>2, <3>1
  <2>2. \A f \in flights' : f.req <= Len(requests)
    BY <1>1 DEF RepliesKnown
  <2>3. QED
    BY <1>1, <2>1, <2>2 DEF RepliesKnown
<1>11. QED
  BY <1>5, <1>6, <1>7, <1>8, <1>9, <1>10

-----------------------------------------------------------------------------
LEMMA InitIInv == Init => IInv
<1> SUFFICES ASSUME Init
             PROVE  IInv
  OBVIOUS
<1>1. /\ \A s \in Slots : sessions[s] = FreeSession
      /\ \A v \in Views : views[v] = FreeView
      /\ requests = <<>> /\ flights = {}
  BY DEF Init
<1>2. TypeOK
  <2>1. sessions \in [Slots -> SessionRec] /\ views \in [Views -> ViewRec]
    BY FreeTypes DEF Init
  <2>2. requests \in Seq(RequestType) /\ Len(requests) = 0
    BY <1>1, EmptySeq
  <2>3. QED
    <3>1. /\ endpoints \in [Names -> [conn : 0..MaxConns, sess : Slots \cup {None}]]
          /\ owners \in [Apps -> [Pages -> Views \cup {None}]]
          /\ layouter \in [Apps -> BOOLEAN]
      BY RendererAssumption DEF Init
    <3>2. env \in Environments /\ crashed \in BOOLEAN /\ flights = {} /\ strays = {}
      BY DEF Init
    <3>3. conns \in 0..MaxConns /\ Len(requests) <= MaxRequests
      BY <2>2, RendererAssumption DEF Init
    <3>4. QED
      BY <2>1, <2>2, <3>1, <3>2, <3>3 DEF TypeOK, SessionRec, ViewRec
<1>3. HandlesOpen /\ PendingSound /\ PendingOnce
  BY <1>1 DEF HandlesOpen, PendingSound, PendingOnce, FreeSession
<1>4. AnsweredOnce
  BY <1>1 DEF AnsweredOnce
<1>5. RepliesKnown
  <2>1. Len(requests) = 0
    BY <1>1
  <2>2. QED
    BY <1>1, <2>1 DEF RepliesKnown, FreeView
<1>6. SessionsKnown
  BY DEF Init, SessionsKnown
<1>7. QED
  BY <1>2, <1>3, <1>4, <1>5, <1>6 DEF IInv

LEMMA NextIInv == IInv /\ [Next]_vars => IInv'
<1> SUFFICES ASSUME IInv, [Next]_vars
             PROVE  IInv'
  OBVIOUS
<1>1. CASE \E n \in Names, r \in Ids : Request(n, r)
  <2>1. PICK n \in Names, r \in Ids : Request(n, r)
    BY <1>1
  <2>2. QED
    BY <2>1, QuietSteps, CreateSteps, PageSteps, ClosingSteps DEF Request
<1>2. CASE UNCHANGED vars
  BY <1>2, Types, TypeOfStep, QuietStep DEF vars, IInv
<1>3. CASE \E v \in Views : PageEvent(v) \/ UserCloses(v) \/ ViewClosed(v)
  BY <1>3, QuietSteps, ClosingSteps, ClosedStep
<1>4. QED
  BY <1>1, <1>2, <1>3, SessionSteps, AnswerSteps DEF Next

(* The inductive invariant holds in every reachable state, for any number of  *)
(* clients, sessions, windows and requests and whatever clients do.           *)
THEOREM Invariance == Spec => []IInv
BY InitIInv, NextIInv, PTL DEF Spec

(* The variables keep their types; the bounds are the guards' own.            *)
THEOREM TypeCorrect == Spec => []TypeOK
BY Invariance, PTL DEF IInv

(* finish_response answers no request twice, whatever requestIds clients use  *)
(* and however late pages answer.                                             *)
THEOREM NeverAnsweredTwice == Spec => []AnsweredOnce
BY Invariance, PTL DEF IInv

(* What validate_handle finds is a window that is there and that the session  *)
(* opened itself, although sessions and windows reuse addresses.              *)
THEOREM HandlesSound == Spec => []HandlesOpen
BY Invariance, PTL DEF IInv

-----------------------------------------------------------------------------
(***************************************************************************)
(* Where messages go.  Unless a client starts a session twice, a session   *)
(* that is there is its endpoint's, so that looking an endpoint up by name *)
(* finds the connection that the session is of.                            *)
(***************************************************************************)
SessionsReachable ==
    /\ \A s \in Slots : Live(s) => endpoints[sessions[s].name].sess = s
    /\ \A s \in Slots, r \in Ids : sessions[s].pending[r] # 0 =>
          requests[sessions[s].pending[r]].conn = endpoints[sessions[s].name].conn

AnswersHome ==
    \A q \in 1..Len(requests) : \A i \in 1..Len(requests[q].answers) :
        requests[q].answers[i].to = requests[q].conn

\* What every step but those of sessions does to endpoints, sessions and requests.
EntryKept(t, i) ==
    \/ sessions'[t].pending[i] = 0
    \/ sessions'[t].pending[i] = sessions[t].pending[i]
    \/ /\ Live(t)
       /\ sessions'[t].pending[i] = Len(requests) + 1
       /\ requests'[Len(requests) + 1].conn = endpoints[sessions[t].name].conn

AnswerKept(q, a) ==
    \/ \E i \in 1..Len(requests[q].answers) : a = requests[q].answers[i]
    \/ \E s \in Slots, r \in Ids :
          Live(s) /\ sessions[s].pending[r] = q /\ a.to = EndpointOf(s)

Kept ==
    /\ UNCHANGED endpoints
    /\ \A t \in Slots : sessions'[t].name = sessions[t].name
    /\ \A t \in Slots, i \in Ids : EntryKept(t, i)
    /\ \A q \in 1..Len(requests) : requests'[q].conn = requests[q].conn
    /\ \A q \in 1..Len(requests') : \A i \in 1..Len(requests'[q].answers) :
          q \in 1..Len(requests) /\ AnswerKept(q, requests'[q].answers[i])

LEMMA KeptHome ==
    ASSUME IInv, SessionsReachable, AnswersHome, Kept
    PROVE  SessionsReachable' /\ AnswersHome'
<1> USE DEF IInv
<1>1. \A s \in Slots : Live(s)' => endpoints'[sessions'[s].name].sess = s
  BY DEF Kept, SessionsReachable, Live
<1>2. ASSUME NEW s \in Slots, NEW r \in Ids, sessions'[s].pending[r] # 0
      PROVE  requests'[sessions'[s].pending[r]].conn = endpoints'[sessions'[s].name].conn
  <2>1. endpoints' = endpoints /\ sessions'[s].name = sessions[s].name /\ EntryKept(s, r)
    BY DEF Kept
  <2>2. CASE sessions'[s].pending[r] = sessions[s].pending[r]
    <3>1. sessions[s].pending[r] \in 1..Len(requests)
      <4>1. sessions[s].pending[r] \in 0..MaxRequests /\ Len(requests) \in Nat
        BY Types, LenProperties DEF SessionRec
      <4>2. sessions[s].pending[r] <= Len(requests)
        BY <1>2, <2>2 DEF PendingSound
      <4>3. QED
        BY <1>2, <2>2, <4>1, <4>2, RendererAssumption
    <3>2. requests'[sessions[s].pending[r]].conn = requests[sessions[s].pending[r]].conn
      BY <3>1 DEF Kept
    <3>3. QED
      BY <1>2, <2>1, <2>2, <3>2 DEF SessionsReachable
  <2>3. QED
    BY <1>2, <2>1, <2>2 DEF EntryKept
<1>3. ASSUME NEW q \in 1..Len(requests'), NEW i \in 1..Len(requests'[q].answers)
      PROVE  requests'[q].answers[i].to = requests'[q].conn
  <2>1. q \in 1..Len(requests) /\ AnswerKept(q, requests'[q].answers[i])
    BY DEF Kept
  <2>2. requests'[q].conn = requests[q].conn
    BY <2>1 DEF Kept
  <2>3. CASE \E j \in 1..Len(requests[q].answers) :
                 requests'[q].answers[i] = requests[q].answers[j]
    BY <2>1, <2>2, <2>3 DEF AnswersHome
  <2>4. CASE \E s \in Slots, r \in Ids :
                 /\ Live(s) /\ sessions[s].pending[r] = q
                 /\ requests'[q].answers[i].to = EndpointOf(s)
    <3>1. PICK s \in Slots, r \in Ids :
                 /\ Live(s) /\ sessions[s].pending[r] = q
                 /\ requests'[q].answers[i].to = EndpointOf(s)
      BY <2>4
    <3>2. requests[q].conn = endpoints[sessions[s].name].conn
      BY <2>1, <3>1 DEF SessionsReachable
    <3>3. QED
      BY <2>2, <3>1, <3>2 DEF EndpointOf
  <2>5. QED
    BY <2>1, <2>3, <2>4 DEF AnswerKept
<1>4. QED
  BY <1>1, <1>2, <1>3 DEF SessionsReachable, AnswersHome

LEMMA QuietKept ==
    ASSUME IInv, UNCHANGED <<endpoints, sessions, requests>>
    PROVE  Kept
BY DEF Kept, EntryKept, AnswerKept

LEMMA PendedKept ==
    ASSUME IInv, NEW s \in Slots, Live(s), NEW r \in Ids, NEW v \in Views,
           endpoints[sessions[s].name].conn \in 1..MaxConns,
           Pended(s, endpoints[sessions[s].name].conn, r, v), Len(requests) < MaxRequests,
           UNCHANGED endpoints
    PROVE  Kept
<1> DEFINE c == endpoints[sessions[s].name].conn
           N == Len(requests) + 1
<1> HIDE DEF c
<1>1. /\ Len(requests') = N
      /\ \A i \in 1..Len(requests) : requests'[i] = requests[i]
      /\ requests'[N] = NewRequest(c, r, v)
      /\ \A t \in Slots : sessions'[t].name = sessions[t].name
  BY PendedFacts DEF c
<1>2. \A t \in Slots, i \in Ids :
         \/ sessions'[t].pending[i] = sessions[t].pending[i]
         \/ t = s /\ sessions'[t].pending[i] = N
  BY PendedFacts DEF c
<1>3. requests'[N].conn = c /\ requests'[N].answers = <<>>
  BY <1>1 DEF NewRequest
<1>4. \A t \in Slots, i \in Ids : EntryKept(t, i)
  BY <1>2, <1>3 DEF EntryKept, c
<1>5. ASSUME NEW q \in 1..Len(requests'), NEW i \in 1..Len(requests'[q].answers)
      PROVE  q \in 1..Len(requests) /\ AnswerKept(q, requests'[q].answers[i])
  <2>1. q # N
    <3>1. Len(requests'[N].answers) = 0
      BY <1>3
    <3>2. QED
      BY <3>1
  <2>2. Len(requests) \in Nat
    BY Types, LenProperties DEF IInv
  <2>3. q \in 1..Len(requests)
    BY <1>1, <2>1, <2>2
  <2>4. QED
    BY <1>1, <2>3 DEF AnswerKept
<1>6. QED
  BY <1>1, <1>4, <1>5 DEF Kept

LEMMA FinishKept ==
    ASSUME IInv, NEW s \in Slots, Live(s), NEW reply \in 1..Len(requests),
           FinishResponse(s, reply), UNCHANGED endpoints
    PROVE  Kept
<1>1. CASE UNCHANGED <<sessions, requests>>
  BY <1>1, QuietKept
<1>2. ASSUME NEW r \in Ids, NEW q \in 1..Len(requests),
             sessions[s].pending[r] = q, requests[q].answers = <<>>,
             \A t \in Slots : t # s => sessions'[t] = sessions[t],
             \A t \in Slots : sessions'[t].name = sessions[t].name,
             \A i \in Ids : sessions'[s].pending[i] = IF i = r THEN 0 ELSE sessions[s].pending[i],
             AnswersOne(requests, requests', q, EndpointOf(s), reply)
      PROVE  Kept
  <2>1. \A t \in Slots, i \in Ids : EntryKept(t, i)
    BY <1>2 DEF EntryKept
  <2>2. ASSUME NEW k \in 1..Len(requests'), NEW i \in 1..Len(requests'[k].answers)
        PROVE  k \in 1..Len(requests) /\ AnswerKept(k, requests'[k].answers[i])
    <3>1. k \in 1..Len(requests)
      BY <1>2 DEF AnswersOne
    <3>2. CASE requests'[k].answers = requests[k].answers
      BY <3>1, <3>2 DEF AnswerKept
    <3>3. CASE /\ k = q
               /\ requests'[k].answers
                     = Append(requests[k].answers, [to |-> EndpointOf(s), reply |-> reply])
      <4>1. requests'[k].answers = <<[to |-> EndpointOf(s), reply |-> reply]>>
        BY <1>2, <3>3
      <4>2. requests'[k].answers[i] = [to |-> EndpointOf(s), reply |-> reply]
        BY <4>1
      <4>3. requests'[k].answers[i].to = EndpointOf(s)
        BY <4>2
      <4>4. QED
        BY <1>2, <3>1, <3>3, <4>3 DEF AnswerKept
    <3>4. QED
      BY <1>2, <3>1, <3>2, <3>3 DEF AnswersOne
  <2>3. QED
    BY <1>2, <2>1, <2>2 DEF Kept, AnswersOne
<1>3. QED
  BY <1>1, <1>2, FinishFacts

(* Sessions begin and end with their endpoint's reference to them. *)
LEMMA SessionHome ==
    ASSUME IInv, SessionsReachable, AnswersHome, NEW n \in Names,
           (\E s \in Slots : StartSession(n, s)) \/ EndSession(n) \/ DelEndpoint(n)
    PROVE  SessionsReachable' /\ AnswersHome'
<1> USE DEF IInv
<1>1. requests' = requests
  BY DEF StartSession, EndSession, DelEndpoint
<1>2. AnswersHome'
  BY <1>1 DEF AnswersHome
<1>3. \A t \in Slots : Live(t) => /\ sessions[t].name \in Names
                                  /\ endpoints[sessions[t].name].sess = t
  BY Types DEF Live, SessionRec, SessionsReachable
<1>4. None \notin Names \cup Slots
  BY RendererAssumption
<1>5. CASE \E s \in Slots : StartSession(n, s)
  <2>1. PICK s \in Slots : StartSession(n, s)
    BY <1>5
  <2>2. /\ \A t \in Slots : t # s => sessions'[t] = sessions[t]
        /\ sessions'[s].name = n /\ sessions'[s].pending = [r \in Ids |-> 0]
    BY <2>1, Types DEF StartSession, FreeSession
  <2>3. /\ endpoints'[n].sess = s
        /\ \A m \in Names : m # n => endpoints'[m] = endpoints[m]
    BY <2>1, Types DEF StartSession
  <2>4. endpoints[n].sess = None
    BY <2>1 DEF StartSession, SessionsKnown
  <2>5. \A t \in Slots : Live(t) => sessions[t].name # n
    BY <1>3, <1>4, <2>4
  <2>6. SessionsReachable'
    <3>1. ASSUME NEW t \in Slots, Live(t)'
          PROVE  endpoints'[sessions'[t].name].sess = t
      BY <1>3, <2>2, <2>3, <2>5, <3>1 DEF Live
    <3>2. ASSUME NEW t \in Slots, NEW r \in Ids, sessions'[t].pending[r] # 0
          PROVE  requests'[sessions'[t].pending[r]].conn = endpoints'[sessions'[t].name].conn
      <4>1. t # s /\ sessions'[t] = sessions[t]
        BY <2>2, <3>2
      <4>2. Live(t)
        BY <3>2, <4>1 DEF PendingSound
      <4>3. endpoints'[sessions[t].name] = endpoints[sessions[t].name]
        BY <1>3, <2>3, <2>5, <4>2
      <4>4. QED
        BY <1>1, <3>2, <4>1, <4>3 DEF SessionsReachable
    <3>3. QED
      BY <3>1, <3>2 DEF SessionsReachable
  <2>7. QED
    BY <1>2, <2>6
<1>6. CASE EndSession(n) \/ DelEndpoint(n)
  <2> DEFINE s == endpoints[n].sess
  <2>1. \A m \in Names : m # n => endpoints'[m] = endpoints[m]
    BY <1>6, Types DEF EndSession, DelEndpoint
  <2>2. ASSUME NEW t \in Slots, Live(t)'
        PROVE  sessions'[t] = sessions[t] /\ Live(t) /\ sessions[t].name # n
    <3>1. CASE s = None
      <4>1. sessions' = sessions
        BY <1>6, <3>1 DEF EndSession, DelEndpoint
      <4>2. QED
        BY <1>3, <1>4, <2>2, <3>1, <4>1 DEF Live
    <3>2. CASE s # None
      <4>1. RemoveSession(s) /\ s \in Slots
        BY <1>6, <3>2, Types DEF EndSession, DelEndpoint
      <4>2. sessions'[s].name = None /\ \A u \in Slots : u # s => sessions'[u] = sessions[u]
        BY <4>1, Types DEF RemoveSession, FreeSession
      <4>3. t # s
        BY <2>2, <4>2 DEF Live
      <4>4. QED
        BY <1>3, <2>2, <4>2, <4>3 DEF Live
    <3>3. QED
      BY <3>1, <3>2
  <2>3. ASSUME NEW t \in Slots, NEW r \in Ids, sessions'[t].pending[r] # 0
        PROVE  Live(t)'
    <3>1. CASE s = None
      <4>1. sessions' = sessions
        BY <1>6, <3>1 DEF EndSession, DelEndpoint
      <4>2. QED
        BY <2>3, <4>1 DEF PendingSound, Live
    <3>2. CASE s # None
      <4>1. RemoveSession(s) /\ s \in Slots
        BY <1>6, <3>2, Types DEF EndSession, DelEndpoint
      <4>2. /\ sessions'[s].pending = [i \in Ids |-> 0]
            /\ \A u \in Slots : u # s => sessions'[u] = sessions[u]
        BY <4>1, Types DEF RemoveSession, FreeSession
      <4>3. QED
        BY <2>3, <4>2 DEF PendingSound, Live
    <3>3. QED
      BY <3>1, <3>2
  <2>4. SessionsReachable'
    BY <1>1, <1>3, <2>1, <2>2, <2>3 DEF SessionsReachable
  <2>5. QED
    BY <1>2, <2>4
<1>7. QED
  BY <1>5, <1>6

LEMMA RequestKept ==
    ASSUME IInv, NEW n \in Names, NEW r \in Ids, Request(n, r)
    PROVE  Kept
<1> USE DEF IInv
<1> DEFINE s == endpoints[n].sess
<1>1. CASE UNCHANGED <<endpoints, sessions, requests>>
  BY <1>1, QuietKept
<1>2. CASE \E v \in Views :
              /\ MaySend(n, r) /\ s # None /\ UNCHANGED endpoints
              /\ Pend(n, r, v) \/ \E p \in Pages : CreatePlainwin(n, r, p, v)
  <2>1. PICK v \in Views :
              /\ MaySend(n, r) /\ s # None /\ UNCHANGED endpoints
              /\ Pend(n, r, v) \/ \E p \in Pages : CreatePlainwin(n, r, p, v)
    BY <1>2
  <2>2. Pended(s, endpoints[n].conn, r, v)
    BY <2>1, PendFacts, CreateFacts
  <2>3. /\ s \in Slots /\ Live(s) /\ sessions[s].name = n
        /\ endpoints[n].conn \in 1..MaxConns /\ Len(requests) < MaxRequests
    BY <2>1, Sender
  <2>4. QED
    BY <2>1, <2>2, <2>3, PendedKept
<1>3. QED
  <2>1. CASE RequestWithoutSession(n, r) \/ SpecialPlainWindow(n, r) \/ SetPageGroups(n, r)
    BY <1>1, <2>1 DEF RequestWithoutSession, Crash, SpecialPlainWindow, SetPageGroups, AnswerNow
  <2>2. CASE \E p \in Pages, grouped \in BOOLEAN, v \in Views :
                CreatePlainWindow(n, r, p, grouped, v)
    BY <1>1, <1>2, <2>2 DEF CreatePlainWindow, AnswerNow
  <2>3. CASE \E v \in Views, blank \in BOOLEAN : UpdatePlainWindow(n, r, v, blank)
    BY <1>1, <1>2, <2>3 DEF UpdatePlainWindow, AnswerNow
  <2>4. CASE \E v \in Views : DestroyPlainWindow(n, r, v)
    BY <1>1, <2>4 DEF DestroyPlainWindow, AnswerNow
  <2>5. CASE \E v \in Views : AskPage(n, r, v)
    BY <1>1, <1>2, <2>5 DEF AskPage, AnswerNow
  <2>6. QED
    BY <2>1, <2>2, <2>3, <2>4, <2>5 DEF Request

LEMMA CallbackKept ==
    ASSUME IInv, \/ \E v \in Views : PageReady(v) \/ PageEvent(v) \/ UserCloses(v)
                                     \/ ViewClosed(v)
                 \/ \E f \in flights : PageAnswers(f)
    PROVE  Kept
<1> USE DEF IInv
<1>1. CASE UNCHANGED <<endpoints, sessions, requests>>
  BY <1>1, QuietKept
<1>2. ASSUME NEW v \in Views, PageReady(v)
      PROVE  Kept
  <2>1. CASE Freed(views[v].sess)
    BY <1>1, <1>2, <2>1 DEF PageReady
  <2>2. CASE ~Freed(views[v].sess)
    <3>1. FinishResponse(views[v].sess, views[v].loading) /\ UNCHANGED endpoints
      BY <1>2, <2>2 DEF PageReady
    <3>2. views[v].sess \in Slots /\ Live(views[v].sess)
      BY <2>2, Types DEF Freed, Live, ViewRec
    <3>3. views[v].loading \in 1..Len(requests)
      BY <1>2, Types, LenProperties DEF PageReady, RepliesKnown, ViewRec
    <3>4. QED
      BY <3>1, <3>2, <3>3, FinishKept
  <2>3. QED
    BY <2>1, <2>2
<1>3. ASSUME NEW f \in flights, PageAnswers(f)
      PROVE  Kept
  <2>1. CASE Freed(f.sess)
    BY <1>1, <1>3, <2>1 DEF PageAnswers
  <2>2. CASE ~Freed(f.sess)
    <3>1. FinishResponse(f.sess, f.req) /\ UNCHANGED endpoints
      BY <1>3, <2>2 DEF PageAnswers
    <3>2. f.sess \in Slots /\ Live(f.sess) /\ f.req \in 1..Len(requests)
      BY <2>2, Types, LenProperties DEF Freed, RepliesKnown
    <3>3. QED
      BY <3>1, <3>2, FinishKept
  <2>3. QED
    BY <2>1, <2>2
<1>4. ASSUME NEW v \in Views, ViewClosed(v)
      PROVE  Kept
  <2>1. /\ UNCHANGED endpoints /\ Len(requests') = Len(requests)
        /\ \A q \in 1..Len(requests) : /\ requests'[q].answers = requests[q].answers
                                       /\ requests'[q].conn = requests[q].conn
        /\ \A t \in Slots : /\ sessions'[t].name = sessions[t].name
                            /\ sessions'[t].pending = sessions[t].pending
    BY <1>4, ClosedFacts
  <2>2. QED
    BY <2>1 DEF Kept, EntryKept, AnswerKept
<1>5. ASSUME NEW v \in Views, PageEvent(v) \/ UserCloses(v)
      PROVE  Kept
  BY <1>1, <1>5 DEF PageEvent, UserCloses
<1>6. QED
  BY <1>2, <1>3, <1>4, <1>5

HomeInv == Without({"restarts"}) => SessionsReachable /\ AnswersHome

LEMMA EnvStays == [Next]_vars => env' = env
BY DEF Next, vars, StartSession, RestartSession, EndSession, DelEndpoint, Request,
   RequestWithoutSession, Crash, SpecialPlainWindow, SetPageGroups, CreatePlainWindow,
   UpdatePlainWindow, DestroyPlainWindow, AskPage, PageReady, PageEvent, UserCloses,
   ViewClosed, PageAnswers

LEMMA NextHome == IInv /\ HomeInv /\ [Next]_vars => HomeInv'
<1> SUFFICES ASSUME IInv, HomeInv, [Next]_vars, Without({"restarts"})'
             PROVE  SessionsReachable' /\ AnswersHome'
  BY DEF HomeInv
<1>1. env' = env
  BY EnvStays
<1>2. SessionsReachable /\ AnswersHome /\ "restarts" \notin env
  BY <1>1 DEF HomeInv, Without
<1>3. CASE Kept
  BY <1>2, <1>3, KeptHome
<1>4. CASE UNCHANGED vars
  BY <1>3, <1>4, QuietKept DEF vars
<1>5. CASE \E n \in Names : (\E s \in Slots : StartSession(n, s)) \/ EndSession(n) \/ DelEndpoint(n)
  BY <1>2, <1>5, SessionHome
<1>6. \A n \in Names : ~RestartSession(n)
  BY <1>2 DEF RestartSession
<1>7. QED
  BY <1>3, <1>4, <1>5, <1>6, RequestKept, CallbackKept DEF Next

-----------------------------------------------------------------------------
(***************************************************************************)
(* Windows and their sessions.  If sessions do not end before their        *)
(* windows either, every view has its session to call back, page_owners    *)
(* lists open windows, and an event goes to who opened the window.         *)
(***************************************************************************)
ViewOwned(v) ==
    /\ Live(views[v].sess)
    /\ v \in sessions[views[v].sess].handles
    /\ views[v].conn = endpoints[sessions[views[v].sess].name].conn

OwnerSound(a, p) ==
    owners[a][p] # None =>
        /\ Opened(owners[a][p])
        /\ views[owners[a][p]].page = p
        /\ AppOf[sessions[views[owners[a][p]].sess].name] = a

ViewsOwned ==
    /\ \A v \in Views : Opened(v) => ViewOwned(v)
    /\ \A f \in flights : Opened(f.view) /\ views[f.view].sess = f.sess
    /\ \A a \in Apps, p \in Pages : OwnerSound(a, p)
    /\ strays = {}
    /\ ~crashed

OwnedInv == Without({"endings", "restarts"}) => ViewsOwned

(* Steps that move nothing between sessions, windows and page_owners. *)
LEMMA OwnedKept ==
    ASSUME IInv, ViewsOwned, UNCHANGED <<endpoints, owners, strays, crashed>>,
           \A t \in Slots : /\ sessions'[t].name = sessions[t].name
                            /\ sessions'[t].handles = sessions[t].handles,
           \A v \in Views : /\ Opened(v)' <=> Opened(v)
                            /\ views'[v].sess = views[v].sess
                            /\ views'[v].page = views[v].page
                            /\ views'[v].conn = views[v].conn,
           \A f \in flights' : f \in flights \/ /\ f.view \in Views /\ Opened(f.view)
                                                /\ views[f.view].sess = f.sess
    PROVE  ViewsOwned'
<1> USE DEF IInv
<1>1. ASSUME NEW v \in Views, Opened(v)'
      PROVE  ViewOwned(v)'
  <2>1. ViewOwned(v) /\ views[v].sess \in Slots
    BY <1>1, Types DEF ViewsOwned, ViewOwned, Live, ViewRec
  <2>2. QED
    BY <2>1 DEF ViewOwned, Live
<1>2. \A f \in flights' : Opened(f.view)' /\ views'[f.view].sess = f.sess
  BY Types DEF ViewsOwned
<1>3. ASSUME NEW a \in Apps, NEW p \in Pages
      PROVE  OwnerSound(a, p)'
  <2>1. CASE owners[a][p] = None
    BY <2>1 DEF OwnerSound
  <2>2. CASE owners[a][p] # None
    <3> DEFINE v == owners[a][p]
    <3>1. v \in Views
      BY <2>2, Types
    <3>2. /\ Opened(v) /\ views[v].page = p
          /\ AppOf[sessions[views[v].sess].name] = a
      BY <2>2 DEF ViewsOwned, OwnerSound
    <3>3. views[v].sess \in Slots
      BY <3>1, <3>2, Types DEF ViewsOwned, ViewOwned, Live, ViewRec
    <3>4. owners' = owners /\ Opened(v)' /\ views'[v].page = p /\ views'[v].sess = views[v].sess
      BY <3>1, <3>2
    <3>5. sessions'[views[v].sess].name = sessions[views[v].sess].name
      BY <3>3
    <3>6. QED
      BY <3>2, <3>4, <3>5 DEF OwnerSound
  <2>3. QED
    BY <2>1, <2>2
<1>4. QED
  BY <1>1, <1>2, <1>3 DEF ViewsOwned

(* The views of sessions that stay, when sessions come and go. *)
LEMMA OwnedSessions ==
    ASSUME IInv, SessionsReachable, ViewsOwned, NEW n \in Names,
           "endings" \notin env,
           (\E s \in Slots : StartSession(n, s)) \/ EndSession(n) \/ DelEndpoint(n)
    PROVE  ViewsOwned'
<1> USE DEF IInv
<1>1. UNCHANGED <<owners, flights, strays, crashed>>
  BY DEF StartSession, EndSession, DelEndpoint
<1>2. \A m \in Names : m # n => endpoints'[m] = endpoints[m]
  BY Types DEF StartSession, EndSession, DelEndpoint
<1>3. None \notin Names \cup Slots
  BY RendererAssumption
<1>4. \A t \in Slots : Live(t) => /\ sessions[t].name \in Names
                                  /\ endpoints[sessions[t].name].sess = t
  BY Types DEF Live, SessionRec, SessionsReachable
<1>5. /\ views' = views
      /\ \A v \in Views : Opened(v) =>
            /\ views[v].sess \in Slots
            /\ sessions'[views[v].sess] = sessions[views[v].sess]
            /\ sessions[views[v].sess].name # n
               \/ endpoints'[n].conn = endpoints[n].conn
  <2>1. \A v \in Views : Opened(v) => Live(views[v].sess) /\ views[v].sess \in Slots
    BY Types DEF ViewsOwned, ViewOwned, Live, ViewRec
  <2>2. CASE \E s \in Slots : StartSession(n, s)
    <3>1. PICK s \in Slots : StartSession(n, s)
      BY <2>2
    <3>2. views' = views /\ \A t \in Slots : t # s => sessions'[t] = sessions[t]
      BY <3>1, Types DEF StartSession
    <3>3. ~Live(s) /\ endpoints[n].sess = None
      BY <3>1 DEF StartSession, SessionsKnown
    <3>4. QED
      BY <1>3, <1>4, <2>1, <3>2, <3>3
  <2>3. CASE (EndSession(n) \/ DelEndpoint(n)) /\ endpoints[n].sess = None
    <3>1. UNCHANGED <<views, sessions>>
      BY <2>3 DEF EndSession, DelEndpoint
    <3>2. QED
      BY <1>3, <1>4, <2>1, <2>3, <3>1
  <2>4. CASE (EndSession(n) \/ DelEndpoint(n)) /\ endpoints[n].sess # None
    <3> DEFINE s == endpoints[n].sess
    <3>1. RemoveSession(s) /\ MayEnd(s) /\ s \in Slots
      BY <2>4, Types DEF EndSession, DelEndpoint
    <3>2. \A v \in Views : views[v].sess # s
      BY <3>1 DEF MayEnd
    <3>3. OwnPages(s) = {}
      BY <3>1, <3>2, Types DEF OwnPages, HandlesOpen, SessionRec
    <3>4. views' = views
      BY <3>1, <3>3, Types DEF RemoveSession
    <3>5. \A t \in Slots : t # s => sessions'[t] = sessions[t]
      BY <3>1, Types DEF RemoveSession
    <3>6. QED
      BY <1>4, <2>1, <3>2, <3>4, <3>5
  <2>5. QED
    BY <2>2, <2>3, <2>4
<1>6. ASSUME NEW v \in Views, Opened(v)'
      PROVE  ViewOwned(v)'
  <2>1. Opened(v)
    BY <1>5, <1>6 DEF Opened
  <2>2. ViewOwned(v) /\ views[v].sess \in Slots
    BY <1>5, <2>1 DEF ViewsOwned
  <2>3. endpoints'[sessions[views[v].sess].name].conn = endpoints[sessions[views[v].sess].name].conn
    BY <1>2, <1>4, <1>5, <2>1, <2>2 DEF ViewOwned
  <2>4. QED
    BY <1>5, <2>1, <2>2, <2>3 DEF ViewOwned, Live
<1>7. \A f \in flights' : Opened(f.view)' /\ views'[f.view].sess = f.sess
  BY <1>1, <1>5 DEF ViewsOwned, Opened
<1>8. ASSUME NEW a \in Apps, NEW p \in Pages
      PROVE  OwnerSound(a, p)'
  <2>1. CASE owners[a][p] = None
    BY <1>1, <2>1 DEF OwnerSound
  <2>2. CASE owners[a][p] # None
    <3>1. OwnerSound(a, p) /\ owners[a][p] \in Views
      BY <2>2, Types DEF ViewsOwned
    <3>2. QED
      BY <1>1, <1>5, <2>2, <3>1 DEF OwnerSound, Opened
  <2>3. QED
    BY <2>1, <2>2
<1>9. QED
  BY <1>1, <1>6, <1>7, <1>8 DEF ViewsOwned

LEMMA OwnedQuiet ==
    ASSUME IInv, ViewsOwned,
           UNCHANGED <<endpoints, owners, strays, crashed, sessions, views, flights>>
    PROVE  ViewsOwned'
BY OwnedKept, Types DEF IInv, Opened

LEMMA OwnedCreate ==
    ASSUME IInv, ViewsOwned, NEW n \in Names, NEW r \in Ids, NEW p \in Pages, NEW v \in Views,
           MaySend(n, r), endpoints[n].sess # None, FindPage(n, p) = None,
           CreatePlainwin(n, r, p, v), UNCHANGED <<endpoints, flights, strays, crashed>>
    PROVE  ViewsOwned'
<1> USE DEF IInv
<1> DEFINE s == endpoints[n].sess
<1>1. s \in Slots /\ Live(s) /\ sessions[s].name = n
  BY Sender
<1>2. /\ ~Opened(v)
      /\ owners' = [owners EXCEPT ![AppOf[n]][p] = v]
      /\ \A u \in Views : u # v => views'[u] = views[u]
      /\ views'[v] = [state |-> "open", sess |-> s, page |-> p,
                      loading |-> Len(requests) + 1, conn |-> endpoints[n].conn]
  BY CreateFacts
<1>3. /\ \A t \in Slots : t # s => sessions'[t] = sessions[t]
      /\ \A t \in Slots : sessions'[t].name = sessions[t].name
      /\ sessions'[s].handles = sessions[s].handles \cup {v}
  BY CreateFacts
<1>4. /\ views'[v].state = "open" /\ views'[v].sess = s /\ views'[v].page = p
      /\ views'[v].conn = endpoints[n].conn
  BY <1>2
<1>5. \A u \in Views : Opened(u) => /\ u # v /\ views'[u] = views[u]
                                   /\ views[u].sess \in Slots
  BY <1>2, Types DEF ViewsOwned, ViewOwned, Live, ViewRec
<1>6. ASSUME NEW u \in Views, Opened(u)'
      PROVE  ViewOwned(u)'
  <2>1. CASE u = v
    BY <1>1, <1>3, <1>4, <2>1 DEF ViewOwned, Live
  <2>2. CASE u # v
    <3>1. Opened(u) /\ views'[u] = views[u]
      BY <1>2, <1>6, <2>2 DEF Opened
    <3>2. ViewOwned(u) /\ views[u].sess \in Slots
      BY <1>5, <3>1 DEF ViewsOwned
    <3>3. QED
      BY <1>3, <3>1, <3>2 DEF ViewOwned, Live
  <2>3. QED
    BY <2>1, <2>2
<1>7. \A f \in flights' : Opened(f.view)' /\ views'[f.view].sess = f.sess
  BY <1>5, Types DEF ViewsOwned, Opened
<1>8. ASSUME NEW a \in Apps, NEW i \in Pages
      PROVE  OwnerSound(a, i)'
  <2>1. CASE a = AppOf[n] /\ i = p
    <3>1. owners'[a][i] = v
      BY <1>2, <2>1, Types
    <3>2. QED
      BY <1>1, <1>3, <1>4, <2>1, <3>1 DEF OwnerSound, Opened
  <2>2. CASE ~(a = AppOf[n] /\ i = p)
    <3>1. owners'[a][i] = owners[a][i]
      BY <1>2, <2>2, Types
    <3>2. OwnerSound(a, i) /\ owners[a][i] \in Views \cup {None}
      BY Types DEF ViewsOwned
    <3>3. QED
      BY <1>3, <1>5, <3>1, <3>2 DEF OwnerSound, Opened
  <2>3. QED
    BY <2>1, <2>2
<1>9. QED
  BY <1>6, <1>7, <1>8 DEF ViewsOwned

LEMMA OwnedRequest ==
    ASSUME IInv, ViewsOwned, Without({"endings", "restarts"}),
           NEW n \in Names, NEW r \in Ids, Request(n, r)
    PROVE  ViewsOwned'
<1> USE DEF IInv
<1> DEFINE s == endpoints[n].sess
<1>1. ~RequestWithoutSession(n, r)
  BY DEF RequestWithoutSession
<1>2. \A p \in Pages : FindPage(n, p) # None => Opened(FindPage(n, p))
  BY RendererAssumption DEF FindPage, ViewsOwned, OwnerSound
<1>3. CASE SpecialPlainWindow(n, r)
  <2>1. ~\E v \in {owners[AppOf[n]][p] : p \in Pages} \ {None} : ~Opened(v)
    BY <1>2 DEF FindPage
  <2>2. crashed' = FALSE /\ UNCHANGED <<endpoints, owners, strays, sessions, views, flights>>
    BY <1>3, <2>1 DEF SpecialPlainWindow
  <2>3. crashed = FALSE
    BY Types DEF ViewsOwned
  <2>4. QED
    BY <2>2, <2>3, OwnedQuiet
<1>4. CASE SetPageGroups(n, r)
  BY <1>4, OwnedQuiet DEF SetPageGroups
<1>5. ASSUME NEW p \in Pages, NEW grouped \in BOOLEAN, NEW v \in Views,
             CreatePlainWindow(n, r, p, grouped, v)
      PROVE  ViewsOwned'
  <2>1. /\ MaySend(n, r) /\ s # None
        /\ UNCHANGED <<endpoints, flights, strays>>
    BY <1>5 DEF CreatePlainWindow
  <2>2. CASE UNCHANGED <<sessions, owners, views, crashed>>
    BY <2>1, <2>2, OwnedQuiet
  <2>3. CASE FindPage(n, p) = None /\ CreatePlainwin(n, r, p, v) /\ UNCHANGED crashed
    BY <2>1, <2>3, OwnedCreate
  <2>4. QED
    BY <1>2, <1>5, <2>2, <2>3 DEF CreatePlainWindow
<1>6. ASSUME NEW v \in Views, NEW blank \in BOOLEAN,
             AskPage(n, r, v) \/ UpdatePlainWindow(n, r, v, blank)
      PROVE  ViewsOwned'
  <2>1. /\ MaySend(n, r) /\ s # None
        /\ UNCHANGED <<endpoints, owners, views, strays, crashed>>
    BY <1>6 DEF AskPage, UpdatePlainWindow
  <2>2. s \in Slots
    BY <2>1, Sender
  <2>3. \A t \in Slots : /\ sessions'[t].name = sessions[t].name
                         /\ sessions'[t].handles = sessions[t].handles
    <3>1. CASE Pend(n, r, v)
      BY <2>1, <3>1, PendFacts DEF Pended
    <3>2. CASE UNCHANGED sessions
      BY <3>2
    <3>3. QED
      BY <1>6, <3>1, <3>2 DEF AskPage, UpdatePlainWindow
  <2>4. \A f \in flights' : f \in flights \/ /\ f.view \in Views /\ Opened(f.view)
                                             /\ views[f.view].sess = f.sess
    <3>1. CASE UNCHANGED flights
      BY <3>1
    <3>2. CASE v \in sessions[s].handles /\ SendToPage(s, v)
      <4>1. Opened(v) /\ views[v].sess = s
        BY <2>2, <3>2 DEF HandlesOpen
      <4>2. QED
        BY <3>2, <4>1 DEF SendToPage
    <3>3. QED
      BY <1>6, <3>1, <3>2 DEF AskPage, UpdatePlainWindow
  <2>5. QED
    BY <2>1, <2>3, <2>4, OwnedKept DEF Opened
<1>7. ASSUME NEW v \in Views, DestroyPlainWindow(n, r, v)
      PROVE  ViewsOwned'
  <2>1. UNCHANGED <<endpoints, owners, sessions, flights, strays, crashed>>
    BY <1>7 DEF DestroyPlainWindow
  <2>2. s \in Slots /\ DestroyPlainwin(s, v)
    BY <1>7, Types DEF DestroyPlainWindow
  <2>3. CASE v \in sessions[s].handles
    <3>1. Opened(v) /\ views' = [views EXCEPT ![v].state = "closing"]
      BY <2>2, <2>3 DEF HandlesOpen, DestroyPlainwin
    <3>2. \A u \in Views : /\ Opened(u)' <=> Opened(u)
                           /\ views'[u].sess = views[u].sess
                           /\ views'[u].page = views[u].page
                           /\ views'[u].conn = views[u].conn
      BY <3>1, Types DEF Opened, ViewRec
    <3>3. QED
      BY <2>1, <3>2, OwnedKept
  <2>4. CASE v \notin sessions[s].handles
    BY <2>1, <2>2, <2>4, OwnedQuiet DEF DestroyPlainwin
  <2>5. QED
    BY <2>3, <2>4
<1>8. QED
  BY <1>1, <1>3, <1>4, <1>5, <1>6, <1>7 DEF Request

(* The endpoint that is found by the name of a view's session opened the view. *)
LEMMA EventHome ==
    ASSUME ViewsOwned, NEW v \in Views, Opened(v), PostEvent(views[v].sess, v)
    PROVE  strays' = strays
<1>1. EndpointOf(views[v].sess) = views[v].conn
  BY DEF ViewsOwned, ViewOwned, EndpointOf
<1>2. QED
  BY <1>1 DEF PostEvent

LEMMA OwnedAnswer ==
    ASSUME IInv, ViewsOwned, NEW s \in Slots, Live(s), NEW reply \in 1..Len(requests),
           FinishResponse(s, reply), UNCHANGED <<endpoints, owners, strays, crashed>>,
           \A v \in Views : /\ Opened(v)' <=> Opened(v)
                            /\ views'[v].sess = views[v].sess
                            /\ views'[v].page = views[v].page
                            /\ views'[v].conn = views[v].conn,
           flights' \subseteq flights
    PROVE  ViewsOwned'
BY FinishSound, OwnedKept

LEMMA OwnedClosed ==
    ASSUME IInv, ViewsOwned, NEW v \in Views, ViewClosed(v)
    PROVE  ViewsOwned'
<1> USE DEF IInv
<1> DEFINE s == views[v].sess
<1>1. Opened(v)
  BY DEF ViewClosed, Opened
<1>2. Live(s) /\ v \in sessions[s].handles /\ s \in Slots
  BY <1>1, Types DEF ViewsOwned, ViewOwned, Live, ViewRec
<1>3. /\ UNCHANGED crashed
      /\ owners' = [owners EXCEPT ![AppOf[sessions[s].name]][views[v].page] = None]
      /\ PostEvent(s, v)
  BY <1>2 DEF ViewClosed, Freed, OnWebviewClose
<1>4. UNCHANGED <<endpoints, strays>>
  BY <1>1, <1>3, EventHome DEF ViewClosed
<1>5. /\ \A u \in Views : u # v => views'[u] = views[u]
      /\ views'[v].state = "none"
      /\ \A t \in Slots : /\ sessions'[t].name = sessions[t].name
                          /\ sessions'[t].handles = sessions[t].handles \ {v}
  BY ClosedFacts DEF FreeView
<1>6. ASSUME NEW u \in Views, Opened(u)'
      PROVE  ViewOwned(u)'
  <2>1. u # v /\ views'[u] = views[u] /\ Opened(u)
    BY <1>5, <1>6 DEF Opened
  <2>2. ViewOwned(u) /\ views[u].sess \in Slots
    BY <2>1, Types DEF ViewsOwned, ViewOwned, Live, ViewRec
  <2>3. QED
    BY <1>4, <1>5, <2>1, <2>2 DEF ViewOwned, Live
<1>7. \A f \in flights' : Opened(f.view)' /\ views'[f.view].sess = f.sess
  <2>1. \A f \in flights' : f \in flights /\ f.view # v /\ f.view \in Views
    BY Types DEF ViewClosed
  <2>2. QED
    BY <1>5, <2>1 DEF ViewsOwned, Opened
<1>8. ASSUME NEW a \in Apps, NEW p \in Pages, owners'[a][p] # None
      PROVE  OwnerSound(a, p)'
  <2>1. /\ owners'[a][p] = owners[a][p]
        /\ ~(a = AppOf[sessions[s].name] /\ p = views[v].page)
    BY <1>3, <1>8, Types
  <2>2. OwnerSound(a, p) /\ owners[a][p] \in Views
    BY <1>8, <2>1, Types DEF ViewsOwned
  <2>3. owners[a][p] # v
    BY <1>8, <2>1, <2>2 DEF OwnerSound
  <2>4. views[owners[a][p]].sess \in Slots
    BY <1>8, <2>1, <2>2, Types DEF OwnerSound, ViewsOwned, ViewOwned, Live, ViewRec
  <2>5. QED
    BY <1>5, <1>8, <2>1, <2>2, <2>3, <2>4 DEF OwnerSound, Opened
<1>9. QED
  BY <1>3, <1>4, <1>6, <1>7, <1>8 DEF ViewsOwned, OwnerSound

LEMMA OwnedCallback ==
    ASSUME IInv, ViewsOwned,
           \/ \E v \in Views : PageReady(v) \/ PageEvent(v) \/ UserCloses(v) \/ ViewClosed(v)
           \/ \E f \in flights : PageAnswers(f)
    PROVE  ViewsOwned'
<1> USE DEF IInv
<1>1. \A v \in Views : Opened(v) => views[v].sess \in Slots /\ ~Freed(views[v].sess)
  BY Types DEF ViewsOwned, ViewOwned, Freed, Live, ViewRec
<1>2. ASSUME NEW v \in Views, PageReady(v)
      PROVE  ViewsOwned'
  <2>1. Opened(v) /\ views[v].sess \in Slots /\ ~Freed(views[v].sess)
    BY <1>1, <1>2 DEF PageReady
  <2>2. /\ FinishResponse(views[v].sess, views[v].loading)
        /\ UNCHANGED <<endpoints, owners, strays, crashed, flights>>
        /\ views' = [views EXCEPT ![v].loading = 0]
    BY <1>2, <2>1 DEF PageReady
  <2>3. views[v].loading \in 1..Len(requests)
    BY <1>2, Types, LenProperties DEF PageReady, RepliesKnown, ViewRec
  <2>4. \A u \in Views : /\ Opened(u)' <=> Opened(u)
                         /\ views'[u].sess = views[u].sess
                         /\ views'[u].page = views[u].page
                         /\ views'[u].conn = views[u].conn
    BY <2>2, Types DEF Opened, ViewRec
  <2>5. Live(views[v].sess) /\ flights' \subseteq flights
    BY <2>1, <2>2 DEF Freed
  <2>6. QED
    BY <2>1, <2>2, <2>3, <2>4, <2>5, OwnedAnswer
<1>3. ASSUME NEW f \in flights, PageAnswers(f)
      PROVE  ViewsOwned'
  <2>1. f.sess \in Slots /\ ~Freed(f.sess) /\ f.req \in 1..Len(requests)
    BY <1>1, Types, LenProperties DEF ViewsOwned, RepliesKnown
  <2>2. /\ FinishResponse(f.sess, f.req)
        /\ UNCHANGED <<endpoints, owners, strays, crashed, views>>
        /\ flights' \subseteq flights
    BY <1>3, <2>1 DEF PageAnswers
  <2>3. Live(f.sess)
    BY <2>1 DEF Freed
  <2>4. QED
    BY <2>1, <2>2, <2>3, OwnedAnswer DEF Opened
<1>4. ASSUME NEW v \in Views, PageEvent(v)
      PROVE  ViewsOwned'
  <2>1. /\ Opened(v) /\ PostEvent(views[v].sess, v)
        /\ UNCHANGED <<endpoints, owners, crashed, sessions, views, flights>>
    BY <1>1, <1>4 DEF PageEvent
  <2>2. QED
    BY <2>1, EventHome, OwnedQuiet
<1>5. ASSUME NEW v \in Views, UserCloses(v)
      PROVE  ViewsOwned'
  <2>1. /\ views[v].state = "open"
        /\ views' = [views EXCEPT ![v].state = "closing"]
        /\ UNCHANGED <<endpoints, owners, strays, crashed, sessions, flights>>
    BY <1>5 DEF UserCloses
  <2>2. \A u \in Views : /\ Opened(u)' <=> Opened(u)
                         /\ views'[u].sess = views[u].sess
                         /\ views'[u].page = views[u].page
                         /\ views'[u].conn = views[u].conn
    BY <2>1, Types DEF Opened, ViewRec
  <2>3. QED
    BY <2>1, <2>2, OwnedKept
<1>6. QED
  BY <1>2, <1>3, <1>4, <1>5, OwnedClosed

LEMMA NextOwned == IInv /\ HomeInv /\ OwnedInv /\ [Next]_vars => OwnedInv'
<1> SUFFICES ASSUME IInv, HomeInv, OwnedInv, [Next]_vars, Without({"endings", "restarts"})'
             PROVE  ViewsOwned'
  BY DEF OwnedInv
<1>1. env' = env
  BY EnvStays
<1>2. Without({"endings", "restarts"}) /\ Without({"restarts"})
  BY <1>1 DEF Without
<1>3. SessionsReachable /\ ViewsOwned /\ "endings" \notin env /\ "restarts" \notin env
  BY <1>2 DEF HomeInv, OwnedInv, Without
<1>4. CASE UNCHANGED vars
  BY <1>3, <1>4, OwnedQuiet DEF vars
<1>5. CASE \E n \in Names : (\E s \in Slots : StartSession(n, s)) \/ EndSession(n) \/ DelEndpoint(n)
  BY <1>3, <1>5, OwnedSessions
<1>6. CASE \E n \in Names, r \in Ids : Request(n, r)
  BY <1>2, <1>3, <1>6, OwnedRequest
<1>7. \A n \in Names : ~RestartSession(n)
  BY <1>3 DEF RestartSession
<1>8. QED
  BY <1>3, <1>4, <1>5, <1>6, <1>7, OwnedCallback DEF Next

LEMMA InitHome == Init => HomeInv /\ OwnedInv
<1> SUFFICES ASSUME Init
             PROVE  /\ SessionsReachable /\ AnswersHome
                    /\ ViewsOwned
  BY DEF HomeInv, OwnedInv
<1>1. /\ \A s \in Slots : ~Live(s) /\ sessions[s].pending = [r \in Ids |-> 0]
      /\ \A v \in Views : ~Opened(v)
      /\ \A a \in Apps, p \in Pages : owners[a][p] = None
      /\ Len(requests) = 0 /\ flights = {} /\ strays = {} /\ ~crashed
  BY DEF Init, Live, Opened, FreeSession, FreeView
<1>2. SessionsReachable /\ AnswersHome
  BY <1>1 DEF SessionsReachable, AnswersHome
<1>3. QED
  BY <1>1, <1>2 DEF ViewsOwned, OwnerSound

\* All three hold always; each needs those before it.
LEMMA HomeInvariance == Spec => [](HomeInv /\ OwnedInv)
<1>1. Init => HomeInv /\ OwnedInv
  BY InitHome
<1>2. IInv /\ HomeInv /\ OwnedInv /\ [Next]_vars => (HomeInv /\ OwnedInv)'
  BY NextHome, NextOwned
<1>3. QED
  BY <1>1, <1>2, Invariance, PTL DEF Spec

(* Answers and events go to the connection that asked, or that opened the     *)
(* window, although handlers and callbacks find it by the name of a session.  *)
THEOREM GoHome == Spec => []MessagesGoHome
<1>1. HomeInv /\ OwnedInv => MessagesGoHome
  <2>1. Without({"restarts"}) /\ Without({"endings"}) => Without({"endings", "restarts"})
    BY DEF Without
  <2>2. QED
    BY <2>1 DEF HomeInv, OwnedInv, AnswersHome, ViewsOwned, MessagesGoHome
<1>2. QED
  BY <1>1, HomeInvariance, PTL

(* Where sessions outlive their windows and none is started twice, no         *)
(* callback meets a freed session and no handler a closed window.             *)
THEOREM NeverCrashes == Spec => []NoCrash
<1>1. OwnedInv => NoCrash
  BY DEF OwnedInv, ViewsOwned, NoCrash
<1>2. QED
  BY <1>1, HomeInvariance, PTL

-----------------------------------------------------------------------------
(***************************************************************************)
(* What replies answer.  If no requestId is used twice at a time and       *)
(* sessions outlive their windows, then what a page is still to reply to   *)
(* is the request that is pending under its identifier: the view is there, *)
(* so is its session, and nothing took the entry in between.               *)
(***************************************************************************)
\* View v is to reply to request q, in session s.
AskedFor(q, v, s) ==
    /\ q \in 1..Len(requests)
    /\ requests[q].view = v
    /\ requests[q].id # NoReturn => sessions[s].pending[requests[q].id] = q

ViewsAsked ==
    \A v \in Views :
        /\ Opened(v) => Live(views[v].sess)
        /\ views[v].loading # 0 => Opened(v) /\ AskedFor(views[v].loading, v, views[v].sess)

FlightsAsked ==
    \A f \in flights :
        /\ Opened(f.view) /\ views[f.view].sess = f.sess
        /\ views[f.view].loading # f.req
        /\ AskedFor(f.req, f.view, f.sess)

\* What is pending in an endpoint's session, the endpoint's connection asked.
PendingAsked ==
    \A n \in Names, r \in Ids :
        LET s == endpoints[n].sess
        IN  s # None /\ sessions[s].pending[r] # 0
                => requests[sessions[s].pending[r]].conn = endpoints[n].conn

OwnReplies ==
    \A q \in 1..Len(requests) : \A i \in 1..Len(requests[q].answers) :
        requests[q].answers[i].reply = q

Asked == ViewsAsked /\ FlightsAsked /\ PendingAsked /\ OwnReplies

AskedInv == Without({"dups", "endings"}) => Asked

\* A session that no view and no endpoint knows, unless it is empty, may change.
Untouched(t) ==
    \/ /\ sessions'[t].name = sessions[t].name
       /\ sessions'[t].pending = sessions[t].pending
    \/ /\ \A v \in Views : Opened(v) => views[v].sess # t
       /\ \A n \in Names, r \in Ids :
             endpoints'[n].sess = t => sessions'[t].pending[r] = 0

\* Steps that make no request and give no answer.
Steady ==
    /\ flights' \subseteq flights
    /\ \A t \in Slots : Untouched(t)
    /\ Len(requests') = Len(requests)
    /\ \A q \in 1..Len(requests) : /\ requests'[q].answers = requests[q].answers
                                   /\ requests'[q].id = requests[q].id
                                   /\ requests'[q].conn = requests[q].conn
                                   /\ requests'[q].view = requests[q].view
    /\ \A v \in Views :
          \/ /\ Opened(v)' <=> Opened(v)
             /\ views'[v].sess = views[v].sess
             /\ views'[v].loading = views[v].loading
          \/ ~Opened(v)' /\ views'[v].loading = 0 /\ \A f \in flights' : f.view # v
    /\ \A n \in Names :
          \/ endpoints'[n] = endpoints[n]
          \/ endpoints'[n].sess = None
          \/ \A r \in Ids : sessions'[endpoints'[n].sess].pending[r] = 0

(* The identifier of a request and what is pending, by their types. *)
LEMMA EntryTypes ==
    ASSUME IInv
    PROVE  /\ Len(requests) \in Nat
           /\ \A q \in 1..Len(requests) : requests[q].id \in Ids /\ requests[q].view \in Views
           /\ \A s \in Slots, r \in Ids :
                 sessions[s].pending[r] \in Nat
                 /\ (sessions[s].pending[r] # 0 => sessions[s].pending[r] \in 1..Len(requests))
<1> USE DEF IInv
<1>1. requests \in Seq(RequestType) /\ Len(requests) \in Nat
  BY Types, LenProperties
<1>2. \A q \in 1..Len(requests) : requests[q] \in RequestType
  BY <1>1
<1>3. \A s \in Slots, r \in Ids : sessions[s].pending[r] \in 0..MaxRequests
  BY Types DEF SessionRec
<1>4. MaxRequests \in Nat
  BY RendererAssumption
<1>5. QED
  BY <1>1, <1>2, <1>3, <1>4 DEF RequestType, PendingSound

LEMMA SteadyAsked ==
    ASSUME IInv, TypeOK', Asked, Steady
    PROVE  Asked'
<1> USE DEF Asked
<1>1. ASSUME NEW q, NEW v \in Views, NEW s \in Slots, AskedFor(q, v, s),
             sessions'[s].pending = sessions[s].pending
      PROVE  AskedFor(q, v, s)'
  BY <1>1 DEF AskedFor, Steady
<1>2. \A v \in Views : Opened(v) =>
         /\ views[v].sess \in Slots
         /\ sessions'[views[v].sess].name = sessions[views[v].sess].name
         /\ sessions'[views[v].sess].pending = sessions[views[v].sess].pending
  <2>1. \A v \in Views : Opened(v) => views[v].sess \in Slots
    BY Types DEF IInv, ViewsAsked, Live, ViewRec
  <2>2. QED
    BY <2>1 DEF Steady, Untouched
<1>3. ViewsAsked'
  <2> SUFFICES ASSUME NEW v \in Views
               PROVE  /\ Opened(v)' => Live(views[v].sess)'
                      /\ views'[v].loading # 0 =>
                            Opened(v)' /\ AskedFor(views[v].loading, v, views[v].sess)'
    BY DEF ViewsAsked
  <2>1. CASE ~Opened(v)' /\ views'[v].loading = 0
    BY <2>1
  <2>2. CASE (Opened(v)' <=> Opened(v)) /\ views'[v].sess = views[v].sess
             /\ views'[v].loading = views[v].loading
    <3>1. Opened(v)' => Live(views[v].sess)'
      BY <1>2, <2>2 DEF ViewsAsked, Live
    <3>2. ASSUME views'[v].loading # 0
          PROVE  Opened(v)' /\ AskedFor(views[v].loading, v, views[v].sess)'
      <4>1. Opened(v) /\ AskedFor(views[v].loading, v, views[v].sess)
        BY <2>2, <3>2 DEF ViewsAsked
      <4>2. views'[v].loading \in 1..Len(requests')
            /\ requests'[views'[v].loading].view = v
            /\ (requests'[views'[v].loading].id # NoReturn =>
                  sessions'[views'[v].sess].pending[requests'[views'[v].loading].id]
                     = views'[v].loading)
        BY <1>2, <2>2, <4>1 DEF AskedFor, Steady
      <4>3. QED
        BY <2>2, <4>1, <4>2 DEF AskedFor
    <3>3. QED
      BY <3>1, <3>2
  <2>3. QED
    BY <2>1, <2>2 DEF Steady
<1>4. FlightsAsked'
  <2> SUFFICES ASSUME NEW f \in flights'
               PROVE  /\ Opened(f.view)' /\ views'[f.view].sess = f.sess
                      /\ views'[f.view].loading # f.req
                      /\ AskedFor(f.req, f.view, f.sess)'
    BY DEF FlightsAsked
  <2>1. /\ f \in flights /\ f.view \in Views /\ f.sess \in Slots
        /\ Opened(f.view) /\ views[f.view].sess = f.sess
        /\ views[f.view].loading # f.req /\ AskedFor(f.req, f.view, f.sess)
    BY Types DEF IInv, Steady, FlightsAsked
  <2>2. /\ Opened(f.view)' /\ views'[f.view].sess = f.sess
        /\ views'[f.view].loading = views[f.view].loading
    BY <2>1 DEF Steady
  <2>3. AskedFor(f.req, f.view, f.sess)'
    BY <1>2, <2>1 DEF AskedFor, Steady
  <2>4. QED
    BY <2>1, <2>2, <2>3
<1>5. PendingAsked'
  <2> SUFFICES ASSUME NEW n \in Names, NEW r \in Ids, endpoints'[n].sess # None,
                      sessions'[endpoints'[n].sess].pending[r] # 0
               PROVE  requests'[sessions'[endpoints'[n].sess].pending[r]].conn
                         = endpoints'[n].conn
    BY DEF PendingAsked
  <2>1. endpoints'[n] = endpoints[n]
    BY DEF Steady
  <2>2. endpoints[n].sess \in Slots
    BY <2>1, Types DEF IInv
  <2>3. sessions'[endpoints[n].sess].pending = sessions[endpoints[n].sess].pending
    BY <2>1, <2>2 DEF Steady, Untouched
  <2>4. sessions[endpoints[n].sess].pending[r] \in 1..Len(requests)
    BY <2>1, <2>2, <2>3, EntryTypes
  <2>5. QED
    BY <2>1, <2>3, <2>4 DEF Steady, PendingAsked
<1>6. OwnReplies'
  BY DEF Steady, OwnReplies
<1>7. QED
  BY <1>3, <1>4, <1>5, <1>6

\* Nobody waits for an answer under the identifier of a request that may be sent.
LEMMA NothingPending ==
    ASSUME IInv, Asked, NEW n \in Names, NEW r \in Ids, MaySend(n, r), "dups" \notin env,
           endpoints[n].sess # None, r # NoReturn
    PROVE  sessions[endpoints[n].sess].pending[r] = 0
<1> DEFINE s == endpoints[n].sess
           q == sessions[s].pending[r]
<1> SUFFICES ASSUME q # 0
             PROVE  FALSE
  OBVIOUS
<1>1. s \in Slots
  BY Sender
<1>2. q \in 1..Len(requests) /\ requests[q].id = r /\ requests[q].answers = <<>>
  BY <1>1, EntryTypes DEF IInv, PendingSound
<1>3. requests[q].conn = endpoints[n].conn
  BY DEF Asked, PendingAsked
<1>4. QED
  BY <1>2, <1>3 DEF MaySend, Unanswered

(* A request that is pended is what its view, and nothing but its view, is to *)
(* reply to.                                                                  *)
LEMMA PendedAsked ==
    ASSUME IInv, Asked, "dups" \notin env,
           NEW n \in Names, NEW r \in Ids, NEW v \in Views,
           MaySend(n, r), endpoints[n].sess # None,
           Pended(endpoints[n].sess, endpoints[n].conn, r, v),
           flights' \subseteq flights \cup
               {[view |-> v, sess |-> endpoints[n].sess, req |-> Len(requests) + 1]},
           flights' \subseteq flights \/ v \in sessions[endpoints[n].sess].handles,
           UNCHANGED endpoints,
           \A u \in Views : u # v => views'[u] = views[u],
           \/ views'[v] = views[v]
           \/ /\ ~Opened(v) /\ Opened(v)' /\ views'[v].sess = endpoints[n].sess
              /\ views'[v].loading = Len(requests) + 1
              /\ flights' \subseteq flights
    PROVE  Asked'
<1> USE DEF Asked
\* Constants, so that the successor's value of an expression in them is known.
<1> PICK s \in Slots : s = endpoints[n].sess
  BY Sender
<1> PICK N \in Nat : N = Len(requests) + 1
  BY Sender
<1>1. /\ s \in Slots /\ Live(s) /\ sessions[s].name = n
      /\ endpoints[n].conn \in 1..MaxConns
      /\ Len(requests) \in Nat /\ Len(requests) < MaxRequests
  BY Sender
<1>2. /\ Len(requests') = N
      /\ \A i \in 1..Len(requests) : requests'[i] = requests[i]
      /\ requests'[N] = NewRequest(endpoints[n].conn, r, v)
      /\ \A t \in Slots : sessions'[t].name = sessions[t].name
      /\ \A t \in Slots, i \in Ids :
            \/ sessions'[t].pending[i] = sessions[t].pending[i]
            \/ t = s /\ i = r /\ r # NoReturn /\ sessions'[t].pending[i] = N
  BY <1>1, PendedFacts
<1>3. /\ requests'[N].id = r /\ requests'[N].view = v /\ requests'[N].answers = <<>>
      /\ requests'[N].conn = endpoints[n].conn
  BY <1>2 DEF NewRequest
<1>4. r # NoReturn => sessions[s].pending[r] = 0
  BY NothingPending
<1>5. r # NoReturn => sessions'[s].pending[r] = N
  <2>1. sessions[s].pending \in [Ids -> 0..MaxRequests]
    BY <1>1, Types DEF IInv, SessionRec
  <2>2. QED
    BY <1>4, <2>1 DEF Pended, PendResponse
<1>6. ASSUME NEW q, NEW u \in Views, NEW t \in Slots, AskedFor(q, u, t)
      PROVE  AskedFor(q, u, t)' /\ q # N
  <2>1. q \in 1..Len(requests) /\ requests'[q] = requests[q] /\ q # N
    BY <1>1, <1>2, <1>6 DEF AskedFor
  <2>2. requests[q].id \in Ids
    BY <2>1, EntryTypes
  <2>3. requests[q].id # NoReturn => sessions'[t].pending[requests[q].id] = q
    BY <1>2, <1>4, <1>6, <2>1, <2>2 DEF AskedFor
  <2>4. QED
    BY <1>1, <1>2, <1>6, <2>1, <2>3 DEF AskedFor
<1>7. AskedFor(N, v, s)'
  BY <1>1, <1>2, <1>3, <1>5 DEF AskedFor
<1>8. \A u \in Views : Opened(u) => views[u].sess \in Slots
  BY Types DEF IInv, ViewsAsked, Live, ViewRec
<1>9. ViewsAsked'
  <2> SUFFICES ASSUME NEW u \in Views
               PROVE  /\ Opened(u)' => Live(views[u].sess)'
                      /\ views'[u].loading # 0 =>
                            Opened(u)' /\ AskedFor(views[u].loading, u, views[u].sess)'
    BY DEF ViewsAsked
  <2>1. CASE views'[u] = views[u]
    <3>1. Opened(u)' => Live(views[u].sess)'
      BY <1>2, <1>8, <2>1 DEF ViewsAsked, Live, Opened
    <3>2. ASSUME views[u].loading # 0
          PROVE  Opened(u)' /\ AskedFor(views[u].loading, u, views[u].sess)'
      <4>1. Opened(u) /\ AskedFor(views[u].loading, u, views[u].sess)
        BY <3>2 DEF ViewsAsked
      <4> DEFINE q == views[u].loading
                 t == views[u].sess
      <4>2. t \in Slots
        BY <1>8, <4>1
      <4> HIDE DEF q, t
      <4>3. AskedFor(q, u, t)'
        BY <1>6, <4>1, <4>2 DEF q, t
      <4>4. q' = q /\ t' = t
        BY <2>1 DEF q, t
      <4>5. QED
        BY <2>1, <4>1, <4>3, <4>4 DEF Opened, q, t, AskedFor
    <3>3. QED
      BY <2>1, <3>1, <3>2
  <2>2. CASE /\ u = v /\ Opened(v)' /\ views'[v].sess = s /\ views'[v].loading = N
    <3>1. Live(s)'
      BY <1>1, <1>2 DEF Live
    <3>2. QED
      BY <1>7, <2>2, <3>1 DEF AskedFor, Live
  <2>3. QED
    BY <2>1, <2>2
<1>10. FlightsAsked'
  <2> SUFFICES ASSUME NEW f \in flights'
               PROVE  /\ Opened(f.view)' /\ views'[f.view].sess = f.sess
                      /\ views'[f.view].loading # f.req
                      /\ AskedFor(f.req, f.view, f.sess)'
    BY DEF FlightsAsked
  <2>1. CASE f \in flights
    <3>1. /\ f.view \in Views /\ f.sess \in Slots
          /\ Opened(f.view) /\ views[f.view].sess = f.sess
          /\ views[f.view].loading # f.req /\ AskedFor(f.req, f.view, f.sess)
      BY <2>1, Types DEF IInv, FlightsAsked
    <3>2. views'[f.view] = views[f.view]
      BY <3>1
    <3>3. QED
      BY <1>6, <3>1, <3>2 DEF Opened
  <2>2. CASE f \notin flights
    <3>1. /\ f = [view |-> v, sess |-> s, req |-> N] /\ v \in sessions[s].handles
          /\ views'[v] = views[v]
      BY <2>2
    <3>2. f.view = v /\ f.sess = s /\ f.req = N
      BY <3>1
    <3>3. Opened(v) /\ views[v].sess = s
      BY <1>1, <3>1 DEF IInv, HandlesOpen
    <3>4. views[v].loading # N
      <4>1. views[v].loading <= Len(requests) /\ Len(requests) \in Nat
        BY <1>1 DEF IInv, RepliesKnown
      <4>2. QED
        BY <4>1
    <3>5. QED
      BY <1>7, <3>1, <3>2, <3>3, <3>4 DEF Opened, AskedFor
  <2>3. QED
    BY <2>1, <2>2
<1>11. PendingAsked'
  <2> SUFFICES ASSUME NEW m \in Names, NEW i \in Ids, endpoints[m].sess # None,
                      sessions'[endpoints[m].sess].pending[i] # 0
               PROVE  requests'[sessions'[endpoints[m].sess].pending[i]].conn
                         = endpoints[m].conn
    BY DEF PendingAsked
  <2> DEFINE t == endpoints[m].sess
  <2>1. t \in Slots /\ sessions[t].name = m
    BY Types DEF IInv, SessionsKnown
  <2> HIDE DEF t
  <2>2. CASE sessions'[t].pending[i] = sessions[t].pending[i]
    <3>1. sessions[t].pending[i] \in 1..Len(requests)
      BY <2>1, <2>2, EntryTypes DEF t
    <3>2. requests[sessions[t].pending[i]].conn = endpoints[m].conn
      BY <2>2 DEF PendingAsked, t
    <3>3. QED
      BY <1>2, <2>2, <3>1, <3>2 DEF t
  <2>3. CASE t = s /\ sessions'[t].pending[i] = N
    <3>1. m = n
      BY <1>1, <2>1, <2>3
    <3>2. QED
      BY <1>3, <2>3, <3>1 DEF t
  <2>4. QED
    BY <1>2, <2>1, <2>2, <2>3
<1>12. OwnReplies'
  <2> SUFFICES ASSUME NEW q \in 1..Len(requests'), NEW i \in 1..Len(requests'[q].answers)
               PROVE  requests'[q].answers[i].reply = q
    BY DEF OwnReplies
  <2>1. CASE q = N
    <3>1. Len(requests'[N].answers) = 0
      BY <1>3
    <3>2. QED
      BY <2>1, <3>1
  <2>2. CASE q # N
    <3>1. q \in 1..Len(requests)
      BY <1>1, <1>2, <2>2
    <3>2. requests'[q] = requests[q]
      BY <1>2, <3>1
    <3>3. QED
      BY <3>1, <3>2 DEF OwnReplies
  <2>3. QED
    BY <2>1, <2>2
<1>13. QED
  BY <1>9, <1>10, <1>11, <1>12

(* A page that replies answers the request it was asked for, and has nothing  *)
(* else that it owes under the same identifier.                               *)
LEMMA FinishAsked ==
    ASSUME IInv, Asked, NEW s \in Slots, Live(s), NEW reply, NEW w \in Views,
           AskedFor(reply, w, s), FinishResponse(s, reply),
           UNCHANGED endpoints,
           flights' \subseteq flights, \A f \in flights' : f.req # reply,
           \A v \in Views :
               /\ Opened(v)' <=> Opened(v)
               /\ views'[v].sess = views[v].sess
               /\ views'[v].loading = 0 \/ views'[v].loading = views[v].loading
               /\ views'[v].loading # reply
    PROVE  Asked'
<1> USE DEF Asked
<1>1. reply \in 1..Len(requests)
  BY DEF AskedFor
<1>2. CASE UNCHANGED <<sessions, requests>>
  <2>1. ViewsAsked'
    <3> SUFFICES ASSUME NEW v \in Views
                 PROVE  /\ Opened(v)' => Live(views[v].sess)'
                        /\ views'[v].loading # 0 =>
                              Opened(v)' /\ AskedFor(views[v].loading, v, views[v].sess)'
      BY DEF ViewsAsked
    <3>1. QED
      BY <1>2 DEF ViewsAsked, AskedFor, Live
  <2>2. FlightsAsked'
    <3> SUFFICES ASSUME NEW f \in flights'
                 PROVE  /\ Opened(f.view)' /\ views'[f.view].sess = f.sess
                        /\ views'[f.view].loading # f.req
                        /\ AskedFor(f.req, f.view, f.sess)'
      BY DEF FlightsAsked
    <3>1. f \in flights /\ f.view \in Views /\ f.req \in 1..Len(requests)
      BY Types DEF IInv, FlightsAsked, AskedFor
    <3>2. f.req # 0
      BY <3>1
    <3>3. QED
      BY <1>2, <3>1, <3>2 DEF FlightsAsked, AskedFor
  <2>3. PendingAsked' /\ OwnReplies'
    BY <1>2 DEF PendingAsked, OwnReplies
  <2>4. QED
    BY <2>1, <2>2, <2>3
<1>3. ASSUME NEW r \in Ids, NEW q \in 1..Len(requests),
             r # NoReturn, sessions[s].pending[r] = q, requests[q].answers = <<>>,
             \A t \in Slots : t # s => sessions'[t] = sessions[t],
             \A t \in Slots : sessions'[t].name = sessions[t].name,
             \A i \in Ids :
                 sessions'[s].pending[i] = IF i = r THEN 0 ELSE sessions[s].pending[i],
             AnswersOne(requests, requests', q, EndpointOf(s), reply),
             q = reply
      PROVE  Asked'
  <2>1. /\ Len(requests') = Len(requests)
        /\ \A k \in 1..Len(requests) : /\ requests'[k].conn = requests[k].conn
                                       /\ requests'[k].id = requests[k].id
                                       /\ requests'[k].view = requests[k].view
    BY <1>3 DEF AnswersOne
  <2>2. requests[q].id = r
    BY <1>3, EntryTypes DEF IInv, PendingSound
  <2>3. ASSUME NEW k, NEW v \in Views, NEW t \in Slots, AskedFor(k, v, t), k # reply
        PROVE  AskedFor(k, v, t)'
    <3>1. k \in 1..Len(requests) /\ requests[k].id \in Ids
      BY <2>3, EntryTypes DEF AskedFor
    <3>2. requests[k].id # NoReturn => sessions'[t].pending[requests[k].id] = k
      BY <1>3, <2>3, <3>1 DEF AskedFor
    <3>3. QED
      BY <2>1, <2>3, <3>1, <3>2 DEF AskedFor
  <2>4. \A v \in Views : Opened(v) => views[v].sess \in Slots
    BY Types DEF IInv, ViewsAsked, Live, ViewRec
  <2>5. ViewsAsked'
    <3> SUFFICES ASSUME NEW v \in Views
                 PROVE  /\ Opened(v)' => Live(views[v].sess)'
                        /\ views'[v].loading # 0 =>
                              Opened(v)' /\ AskedFor(views[v].loading, v, views[v].sess)'
      BY DEF ViewsAsked
    <3>1. Opened(v)' => Live(views[v].sess)'
      BY <1>3, <2>4 DEF ViewsAsked, Live
    <3>2. ASSUME views'[v].loading # 0
          PROVE  Opened(v)' /\ AskedFor(views[v].loading, v, views[v].sess)'
      <4>1. /\ views'[v].loading = views[v].loading /\ views[v].loading # reply
            /\ Opened(v) /\ views[v].sess \in Slots
            /\ AskedFor(views[v].loading, v, views[v].sess)
        BY <2>4, <3>2 DEF ViewsAsked
      <4> DEFINE k == views[v].loading
                 t == views[v].sess
      <4>2. k' = k /\ t' = t
        BY <4>1
      <4> HIDE DEF k, t
      <4>3. AskedFor(k, v, t)'
        BY <2>3, <4>1 DEF k, t
      <4>4. QED
        BY <4>1, <4>2, <4>3 DEF k, t, AskedFor
    <3>3. QED
      BY <3>1, <3>2
  <2>6. FlightsAsked'
    <3> SUFFICES ASSUME NEW f \in flights'
                 PROVE  /\ Opened(f.view)' /\ views'[f.view].sess = f.sess
                        /\ views'[f.view].loading # f.req
                        /\ AskedFor(f.req, f.view, f.sess)'
      BY DEF FlightsAsked
    <3>1. /\ f \in flights /\ f.view \in Views /\ f.sess \in Slots /\ f.req # reply
          /\ Opened(f.view) /\ views[f.view].sess = f.sess /\ f.req \in 1..Len(requests)
          /\ views[f.view].loading # f.req /\ AskedFor(f.req, f.view, f.sess)
      BY Types DEF IInv, FlightsAsked, AskedFor
    <3>2. f.req # 0
      BY <3>1
    <3>3. views'[f.view].loading # f.req
      BY <3>1, <3>2
    <3>4. QED
      BY <2>3, <3>1, <3>3
  <2>7. PendingAsked'
    <3> SUFFICES ASSUME NEW m \in Names, NEW i \in Ids, endpoints[m].sess # None,
                        sessions'[endpoints[m].sess].pending[i] # 0
                 PROVE  requests'[sessions'[endpoints[m].sess].pending[i]].conn
                           = endpoints[m].conn
      BY DEF PendingAsked
    <3>1. endpoints[m].sess \in Slots
      BY Types DEF IInv
    <3>2. sessions'[endpoints[m].sess].pending[i] = sessions[endpoints[m].sess].pending[i]
      BY <1>3, <3>1
    <3>3. sessions[endpoints[m].sess].pending[i] \in 1..Len(requests)
      BY <3>1, <3>2, EntryTypes
    <3>4. QED
      BY <2>1, <3>2, <3>3 DEF PendingAsked
  <2>8. OwnReplies'
    <3> SUFFICES ASSUME NEW k \in 1..Len(requests), NEW i \in 1..Len(requests'[k].answers)
                 PROVE  requests'[k].answers[i].reply = k
      BY <2>1 DEF OwnReplies
    <3>1. CASE requests'[k].answers = requests[k].answers
      BY <3>1 DEF OwnReplies
    <3>2. CASE /\ k = q
               /\ requests'[k].answers
                     = Append(requests[k].answers, [to |-> EndpointOf(s), reply |-> reply])
      <4> DEFINE x == [to |-> EndpointOf(s), reply |-> reply]
      <4>1. requests'[k].answers = <<x>>
        <5>1. requests[k].answers = <<>> /\ requests'[k].answers = Append(requests[k].answers, x)
          BY <1>3, <3>2
        <5> HIDE DEF x
        <5>2. QED
          BY <5>1
      <4>2. requests'[k].answers[i] = x
        BY <4>1
      <4>3. requests'[k].answers[i].reply = reply
        BY <4>2
      <4>4. QED
        BY <1>3, <3>2, <4>3
    <3>3. QED
      BY <1>3, <3>1, <3>2 DEF AnswersOne
  <2>9. QED
    BY <2>5, <2>6, <2>7, <2>8
<1>4. ASSUME NEW r \in Ids, NEW q \in 1..Len(requests), r # NoReturn,
             sessions[s].pending[r] = q,
             \A i \in Ids :
                 sessions'[s].pending[i] = IF i = r THEN 0 ELSE sessions[s].pending[i],
             ~UNCHANGED <<sessions, requests>>
      PROVE  q = reply
  <2>1. requests[reply].id \in Ids /\ requests[q].id = r
    BY <1>1, <1>4, EntryTypes DEF IInv, PendingSound
  <2>2. /\ requests[reply].id # NoReturn
        /\ sessions[s].pending[requests[reply].id] = reply
        /\ sessions' = [sessions EXCEPT ![s].pending[requests[reply].id] = 0]
    BY <1>4 DEF FinishResponse, AskedFor
  <2>3. sessions'[s].pending[requests[reply].id] = 0
    BY <2>1, <2>2, Types DEF IInv, SessionRec
  <2>4. reply # 0 /\ q # 0
    BY <1>1
  <2>5. sessions'[s].pending[r] = 0 /\ (requests[reply].id # r =>
           sessions'[s].pending[requests[reply].id] = reply)
    BY <1>4, <2>1, <2>2
  <2>6. QED
    BY <1>4, <2>2, <2>3, <2>4, <2>5
<1>5. QED
  BY <1>1, <1>2, <1>3, <1>4, FinishFacts

\* The steps of sessions: none ends before its windows.
LEMMA SessionAsked ==
    ASSUME IInv, TypeOK', Asked, "endings" \notin env, NEW n \in Names,
           \/ \E s \in Slots : StartSession(n, s)
           \/ RestartSession(n) \/ EndSession(n) \/ DelEndpoint(n)
    PROVE  Asked'
<1> USE DEF IInv
<1>0. None \notin Names \cup Slots \cup Views
  BY RendererAssumption
<1>1. /\ UNCHANGED <<requests, flights>>
      /\ \A v \in Views : views'[v] = views[v]
      /\ \A t \in Slots : Untouched(t)
      /\ \A m \in Names :
            \/ endpoints'[m] = endpoints[m]
            \/ endpoints'[m].sess = None
            \/ \A r \in Ids : sessions'[endpoints'[m].sess].pending[r] = 0
  <2>1. ASSUME NEW s \in Slots, StartSession(n, s)
        PROVE  <1>1!:
    <3>1. /\ UNCHANGED <<requests, flights, views>>
          /\ \A t \in Slots : t # s => sessions'[t] = sessions[t]
          /\ \A r \in Ids : sessions'[s].pending[r] = 0
          /\ \A v \in Views : Opened(v) => views[v].sess # s
      BY <2>1, Types DEF StartSession, FreeSession, Asked, ViewsAsked
    <3>2. \A m \in Names : endpoints'[m] = endpoints[m] \/ endpoints'[m].sess = s
      BY <2>1, Types DEF StartSession
    <3>3. \A t \in Slots : Untouched(t)
      BY <3>1 DEF Untouched
    <3>4. QED
      BY <3>1, <3>2, <3>3
  <2>2. CASE RestartSession(n)
    <3>1. UNCHANGED <<requests, flights, views, sessions>>
      BY <2>2 DEF RestartSession
    <3>2. \A m \in Names : endpoints'[m] = endpoints[m] \/ endpoints'[m].sess = None
      BY <2>2, Types DEF RestartSession
    <3>3. QED
      BY <3>1, <3>2 DEF Untouched
  <2>3. CASE UNCHANGED <<requests, flights, sessions, views>> /\ DelEndpoint(n)
    <3>1. \A m \in Names : endpoints'[m] = endpoints[m] \/ endpoints'[m].sess = None
      BY <2>3, Types DEF DelEndpoint
    <3>2. QED
      BY <2>3, <3>1 DEF Untouched
  <2>4. ASSUME endpoints[n].sess # None, EndSession(n) \/ DelEndpoint(n)
        PROVE  <1>1!:
    <3> DEFINE s == endpoints[n].sess
    <3>1. s \in Slots /\ sessions[s].name = n
      BY <2>4, Types DEF SessionsKnown
    <3>2. MayEnd(s) /\ RemoveSession(s) /\ UNCHANGED <<requests, flights>>
      BY <2>4 DEF EndSession, DelEndpoint
    <3>3. \A v \in Views : views[v].sess # s
      BY <3>2 DEF MayEnd
    <3>4. OwnPages(s) = {}
      BY <3>1, <3>3, Types DEF OwnPages, HandlesOpen, SessionRec
    <3>5. \A v \in Views : views'[v] = views[v]
      BY <3>2, <3>4 DEF RemoveSession
    <3>6. \A m \in Names : endpoints'[m] = endpoints[m] \/ endpoints'[m].sess = None
      BY <2>4, Types DEF EndSession, DelEndpoint
    <3>7. /\ \A t \in Slots : t # s => sessions'[t] = sessions[t]
          /\ sessions'[s] = FreeSession
      BY <3>1, <3>2, Types DEF RemoveSession
    <3>8. \A t \in Slots : Untouched(t)
      BY <3>3, <3>7 DEF Untouched, FreeSession
    <3>9. QED
      BY <3>2, <3>5, <3>6, <3>8
  <2>5. QED
    BY <2>1, <2>2, <2>3, <2>4 DEF EndSession, DelEndpoint
<1>2. Steady
  BY <1>1 DEF Steady, Opened
<1>3. QED
  BY <1>2, SteadyAsked

\* Steps that change neither endpoints, sessions nor requests, and let no view go.
LEMMA QuietAsked ==
    ASSUME IInv, TypeOK', Asked, UNCHANGED <<endpoints, sessions, requests, flights>>,
           \A v \in Views : /\ Opened(v)' <=> Opened(v)
                            /\ views'[v].sess = views[v].sess
                            /\ views'[v].loading = views[v].loading
    PROVE  Asked'
BY SteadyAsked DEF Steady, Untouched

LEMMA CreateAsked ==
    ASSUME IInv, TypeOK', Asked, "dups" \notin env,
           NEW n \in Names, NEW r \in Ids, NEW p \in Pages, NEW v \in Views,
           MaySend(n, r), endpoints[n].sess # None, CreatePlainwin(n, r, p, v),
           UNCHANGED <<endpoints, flights>>
    PROVE  Asked'
<1> DEFINE s == endpoints[n].sess
           N == Len(requests) + 1
<1>1. /\ ~Opened(v)
      /\ owners' = [owners EXCEPT ![AppOf[n]][p] = v]
      /\ views' \in [Views -> ViewRec]
      /\ \A u \in Views : u # v => views'[u] = views[u]
      /\ views'[v] = [state |-> "open", sess |-> s, page |-> p, loading |-> N,
                      conn |-> endpoints[n].conn]
  BY CreateFacts
<1>2. /\ Opened(v)' /\ views'[v].sess = s /\ views'[v].loading = N
  BY <1>1 DEF Opened
<1>3. Pended(s, endpoints[n].conn, r, v)
  BY CreateFacts
<1>4. QED
  BY <1>1, <1>2, <1>3, PendedAsked

LEMMA RequestAsked ==
    ASSUME IInv, TypeOK', Asked, "dups" \notin env,
           NEW n \in Names, NEW r \in Ids, Request(n, r)
    PROVE  Asked'
<1> USE DEF IInv
<1>1. CASE UNCHANGED <<endpoints, sessions, requests, flights, views>>
  BY <1>1, QuietAsked DEF Opened
<1>2. ASSUME NEW v \in Views, DestroyPlainWindow(n, r, v)
      PROVE  Asked'
  <2>1. endpoints[n].sess \in Slots
    BY <1>2, Sender DEF DestroyPlainWindow
  <2>2. v \in sessions[endpoints[n].sess].handles => Opened(v)
    BY <2>1 DEF HandlesOpen
  <2>3. \A u \in Views : /\ Opened(u)' <=> Opened(u)
                         /\ views'[u].sess = views[u].sess
                         /\ views'[u].loading = views[u].loading
    BY <1>2, <2>2, Types DEF DestroyPlainWindow, DestroyPlainwin, Opened, ViewRec
  <2>4. QED
    BY <1>2, <2>3, QuietAsked DEF DestroyPlainWindow, AnswerNow
<1>3. ASSUME NEW v \in Views, AskPage(n, r, v)
      PROVE  Asked'
  <2>1. CASE v \in sessions[endpoints[n].sess].handles
    <3>1. Pended(endpoints[n].sess, endpoints[n].conn, r, v)
      BY <1>3, <2>1, PendFacts DEF AskPage
    <3>2. QED
      BY <1>3, <2>1, <3>1, PendedAsked DEF AskPage, SendToPage
  <2>2. CASE v \notin sessions[endpoints[n].sess].handles
    BY <1>1, <1>3, <2>2 DEF AskPage, AnswerNow
  <2>3. QED
    BY <2>1, <2>2
<1>4. ASSUME NEW v \in Views, NEW blank \in BOOLEAN, UpdatePlainWindow(n, r, v, blank)
      PROVE  Asked'
  <2>1. CASE Pend(n, r, v)
    <3>1. Pended(endpoints[n].sess, endpoints[n].conn, r, v)
      BY <1>4, <2>1, PendFacts DEF UpdatePlainWindow
    <3>2. QED
      BY <1>4, <3>1, PendedAsked DEF UpdatePlainWindow
  <2>2. QED
    BY <1>1, <1>4, <2>1 DEF UpdatePlainWindow, AnswerNow
<1>5. ASSUME NEW p \in Pages, NEW grouped \in BOOLEAN, NEW v \in Views,
             CreatePlainWindow(n, r, p, grouped, v)
      PROVE  Asked'
  <2>1. CASE CreatePlainwin(n, r, p, v)
    BY <1>5, <2>1, CreateAsked DEF CreatePlainWindow
  <2>2. QED
    BY <1>1, <1>5, <2>1 DEF CreatePlainWindow, AnswerNow
<1>6. QED
  BY <1>1, <1>2, <1>3, <1>4, <1>5
     DEF Request, RequestWithoutSession, Crash, SpecialPlainWindow, SetPageGroups, AnswerNow

LEMMA CallbackAsked ==
    ASSUME IInv, TypeOK', Asked,
           \/ \E v \in Views : PageReady(v) \/ PageEvent(v) \/ UserCloses(v) \/ ViewClosed(v)
           \/ \E f \in flights : PageAnswers(f)
    PROVE  Asked'
<1> USE DEF IInv
<1>1. ASSUME NEW v \in Views, PageReady(v)
      PROVE  Asked'
  <2> PICK reply : reply = views[v].loading
    OBVIOUS
  <2> PICK s : s = views[v].sess
    OBVIOUS
  <2>1. /\ Live(s) /\ s \in Slots /\ AskedFor(reply, v, s)
        /\ Opened(v) /\ reply # 0
    BY <1>1, Types DEF PageReady, Asked, ViewsAsked, ViewRec, Live
  <2>2. FinishResponse(s, reply) /\ UNCHANGED <<endpoints, flights>>
    BY <1>1, <2>1 DEF PageReady, Freed
  <2>3. \A f \in flights : f.req # reply
    <3> SUFFICES ASSUME NEW f \in flights, f.req = reply
                 PROVE  FALSE
      OBVIOUS
    <3>1. f.view = v
      BY <2>1 DEF Asked, FlightsAsked, AskedFor
    <3>2. QED
      BY <3>1 DEF Asked, FlightsAsked
  <2>4. ASSUME NEW u \in Views
        PROVE  /\ Opened(u)' <=> Opened(u)
               /\ views'[u].sess = views[u].sess
               /\ views'[u].loading = 0 \/ views'[u].loading = views[u].loading
               /\ views'[u].loading # reply
    <3>1. views' = [views EXCEPT ![v].loading = 0]
      BY <1>1 DEF PageReady
    <3>2. u # v => views[u].loading # reply
      BY <2>1 DEF Asked, ViewsAsked, AskedFor
    <3>3. QED
      BY <2>1, <3>1, <3>2, Types DEF Opened, ViewRec
  <2>5. QED
    BY <2>1, <2>2, <2>3, <2>4, FinishAsked
<1>2. ASSUME NEW f \in flights, PageAnswers(f)
      PROVE  Asked'
  <2>1. /\ f.view \in Views /\ f.sess \in Slots /\ Opened(f.view)
        /\ views[f.view].sess = f.sess
        /\ views[f.view].loading # f.req /\ AskedFor(f.req, f.view, f.sess)
    BY Types DEF Asked, FlightsAsked
  <2>2. Live(f.sess)
    BY <2>1 DEF Asked, ViewsAsked
  <2>3. /\ FinishResponse(f.sess, f.req) /\ UNCHANGED <<endpoints, views>>
        /\ flights' = flights \ {f}
    BY <1>2, <2>2 DEF PageAnswers, Freed
  <2>4. \A g \in flights' : g.req # f.req
    <3> SUFFICES ASSUME NEW g \in flights, g.req = f.req
                 PROVE  g = f
      BY <2>3
    <3>1. g.view = f.view /\ g.sess = f.sess
      BY <2>1 DEF Asked, FlightsAsked, AskedFor
    <3>2. QED
      BY <3>1, Types
  <2>5. \A u \in Views : views[u].loading # f.req
    <3> SUFFICES ASSUME NEW u \in Views, views[u].loading = f.req
                 PROVE  FALSE
      OBVIOUS
    <3>1. f.req # 0 /\ requests[f.req].view = f.view
      BY <2>1 DEF AskedFor
    <3>2. u = f.view
      BY <3>1 DEF Asked, ViewsAsked, AskedFor
    <3>3. QED
      BY <2>1, <3>2
  <2>6. QED
    BY <2>1, <2>2, <2>3, <2>4, <2>5, FinishAsked DEF Opened
<1>3. ASSUME NEW v \in Views, ViewClosed(v)
      PROVE  Asked'
  <2>1. /\ UNCHANGED endpoints
        /\ Len(requests') = Len(requests)
        /\ \A q \in 1..Len(requests) : /\ requests'[q].answers = requests[q].answers
                                       /\ requests'[q].id = requests[q].id
                                       /\ requests'[q].conn = requests[q].conn
                                       /\ requests'[q].view = requests[q].view
        /\ \A u \in Views : u # v => views'[u] = views[u]
        /\ views'[v] = FreeView
        /\ \A t \in Slots : /\ sessions'[t].name = sessions[t].name
                            /\ sessions'[t].pending = sessions[t].pending
    BY <1>3, ClosedFacts
  <2>2. flights' \subseteq flights /\ \A f \in flights' : f.view # v
    BY <1>3 DEF ViewClosed
  <2>3. ~Opened(v)' /\ views'[v].loading = 0
    BY <2>1 DEF Opened, FreeView
  <2>4. Steady
    BY <2>1, <2>2, <2>3 DEF Steady, Untouched, Opened
  <2>5. QED
    BY <2>4, SteadyAsked
<1>4. ASSUME NEW v \in Views, PageEvent(v)
      PROVE  Asked'
  BY <1>4, QuietAsked DEF PageEvent, Opened
<1>5. ASSUME NEW v \in Views, UserCloses(v)
      PROVE  Asked'
  <2>1. \A u \in Views : /\ Opened(u)' <=> Opened(u)
                         /\ views'[u].sess = views[u].sess
                         /\ views'[u].loading = views[u].loading
    BY <1>5, Types DEF UserCloses, Opened, ViewRec
  <2>2. QED
    BY <1>5, <2>1, QuietAsked DEF UserCloses
<1>6. QED
  BY <1>1, <1>2, <1>3, <1>4, <1>5

LEMMA NextAsked == IInv /\ IInv' /\ AskedInv /\ [Next]_vars => AskedInv'
<1> SUFFICES ASSUME IInv, IInv', AskedInv, [Next]_vars, Without({"dups", "endings"})'
             PROVE  Asked'
  BY DEF AskedInv
<1>1. env' = env
  BY EnvStays
<1>2. "dups" \notin env /\ "endings" \notin env /\ Asked /\ TypeOK'
  BY <1>1 DEF Without, AskedInv, IInv
<1>3. CASE UNCHANGED vars
  BY <1>2, <1>3, QuietAsked DEF vars, Opened
<1>4. CASE \E n \in Names : \/ \E s \in Slots : StartSession(n, s)
                            \/ RestartSession(n) \/ EndSession(n) \/ DelEndpoint(n)
  BY <1>2, <1>4, SessionAsked
<1>5. CASE \E n \in Names, r \in Ids : Request(n, r)
  BY <1>2, <1>5, RequestAsked
<1>6. QED
  BY <1>2, <1>3, <1>4, <1>5, CallbackAsked DEF Next

LEMMA InitAsked == Init => AskedInv
<1> SUFFICES ASSUME Init
             PROVE  Asked
  BY DEF AskedInv
<1>1. /\ \A v \in Views : ~Opened(v) /\ views[v].loading = 0
      /\ \A n \in Names : endpoints[n].sess = None
      /\ Len(requests) = 0 /\ flights = {}
  BY DEF Init, Opened, FreeView
<1>2. QED
  BY <1>1 DEF Asked, ViewsAsked, FlightsAsked, PendingAsked, OwnReplies

(* Where no requestId is used twice at a time and sessions outlive their      *)
(* windows, every reply of a page answers the request it was made for,        *)
(* whatever the order in which pages reply and clients come and go.           *)
THEOREM OwnReplyAnswers == Spec => []AnsweredByItsReply
<1>1. Init => AskedInv
  BY InitAsked
<1>2. IInv /\ IInv' /\ AskedInv /\ [Next]_vars => AskedInv'
  BY NextAsked
<1>3. AskedInv => AnsweredByItsReply
  BY DEF AskedInv, Asked, OwnReplies, AnsweredByItsReply
<1>4. QED
  BY <1>1, <1>2, <1>3, Invariance, PTL DEF Spec

=============================================================================
