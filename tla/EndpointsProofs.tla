--------------------------- MODULE EndpointsProofs ---------------------------
(***************************************************************************)
(* Proofs about Endpoints: first what depends on the shape of the registry *)
(* alone, then who owns a session, what the lists refer to while a client  *)
(* sends one startSession per connection, and the count of the registered  *)
(* endpoints while no client asks for a duplicate.                         *)
(***************************************************************************)
EXTENDS Endpoints, TLAPS, FiniteSetTheorems

(***************************************************************************)
(* The inductive invariant, as a predicate of a registry, so that each     *)
(* operator the actions are composed of preserves it by a lemma.           *)
(***************************************************************************)
DanglingOne(r) == \A d, f \in r.dangling : d = f

DanglingOut(r) == \A d \in r.dangling : ~InTree(r, d)

DanglingFree(r) ==
    \A d \in r.dangling :
        r.ep[d].name # NoName => r.list[r.ep[d].name] = NoEndpoint

TreeInv(r, t) ==
    \A e \in Endpoint :
        InTree(r, e) => /\ r.ep[e].alive
                        /\ r.ep[e].name # NoName
                        /\ r.living[e] = r.ep[e].t_living
                        /\ r.living[e] <= t

RegistryInv(r, t) ==
    /\ r \in Registry
    /\ DanglingOne(r)
    /\ DanglingOut(r)
    /\ DanglingFree(r)
    /\ TreeInv(r, t)

(* nr_endpoints stays within its width whatever is added to it. *)
LEMMA CountRange ==
    ASSUME NEW a \in Int
    PROVE  a % CountWord \in 0..(CountWord - 1)
<1>1. CountWord \in Nat \ {0}
  BY ConstantsAssumption
<1>2. QED
  BY <1>1

LEMMA RegistryFields ==
    ASSUME NEW r \in Registry
    PROVE  /\ r = [ep |-> r.ep, dangling |-> r.dangling, list |-> r.list,
                   living |-> r.living, nr |-> r.nr, sessions |-> r.sessions]
           /\ r.ep \in [Endpoint -> EndpointRec]
           /\ r.dangling \in SUBSET Endpoint
           /\ r.list \in [Name -> Endpoint \cup {NoEndpoint}]
           /\ r.living \in [Endpoint -> Nat \cup {NotInTree}]
           /\ r.nr \in 0..(CountWord - 1)
           /\ r.sessions \in SUBSET Session
BY DEF Registry

LEMMA DelAllInv ==
    ASSUME NEW r, NEW t \in Nat, RegistryInv(r, t), NEW R \in SUBSET Endpoint
    PROVE  RegistryInv(DelAll(r, R), t)
<1> DEFINE s == DelAll(r, R)
<1>1. s \in Registry
  BY DEF RegistryInv, DelAll, Registry, EndpointRec, FreedEndpoint
<1>2. /\ s.dangling = r.dangling
      /\ s.list = r.list
      /\ \A e \in Endpoint :
            /\ s.ep[e] = IF e \in R THEN FreedEndpoint ELSE r.ep[e]
            /\ s.living[e] = IF e \in R /\ r.ep[e].name # NoName
                             THEN NotInTree ELSE r.living[e]
  BY DEF RegistryInv, DelAll, Registry
<1> HIDE DEF s
<1>3. r.dangling \in SUBSET Endpoint /\ FreedEndpoint.name = NoName
  BY DEF RegistryInv, Registry, FreedEndpoint
<1>4. DanglingOne(s)
  BY <1>2 DEF RegistryInv, DanglingOne
<1>5. DanglingOut(s)
  BY <1>2, <1>3 DEF RegistryInv, DanglingOut, InTree
<1>6. DanglingFree(s)
  BY <1>2, <1>3 DEF RegistryInv, DanglingFree
<1>7. TreeInv(s, t)
  BY <1>2, <1>3 DEF RegistryInv, TreeInv, InTree
<1>8. QED
  BY <1>1, <1>4, <1>5, <1>6, <1>7 DEF RegistryInv, s

LEMMA UnlistInv ==
    ASSUME NEW r, NEW t \in Nat, RegistryInv(r, t), NEW R \in SUBSET Endpoint
    PROVE  RegistryInv(Unlist(r, R), t)
<1> DEFINE s == Unlist(r, R)
<1>1. s \in Registry
  BY DEF RegistryInv, Unlist, Registry
<1>2. /\ s.dangling = r.dangling /\ s.ep = r.ep /\ s.living = r.living
      /\ \A n \in Name : s.list[n] \in {r.list[n], NoEndpoint}
  BY DEF RegistryInv, Unlist, Registry
<1> HIDE DEF s
<1>3. \A d \in r.dangling : r.ep[d].name \in Name \cup {NoName}
  BY DEF RegistryInv, Registry, EndpointRec
<1>4. DanglingFree(s)
  BY <1>2, <1>3 DEF RegistryInv, DanglingFree
<1>5. DanglingOne(s) /\ DanglingOut(s) /\ TreeInv(s, t)
  BY <1>2 DEF RegistryInv, DanglingOne, DanglingOut, TreeInv, InTree
<1>6. QED
  BY <1>1, <1>4, <1>5 DEF RegistryInv, s

LEMMA DecreaseInv ==
    ASSUME NEW r, NEW t \in Nat, RegistryInv(r, t), NEW k \in Nat
    PROVE  RegistryInv(Decrease(r, k), t)
<1>0. CountWord \in Nat \ {0}
  BY ConstantsAssumption
<1>1. (r.nr - k) % CountWord \in 0..(CountWord - 1)
  <2>1. r.nr - k \in Int
    BY <1>0, RegistryFields DEF RegistryInv
  <2>2. QED
    BY <2>1, CountRange
<1>2. Decrease(r, k) \in Registry
  BY <1>1 DEF RegistryInv, Decrease, Registry
<1>3. /\ Decrease(r, k).dangling = r.dangling
      /\ Decrease(r, k).ep = r.ep
      /\ Decrease(r, k).list = r.list
      /\ Decrease(r, k).living = r.living
  BY DEF RegistryInv, Decrease, Registry
<1>4. QED
  BY <1>2, <1>3 DEF RegistryInv, DanglingOne, DanglingOut, DanglingFree, TreeInv, InTree

LEMMA RemoveDanglingInv ==
    ASSUME NEW r, NEW t \in Nat, RegistryInv(r, t), NEW R \in SUBSET Endpoint
    PROVE  RegistryInv([r EXCEPT !.dangling = @ \ R], t)
BY DEF RegistryInv, Registry, DanglingOne, DanglingOut, DanglingFree, TreeInv, InTree

LEMMA OnCloseInv ==
    ASSUME NEW r, NEW t \in Nat, RegistryInv(r, t), NEW e \in Endpoint
    PROVE  RegistryInv(OnClose(r, e), t)
<1>1. RegistryInv(Decrease(Unlist(r, {e}), 1), t)
  BY UnlistInv, DecreaseInv
<1>2. RegistryInv(RemoveDangling(r, e), t)
  BY RemoveDanglingInv DEF RemoveDangling
<1>3. QED
  BY <1>1, <1>2, DelAllInv DEF OnClose

(* What make_endpoint_ready changes, field by field. *)
LEMMA MakeReadyFields ==
    ASSUME NEW r \in Registry, NEW e \in Endpoint, NEW n \in Name, now \in Nat
    PROVE  /\ MakeReady(r, e, n) \in Registry
           /\ MakeReady(r, e, n).dangling = r.dangling \ {e}
           /\ MakeReady(r, e, n).list[n] = e
           /\ \A k \in Name : k # n => MakeReady(r, e, n).list[k] = r.list[k]
           /\ MakeReady(r, e, n).sessions = r.sessions
           /\ MakeReady(r, e, n).living[e] = now
           /\ MakeReady(r, e, n).ep[e].alive = r.ep[e].alive
           /\ MakeReady(r, e, n).ep[e].name = r.ep[e].name
           /\ MakeReady(r, e, n).ep[e].session = r.ep[e].session
           /\ MakeReady(r, e, n).ep[e].t_living = now
           /\ \A f \in Endpoint : f # e =>
                 /\ MakeReady(r, e, n).ep[f] = r.ep[f]
                 /\ MakeReady(r, e, n).living[f] = r.living[f]
<1>0. CountWord \in Nat \ {0}
  BY ConstantsAssumption
<1>1. (r.nr + 1) % CountWord \in 0..(CountWord - 1)
  <2>1. r.nr + 1 \in Int
    BY <1>0, RegistryFields
  <2>2. QED
    BY <2>1, CountRange
<1>2. [r.ep EXCEPT ![e].t_living = now] = [r.ep EXCEPT ![e] = [r.ep[e] EXCEPT !.t_living = now]]
  BY RegistryFields
<1>3. [r.ep EXCEPT ![e].t_living = now] \in [Endpoint -> EndpointRec]
  <2>1. r.ep \in [Endpoint -> EndpointRec] /\ r.ep[e] \in EndpointRec
    BY RegistryFields
  <2>2. [r.ep[e] EXCEPT !.t_living = now] \in EndpointRec
    BY <2>1 DEF EndpointRec
  <2>3. QED
    BY <1>2, <2>1, <2>2
<1> DEFINE p == [r.ep EXCEPT ![e].t_living = now]
           l == [r.list EXCEPT ![n] = e]
           v == [r.living EXCEPT ![e] = now]
           k == (r.nr + 1) % CountWord
           d == r.dangling \ {e}
<1>4. MakeReady(r, e, n) = [r EXCEPT !.dangling = d, !.list = l, !.ep = p,
                                     !.living = v, !.nr = k]
  BY DEF MakeReady, Registry
<1>5. /\ l \in [Name -> Endpoint \cup {NoEndpoint}]
      /\ v \in [Endpoint -> Nat \cup {NotInTree}]
      /\ d \in SUBSET Endpoint
      /\ k \in 0..(CountWord - 1)
      /\ p \in [Endpoint -> EndpointRec]
  BY <1>1, <1>3, RegistryFields
<1> HIDE DEF p, l, v, k, d
<1>6. MakeReady(r, e, n) = [ep |-> p, dangling |-> d, list |-> l, living |-> v,
                            nr |-> k, sessions |-> r.sessions]
  BY <1>4 DEF Registry
<1>7. MakeReady(r, e, n) \in Registry
  BY <1>5, <1>6, RegistryFields DEF Registry
<1>8. p[e] = [r.ep[e] EXCEPT !.t_living = now] /\ \A f \in Endpoint : f # e => p[f] = r.ep[f]
  BY <1>2, RegistryFields DEF p
<1>9. /\ p[e].t_living = now /\ p[e].alive = r.ep[e].alive
      /\ p[e].name = r.ep[e].name /\ p[e].session = r.ep[e].session
  BY <1>8, RegistryFields DEF EndpointRec
<1>10. /\ l[n] = e /\ \A k1 \in Name : k1 # n => l[k1] = r.list[k1]
       /\ v[e] = now /\ \A f \in Endpoint : f # e => v[f] = r.living[f]
  BY RegistryFields DEF l, v
<1>11. /\ MakeReady(r, e, n).ep = p /\ MakeReady(r, e, n).list = l
       /\ MakeReady(r, e, n).living = v /\ MakeReady(r, e, n).dangling = r.dangling \ {e}
       /\ MakeReady(r, e, n).sessions = r.sessions
  BY <1>6 DEF d
<1>12. QED
  BY <1>7, <1>8, <1>9, <1>10, <1>11

(* A change of one endpoint. *)
SetEndpoint(r, e, x) == [r EXCEPT !.ep = [r.ep EXCEPT ![e] = x]]

LEMMA EndpointChange ==
    ASSUME NEW r \in Registry, NEW e \in Endpoint, NEW x \in EndpointRec
    PROVE  /\ SetEndpoint(r, e, x) \in Registry
           /\ SetEndpoint(r, e, x).ep[e] = x
           /\ \A f \in Endpoint : f # e => SetEndpoint(r, e, x).ep[f] = r.ep[f]
           /\ SetEndpoint(r, e, x).dangling = r.dangling
           /\ SetEndpoint(r, e, x).list = r.list
           /\ SetEndpoint(r, e, x).living = r.living
           /\ SetEndpoint(r, e, x).sessions = r.sessions
<1>1. SetEndpoint(r, e, x) = [ep |-> [r.ep EXCEPT ![e] = x], dangling |-> r.dangling, list |-> r.list,
           living |-> r.living, nr |-> r.nr, sessions |-> r.sessions]
  BY DEF Registry, SetEndpoint
<1>2. QED
  BY <1>1, RegistryFields DEF Registry

(* A change of one endpoint that leaves alone what the tree is about, and   *)
(* gives the endpoint no name that is registered.                          *)
LEMMA EndpointChangeInv ==
    ASSUME NEW r, NEW t \in Nat, RegistryInv(r, t),
           NEW e \in Endpoint, NEW x \in EndpointRec,
           x.alive = r.ep[e].alive, x.t_living = r.ep[e].t_living,
           x.name = r.ep[e].name
             \/ (x.name # NoName /\ r.list[x.name] = NoEndpoint)
    PROVE  RegistryInv(SetEndpoint(r, e, x), t)
<1> DEFINE s == SetEndpoint(r, e, x)
<1>1. r \in Registry
  BY DEF RegistryInv
<1>2. /\ s \in Registry
      /\ s.ep[e] = x
      /\ \A f \in Endpoint : f # e => s.ep[f] = r.ep[f]
      /\ s.dangling = r.dangling /\ s.list = r.list /\ s.living = r.living
  BY <1>1, EndpointChange
<1> HIDE DEF s
<1>3. DanglingFree(s)
  BY <1>1, <1>2 DEF RegistryInv, DanglingFree, Registry
<1>4. DanglingOne(s) /\ DanglingOut(s)
  BY <1>2 DEF RegistryInv, DanglingOne, DanglingOut, InTree
<1>5. TreeInv(s, t)
  BY <1>2 DEF RegistryInv, TreeInv, InTree
<1>6. QED
  BY <1>2, <1>3, <1>4, <1>5 DEF RegistryInv, s

(* A registration: e leaves the dangling list, which held nothing else, and *)
(* enters the tree.                                                        *)
LEMMA RegisteredInv ==
    ASSUME NEW r, NEW s \in Registry, NEW t \in Nat, RegistryInv(r, t),
           NEW e \in Endpoint, e \in r.dangling, s.dangling = r.dangling \ {e},
           s.ep[e].alive, s.ep[e].name \in Name, s.ep[e].t_living = t,
           s.living[e] = t,
           \A f \in Endpoint : f # e => s.ep[f] = r.ep[f] /\ s.living[f] = r.living[f]
    PROVE  RegistryInv(s, t)
<1>1. s.dangling = {}
  BY DEF RegistryInv, DanglingOne
<1>2. DanglingOne(s) /\ DanglingOut(s) /\ DanglingFree(s)
  BY <1>1 DEF DanglingOne, DanglingOut, DanglingFree
<1>3. s.ep[e].name # NoName
  BY ConstantsAssumption
<1>4. \A f \in Endpoint : f # e /\ InTree(s, f) => InTree(r, f)
  BY DEF InTree
<1>5. TreeInv(s, t)
  BY <1>3, <1>4 DEF TreeInv, RegistryInv
<1>6. QED
  BY <1>2, <1>5 DEF RegistryInv

(* make_endpoint_ready and the assignment of the name that follows it. *)
LEMMA MakeReadyInv ==
    ASSUME NEW r, NEW e \in Endpoint, NEW n \in Name, now \in Nat,
           RegistryInv(r, now), e \in r.dangling, r.ep[e].alive
    PROVE  RegistryInv([MakeReady(r, e, n) EXCEPT !.ep[e].name = n], now)
<1> DEFINE m == MakeReady(r, e, n)
           x == [m.ep[e] EXCEPT !.name = n]
           s == SetEndpoint(m, e, x)
<1>1. r \in Registry
  BY DEF RegistryInv
<1>2. /\ m \in Registry
      /\ m.dangling = r.dangling \ {e}
      /\ m.living[e] = now /\ m.ep[e].alive /\ m.ep[e].t_living = now
      /\ \A f \in Endpoint : f # e => m.ep[f] = r.ep[f] /\ m.living[f] = r.living[f]
  BY <1>1, MakeReadyFields
<1>3. [m EXCEPT !.ep[e].name = n] = s
  BY DEF SetEndpoint
<1> HIDE DEF m
<1>4. m.ep[e] \in EndpointRec
  BY <1>2 DEF Registry
<1>5. x \in EndpointRec /\ x.name = n /\ x.alive /\ x.t_living = now
  BY <1>2, <1>4 DEF EndpointRec
<1> HIDE DEF x
<1>6. /\ s \in Registry
      /\ s.ep[e] = x
      /\ \A f \in Endpoint : f # e => s.ep[f] = m.ep[f]
      /\ s.dangling = m.dangling /\ s.living = m.living
  BY <1>2, <1>5, EndpointChange
<1> HIDE DEF s
<1>7. RegistryInv(s, now)
  BY <1>2, <1>5, <1>6, RegisteredInv
<1>8. QED
  BY <1>3, <1>7 DEF m

(* The same when the endpoint bears its name already. *)
LEMMA MakeReadyNamedInv ==
    ASSUME NEW r, NEW e \in Endpoint, NEW n \in Name, now \in Nat,
           RegistryInv(r, now), e \in r.dangling, r.ep[e].alive, r.ep[e].name = n
    PROVE  RegistryInv(MakeReady(r, e, n), now)
<1>1. r \in Registry
  BY DEF RegistryInv
<1> DEFINE m == MakeReady(r, e, n)
<1>2. /\ m \in Registry
      /\ m.dangling = r.dangling \ {e}
      /\ m.living[e] = now
      /\ m.ep[e].alive /\ m.ep[e].name \in Name /\ m.ep[e].t_living = now
      /\ \A f \in Endpoint : f # e => m.ep[f] = r.ep[f] /\ m.living[f] = r.living[f]
  BY <1>1, MakeReadyFields
<1> HIDE DEF m
<1>3. RegistryInv(m, now)
  BY <1>2, RegisteredInv
<1>4. QED
  BY <1>3 DEF m

(* Fields of one endpoint that the invariant is not about. *)
LEMMA SetAskedInv ==
    ASSUME NEW r, NEW t \in Nat, RegistryInv(r, t), NEW e \in Endpoint
    PROVE  RegistryInv([r EXCEPT !.ep[e].asked = TRUE], t)
<1> DEFINE x == [r.ep[e] EXCEPT !.asked = TRUE]
<1>1. [r EXCEPT !.ep[e].asked = TRUE] = SetEndpoint(r, e, x)
  BY DEF SetEndpoint
<1>2. r.ep[e] \in EndpointRec
  BY DEF RegistryInv, Registry
<1>3. /\ x \in EndpointRec
      /\ x.alive = r.ep[e].alive /\ x.name = r.ep[e].name /\ x.t_living = r.ep[e].t_living
  BY <1>2 DEF EndpointRec
<1> HIDE DEF x
<1>4. QED
  BY <1>1, <1>3, EndpointChangeInv

LEMMA SetStartInv ==
    ASSUME NEW r, NEW t \in Nat, RegistryInv(r, t), NEW e \in Endpoint, NEW u \in Nat
    PROVE  RegistryInv([r EXCEPT !.ep[e].t_start_session = u], t)
<1> DEFINE x == [r.ep[e] EXCEPT !.t_start_session = u]
<1>1. [r EXCEPT !.ep[e].t_start_session = u] = SetEndpoint(r, e, x)
  BY DEF SetEndpoint
<1>2. r.ep[e] \in EndpointRec
  BY DEF RegistryInv, Registry
<1>3. /\ x \in EndpointRec
      /\ x.alive = r.ep[e].alive /\ x.name = r.ep[e].name /\ x.t_living = r.ep[e].t_living
  BY <1>2 DEF EndpointRec
<1> HIDE DEF x
<1>4. QED
  BY <1>1, <1>3, EndpointChangeInv

LEMMA SetSessionInv ==
    ASSUME NEW r, NEW t \in Nat, RegistryInv(r, t), NEW e \in Endpoint,
           NEW u \in Session \cup {NoSession}
    PROVE  RegistryInv([r EXCEPT !.ep[e].session = u], t)
<1> DEFINE x == [r.ep[e] EXCEPT !.session = u]
<1>1. [r EXCEPT !.ep[e].session = u] = SetEndpoint(r, e, x)
  BY DEF SetEndpoint
<1>2. r.ep[e] \in EndpointRec
  BY DEF RegistryInv, Registry
<1>3. /\ x \in EndpointRec
      /\ x.alive = r.ep[e].alive /\ x.name = r.ep[e].name /\ x.t_living = r.ep[e].t_living
  BY <1>2 DEF EndpointRec
<1> HIDE DEF x
<1>4. QED
  BY <1>1, <1>3, EndpointChangeInv

(* The set of sessions is not read by the invariant. *)
LEMMA SetSessionsInv ==
    ASSUME NEW r, NEW t \in Nat, RegistryInv(r, t), NEW S \in SUBSET Session
    PROVE  RegistryInv([r EXCEPT !.sessions = S], t)
BY DEF RegistryInv, Registry, DanglingOne, DanglingOut, DanglingFree, TreeInv, InTree

LEMMA CreateSessionInv ==
    ASSUME NEW r, NEW t \in Nat, RegistryInv(r, t), NEW e \in Endpoint,
           NEW r1 \in CreateSession(r, e)
    PROVE  RegistryInv(r1, t)
<1>1. CASE r1 = [r EXCEPT !.ep[e].session = NoSession]
  BY <1>1, SetSessionInv
<1>2. ASSUME NEW s \in Session,
             r1 = [r EXCEPT !.ep[e].session = s, !.sessions = @ \cup {s}]
      PROVE  RegistryInv(r1, t)
  <2> DEFINE q == [r EXCEPT !.ep[e].session = s]
  <2>1. RegistryInv(q, t)
    BY SetSessionInv
  <2>2. r1 = [q EXCEPT !.sessions = q.sessions \cup {s}]
    BY <1>2
  <2> HIDE DEF q
  <2>3. q.sessions \cup {s} \in SUBSET Session
    BY <2>1 DEF RegistryInv, Registry
  <2>4. QED
    BY <2>1, <2>2, <2>3, SetSessionsInv
<1>3. QED
  BY <1>1, <1>2 DEF CreateSession

(* The end of a session: the pointer is cleared and the session removed. *)
LEMMA ClearSessionInv ==
    ASSUME NEW r, NEW t \in Nat, RegistryInv(r, t), NEW e \in Endpoint, NEW s
    PROVE  RegistryInv([r EXCEPT !.ep[e].session = NoSession, !.sessions = @ \ {s}], t)
<1> DEFINE q == [r EXCEPT !.ep[e].session = NoSession]
<1>1. RegistryInv(q, t)
  BY SetSessionInv
<1>2. [r EXCEPT !.ep[e].session = NoSession, !.sessions = @ \ {s}]
        = [q EXCEPT !.sessions = q.sessions \ {s}]
  OBVIOUS
<1> HIDE DEF q
<1>3. q.sessions \ {s} \in SUBSET Session
  BY <1>1 DEF RegistryInv, Registry
<1>4. QED
  BY <1>1, <1>2, <1>3, SetSessionsInv

LEMMA SentInv ==
    ASSUME NEW r, NEW t \in Nat, RegistryInv(r, t), NEW e \in Endpoint,
           NEW r1 \in Sent(r, e)
    PROVE  RegistryInv(r1, t)
BY OnCloseInv DEF Sent

(* update_endpoint_living_time moves the node to its new place. *)
LEMMA TouchInv ==
    ASSUME NEW r, NEW e \in Endpoint, now \in Nat, RegistryInv(r, now)
    PROVE  RegistryInv(Touch(r, e), now)
<1>1. CASE InTree(r, e) /\ r.ep[e].t_living # now
  <2> DEFINE x == [r.ep[e] EXCEPT !.t_living = now]
             q == SetEndpoint(r, e, x)
             v == [q.living EXCEPT ![e] = now]
             s == [q EXCEPT !.living = v]
  <2>1. Touch(r, e) = s
    BY <1>1 DEF Touch, SetEndpoint
  <2>2. r \in Registry /\ r.ep[e] \in EndpointRec
    BY DEF RegistryInv, Registry
  <2>3. /\ x \in EndpointRec
        /\ x.alive = r.ep[e].alive /\ x.name = r.ep[e].name /\ x.t_living = now
    BY <2>2 DEF EndpointRec
  <2> HIDE DEF x
  <2>4. /\ q \in Registry
        /\ q.ep[e] = x
        /\ \A f \in Endpoint : f # e => q.ep[f] = r.ep[f]
        /\ q.dangling = r.dangling /\ q.list = r.list /\ q.living = r.living
    BY <2>2, <2>3, EndpointChange
  <2> HIDE DEF q
  <2>5. /\ v \in [Endpoint -> Nat \cup {NotInTree}]
        /\ v[e] = now /\ \A f \in Endpoint : f # e => v[f] = r.living[f]
    BY <2>4, RegistryFields
  <2> HIDE DEF v
  <2>6. s \in Registry
    BY <2>4, <2>5 DEF Registry
  <2>7. /\ s.ep = q.ep /\ s.living = v
        /\ s.dangling = q.dangling /\ s.list = q.list
    BY <2>4 DEF Registry
  <2> HIDE DEF s
  <2>8. DanglingOne(s)
    BY <2>4, <2>7 DEF RegistryInv, DanglingOne
  <2>9. DanglingOut(s)
    BY <1>1, <2>2, <2>4, <2>5, <2>7 DEF RegistryInv, DanglingOut, InTree, Registry
  <2>10. DanglingFree(s)
    BY <2>2, <2>3, <2>4, <2>7 DEF RegistryInv, DanglingFree, Registry
  <2>11. TreeInv(s, now)
    <3>1. \A f \in Endpoint : f # e /\ InTree(s, f) => InTree(r, f)
      BY <2>5, <2>7 DEF InTree
    <3>2. s.ep[e] = x /\ s.living[e] = now
      BY <2>4, <2>5, <2>7
    <3>3. x.alive /\ x.name # NoName
      BY <1>1, <2>3 DEF RegistryInv, TreeInv
    <3>4. \A f \in Endpoint : f # e => s.ep[f] = r.ep[f] /\ s.living[f] = r.living[f]
      BY <2>4, <2>5, <2>7
    <3>5. QED
      BY <2>3, <3>1, <3>2, <3>3, <3>4 DEF RegistryInv, TreeInv
  <2>12. QED
    BY <2>1, <2>6, <2>8, <2>9, <2>10, <2>11 DEF RegistryInv
<1>2. CASE ~(InTree(r, e) /\ r.ep[e].t_living # now)
  BY <1>2 DEF Touch
<1>3. QED
  BY <1>1, <1>2

(* What update_endpoint_living_time leaves alone. *)
LEMMA TouchFields ==
    ASSUME NEW r \in Registry, NEW e \in Endpoint
    PROVE  /\ Touch(r, e).dangling = r.dangling
           /\ Touch(r, e).list = r.list
           /\ Touch(r, e).sessions = r.sessions
           /\ \A f \in Endpoint : /\ Touch(r, e).ep[f].alive = r.ep[f].alive
                                  /\ Touch(r, e).ep[f].name = r.ep[f].name
                                  /\ Touch(r, e).ep[f].session = r.ep[f].session
BY DEF Touch, Registry, EndpointRec

(* A startSession packet has arrived. *)
LEMMA AskedInv ==
    ASSUME NEW e \in Endpoint, now \in Nat, RegistryInv(reg, now)
    PROVE  /\ RegistryInv(Asked(e), now)
           /\ Asked(e).dangling = reg.dangling
           /\ Asked(e).list = reg.list
           /\ Asked(e).ep[e].alive = reg.ep[e].alive
           /\ Asked(e).ep[e].name = reg.ep[e].name
<1> DEFINE q == Touch(reg, e)
           x == [q.ep[e] EXCEPT !.asked = TRUE]
<1>1. RegistryInv(q, now)
  BY TouchInv
<1>2. /\ q.dangling = reg.dangling /\ q.list = reg.list
      /\ q.ep[e].alive = reg.ep[e].alive /\ q.ep[e].name = reg.ep[e].name
  BY TouchFields DEF RegistryInv
<1>3. Asked(e) = SetEndpoint(q, e, x)
  BY DEF Asked, SetEndpoint
<1>4. Asked(e) = [q EXCEPT !.ep[e].asked = TRUE]
  BY DEF Asked
<1> HIDE DEF q
<1>5. q \in Registry /\ q.ep[e] \in EndpointRec
  BY <1>1 DEF RegistryInv, Registry
<1>6. x \in EndpointRec /\ x.alive = q.ep[e].alive /\ x.name = q.ep[e].name
  BY <1>5 DEF EndpointRec
<1> HIDE DEF x
<1>7. /\ SetEndpoint(q, e, x).ep[e] = x
      /\ SetEndpoint(q, e, x).dangling = q.dangling
      /\ SetEndpoint(q, e, x).list = q.list
  BY <1>5, <1>6, EndpointChange
<1>8. RegistryInv(Asked(e), now)
  BY <1>1, <1>4, SetAskedInv
<1>9. QED
  BY <1>2, <1>3, <1>6, <1>7, <1>8

(* A claim of a name that is not registered. *)
LEMMA ClaimInv ==
    ASSUME NEW r, NEW t \in Nat, RegistryInv(r, t), NEW e \in Endpoint,
           NEW n \in Name, NEW u \in Nat, r.list[n] = NoEndpoint
    PROVE  /\ RegistryInv(Claim(r, e, n, u), t)
           /\ Claim(r, e, n, u).dangling = r.dangling
           /\ Claim(r, e, n, u).ep[e].alive = r.ep[e].alive
           /\ Claim(r, e, n, u).ep[e].name = n
<1> DEFINE y == [r.ep[e] EXCEPT !.name = n]
           x == [y EXCEPT !.timeout_seconds = u]
<1>1. r \in Registry /\ r.ep[e] \in EndpointRec
  BY DEF RegistryInv, Registry
<1>2. Claim(r, e, n, u) = SetEndpoint(r, e, x)
  <2>1. Claim(r, e, n, u) = [[r EXCEPT !.ep = [r.ep EXCEPT ![e] = y]]
                                EXCEPT !.ep[e].timeout_seconds = u]
    BY DEF Claim
  <2> DEFINE q == [r EXCEPT !.ep = [r.ep EXCEPT ![e] = y]]
  <2> HIDE DEF y
  <2>2. q.ep = [r.ep EXCEPT ![e] = y] /\ q.ep[e] = y
    BY <1>1 DEF Registry
  <2>3. [q EXCEPT !.ep[e].timeout_seconds = u]
          = [q EXCEPT !.ep = [q.ep EXCEPT ![e] = x]]
    BY <2>2
  <2>4. [q.ep EXCEPT ![e] = x] = [r.ep EXCEPT ![e] = x]
    BY <1>1, <2>2 DEF Registry
  <2> HIDE DEF x
  <2>5. [q EXCEPT !.ep = [r.ep EXCEPT ![e] = x]] = [r EXCEPT !.ep = [r.ep EXCEPT ![e] = x]]
    BY <1>1 DEF Registry
  <2>6. QED
    BY <2>1, <2>3, <2>4, <2>5 DEF SetEndpoint
<1>3. y \in EndpointRec /\ y.alive = r.ep[e].alive /\ y.name = n /\ y.t_living = r.ep[e].t_living
  BY <1>1 DEF EndpointRec
<1> HIDE DEF y
<1>4. x \in EndpointRec /\ x.alive = y.alive /\ x.name = n /\ x.t_living = y.t_living
  BY <1>3 DEF EndpointRec
<1> HIDE DEF x
<1>5. n # NoName
  BY ConstantsAssumption
<1>6. RegistryInv(SetEndpoint(r, e, x), t)
  BY <1>3, <1>4, <1>5, EndpointChangeInv
<1>7. SetEndpoint(r, e, x).ep[e] = x /\ SetEndpoint(r, e, x).dangling = r.dangling
  BY <1>1, <1>4, EndpointChange
<1>8. QED
  BY <1>2, <1>3, <1>4, <1>6, <1>7

(* The dangling list after store_dangling_endpoint. *)
LEMMA InsertOne ==
    ASSUME NEW D, \A d, f \in D : d = f, NEW e
    PROVE  InsertAppend(D, e) = {e}
<1>1. CASE D = {}
  BY <1>1 DEF InsertAppend
<1>2. CASE D # {}
  <2>1. PICK d \in D : TRUE
    BY <1>2
  <2>2. (CHOOSE h \in D : TRUE) \in D
    BY <2>1
  <2>3. D \ {CHOOSE h \in D : TRUE} = {}
    BY <2>2
  <2>4. QED
    BY <1>2, <2>3 DEF InsertAppend
<1>3. QED
  BY <1>1, <1>2

(* A new connection. *)
LEMMA AcceptInv ==
    ASSUME NEW r, NEW e \in Endpoint, NEW t \in {"unix", "web"}, now \in Nat,
           RegistryInv(r, now), ~r.ep[e].alive
    PROVE  RegistryInv(StoreDangling([r EXCEPT !.ep[e] = NewEndpoint(t)], e), now)
<1> DEFINE x == NewEndpoint(t)
           q == SetEndpoint(r, e, x)
           s == StoreDangling(q, e)
<1>1. r \in Registry
  BY DEF RegistryInv
<1>2. /\ x \in EndpointRec
      /\ x.alive /\ x.name = NoName
  BY DEF NewEndpoint, FreedEndpoint, EndpointRec
<1> HIDE DEF x
<1>3. /\ q \in Registry
      /\ q.ep[e] = x
      /\ \A f \in Endpoint : f # e => q.ep[f] = r.ep[f]
      /\ q.dangling = r.dangling /\ q.list = r.list /\ q.living = r.living
  BY <1>1, <1>2, EndpointChange
<1> HIDE DEF q
<1>4. InsertAppend(q.dangling, e) = {e}
  BY <1>3, InsertOne DEF RegistryInv, DanglingOne
<1>5. /\ s \in Registry
      /\ s.dangling = {e} /\ s.ep = q.ep /\ s.list = q.list /\ s.living = q.living
  BY <1>3, <1>4 DEF StoreDangling, Registry
<1> HIDE DEF s
<1>6. ~InTree(r, e)
  BY DEF RegistryInv, TreeInv
<1>7. DanglingOne(s) /\ DanglingOut(s) /\ DanglingFree(s)
  BY <1>2, <1>3, <1>5, <1>6 DEF DanglingOne, DanglingOut, DanglingFree, InTree
<1>8. TreeInv(s, now)
  BY <1>3, <1>5, <1>6 DEF RegistryInv, TreeInv, InTree
<1>9. RegistryInv(s, now)
  BY <1>5, <1>7, <1>8 DEF RegistryInv
<1>10. QED
  BY <1>9 DEF s, q, x, SetEndpoint

(* The sweeps. *)
LEMMA RemoveAllDanglingInv ==
    ASSUME NEW r, NEW t \in Nat, RegistryInv(r, t), NEW R \in SUBSET Endpoint
    PROVE  RegistryInv(RemoveAllDangling(r, R), t)
BY RemoveDanglingInv, DelAllInv DEF RemoveAllDangling

LEMMA CheckNoRespondingInv ==
    ASSUME NEW r, NEW t \in Nat, RegistryInv(r, t)
    PROVE  RegistryInv(CheckNoResponding(r), t)
<1> DEFINE R == NoResponding(r)
<1>1. R \in SUBSET Endpoint
  BY DEF NoResponding, Tree
<1>2. Cardinality(R) \in Nat
  BY <1>1, ConstantsAssumption, FS_Subset, FS_CardinalityType
<1>3. CheckNoResponding(r) = Decrease(DelAll(Unlist(r, R), R), Cardinality(R))
  BY DEF CheckNoResponding
<1> HIDE DEF R
<1>4. QED
  BY <1>1, <1>2, <1>3, UnlistInv, DelAllInv, DecreaseInv

LEMMA DanglingSweepsInv ==
    ASSUME NEW r, NEW t \in Nat, RegistryInv(r, t)
    PROVE  RegistryInv(CheckDangling(r), t) /\ RegistryInv(CheckTimeoutDangling(r), t)
<1>1. r.dangling \in SUBSET Endpoint
  BY DEF RegistryInv, Registry
<1> DEFINE R == {e \in r.dangling : now > r.ep[e].t_created + NoRespondingTime}
           Q == {e \in r.dangling : now > StartDeadline(r, e)}
<1>2. R \in SUBSET Endpoint /\ Q \in SUBSET Endpoint
  BY <1>1
<1>3. CheckDangling(r) = RemoveAllDangling(r, R) /\ CheckTimeoutDangling(r) = RemoveAllDangling(r, Q)
  BY DEF CheckDangling, CheckTimeoutDangling
<1> HIDE DEF R, Q
<1>4. QED
  BY <1>2, <1>3, RemoveAllDanglingInv

LEMMA DeinitInv ==
    ASSUME NEW r, NEW t \in Nat, RegistryInv(r, t)
    PROVE  RegistryInv(Deinit(r), t)
<1> DEFINE R == {r.list[n] : n \in Listed(r)}
           r1 == [r EXCEPT !.living = [e \in Endpoint |-> NotInTree],
                           !.dangling = {},
                           !.list = [n \in Name |-> NoEndpoint]]
<1>1. r \in Registry
  BY DEF RegistryInv
<1>2. R \cup r.dangling \in SUBSET Endpoint
  BY <1>1 DEF Listed, Registry
<1>3. r1 \in Registry
  BY <1>1 DEF Registry
<1>4. /\ r1.dangling = {}
      /\ \A e \in Endpoint : r1.living[e] = NotInTree
  BY <1>1 DEF Registry
<1>5. Deinit(r) = Decrease(DelAll(r1, R \cup r.dangling), Cardinality(Listed(r)))
  BY DEF Deinit
<1> HIDE DEF r1, R
<1>6. RegistryInv(r1, t)
  BY <1>3, <1>4 DEF RegistryInv, DanglingOne, DanglingOut, DanglingFree, TreeInv, InTree
<1>7. Cardinality(Listed(r)) \in Nat
  BY ConstantsAssumption, FS_Subset, FS_CardinalityType DEF Listed
<1>8. QED
  BY <1>2, <1>5, <1>6, <1>7, DelAllInv, DecreaseInv

LEMMA LaterInv ==
    ASSUME NEW r, NEW t \in Nat, NEW u \in Nat, t <= u, RegistryInv(r, t)
    PROVE  RegistryInv(r, u)
<1>1. \A e \in Endpoint : r.living[e] \in Nat \cup {NotInTree}
  BY DEF RegistryInv, Registry
<1>2. \A e \in Endpoint : r.living[e] <= t => r.living[e] <= u
  BY <1>1 DEF NotInTree
<1>3. QED
  BY <1>2 DEF RegistryInv, TreeInv

-----------------------------------------------------------------------------
(***************************************************************************)
(* The inductive invariant of the specification.                           *)
(***************************************************************************)
IInv ==
    /\ RegistryInv(reg, now)
    /\ now \in 1..MaxTime
    /\ lastIdle \in 1..MaxTime
    /\ phase \in {"running", "stopped", "undefined"}
    /\ liberties \in Liberties

LEMMA InitIInv == Init => IInv
<1> SUFFICES ASSUME Init PROVE IInv
  OBVIOUS
<1>1. CountWord \in Nat \ {0} /\ MaxTime \in Nat \ {0}
  BY ConstantsAssumption
<1>2. FreedEndpoint \in EndpointRec
  BY DEF FreedEndpoint, EndpointRec
<1> DEFINE s == EmptyRegistry
<1>3. s \in Registry
  BY <1>1, <1>2 DEF EmptyRegistry, Registry
<1>4. s.dangling = {} /\ \A e \in Endpoint : s.living[e] = NotInTree
  BY DEF EmptyRegistry
<1> HIDE DEF s
<1>5. RegistryInv(s, now)
  BY <1>3, <1>4 DEF RegistryInv, DanglingOne, DanglingOut, DanglingFree, TreeInv, InTree
<1>6. QED
  BY <1>1, <1>5 DEF Init, IInv, s

(* The steps of one endpoint. *)
LEMMA ClientStepInv ==
    ASSUME IInv, NEW e \in Endpoint, ClientStep(e)
    PROVE  RegistryInv(reg', now)
<1>1. RegistryInv(reg, now) /\ now \in Nat /\ reg \in Registry
  BY ConstantsAssumption DEF IInv, RegistryInv
<1>2. /\ RegistryInv(Asked(e), now)
      /\ Asked(e).dangling = reg.dangling /\ Asked(e).list = reg.list
      /\ Asked(e).ep[e].alive = reg.ep[e].alive
  BY <1>1, AskedInv
<1>3. ASSUME NEW t \in {"unix", "web"}, Accept(e, t)
      PROVE  RegistryInv(reg', now)
  BY <1>1, <1>3, AcceptInv, SentInv DEF Accept
<1>4. CASE StartSessionRefused(e)
  <2>1. RegistryInv([Asked(e) EXCEPT !.ep[e].session = NoSession], now)
    BY <1>1, <1>2, SetSessionInv
  <2>2. QED
    BY <1>1, <1>4, <2>1, SentInv DEF StartSessionRefused
<1>5. CASE DuplicateRefused(e)
  BY <1>1, <1>2, <1>5, SentInv DEF DuplicateRefused
<1>6. ASSUME NEW n \in Name, StartSession(e, n)
      PROVE  RegistryInv(reg', now)
  <2> DEFINE r == [MakeReady(Asked(e), e, n) EXCEPT !.ep[e].name = n]
  <2>1. RegistryInv(r, now)
    BY <1>1, <1>2, <1>6, MakeReadyInv DEF StartSession, Handle, MayAuthenticate
  <2>2. PICK r1 \in CreateSession(r, e) : reg' \in Sent(r1, e)
    BY <1>6 DEF StartSession
  <2> HIDE DEF r
  <2>3. QED
    BY <1>1, <2>1, <2>2, CreateSessionInv, SentInv
<1>7. ASSUME NEW n \in Name, NEW u \in Timeouts, DuplicateAutoAccepted(e, n, u)
      PROVE  RegistryInv(reg', now)
  <2> DEFINE r == Claim(Asked(e), e, n, u)
  <2>1. /\ RegistryInv(r, now) /\ r.dangling = reg.dangling
        /\ r.ep[e].alive /\ r.ep[e].name = n
    <3>1. u \in Nat
      BY ConstantsAssumption
    <3>2. Asked(e).list[n] = NoEndpoint /\ Asked(e).ep[e].alive
      BY <1>2, <1>7 DEF DuplicateAutoAccepted, MayDuplicate, NameFree, Handle
    <3>3. QED
      BY <1>1, <1>2, <3>1, <3>2, ClaimInv
  <2>2. IF e \in r.dangling
        THEN \E r1 \in CreateSession(MakeReady(r, e, n), e) : reg' \in Sent(r1, e)
        ELSE reg' \in Sent(r, e)
    BY <1>7 DEF DuplicateAutoAccepted
  <2> HIDE DEF r
  <2>3. CASE e \in r.dangling
    <3>1. RegistryInv(MakeReady(r, e, n), now)
      BY <1>1, <2>1, <2>3, MakeReadyNamedInv
    <3>2. QED
      BY <1>1, <2>2, <2>3, <3>1, CreateSessionInv, SentInv
  <2>4. CASE e \notin r.dangling
    BY <1>1, <2>1, <2>2, <2>4, SentInv
  <2>5. QED
    BY <2>3, <2>4
<1>8. ASSUME NEW n \in Name, NEW u \in Timeouts, DuplicateWaits(e, n, u)
      PROVE  RegistryInv(reg', now)
  <2>1. u \in Nat
    BY ConstantsAssumption
  <2>2. Asked(e).list[n] = NoEndpoint
    BY <1>2, <1>8 DEF DuplicateWaits, MayDuplicate, NameFree
  <2>3. RegistryInv(Claim(Asked(e), e, n, u), now)
    BY <1>1, <1>2, <2>1, <2>2, ClaimInv
  <2>4. QED
    BY <1>1, <1>8, <2>3, SetStartInv DEF DuplicateWaits
<1>9. CASE EndSession(e)
  BY <1>1, <1>9, TouchInv, ClearSessionInv DEF EndSession
<1>10. CASE Packet(e)
  BY <1>1, <1>10, TouchInv, SentInv DEF Packet
<1>11. CASE Disconnect(e)
  BY <1>1, <1>11, OnCloseInv DEF Disconnect
<1>12. QED
  BY <1>3, <1>4, <1>5, <1>6, <1>7, <1>8, <1>9, <1>10, <1>11 DEF ClientStep

LEMMA UserStepInv ==
    ASSUME IInv, NEW e \in Endpoint, UserStep(e)
    PROVE  RegistryInv(reg', now)
<1>1. RegistryInv(reg, now) /\ now \in Nat /\ reg \in Registry
  BY ConstantsAssumption DEF IInv, RegistryInv
<1>2. CASE UserAccepts(e)
  <2> DEFINE n == reg.ep[e].name
  <2>1. n \in Name
    BY <1>1, <1>2 DEF UserAccepts, Registry, EndpointRec
  <2>2. RegistryInv(MakeReady(reg, e, n), now)
    BY <1>1, <1>2, <2>1, MakeReadyNamedInv DEF UserAccepts, Handle
  <2>3. reg' \in CreateSession(MakeReady(reg, e, n), e)
    BY <1>2 DEF UserAccepts
  <2> HIDE DEF n
  <2>4. QED
    BY <1>1, <2>2, <2>3, CreateSessionInv
<1>3. CASE UserAcceptsUnstarted(e)
  BY <1>1, <1>3 DEF UserAcceptsUnstarted
<1>4. CASE UserCloses(e)
  <2>1. RegistryInv(RemoveEndpoint(reg, e), now)
    BY <1>1, UnlistInv, DelAllInv, DecreaseInv DEF RemoveEndpoint
  <2>2. QED
    BY <1>4, <2>1 DEF UserCloses
<1>5. QED
  BY <1>2, <1>3, <1>4 DEF UserStep

LEMMA IdleCheckInv ==
    ASSUME IInv, IdleCheck
    PROVE  RegistryInv(reg', now)
<1>1. RegistryInv(reg, now) /\ now \in Nat
  BY ConstantsAssumption DEF IInv
<1> DEFINE r == IF NoRespondingDue THEN CheckNoResponding(reg)
                ELSE IF Elapsed % DanglingPeriod = 0 THEN CheckDangling(reg)
                ELSE reg
<1>2. RegistryInv(r, now)
  BY <1>1, CheckNoRespondingInv, DanglingSweepsInv
<1>3. reg' = CheckTimeoutDangling(r)
  BY DEF IdleCheck
<1> HIDE DEF r
<1>4. QED
  BY <1>1, <1>2, <1>3, DanglingSweepsInv

LEMMA NextIInv == IInv /\ [Next]_vars => IInv'
<1> SUFFICES ASSUME IInv, [Next]_vars
             PROVE  IInv'
  OBVIOUS
<1>1. /\ RegistryInv(reg, now) /\ now \in 1..MaxTime /\ lastIdle \in 1..MaxTime
      /\ phase \in {"running", "stopped", "undefined"} /\ now \in Nat /\ MaxTime \in Nat
      /\ liberties \in Liberties
  BY ConstantsAssumption DEF IInv
<1>2. ASSUME NEW e \in Endpoint, ClientStep(e)
      PROVE  IInv'
  <2>1. UNCHANGED <<now, lastIdle, phase, liberties>>
    BY <1>2 DEF ClientStep, Accept, StartSessionRefused, DuplicateRefused, StartSession,
                DuplicateAutoAccepted, DuplicateWaits, EndSession, Packet, Disconnect, Handle
  <2>2. QED
    BY <1>1, <1>2, <2>1, ClientStepInv DEF IInv
<1>3. ASSUME NEW e \in Endpoint, UserStep(e)
      PROVE  IInv'
  <2>1. UNCHANGED <<now, lastIdle, liberties>> /\ phase' \in {"running", "stopped", "undefined"}
    BY <1>1, <1>3 DEF UserStep, UserAccepts, UserAcceptsUnstarted, UserCloses, Handle
  <2>2. QED
    BY <1>1, <1>3, <2>1, UserStepInv DEF IInv
<1>4. CASE IdleCheck
  BY <1>1, <1>4, IdleCheckInv DEF IInv, IdleCheck
<1>5. CASE ReadsFreed
  BY <1>1, <1>5 DEF IInv, ReadsFreed
<1>6. CASE Stop
  BY <1>1, <1>6, DeinitInv DEF IInv, Stop
<1>7. CASE Tick
  <2>1. now' \in Nat /\ now <= now' /\ now' \in 1..MaxTime
    BY <1>1, <1>7 DEF Tick
  <2>2. RegistryInv(reg, now')
    BY <1>1, <2>1, LaterInv
  <2>3. QED
    BY <1>1, <1>7, <2>1, <2>2 DEF IInv, Tick
<1>8. CASE Stopped \/ UNCHANGED vars
  BY <1>1, <1>8 DEF IInv, Stopped, vars
<1>9. QED
  BY <1>2, <1>3, <1>4, <1>5, <1>6, <1>7, <1>8 DEF Next

THEOREM Invariance == Spec => []IInv
BY InitIInv, NextIInv, PTL DEF Spec

(* The state has its types, nr_endpoints its width.                        *)
THEOREM TypeCorrect == Spec => []TypeOK
<1>1. IInv => TypeOK
  BY DEF IInv, RegistryInv, TypeOK
<1>2. QED
  BY <1>1, Invariance, PTL

(* store_dangling_endpoint never keeps two endpoints, and a waiting         *)
(* endpoint's name is not registered, however clients and user interleave. *)
THEOREM DanglingSound == Spec => [](AtMostOneDangling /\ DanglingNameFree)
<1>1. IInv => AtMostOneDangling /\ DanglingNameFree
  BY DEF IInv, RegistryInv, DanglingOne, DanglingFree, AtMostOneDangling, DanglingNameFree
<1>2. QED
  BY <1>1, Invariance, PTL

(* The living tree holds live, named endpoints at their present place.     *)
THEOREM TreeSound == Spec => []TreeCurrent
<1>1. IInv => TreeCurrent
  <2> SUFFICES ASSUME IInv, NEW e \in Tree(reg)
               PROVE  /\ reg.ep[e].alive /\ reg.ep[e].name # NoName
                      /\ reg.living[e] = reg.ep[e].t_living /\ reg.living[e] <= now
    BY DEF TreeCurrent
  <2>1. e \in Endpoint /\ InTree(reg, e)
    BY DEF Tree
  <2>2. QED
    BY <2>1 DEF IInv, RegistryInv, TreeInv
<1>2. QED
  BY <1>1, Invariance, PTL

-----------------------------------------------------------------------------
(***************************************************************************)
(* No step gives a registered name to another endpoint: s, a later         *)
(* registry than r, keeps its entries or drops them.  Dropped: nor has s    *)
(* an entry that r has not.                                                *)
(***************************************************************************)
Dropped(r, s) == \A n \in Name : s.list[n] \in {r.list[n], NoEndpoint}

Kept(r, s) ==
    \A n \in Name : r.list[n] # NoEndpoint => s.list[n] \in {r.list[n], NoEndpoint}

LEMMA DropKept ==
    ASSUME NEW r \in Registry, NEW R \in SUBSET Endpoint, NEW k, NEW D
    PROVE  /\ DelAll(r, R).list = r.list
           /\ Decrease(r, k).list = r.list
           /\ [r EXCEPT !.dangling = D].list = r.list
           /\ Dropped(r, Unlist(r, R)) /\ Kept(r, Unlist(r, R))
<1>1. DelAll(r, R).list = r.list
  BY DEF DelAll, Registry
<1>2. Decrease(r, k).list = r.list
  BY DEF Decrease, Registry
<1>3. [r EXCEPT !.dangling = D].list = r.list
  BY DEF Registry
<1>4. \A n \in Name : Unlist(r, R).list[n] \in {r.list[n], NoEndpoint}
  BY DEF Unlist, Registry
<1>5. Dropped(r, Unlist(r, R)) /\ Kept(r, Unlist(r, R))
  BY <1>4 DEF Kept, Dropped
<1>6. QED
  BY <1>1, <1>2, <1>3, <1>5

LEMMA OnCloseKept ==
    ASSUME NEW r, NEW t \in Nat, RegistryInv(r, t), NEW e \in Endpoint
    PROVE  Dropped(r, OnClose(r, e)) /\ Kept(r, OnClose(r, e))
<1> DEFINE u == Unlist(r, {e})
           d == Decrease(u, 1)
           q == RemoveDangling(r, e)
<1>1. r \in Registry
  BY DEF RegistryInv
<1>2. u \in Registry /\ d \in Registry /\ q \in Registry
  BY UnlistInv, DecreaseInv, RemoveDanglingInv DEF RemoveDangling, RegistryInv
<1>3. Dropped(r, u)
  BY <1>1, DropKept
<1>4. q.list = r.list
  BY <1>1, DropKept DEF RemoveDangling
<1>5. OnClose(r, e) \in {DelAll(d, {e}), DelAll(q, {e})}
  BY DEF OnClose
<1> HIDE DEF q
<1>6. DelAll(q, {e}).list = r.list
  BY <1>2, <1>4, DropKept
<1> HIDE DEF u
<1>7. d.list = u.list
  BY <1>2, DropKept
<1> HIDE DEF d
<1>8. DelAll(d, {e}).list = u.list
  BY <1>2, <1>7, DropKept
<1>9. Dropped(r, OnClose(r, e))
  BY <1>3, <1>5, <1>6, <1>8 DEF Dropped
<1>10. QED
  BY <1>9 DEF Dropped, Kept

LEMMA KeptDropped ==
    ASSUME NEW q, NEW r, NEW s, Kept(q, r), Dropped(r, s)
    PROVE  Kept(q, s)
BY DEF Kept, Dropped

LEMMA SentKept ==
    ASSUME NEW q, NEW r, NEW t \in Nat, RegistryInv(r, t), Kept(q, r),
           NEW e \in Endpoint, NEW s \in Sent(r, e)
    PROVE  Kept(q, s)
BY OnCloseKept, KeptDropped DEF Sent

LEMMA CreateSessionKept ==
    ASSUME NEW r \in Registry, NEW e \in Endpoint, NEW s \in CreateSession(r, e)
    PROVE  s.list = r.list
BY DEF CreateSession, Registry

LEMMA MakeReadyKept ==
    ASSUME NEW r \in Registry, NEW e \in Endpoint, NEW n \in Name, now \in Nat,
           r.list[n] = NoEndpoint
    PROVE  Kept(r, MakeReady(r, e, n))
BY MakeReadyFields DEF Kept

LEMMA ClientStepKept ==
    ASSUME IInv, NEW e \in Endpoint, ClientStep(e)
    PROVE  Kept(reg, reg')
<1>1. RegistryInv(reg, now) /\ now \in Nat /\ reg \in Registry
  BY ConstantsAssumption DEF IInv, RegistryInv
<1>2. /\ RegistryInv(Asked(e), now) /\ Asked(e) \in Registry
      /\ Asked(e).dangling = reg.dangling /\ Asked(e).list = reg.list
      /\ Asked(e).ep[e].alive = reg.ep[e].alive
  BY <1>1, AskedInv DEF RegistryInv
<1>3. ASSUME NEW t \in {"unix", "web"}, Accept(e, t)
      PROVE  Kept(reg, reg')
  <2> DEFINE r == StoreDangling([reg EXCEPT !.ep[e] = NewEndpoint(t)], e)
  <2>1. RegistryInv(r, now)
    BY <1>1, <1>3, AcceptInv DEF Accept
  <2>2. r.list = reg.list
    BY <1>1 DEF StoreDangling, Registry
  <2>3. reg' \in Sent(r, e)
    BY <1>3 DEF Accept
  <2> HIDE DEF r
  <2>4. Kept(reg, r)
    BY <2>2 DEF Kept
  <2>5. QED
    BY <1>1, <2>1, <2>3, <2>4, SentKept
<1>4. CASE StartSessionRefused(e)
  <2> DEFINE r == [Asked(e) EXCEPT !.ep[e].session = NoSession]
  <2>1. RegistryInv(r, now)
    BY <1>1, <1>2, SetSessionInv
  <2>2. r.list = reg.list
    BY <1>2 DEF Registry
  <2>3. reg' \in Sent(r, e)
    BY <1>4 DEF StartSessionRefused
  <2> HIDE DEF r
  <2>4. Kept(reg, r)
    BY <2>2 DEF Kept
  <2>5. QED
    BY <1>1, <2>1, <2>3, <2>4, SentKept
<1>5. CASE DuplicateRefused(e)
  <2>1. Kept(reg, Asked(e))
    BY <1>2 DEF Kept
  <2>2. QED
    BY <1>1, <1>2, <1>5, <2>1, SentKept DEF DuplicateRefused
<1>6. ASSUME NEW n \in Name, StartSession(e, n)
      PROVE  Kept(reg, reg')
  <2> DEFINE m == MakeReady(Asked(e), e, n)
             r == [m EXCEPT !.ep[e].name = n]
  <2>1. /\ RegistryInv(r, now)
        /\ Asked(e).list[n] = NoEndpoint
    BY <1>1, <1>2, <1>6, MakeReadyInv DEF StartSession, Handle, MayAuthenticate
  <2>2. m \in Registry /\ Kept(Asked(e), m)
    BY <1>1, <1>2, <2>1, MakeReadyFields, MakeReadyKept
  <2>3. PICK r1 \in CreateSession(r, e) : reg' \in Sent(r1, e)
    BY <1>6 DEF StartSession
  <2> HIDE DEF m
  <2>4. r.list = m.list
    BY <2>2 DEF Registry
  <2> HIDE DEF r
  <2>5. RegistryInv(r1, now) /\ r1.list = r.list
    BY <1>1, <2>1, <2>3, CreateSessionInv, CreateSessionKept DEF RegistryInv
  <2>6. Kept(reg, r1)
    BY <1>2, <2>2, <2>4, <2>5 DEF Kept
  <2>7. QED
    BY <1>1, <2>3, <2>5, <2>6, SentKept
<1>7. ASSUME NEW n \in Name, NEW u \in Timeouts, DuplicateAutoAccepted(e, n, u)
      PROVE  Kept(reg, reg')
  <2> DEFINE r == Claim(Asked(e), e, n, u)
  <2>1. /\ RegistryInv(r, now) /\ r.dangling = reg.dangling
        /\ r.ep[e].alive /\ r.ep[e].name = n /\ reg.list[n] = NoEndpoint
    <3>1. u \in Nat
      BY ConstantsAssumption
    <3>2. Asked(e).list[n] = NoEndpoint /\ Asked(e).ep[e].alive
      BY <1>2, <1>7 DEF DuplicateAutoAccepted, MayDuplicate, NameFree, Handle
    <3>3. QED
      BY <1>1, <1>2, <3>1, <3>2, ClaimInv
  <2>2. r.list = reg.list
    BY <1>2 DEF Claim, Registry
  <2>3. IF e \in r.dangling
        THEN \E r1 \in CreateSession(MakeReady(r, e, n), e) : reg' \in Sent(r1, e)
        ELSE reg' \in Sent(r, e)
    BY <1>7 DEF DuplicateAutoAccepted
  <2> HIDE DEF r
  <2>4. CASE e \in r.dangling
    <3> DEFINE m == MakeReady(r, e, n)
    <3>1. RegistryInv(m, now) /\ m \in Registry
      BY <1>1, <2>1, <2>4, MakeReadyNamedInv DEF RegistryInv
    <3>2. Kept(r, m)
      BY <1>1, <2>1, <2>2, MakeReadyKept DEF RegistryInv
    <3>3. PICK r1 \in CreateSession(m, e) : reg' \in Sent(r1, e)
      BY <2>3, <2>4
    <3> HIDE DEF m
    <3>4. RegistryInv(r1, now) /\ r1.list = m.list
      BY <1>1, <3>1, <3>3, CreateSessionInv, CreateSessionKept
    <3>5. Kept(reg, r1)
      BY <2>2, <3>2, <3>4 DEF Kept
    <3>6. QED
      BY <1>1, <3>3, <3>4, <3>5, SentKept
  <2>5. CASE e \notin r.dangling
    <3>1. Kept(reg, r)
      BY <2>2 DEF Kept
    <3>2. QED
      BY <1>1, <2>1, <2>3, <2>5, <3>1, SentKept
  <2>6. QED
    BY <2>4, <2>5
<1>8. ASSUME NEW n \in Name, NEW u \in Timeouts, DuplicateWaits(e, n, u)
      PROVE  Kept(reg, reg')
  <2> DEFINE r == Claim(Asked(e), e, n, u)
  <2>1. r.list = reg.list /\ r \in [ep : {r.ep}, dangling : {r.dangling}, list : {r.list},
            living : {r.living}, nr : {r.nr}, sessions : {r.sessions}]
    BY <1>2 DEF Claim, Registry
  <2>2. reg' = [r EXCEPT !.ep[e].t_start_session = now]
    BY <1>8 DEF DuplicateWaits
  <2> HIDE DEF r
  <2>3. reg'.list = reg.list
    BY <2>1, <2>2
  <2>4. QED
    BY <2>3 DEF Kept
<1>9. CASE EndSession(e)
  <2> DEFINE r == Touch(reg, e)
  <2>1. r \in Registry /\ r.list = reg.list
    BY <1>1, TouchInv, TouchFields DEF RegistryInv
  <2>2. reg' = [r EXCEPT !.ep[e].session = NoSession, !.sessions = @ \ {reg.ep[e].session}]
    BY <1>9 DEF EndSession
  <2> HIDE DEF r
  <2>3. reg'.list = reg.list
    BY <2>1, <2>2 DEF Registry
  <2>4. QED
    BY <2>3 DEF Kept
<1>10. CASE Packet(e)
  <2>1. RegistryInv(Touch(reg, e), now) /\ Touch(reg, e).list = reg.list
    BY <1>1, TouchInv, TouchFields
  <2>2. Kept(reg, Touch(reg, e))
    BY <2>1 DEF Kept
  <2>3. QED
    BY <1>1, <1>10, <2>1, <2>2, SentKept DEF Packet
<1>11. CASE Disconnect(e)
  BY <1>1, <1>11, OnCloseKept DEF Disconnect
<1>12. QED
  BY <1>3, <1>4, <1>5, <1>6, <1>7, <1>8, <1>9, <1>10, <1>11 DEF ClientStep

LEMMA UserStepKept ==
    ASSUME IInv, NEW e \in Endpoint, UserStep(e)
    PROVE  Kept(reg, reg')
<1>1. RegistryInv(reg, now) /\ now \in Nat /\ reg \in Registry
  BY ConstantsAssumption DEF IInv, RegistryInv
<1>2. CASE UserAccepts(e)
  <2> DEFINE n == reg.ep[e].name
             m == MakeReady(reg, e, n)
  <2>1. n \in Name
    BY <1>1, <1>2 DEF UserAccepts, Registry, EndpointRec
  <2>2. reg.list[n] = NoEndpoint
    BY <1>1, <1>2 DEF UserAccepts, RegistryInv, DanglingFree
  <2>3. reg' \in CreateSession(m, e)
    BY <1>2 DEF UserAccepts
  <2> HIDE DEF n
  <2>4. m \in Registry /\ Kept(reg, m)
    BY <1>1, <2>1, <2>2, MakeReadyFields, MakeReadyKept
  <2> HIDE DEF m
  <2>5. QED
    BY <2>3, <2>4, CreateSessionKept DEF Kept
<1>3. CASE UserAcceptsUnstarted(e)
  BY <1>3 DEF UserAcceptsUnstarted, Kept
<1>4. CASE UserCloses(e)
  <2> DEFINE u == Unlist(reg, {e})
             d == DelAll(u, {e})
  <2>1. u \in Registry /\ d \in Registry
    BY <1>1, UnlistInv, DelAllInv DEF RegistryInv
  <2>2. Kept(reg, u)
    BY <1>1, DropKept
  <2>3. reg' = Decrease(d, 1)
    BY <1>4 DEF UserCloses, RemoveEndpoint
  <2> HIDE DEF u
  <2>4. d.list = u.list
    BY <2>1, DropKept
  <2> HIDE DEF d
  <2>5. reg'.list = d.list
    BY <2>1, <2>3, DropKept
  <2>6. QED
    BY <2>2, <2>4, <2>5 DEF Kept
<1>5. QED
  BY <1>2, <1>3, <1>4 DEF UserStep

LEMMA RemoveAllDanglingKept ==
    ASSUME NEW r, NEW t \in Nat, RegistryInv(r, t), NEW R \in SUBSET Endpoint
    PROVE  RemoveAllDangling(r, R).list = r.list
<1> DEFINE q == [r EXCEPT !.dangling = @ \ R]
<1>1. q \in Registry
  BY RemoveDanglingInv DEF RegistryInv
<1>2. q.list = r.list
  BY DEF RegistryInv, Registry
<1>3. RemoveAllDangling(r, R) = DelAll(q, R)
  BY DEF RemoveAllDangling
<1> HIDE DEF q
<1>4. QED
  BY <1>1, <1>2, <1>3, DropKept

LEMMA IdleCheckKept ==
    ASSUME IInv, IdleCheck
    PROVE  Kept(reg, reg')
<1>1. RegistryInv(reg, now) /\ now \in Nat /\ reg \in Registry
  BY ConstantsAssumption DEF IInv, RegistryInv
<1>2. Kept(reg, CheckNoResponding(reg))
  <2> DEFINE R == NoResponding(reg)
             u == Unlist(reg, R)
             d == DelAll(u, R)
  <2>1. R \in SUBSET Endpoint
    BY DEF NoResponding, Tree
  <2>2. CheckNoResponding(reg) = Decrease(d, Cardinality(R))
    BY DEF CheckNoResponding
  <2> HIDE DEF R
  <2>3. u \in Registry /\ d \in Registry
    BY <1>1, <2>1, UnlistInv, DelAllInv DEF RegistryInv
  <2>4. Kept(reg, u)
    BY <1>1, <2>1, DropKept
  <2> HIDE DEF u
  <2>5. d.list = u.list
    BY <2>1, <2>3, DropKept
  <2> HIDE DEF d
  <2>6. CheckNoResponding(reg).list = d.list
    BY <2>2, <2>3, DropKept
  <2>7. QED
    BY <2>4, <2>5, <2>6 DEF Kept
<1>3. ASSUME NEW r, RegistryInv(r, now)
      PROVE  CheckDangling(r).list = r.list /\ CheckTimeoutDangling(r).list = r.list
  <2> DEFINE R == {e \in r.dangling : now > r.ep[e].t_created + NoRespondingTime}
             Q == {e \in r.dangling : now > StartDeadline(r, e)}
  <2>1. R \in SUBSET Endpoint /\ Q \in SUBSET Endpoint
    BY <1>3 DEF RegistryInv, Registry
  <2>2. /\ CheckDangling(r) = RemoveAllDangling(r, R)
        /\ CheckTimeoutDangling(r) = RemoveAllDangling(r, Q)
    BY DEF CheckDangling, CheckTimeoutDangling
  <2> HIDE DEF R, Q
  <2>3. QED
    BY <1>1, <1>3, <2>1, <2>2, RemoveAllDanglingKept
<1> DEFINE r == IF NoRespondingDue THEN CheckNoResponding(reg)
                ELSE IF Elapsed % DanglingPeriod = 0 THEN CheckDangling(reg)
                ELSE reg
<1>4. RegistryInv(r, now) /\ Kept(reg, r)
  <2>1. RegistryInv(r, now)
    BY <1>1, CheckNoRespondingInv, DanglingSweepsInv
  <2>2. CASE r = CheckNoResponding(reg)
    BY <1>2, <2>1, <2>2
  <2>3. CASE r = CheckDangling(reg) \/ r = reg
    <3>1. r.list = reg.list
      BY <1>1, <1>3, <2>3
    <3>2. QED
      BY <2>1, <3>1 DEF Kept
  <2>4. QED
    BY <2>2, <2>3
<1>5. reg' = CheckTimeoutDangling(r)
  BY DEF IdleCheck
<1> HIDE DEF r
<1>6. reg'.list = r.list
  BY <1>3, <1>4, <1>5
<1>7. QED
  BY <1>4, <1>6 DEF Kept

LEMMA NextKept == IInv /\ [Next]_vars => Kept(reg, reg')
<1> SUFFICES ASSUME IInv, [Next]_vars
             PROVE  Kept(reg, reg')
  OBVIOUS
<1>1. RegistryInv(reg, now) /\ now \in Nat /\ reg \in Registry
  BY ConstantsAssumption DEF IInv, RegistryInv
<1>2. CASE Stop
  <2> DEFINE R == {reg.list[n] : n \in Listed(reg)}
             r1 == [reg EXCEPT !.living = [e \in Endpoint |-> NotInTree],
                               !.dangling = {},
                               !.list = [n \in Name |-> NoEndpoint]]
             Q == R \cup reg.dangling
             d == DelAll(r1, Q)
  <2>1. Q \in SUBSET Endpoint
    BY <1>1 DEF Listed, Registry
  <2>2. r1 \in Registry /\ r1.list = [n \in Name |-> NoEndpoint]
    BY <1>1 DEF Registry
  <2>3. r1.dangling = {} /\ \A e \in Endpoint : r1.living[e] = NotInTree
    BY <1>1 DEF Registry
  <2>4. reg' = Decrease(d, Cardinality(Listed(reg)))
    BY <1>2 DEF Stop, Deinit
  <2> HIDE DEF r1, R, Q
  <2>5. RegistryInv(r1, now)
    BY <2>2, <2>3 DEF RegistryInv, DanglingOne, DanglingOut, DanglingFree, TreeInv, InTree
  <2>6. d \in Registry /\ d.list = r1.list
    BY <1>1, <2>1, <2>2, <2>5, DelAllInv, DropKept DEF RegistryInv
  <2> HIDE DEF d
  <2>7. reg'.list = r1.list
    BY <2>4, <2>6, DropKept
  <2>8. QED
    BY <2>2, <2>7 DEF Kept
<1>3. CASE UNCHANGED reg
  BY <1>3 DEF Kept
<1>4. QED
  BY <1>2, <1>3, ClientStepKept, UserStepKept, IdleCheckKept
     DEF Next, ReadsFreed, Tick, Stopped, vars

(* kvlist_set never takes a name from another endpoint, although             *)
(* accept_endpoint does not look whether the name is registered.             *)
THEOREM NeverOverwritten == Spec => NoOverwrite
<1>1. IInv /\ [Next]_vars =>
        [\A n \in Name : reg.list[n] # NoEndpoint
                         => reg'.list[n] \in {reg.list[n], NoEndpoint}]_vars
  BY NextKept DEF Kept
<1>2. QED
  BY <1>1, Invariance, PTL DEF Spec, NoOverwrite

-----------------------------------------------------------------------------
(***************************************************************************)
(* The inductive invariant that is added to IInv, in three parts, each for *)
(* the liberties under which it holds.                                     *)
(***************************************************************************)

\* A session belongs to one live endpoint, which waits no more.
SessionInv(r) ==
    /\ \A e \in Endpoint :
           r.ep[e].session # NoSession
           => r.ep[e].alive /\ r.ep[e].session \in r.sessions /\ e \notin r.dangling
    /\ \A e, f \in Endpoint :
           r.ep[e].session = r.ep[f].session /\ r.ep[e].session # NoSession
           => e = f

\* With one startSession per connection: what the lists refer to is alive, and
\* a client that has not asked yet has neither name nor session.
OnceInv(r) ==
    /\ \A d \in r.dangling : r.ep[d].alive
    /\ \A n \in Name : r.list[n] # NoEndpoint =>
           /\ r.ep[r.list[n]].alive
           /\ r.ep[r.list[n]].name = n
           /\ InTree(r, r.list[n])
    /\ \A e \in Endpoint :
           ~r.ep[e].asked => r.ep[e].name = NoName /\ r.ep[e].session = NoSession
    /\ \A s \in r.sessions : \E e \in Endpoint : r.ep[e].session = s

\* Without duplicates: names, tree, list and count agree.
PlainInv(r) ==
    /\ r.nr = Cardinality(Listed(r)) % CountWord
    /\ \A e \in Endpoint : InTree(r, e) => r.list[r.ep[e].name] = e
    /\ \A e \in Endpoint : r.ep[e].name # NoName => InTree(r, e)

Once == liberties \subseteq {"duplicate"}

Plain == liberties = {}

LifeInv(r) ==
    /\ SessionInv(r)
    /\ Once => OnceInv(r)
    /\ Plain => PlainInv(r)

LEMMA PlainIsOnce == Plain => Once
BY DEF Plain, Once

-----------------------------------------------------------------------------
(***************************************************************************)
(* nr_endpoints wraps around: what is added to the residue is added to the *)
(* number it stands for.                                                   *)
(***************************************************************************)
LEMMA Quotient ==
    ASSUME NEW w \in Nat \ {0}, NEW q \in Int, NEW y \in 0..(w - 1)
    PROVE  (w * q + y) % w = y
<1> DEFINE x == w * q + y
           p == x \div w
           z == x % w
<1>1. w * q \in Int /\ x \in Int
  OBVIOUS
<1> HIDE DEF x
<1>2. p \in Int /\ z \in 0..(w - 1) /\ x = w * p + z
  BY <1>1
<1> HIDE DEF p, z
<1>3. w * p + z = w * q + y
  BY <1>2 DEF x
<1>4. CASE p >= q + 1
  <2>1. PICK k \in Nat : p = q + 1 + k
    <3>1. p - q - 1 \in Nat /\ p = q + 1 + (p - q - 1)
      BY <1>2, <1>4
    <3>2. QED
      BY <3>1
  <2>2. w * p = w * q + w + w * k /\ w * k \in Nat
    BY <2>1
  <2>3. QED
    BY <1>1, <1>2, <1>3, <2>2
<1>5. CASE q >= p + 1
  <2>1. PICK k \in Nat : q = p + 1 + k
    <3>1. q - p - 1 \in Nat /\ q = p + 1 + (q - p - 1)
      BY <1>2, <1>5
    <3>2. QED
      BY <3>1
  <2>2. w * q = w * p + w + w * k /\ w * k \in Nat /\ w * p \in Int
    BY <1>2, <2>1
  <2>3. QED
    BY <1>2, <1>3, <2>2
<1>6. CASE p = q
  BY <1>1, <1>3, <1>6, <1>2 DEF z, x
<1>7. QED
  BY <1>2, <1>4, <1>5, <1>6

LEMMA ModAdd ==
    ASSUME NEW a \in Int, NEW k \in Int
    PROVE  ((a % CountWord) + k) % CountWord = (a + k) % CountWord
<1> DEFINE w == CountWord
           p == a \div w
           z == a % w
           q == (z + k) \div w
           y == (z + k) % w
<1>0. w \in Nat \ {0}
  BY ConstantsAssumption
<1>1. p \in Int /\ z \in 0..(w - 1) /\ a = w * p + z
  BY <1>0
<1>2. q \in Int /\ y \in 0..(w - 1) /\ z + k = w * q + y
  BY <1>0, <1>1
<1> HIDE DEF p, q
<1>3. a + k = w * (p + q) + y /\ p + q \in Int
  <2>1. a + k = w * p + (z + k)
    BY <1>0, <1>1
  <2>2. a + k = w * p + (w * q + y)
    BY <1>0, <1>1, <1>2, <2>1
  <2>3. w * p + (w * q + y) = w * (p + q) + y
    BY <1>0, <1>1, <1>2
  <2>4. QED
    BY <1>1, <1>2, <2>2, <2>3
<1> HIDE DEF y, w
<1>4. (a + k) % w = y
  BY <1>0, <1>2, <1>3, Quotient
<1>5. QED
  BY <1>4 DEF y, z, w

(***************************************************************************)
(* Endpoints leave: s is r without the endpoints of R and some entries.    *)
(***************************************************************************)
Gone(r, s, R) ==
    /\ s \in Registry
    /\ R \subseteq Endpoint
    /\ \A e \in Endpoint : /\ s.ep[e] = IF e \in R THEN FreedEndpoint ELSE r.ep[e]
                           /\ s.living[e] = IF e \in R /\ r.ep[e].name # NoName
                                            THEN NotInTree ELSE r.living[e]
    /\ s.sessions = r.sessions \ {r.ep[e].session : e \in R}
    /\ s.dangling \subseteq r.dangling
    /\ \A n \in Name : s.list[n] \in {r.list[n], NoEndpoint}

LEMMA GoneSession ==
    ASSUME NEW r, NEW s, NEW R, Gone(r, s, R), SessionInv(r)
    PROVE  SessionInv(s)
<1>1. \A e \in Endpoint : s.ep[e].session # NoSession
                          => e \notin R /\ s.ep[e] = r.ep[e]
  BY DEF Gone, FreedEndpoint
<1>2. \A e \in Endpoint : s.ep[e].session # NoSession => s.ep[e].session \in s.sessions
  <2> SUFFICES ASSUME NEW e \in Endpoint, s.ep[e].session # NoSession
               PROVE  s.ep[e].session \in s.sessions
    OBVIOUS
  <2>1. e \notin R /\ s.ep[e] = r.ep[e] /\ r.ep[e].session \in r.sessions
    BY <1>1 DEF SessionInv
  <2>2. \A f \in R : r.ep[f].session # r.ep[e].session
    BY <2>1 DEF SessionInv, Gone
  <2>3. QED
    BY <2>1, <2>2 DEF Gone
<1>3. QED
  BY <1>1, <1>2 DEF SessionInv, Gone

LEMMA GoneOnce ==
    ASSUME NEW r \in Registry, NEW s, NEW R, Gone(r, s, R), OnceInv(r),
           \A d \in s.dangling : d \notin R,
           \A n \in Name : r.list[n] \in R => s.list[n] = NoEndpoint
    PROVE  OnceInv(s)
<1>1. r.dangling \in SUBSET Endpoint /\ r.list \in [Name -> Endpoint \cup {NoEndpoint}]
  BY RegistryFields
<1>2. \A d \in s.dangling : s.ep[d].alive
  BY <1>1 DEF Gone, OnceInv
<1>3. ASSUME NEW n \in Name, s.list[n] # NoEndpoint
      PROVE  /\ s.ep[s.list[n]].alive
             /\ s.ep[s.list[n]].name = n
             /\ InTree(s, s.list[n])
  <2>1. s.list[n] = r.list[n] /\ r.list[n] \notin R /\ r.list[n] \in Endpoint
    BY <1>1, <1>3 DEF Gone
  <2>2. s.ep[r.list[n]] = r.ep[r.list[n]] /\ s.living[r.list[n]] = r.living[r.list[n]]
    BY <2>1 DEF Gone
  <2>3. QED
    BY <1>3, <2>1, <2>2 DEF OnceInv, InTree
<1>4. ASSUME NEW e \in Endpoint, ~s.ep[e].asked
      PROVE  s.ep[e].name = NoName /\ s.ep[e].session = NoSession
  BY <1>4 DEF Gone, OnceInv, FreedEndpoint
<1>5. ASSUME NEW u \in s.sessions
      PROVE  \E e \in Endpoint : s.ep[e].session = u
  <2>1. PICK e \in Endpoint : r.ep[e].session = u
    BY <1>5 DEF Gone, OnceInv
  <2>2. e \notin R
    BY <1>5, <2>1 DEF Gone
  <2>3. QED
    BY <2>1, <2>2 DEF Gone
<1>6. QED
  BY <1>2, <1>3, <1>4, <1>5 DEF OnceInv

LEMMA GonePlain ==
    ASSUME NEW r \in Registry, NEW t \in Nat, RegistryInv(r, t), NEW s, NEW R,
           Gone(r, s, R), PlainInv(r),
           \A n \in Name : s.list[n] = NoEndpoint => r.list[n] \in R \cup {NoEndpoint},
           s.nr = Cardinality(Listed(s)) % CountWord
    PROVE  PlainInv(s)
<1>1. \A e \in Endpoint : r.ep[e].name \in Name \cup {NoName}
  BY DEF Registry, EndpointRec
<1>2. \A e \in Endpoint : InTree(s, e) => e \notin R /\ InTree(r, e) /\ s.ep[e] = r.ep[e]
  BY DEF Gone, RegistryInv, TreeInv, InTree
<1>3. ASSUME NEW e \in Endpoint, InTree(s, e)
      PROVE  s.list[s.ep[e].name] = e
  <2>1. /\ e \notin R /\ InTree(r, e) /\ s.ep[e] = r.ep[e]
        /\ r.list[r.ep[e].name] = e /\ r.ep[e].name \in Name
    BY <1>1, <1>2, <1>3 DEF PlainInv, RegistryInv, TreeInv
  <2>2. s.list[r.ep[e].name] \in {e, NoEndpoint}
    BY <2>1 DEF Gone
  <2>3. s.list[r.ep[e].name] # NoEndpoint
    BY <2>1, ConstantsAssumption
  <2>4. QED
    BY <2>1, <2>2, <2>3
<1>4. ASSUME NEW e \in Endpoint, s.ep[e].name # NoName
      PROVE  InTree(s, e)
  BY <1>4 DEF Gone, PlainInv, InTree, FreedEndpoint
<1>5. QED
  BY <1>3, <1>4 DEF PlainInv

(* What del_endpoint changes, field by field. *)
LEMMA DelAllGone ==
    ASSUME NEW r, NEW t \in Nat, RegistryInv(r, t), NEW R \in SUBSET Endpoint,
           NEW q, RegistryInv(q, t),
           q.ep = r.ep, q.living = r.living, q.sessions = r.sessions,
           q.dangling \subseteq r.dangling,
           \A n \in Name : q.list[n] \in {r.list[n], NoEndpoint}
    PROVE  /\ Gone(r, DelAll(q, R), R)
           /\ DelAll(q, R).list = q.list
           /\ DelAll(q, R).dangling = q.dangling
           /\ DelAll(q, R).nr = q.nr
<1>1. DelAll(q, R) \in Registry
  BY DelAllInv DEF RegistryInv
<1>2. r \in Registry /\ q \in Registry
  BY DEF RegistryInv
<1> DEFINE s == DelAll(q, R)
<1>3. /\ s.ep = [e \in Endpoint |-> IF e \in R THEN FreedEndpoint ELSE q.ep[e]]
      /\ s.living = [e \in Endpoint |-> IF e \in R /\ q.ep[e].name # NoName
                                        THEN NotInTree ELSE q.living[e]]
      /\ s.sessions = q.sessions \ {q.ep[e].session : e \in R}
      /\ s.list = q.list /\ s.dangling = q.dangling /\ s.nr = q.nr
  BY <1>2 DEF DelAll, Registry
<1> HIDE DEF s
<1>4. s \in Registry
  BY <1>1 DEF s
<1>5. Gone(r, s, R)
  BY <1>3, <1>4 DEF Gone
<1>6. QED
  BY <1>3, <1>5 DEF s

(* The entries that go with endpoints of the tree are as many as those.     *)
LEMMA ListedFinite ==
    ASSUME NEW r
    PROVE  IsFiniteSet(Listed(r)) /\ Cardinality(Listed(r)) \in Nat
BY ConstantsAssumption, FS_Subset, FS_CardinalityType DEF Listed

LEMMA UnlistedCount ==
    ASSUME NEW r \in Registry, NEW t \in Nat, RegistryInv(r, t), PlainInv(r),
           NEW R \in SUBSET Endpoint, \A e \in R : InTree(r, e), NEW s,
           \A n \in Name : s.list[n] = IF \E e \in R : r.ep[e].name = n
                                       THEN NoEndpoint ELSE r.list[n]
    PROVE  /\ Cardinality(R) \in Nat
           /\ Cardinality(Listed(s)) = Cardinality(Listed(r)) - Cardinality(R)
<1> DEFINE N == {r.ep[e].name : e \in R}
           f == [e \in R |-> r.ep[e].name]
<1>1. IsFiniteSet(R) /\ Cardinality(R) \in Nat
  BY ConstantsAssumption, FS_Subset, FS_CardinalityType
<1>2. \A e \in R : r.ep[e].name \in Name /\ r.list[r.ep[e].name] = e
  BY DEF PlainInv, RegistryInv, TreeInv, Registry, EndpointRec
<1>3. f \in Surjection(R, N)
  BY DEF Surjection
<1>4. f \in Injection(R, N)
  BY <1>2 DEF Injection, IsInjective
<1> HIDE DEF f
<1>5. Cardinality(N) = Cardinality(R)
  BY <1>1, <1>3, <1>4, FS_Surjection
<1>6. N \subseteq Listed(r)
  BY <1>2, ConstantsAssumption DEF Listed
<1>7. Listed(s) = Listed(r) \ N
  BY <1>2 DEF Listed
<1> HIDE DEF N
<1>8. Listed(r) \cap N = N
  BY <1>6
<1>9. Cardinality(Listed(r) \ N) = Cardinality(Listed(r)) - Cardinality(Listed(r) \cap N)
  BY ListedFinite, FS_Difference
<1>10. QED
  BY <1>1, <1>5, <1>7, <1>8, <1>9

(* What Unlist and Decrease change. *)
LEMMA UnlistFields ==
    ASSUME NEW r \in Registry, NEW R
    PROVE  /\ Unlist(r, R).ep = r.ep /\ Unlist(r, R).living = r.living
           /\ Unlist(r, R).sessions = r.sessions /\ Unlist(r, R).dangling = r.dangling
           /\ Unlist(r, R).nr = r.nr
           /\ \A n \in Name : Unlist(r, R).list[n] = IF \E e \in R : r.ep[e].name = n
                                                     THEN NoEndpoint ELSE r.list[n]
BY DEF Unlist, Registry

LEMMA DecreaseFields ==
    ASSUME NEW r \in Registry, NEW k
    PROVE  /\ Decrease(r, k).ep = r.ep /\ Decrease(r, k).living = r.living
           /\ Decrease(r, k).sessions = r.sessions /\ Decrease(r, k).dangling = r.dangling
           /\ Decrease(r, k).list = r.list
           /\ Decrease(r, k).nr = (r.nr - k) % CountWord
BY DEF Decrease, Registry

(***************************************************************************)
(* Registered endpoints leave: the entries of their names are deleted and the *)
(* count decreased, in any order, before or after they are freed.          *)
(***************************************************************************)
LEMMA UnregisteredLife ==
    ASSUME NEW r, NEW t \in Nat, RegistryInv(r, t), LifeInv(r),
           NEW R \in SUBSET Endpoint, Once => R \cap r.dangling = {},
           Plain => \A e \in R : InTree(r, e),
           NEW s, Gone(r, s, R), s.dangling = r.dangling,
           s.nr = (r.nr - Cardinality(R)) % CountWord,
           \A n \in Name : s.list[n] = IF \E e \in R : r.ep[e].name = n
                                       THEN NoEndpoint ELSE r.list[n]
    PROVE  LifeInv(s)
<1>1. r \in Registry
  BY DEF RegistryInv
<1>2. SessionInv(s)
  BY GoneSession DEF LifeInv
<1>3. ASSUME Once
      PROVE  OnceInv(s)
  <2>1. \A d \in s.dangling : d \notin R
    BY <1>3
  <2>2. \A n \in Name : r.list[n] \in R => s.list[n] = NoEndpoint
    BY <1>3, ConstantsAssumption DEF LifeInv, OnceInv
  <2>3. QED
    BY <1>1, <1>3, <2>1, <2>2, GoneOnce DEF LifeInv
<1>4. ASSUME Plain
      PROVE  PlainInv(s)
  <2>1. PlainInv(r) /\ \A e \in R : InTree(r, e)
    BY <1>4, PlainIsOnce DEF LifeInv
  <2>2. /\ Cardinality(R) \in Nat /\ Cardinality(Listed(r)) \in Nat
        /\ Cardinality(Listed(s)) = Cardinality(Listed(r)) - Cardinality(R)
    BY <1>1, <2>1, UnlistedCount, ListedFinite
  <2>3. s.nr = Cardinality(Listed(s)) % CountWord
    <3>1. r.nr = Cardinality(Listed(r)) % CountWord
      BY <2>1 DEF PlainInv
    <3> DEFINE a == Cardinality(Listed(r))
               k == 0 - Cardinality(R)
    <3>2. a \in Int /\ k \in Int
      BY <2>2
    <3>3. ((a % CountWord) + k) % CountWord = (a + k) % CountWord
      BY <3>2, ModAdd
    <3>4. a + k = Cardinality(Listed(s))
      BY <2>2
    <3>5. r.nr - Cardinality(R) = (a % CountWord) + k
      <4>1. r.nr \in Int
        BY <1>1, RegistryFields, ConstantsAssumption
      <4>2. QED
        BY <2>2, <3>1, <4>1
    <3>6. QED
      BY <3>3, <3>4, <3>5
  <2>4. \A n \in Name : s.list[n] = NoEndpoint => r.list[n] \in R \cup {NoEndpoint}
    BY <2>1 DEF PlainInv
  <2>5. QED
    BY <1>1, <2>1, <2>3, <2>4, GonePlain
<1>5. QED
  BY <1>2, <1>3, <1>4 DEF LifeInv

(* Waiting endpoints leave: no entry refers to them. *)
LEMMA WaitingGoneLife ==
    ASSUME NEW r, NEW t \in Nat, RegistryInv(r, t), LifeInv(r),
           NEW R \in SUBSET Endpoint, Once => \A n \in Name : r.list[n] \notin R,
           NEW s, Gone(r, s, R), s.dangling = r.dangling \ R,
           s.nr = r.nr, s.list = r.list
    PROVE  LifeInv(s)
<1>1. r \in Registry
  BY DEF RegistryInv
<1>2. SessionInv(s)
  BY GoneSession DEF LifeInv
<1>3. ASSUME Once
      PROVE  OnceInv(s)
  BY <1>1, <1>3, GoneOnce DEF LifeInv
<1>4. ASSUME Plain
      PROVE  PlainInv(s)
  <2>1. PlainInv(r) /\ Listed(s) = Listed(r)
    BY <1>4 DEF LifeInv, Listed
  <2>2. QED
    BY <1>1, <2>1, GonePlain DEF PlainInv
<1>5. QED
  BY <1>2, <1>3, <1>4 DEF LifeInv

LEMMA OnCloseLife ==
    ASSUME NEW r, NEW t \in Nat, RegistryInv(r, t), LifeInv(r), NEW e \in Endpoint
    PROVE  LifeInv(OnClose(r, e))
<1> DEFINE n == r.ep[e].name
           u == Unlist(r, {e})
           d == Decrease(u, 1)
           q == RemoveDangling(r, e)
           R == {e}
<1>1. r \in Registry
  BY DEF RegistryInv
<1>2. Cardinality(R) = 1 /\ R \in SUBSET Endpoint
  BY FS_Singleton
<1>3. CASE n # NoName /\ r.list[n] # NoEndpoint
  <2>1. OnClose(r, e) = DelAll(d, R)
    BY <1>3 DEF OnClose
  <2>2. RegistryInv(u, t) /\ RegistryInv(d, t) /\ u \in Registry
    BY UnlistInv, DecreaseInv DEF RegistryInv
  <2>3. /\ u.ep = r.ep /\ u.living = r.living /\ u.sessions = r.sessions
        /\ u.dangling = r.dangling /\ u.nr = r.nr
        /\ \A k \in Name : u.list[k] = IF \E f \in R : r.ep[f].name = k
                                       THEN NoEndpoint ELSE r.list[k]
    BY <1>1, UnlistFields
  <2> HIDE DEF u
  <2>4. /\ d.ep = u.ep /\ d.living = u.living /\ d.sessions = u.sessions
        /\ d.dangling = u.dangling /\ d.list = u.list
        /\ d.nr = (u.nr - 1) % CountWord
    BY <2>2, DecreaseFields
  <2> HIDE DEF d
  <2>5. /\ Gone(r, DelAll(d, R), R) /\ DelAll(d, R).list = d.list
        /\ DelAll(d, R).dangling = d.dangling /\ DelAll(d, R).nr = d.nr
    BY <1>2, <2>2, <2>3, <2>4, DelAllGone
  <2>6. Once => R \cap r.dangling = {}
    BY <1>3 DEF RegistryInv, DanglingFree
  <2>7. Plain => \A f \in R : InTree(r, f)
    BY <1>3 DEF LifeInv, PlainInv
  <2>8. DelAll(d, R).nr = (r.nr - Cardinality(R)) % CountWord
    BY <1>2, <2>3, <2>4, <2>5
  <2>9. \A k \in Name : DelAll(d, R).list[k] = IF \E f \in R : r.ep[f].name = k
                                               THEN NoEndpoint ELSE r.list[k]
    BY <2>3, <2>4, <2>5
  <2>10. DelAll(d, R).dangling = r.dangling
    BY <2>3, <2>4, <2>5
  <2> HIDE DEF R
  <2>11. LifeInv(DelAll(d, R))
    BY <1>2, <2>5, <2>6, <2>7, <2>8, <2>9, <2>10, UnregisteredLife
  <2>12. QED
    BY <2>1, <2>11
<1>4. CASE ~(n # NoName /\ r.list[n] # NoEndpoint)
  <2>1. OnClose(r, e) = DelAll(q, R)
    BY <1>4 DEF OnClose
  <2>2. RegistryInv(q, t)
    BY RemoveDanglingInv DEF RemoveDangling
  <2>3. /\ q.ep = r.ep /\ q.living = r.living /\ q.sessions = r.sessions
        /\ q.dangling = r.dangling \ R /\ q.list = r.list /\ q.nr = r.nr
    BY <1>1 DEF RemoveDangling, Registry
  <2> HIDE DEF q
  <2>4. /\ Gone(r, DelAll(q, R), R) /\ DelAll(q, R).list = q.list
        /\ DelAll(q, R).dangling = q.dangling /\ DelAll(q, R).nr = q.nr
    BY <1>2, <2>2, <2>3, DelAllGone
  <2>5. Once => \A k \in Name : r.list[k] \notin R
    BY <1>4, ConstantsAssumption DEF LifeInv, OnceInv
  <2> HIDE DEF R
  <2>6. LifeInv(DelAll(q, R))
    BY <1>2, <2>3, <2>4, <2>5, WaitingGoneLife
  <2>7. QED
    BY <2>1, <2>6
<1>5. QED
  BY <1>3, <1>4

(* remove_endpoint and check_no_responding_endpoints. *)
LEMMA RemovedLife ==
    ASSUME NEW r, NEW t \in Nat, RegistryInv(r, t), LifeInv(r),
           NEW R \in SUBSET Endpoint, Once => \A e \in R : InTree(r, e)
    PROVE  LifeInv(Decrease(DelAll(Unlist(r, R), R), Cardinality(R)))
<1> DEFINE u == Unlist(r, R)
           d == DelAll(u, R)
           s == Decrease(d, Cardinality(R))
<1>1. r \in Registry
  BY DEF RegistryInv
<1>2. Cardinality(R) \in Nat
  BY ConstantsAssumption, FS_Subset, FS_CardinalityType
<1>3. RegistryInv(u, t) /\ RegistryInv(d, t) /\ d \in Registry
  BY UnlistInv, DelAllInv DEF RegistryInv
<1>4. /\ u.ep = r.ep /\ u.living = r.living /\ u.sessions = r.sessions
      /\ u.dangling = r.dangling /\ u.nr = r.nr
      /\ \A k \in Name : u.list[k] = IF \E f \in R : r.ep[f].name = k
                                     THEN NoEndpoint ELSE r.list[k]
  BY <1>1, UnlistFields
<1> HIDE DEF u
<1>5. /\ Gone(r, d, R) /\ d.list = u.list /\ d.dangling = u.dangling /\ d.nr = u.nr
  BY <1>3, <1>4, DelAllGone
<1>6. RegistryInv(s, t) /\ s \in Registry
  BY <1>2, <1>3, DecreaseInv DEF RegistryInv
<1> HIDE DEF d
<1>7. /\ s.ep = d.ep /\ s.living = d.living /\ s.sessions = d.sessions
      /\ s.dangling = d.dangling /\ s.list = d.list
      /\ s.nr = (d.nr - Cardinality(R)) % CountWord
  BY <1>3, DecreaseFields
<1> HIDE DEF s
<1>8. Gone(r, s, R)
  BY <1>5, <1>6, <1>7 DEF Gone
<1>9. Once => R \cap r.dangling = {}
  BY DEF RegistryInv, DanglingOut
<1>10. Plain => \A e \in R : InTree(r, e)
  BY PlainIsOnce
<1>11. /\ s.dangling = r.dangling /\ s.nr = (r.nr - Cardinality(R)) % CountWord
       /\ \A k \in Name : s.list[k] = IF \E f \in R : r.ep[f].name = k
                                      THEN NoEndpoint ELSE r.list[k]
  BY <1>4, <1>5, <1>7
<1>12. LifeInv(s)
  BY <1>8, <1>9, <1>10, <1>11, UnregisteredLife
<1>13. QED
  BY <1>12 DEF s, d, u

LEMMA CheckNoRespondingLife ==
    ASSUME NEW r, NEW t \in Nat, RegistryInv(r, t), LifeInv(r)
    PROVE  LifeInv(CheckNoResponding(r))
<1>1. NoResponding(r) \in SUBSET Endpoint /\ \A e \in NoResponding(r) : InTree(r, e)
  BY DEF NoResponding, Tree
<1>2. QED
  BY <1>1, RemovedLife DEF CheckNoResponding

LEMMA RemoveEndpointLife ==
    ASSUME NEW r, NEW t \in Nat, RegistryInv(r, t), LifeInv(r),
           NEW e \in Endpoint, NEW n \in Name, r.list[n] = e
    PROVE  LifeInv(RemoveEndpoint(r, e))
<1> DEFINE R == {e}
<1>1. R \in SUBSET Endpoint /\ Cardinality(R) = 1
  BY FS_Singleton
<1>2. Once => \A f \in R : InTree(r, f)
  BY ConstantsAssumption DEF LifeInv, OnceInv
<1>3. RemoveEndpoint(r, e) = Decrease(DelAll(Unlist(r, R), R), Cardinality(R))
  BY <1>1 DEF RemoveEndpoint
<1> HIDE DEF R
<1>4. QED
  BY <1>1, <1>2, <1>3, RemovedLife

(* check_dangling_endpoints and check_timeout_dangling_endpoints. *)
LEMMA RemoveAllDanglingLife ==
    ASSUME NEW r, NEW t \in Nat, RegistryInv(r, t), LifeInv(r), NEW R \in SUBSET r.dangling
    PROVE  LifeInv(RemoveAllDangling(r, R))
<1> DEFINE q == [r EXCEPT !.dangling = @ \ R]
<1>1. r \in Registry /\ R \in SUBSET Endpoint
  BY RegistryFields DEF RegistryInv
<1>2. RegistryInv(q, t)
  BY <1>1, RemoveDanglingInv
<1>3. /\ q.ep = r.ep /\ q.living = r.living /\ q.sessions = r.sessions
      /\ q.dangling = r.dangling \ R /\ q.list = r.list /\ q.nr = r.nr
  BY <1>1 DEF Registry
<1>4. RemoveAllDangling(r, R) = DelAll(q, R)
  BY DEF RemoveAllDangling
<1> HIDE DEF q
<1>5. /\ Gone(r, DelAll(q, R), R) /\ DelAll(q, R).list = q.list
      /\ DelAll(q, R).dangling = q.dangling /\ DelAll(q, R).nr = q.nr
  BY <1>1, <1>2, <1>3, DelAllGone
<1>6. Once => \A n \in Name : r.list[n] \notin R
  BY <1>1, ConstantsAssumption DEF LifeInv, OnceInv, RegistryInv, DanglingOut
<1>7. QED
  BY <1>1, <1>3, <1>4, <1>5, <1>6, WaitingGoneLife

LEMMA DanglingSweepsLife ==
    ASSUME NEW r, NEW t \in Nat, RegistryInv(r, t), LifeInv(r)
    PROVE  LifeInv(CheckDangling(r)) /\ LifeInv(CheckTimeoutDangling(r))
<1> DEFINE R == {e \in r.dangling : now > r.ep[e].t_created + NoRespondingTime}
           Q == {e \in r.dangling : now > StartDeadline(r, e)}
<1>1. R \in SUBSET r.dangling /\ Q \in SUBSET r.dangling
  OBVIOUS
<1>2. CheckDangling(r) = RemoveAllDangling(r, R) /\ CheckTimeoutDangling(r) = RemoveAllDangling(r, Q)
  BY DEF CheckDangling, CheckTimeoutDangling
<1> HIDE DEF R, Q
<1>3. QED
  BY <1>1, <1>2, RemoveAllDanglingLife

LEMMA DeinitLife ==
    ASSUME NEW r, NEW t \in Nat, RegistryInv(r, t), LifeInv(r)
    PROVE  LifeInv(Deinit(r))
<1> DEFINE R == {r.list[n] : n \in Listed(r)}
           r1 == [r EXCEPT !.living = [e \in Endpoint |-> NotInTree],
                           !.dangling = {},
                           !.list = [n \in Name |-> NoEndpoint]]
           Q == R \cup r.dangling
           d == DelAll(r1, Q)
           s == Decrease(d, Cardinality(Listed(r)))
<1>1. r \in Registry
  BY DEF RegistryInv
<1>2. Q \in SUBSET Endpoint
  BY <1>1 DEF Listed, Registry
<1>3. r1 \in Registry
  BY <1>1 DEF Registry
<1>4. /\ r1.dangling = {} /\ r1.list = [n \in Name |-> NoEndpoint]
      /\ \A e \in Endpoint : r1.living[e] = NotInTree
      /\ r1.ep = r.ep /\ r1.sessions = r.sessions /\ r1.nr = r.nr
  BY <1>1 DEF Registry
<1>5. Deinit(r) = s
  BY DEF Deinit
<1>6. \A e \in R : \E n \in Name : r.list[n] = e
  BY DEF Listed
<1>7. \A n \in Name : r.list[n] # NoEndpoint => r.list[n] \in R
  BY DEF Listed
<1> HIDE DEF r1, R
<1>8. /\ d.dangling = {} /\ d.list = r1.list /\ d.nr = r.nr
      /\ \A e \in Endpoint : /\ d.living[e] = NotInTree
                             /\ d.ep[e] = IF e \in Q THEN FreedEndpoint ELSE r.ep[e]
      /\ d.sessions = r.sessions \ {r.ep[e].session : e \in Q}
  BY <1>3, <1>4 DEF DelAll, Registry
<1>9. RegistryInv(r1, t)
  BY <1>3, <1>4 DEF RegistryInv, DanglingOne, DanglingOut, DanglingFree, TreeInv, InTree
<1>10. d \in Registry
  BY <1>2, <1>9, DelAllInv DEF RegistryInv
<1> HIDE DEF d, Q
<1>11. /\ s.ep = d.ep /\ s.living = d.living /\ s.sessions = d.sessions
       /\ s.dangling = d.dangling /\ s.list = d.list
       /\ s.nr = (d.nr - Cardinality(Listed(r))) % CountWord
  BY <1>10, DecreaseFields
<1> HIDE DEF s
<1>12. \A e \in Endpoint : s.ep[e].session # NoSession => e \notin Q /\ s.ep[e] = r.ep[e]
  BY <1>8, <1>11 DEF FreedEndpoint
<1>13. SessionInv(s)
  <2>1. ASSUME NEW e \in Endpoint, s.ep[e].session # NoSession
        PROVE  s.ep[e].alive /\ s.ep[e].session \in s.sessions /\ e \notin s.dangling
    <3>1. e \notin Q /\ s.ep[e] = r.ep[e] /\ r.ep[e].alive /\ r.ep[e].session \in r.sessions
      BY <1>12, <2>1 DEF LifeInv, SessionInv
    <3>2. \A f \in Q : r.ep[f].session # r.ep[e].session
      BY <1>2, <2>1, <3>1 DEF LifeInv, SessionInv
    <3>3. QED
      BY <1>8, <1>11, <3>1, <3>2
  <2>2. QED
    BY <1>12, <2>1 DEF LifeInv, SessionInv
<1>14. ASSUME Once
       PROVE  OnceInv(s)
  <2>1. OnceInv(r)
    BY <1>14 DEF LifeInv
  <2>2. \A e \in Endpoint : ~s.ep[e].asked => s.ep[e].name = NoName /\ s.ep[e].session = NoSession
    BY <1>8, <1>11, <2>1 DEF OnceInv, FreedEndpoint
  <2>3. ASSUME NEW u \in s.sessions
        PROVE  \E e \in Endpoint : s.ep[e].session = u
    <3>1. PICK e \in Endpoint : r.ep[e].session = u
      BY <1>8, <1>11, <2>1 DEF OnceInv
    <3>2. e \notin Q
      BY <1>8, <1>11, <3>1
    <3>3. QED
      BY <1>8, <1>11, <3>1, <3>2
  <2>4. QED
    BY <1>4, <1>8, <1>11, <2>2, <2>3 DEF OnceInv
<1>15. ASSUME Plain
       PROVE  PlainInv(s)
  <2>1. PlainInv(r)
    BY <1>15 DEF LifeInv
  <2>2. Listed(s) = {} /\ Cardinality(Listed(s)) = 0
    <3>1. \A n \in Name : s.list[n] = NoEndpoint
      BY <1>4, <1>8, <1>11
    <3>2. Listed(s) = {}
      BY <3>1 DEF Listed
    <3>3. QED
      BY <3>2, FS_EmptySet
  <2>3. s.nr = 0 % CountWord
    <3> DEFINE a == Cardinality(Listed(r))
               k == 0 - a
    <3>1. a \in Int /\ k \in Int /\ a + k = 0
      BY ListedFinite
    <3>2. ((a % CountWord) + k) % CountWord = (a + k) % CountWord
      BY <3>1, ModAdd
    <3>3. r.nr \in Int /\ r.nr = a % CountWord
      BY <1>1, <2>1, RegistryFields, ConstantsAssumption DEF PlainInv
    <3>4. r.nr - a = (a % CountWord) + k
      BY <3>1, <3>3
    <3>5. QED
      BY <1>8, <1>11, <3>1, <3>2, <3>4
  <2>4. ASSUME NEW e \in Endpoint, s.ep[e].name # NoName
        PROVE  FALSE
    <3>1. e \notin Q /\ r.ep[e].name # NoName
      BY <1>8, <1>11, <2>4 DEF FreedEndpoint
    <3>2. InTree(r, e)
      BY <2>1, <3>1 DEF PlainInv
    <3>3. r.list[r.ep[e].name] = e /\ r.ep[e].name \in Name
      BY <1>1, <2>1, <3>1, <3>2 DEF PlainInv, Registry, EndpointRec
    <3>4. QED
      BY <1>7, <3>1, <3>3, ConstantsAssumption DEF Q
  <2>5. \A e \in Endpoint : ~InTree(s, e)
    BY <1>8, <1>11 DEF InTree
  <2>6. QED
    BY <2>2, <2>3, <2>4, <2>5 DEF PlainInv
<1>16. QED
  BY <1>5, <1>13, <1>14, <1>15 DEF LifeInv

-----------------------------------------------------------------------------
(***************************************************************************)
(* s differs from r in nothing LifeInv reads but the name of e and whether *)
(* e has asked.                                                            *)
(***************************************************************************)
Similar(r, s, e) ==
    /\ s.dangling = r.dangling /\ s.list = r.list /\ s.nr = r.nr
    /\ s.sessions = r.sessions
    /\ \A f \in Endpoint :
           /\ s.ep[f].alive = r.ep[f].alive /\ s.ep[f].session = r.ep[f].session
           /\ InTree(s, f) <=> InTree(r, f)
           /\ f # e => s.ep[f].name = r.ep[f].name /\ s.ep[f].asked = r.ep[f].asked

LEMMA SimilarTransitive ==
    ASSUME NEW q, NEW r, NEW s, NEW e, Similar(q, r, e), Similar(r, s, e)
    PROVE  Similar(q, s, e)
BY DEF Similar

LEMMA SetEndpointSimilar ==
    ASSUME NEW r \in Registry, NEW e \in Endpoint, NEW x \in EndpointRec,
           x.alive = r.ep[e].alive, x.session = r.ep[e].session
    PROVE  /\ Similar(r, SetEndpoint(r, e, x), e)
           /\ SetEndpoint(r, e, x).ep[e] = x
           /\ SetEndpoint(r, e, x) \in Registry
<1>1. SetEndpoint(r, e, x).nr = r.nr
  BY DEF SetEndpoint, Registry
<1>2. QED
  BY <1>1, EndpointChange DEF Similar, InTree

LEMMA SimilarLife ==
    ASSUME NEW r \in Registry, NEW s, NEW e \in Endpoint, Similar(r, s, e), LifeInv(r),
           r.ep[e].asked => s.ep[e].asked,
           s.ep[e].name = r.ep[e].name
             \/ /\ ~Plain /\ s.ep[e].asked
                /\ Once => \A n \in Name : r.list[n] # e
    PROVE  LifeInv(s)
<1>1. /\ \A e1 \in Endpoint : r.ep[e1].asked \in BOOLEAN
      /\ r.dangling \in SUBSET Endpoint
      /\ \A n \in Name : r.list[n] \in Endpoint \cup {NoEndpoint}
  BY DEF Registry, EndpointRec
<1>2. SessionInv(s)
  BY DEF Similar, LifeInv, SessionInv
<1>3. ASSUME Once
      PROVE  OnceInv(s)
  <2>1. OnceInv(r)
    BY <1>3 DEF LifeInv
  <2>2. \A d \in s.dangling : s.ep[d].alive
    BY <1>1, <2>1 DEF Similar, OnceInv
  <2>3. \A n \in Name : s.list[n] # NoEndpoint =>
             /\ s.ep[s.list[n]].alive
             /\ s.ep[s.list[n]].name = n
             /\ InTree(s, s.list[n])
    BY <1>1, <1>3, <2>1 DEF Similar, OnceInv
  <2>4. \A f \in Endpoint : ~s.ep[f].asked => s.ep[f].name = NoName /\ s.ep[f].session = NoSession
    BY <1>1, <2>1 DEF Similar, OnceInv
  <2>5. \A u \in s.sessions : \E f \in Endpoint : s.ep[f].session = u
    BY <2>1 DEF Similar, OnceInv
  <2>6. QED
    BY <2>2, <2>3, <2>4, <2>5 DEF OnceInv
<1>4. ASSUME Plain
      PROVE  PlainInv(s)
  <2>1. PlainInv(r) /\ Listed(s) = Listed(r)
    BY <1>4 DEF LifeInv, Similar, Listed
  <2>2. QED
    BY <1>4, <2>1 DEF PlainInv, Similar
<1>5. QED
  BY <1>2, <1>3, <1>4 DEF LifeInv

(* update_endpoint_living_time and the requests that are not yet answered. *)
LEMMA TouchLife ==
    ASSUME NEW r, NEW e \in Endpoint, now \in Nat, RegistryInv(r, now)
    PROVE  /\ Similar(r, Touch(r, e), e)
           /\ Touch(r, e).ep[e].name = r.ep[e].name
           /\ Touch(r, e).ep[e].asked = r.ep[e].asked
           /\ LifeInv(r) => LifeInv(Touch(r, e))
<1> DEFINE s == Touch(r, e)
<1>1. r \in Registry
  BY DEF RegistryInv
<1>2. /\ s.dangling = r.dangling /\ s.list = r.list /\ s.sessions = r.sessions
      /\ \A f \in Endpoint : /\ s.ep[f].alive = r.ep[f].alive
                             /\ s.ep[f].name = r.ep[f].name
                             /\ s.ep[f].session = r.ep[f].session
  BY <1>1, TouchFields
<1>3. /\ s.nr = r.nr
      /\ \A f \in Endpoint : /\ s.ep[f].asked = r.ep[f].asked
                             /\ InTree(s, f) <=> InTree(r, f)
  <2>1. s.nr = r.nr /\ \A f \in Endpoint : s.ep[f].asked = r.ep[f].asked
    BY <1>1 DEF Touch, Registry, EndpointRec
  <2>2. CASE InTree(r, e) /\ r.ep[e].t_living # now
    <3>1. s.living = [r.living EXCEPT ![e] = now]
      BY <1>1, <2>2 DEF Touch, Registry
    <3>2. QED
      BY <1>1, <2>1, <2>2, <3>1, RegistryFields DEF InTree, NotInTree
  <2>3. CASE ~(InTree(r, e) /\ r.ep[e].t_living # now)
    BY <2>1, <2>3 DEF Touch
  <2>4. QED
    BY <2>2, <2>3
<1> HIDE DEF s
<1>4. Similar(r, s, e)
  BY <1>2, <1>3 DEF Similar
<1>5. LifeInv(r) => LifeInv(s)
  BY <1>1, <1>2, <1>3, <1>4, SimilarLife
<1>6. QED
  BY <1>2, <1>3, <1>4, <1>5 DEF s

LEMMA AskedLife ==
    ASSUME NEW e \in Endpoint, now \in Nat, RegistryInv(reg, now)
    PROVE  /\ Similar(reg, Asked(e), e)
           /\ Asked(e) \in Registry
           /\ Asked(e).ep[e].name = reg.ep[e].name
           /\ Asked(e).ep[e].asked
           /\ LifeInv(reg) => LifeInv(Asked(e))
<1> DEFINE q == Touch(reg, e)
           x == [q.ep[e] EXCEPT !.asked = TRUE]
<1>1. RegistryInv(q, now) /\ reg \in Registry /\ q \in Registry
  BY TouchInv DEF RegistryInv
<1>2. /\ Similar(reg, q, e)
      /\ q.ep[e].name = reg.ep[e].name /\ q.ep[e].asked = reg.ep[e].asked
  BY TouchLife
<1>3. Asked(e) = SetEndpoint(q, e, x)
  BY DEF Asked, SetEndpoint
<1> HIDE DEF q
<1>4. q.ep[e] \in EndpointRec
  BY <1>1 DEF Registry
<1>5. /\ x \in EndpointRec /\ x.alive = q.ep[e].alive /\ x.name = q.ep[e].name
      /\ x.session = q.ep[e].session /\ x.asked
  BY <1>4 DEF EndpointRec
<1> HIDE DEF x
<1>6. Similar(q, Asked(e), e) /\ Asked(e).ep[e] = x /\ Asked(e) \in Registry
  BY <1>1, <1>3, <1>5, SetEndpointSimilar
<1>7. Similar(reg, Asked(e), e)
  BY <1>2, <1>6, SimilarTransitive
<1>8. LifeInv(reg) => LifeInv(Asked(e))
  BY <1>1, <1>2, <1>5, <1>6, <1>7, SimilarLife
<1>9. QED
  BY <1>2, <1>5, <1>6, <1>7, <1>8

LEMMA ClaimSimilar ==
    ASSUME NEW r \in Registry, NEW e \in Endpoint, NEW n \in Name, NEW u \in Nat
    PROVE  /\ Similar(r, Claim(r, e, n, u), e)
           /\ Claim(r, e, n, u) \in Registry
           /\ Claim(r, e, n, u).ep[e].name = n
           /\ Claim(r, e, n, u).ep[e].asked = r.ep[e].asked
<1> DEFINE y == [r.ep[e] EXCEPT !.name = n]
           q == SetEndpoint(r, e, y)
           x == [q.ep[e] EXCEPT !.timeout_seconds = u]
<1>1. r.ep[e] \in EndpointRec
  BY DEF Registry
<1>2. /\ y \in EndpointRec /\ y.alive = r.ep[e].alive /\ y.session = r.ep[e].session
      /\ y.name = n /\ y.asked = r.ep[e].asked
  BY <1>1 DEF EndpointRec
<1>3. Claim(r, e, n, u) = SetEndpoint(q, e, x)
  BY DEF Claim, SetEndpoint
<1> HIDE DEF y
<1>4. Similar(r, q, e) /\ q.ep[e] = y /\ q \in Registry
  BY <1>2, SetEndpointSimilar
<1> HIDE DEF q
<1>5. /\ x \in EndpointRec /\ x.alive = q.ep[e].alive /\ x.session = q.ep[e].session
      /\ x.name = n /\ x.asked = r.ep[e].asked
  BY <1>2, <1>4 DEF EndpointRec
<1> HIDE DEF x
<1>6. /\ Similar(q, SetEndpoint(q, e, x), e) /\ SetEndpoint(q, e, x).ep[e] = x
      /\ SetEndpoint(q, e, x) \in Registry
  BY <1>4, <1>5, SetEndpointSimilar
<1>7. QED
  BY <1>3, <1>4, <1>5, <1>6, SimilarTransitive

(* A claim by a client that has not asked before, or that may ask again. *)
LEMMA ClaimLife ==
    ASSUME NEW e \in Endpoint, NEW n \in Name, NEW u \in Nat, now \in Nat,
           RegistryInv(reg, now), LifeInv(reg), MayStart(e), "duplicate" \in liberties
    PROVE  LifeInv(Claim(Asked(e), e, n, u)) /\ Claim(Asked(e), e, n, u).ep[e].asked
<1> DEFINE s == Claim(Asked(e), e, n, u)
<1>1. Similar(reg, Asked(e), e) /\ Asked(e) \in Registry /\ Asked(e).ep[e].asked
  BY AskedLife
<1>2. Similar(Asked(e), s, e) /\ s.ep[e].asked
  BY <1>1, ClaimSimilar
<1> HIDE DEF s
<1>3. Similar(reg, s, e) /\ reg \in Registry
  BY <1>1, <1>2, SimilarTransitive DEF RegistryInv
<1>4. ~Plain
  BY DEF Plain
<1>5. Once => \A k \in Name : reg.list[k] # e
  <2> SUFFICES ASSUME Once, NEW k \in Name, reg.list[k] = e
               PROVE  FALSE
    OBVIOUS
  <2>1. OnceInv(reg) /\ ~reg.ep[e].asked
    BY DEF LifeInv, MayStart, Once
  <2>2. reg.ep[e].name = NoName /\ reg.ep[e].name = k
    BY <2>1, ConstantsAssumption DEF OnceInv
  <2>3. QED
    BY <2>2, ConstantsAssumption
<1>6. LifeInv(s)
  BY <1>2, <1>3, <1>4, <1>5, SimilarLife
<1>7. QED
  BY <1>2, <1>6 DEF s

(***************************************************************************)
(* Only the session of e, and the set of sessions, change.                 *)
(***************************************************************************)
OtherSession(r, s, e) ==
    /\ s.dangling = r.dangling /\ s.list = r.list /\ s.nr = r.nr /\ s.living = r.living
    /\ \A f \in Endpoint : f # e => s.ep[f] = r.ep[f]
    /\ s.ep[e].alive = r.ep[e].alive /\ s.ep[e].name = r.ep[e].name
    /\ s.ep[e].asked = r.ep[e].asked

WithSession(r, e, u, S) == [r EXCEPT !.ep[e].session = u, !.sessions = S]

LEMMA SetSessionFields ==
    ASSUME NEW r \in Registry, NEW e \in Endpoint, NEW u \in Session \cup {NoSession},
           NEW S \in SUBSET Session
    PROVE  /\ OtherSession(r, WithSession(r, e, u, S), e)
           /\ WithSession(r, e, u, S) \in Registry
           /\ WithSession(r, e, u, S).ep[e].session = u
           /\ WithSession(r, e, u, S).sessions = S
<1> DEFINE s == WithSession(r, e, u, S)
           x == [r.ep[e] EXCEPT !.session = u]
           q == SetEndpoint(r, e, x)
<1>1. r.ep[e] \in EndpointRec
  BY DEF Registry
<1>2. /\ x \in EndpointRec /\ x.alive = r.ep[e].alive /\ x.name = r.ep[e].name
      /\ x.asked = r.ep[e].asked /\ x.session = u
  BY <1>1 DEF EndpointRec
<1>3. s = [q EXCEPT !.sessions = S] /\ q.nr = r.nr
  BY DEF WithSession, SetEndpoint, Registry
<1> HIDE DEF x, s
<1>4. /\ q \in Registry /\ q.ep[e] = x
      /\ \A f \in Endpoint : f # e => q.ep[f] = r.ep[f]
      /\ q.dangling = r.dangling /\ q.list = r.list /\ q.living = r.living
  BY <1>2, EndpointChange
<1> HIDE DEF q
<1>5. /\ s \in Registry /\ s.sessions = S /\ s.ep = q.ep /\ s.dangling = q.dangling
      /\ s.list = q.list /\ s.living = q.living /\ s.nr = q.nr
  BY <1>3, <1>4 DEF Registry
<1>6. OtherSession(r, s, e) /\ s \in Registry /\ s.ep[e].session = u /\ s.sessions = S
  BY <1>2, <1>3, <1>4, <1>5 DEF OtherSession
<1>7. QED
  BY <1>6 DEF s

LEMMA OtherSessionLife ==
    ASSUME NEW r \in Registry, NEW s \in Registry, NEW e \in Endpoint,
           OtherSession(r, s, e), LifeInv(r),
           s.ep[e].session # NoSession =>
               /\ r.ep[e].alive /\ e \notin r.dangling
               /\ Once => r.ep[e].asked
               /\ s.ep[e].session \in s.sessions \ r.sessions,
           \A v \in Session : v \notin {r.ep[e].session, s.ep[e].session}
                              => (v \in s.sessions <=> v \in r.sessions),
           Once => r.ep[e].session \notin s.sessions
    PROVE  LifeInv(s)
<1>1. /\ \A f \in Endpoint : r.ep[f].session \in Session \cup {NoSession}
      /\ \A f \in Endpoint : s.ep[f].session \in Session \cup {NoSession}
      /\ s.sessions \in SUBSET Session /\ r.sessions \in SUBSET Session
      /\ r.list \in [Name -> Endpoint \cup {NoEndpoint}] /\ r.dangling \in SUBSET Endpoint
  BY DEF Registry, EndpointRec
<1>2. SessionInv(s)
  <2>1. SessionInv(r)
    BY DEF LifeInv
  <2>2. ASSUME NEW f \in Endpoint, f # e, s.ep[f].session # NoSession
        PROVE  /\ s.ep[f].alive /\ s.ep[f].session \in s.sessions /\ f \notin s.dangling
               /\ s.ep[f].session \in r.sessions
               /\ s.ep[f].session \notin {r.ep[e].session, s.ep[e].session}
    <3>1. s.ep[f] = r.ep[f] /\ s.dangling = r.dangling
      BY <2>2 DEF OtherSession
    <3>2. /\ r.ep[f].alive /\ r.ep[f].session \in r.sessions /\ f \notin r.dangling
          /\ r.ep[f].session # r.ep[e].session
      BY <2>1, <2>2, <3>1 DEF SessionInv
    <3>3. r.ep[f].session # s.ep[e].session
      BY <2>2, <3>1, <3>2
    <3>4. QED
      BY <1>1, <3>1, <3>2, <3>3
  <2>3. s.ep[e].session # NoSession =>
            s.ep[e].alive /\ s.ep[e].session \in s.sessions /\ e \notin s.dangling
    BY DEF OtherSession
  <2>4. \A f \in Endpoint : s.ep[f].session # NoSession
                            => s.ep[f].alive /\ s.ep[f].session \in s.sessions /\ f \notin s.dangling
    BY <2>2, <2>3
  <2>5. ASSUME NEW f \in Endpoint, NEW g \in Endpoint,
               s.ep[f].session = s.ep[g].session, s.ep[f].session # NoSession
        PROVE  f = g
    <3>1. CASE f = e \/ g = e
      BY <2>2, <2>5, <3>1
    <3>2. CASE f # e /\ g # e
      BY <2>1, <2>5, <3>2 DEF OtherSession, SessionInv
    <3>3. QED
      BY <3>1, <3>2
  <2>6. QED
    BY <2>4, <2>5 DEF SessionInv
<1>3. ASSUME Once
      PROVE  OnceInv(s)
  <2>1. OnceInv(r)
    BY <1>3 DEF LifeInv
  <2>2. \A d \in s.dangling : s.ep[d].alive
    BY <1>1, <2>1 DEF OnceInv, OtherSession
  <2>3. \A n \in Name : s.list[n] # NoEndpoint =>
             /\ s.ep[s.list[n]].alive
             /\ s.ep[s.list[n]].name = n
             /\ InTree(s, s.list[n])
    BY <1>1, <2>1 DEF OnceInv, OtherSession, InTree
  <2>4. \A f \in Endpoint : ~s.ep[f].asked => s.ep[f].name = NoName /\ s.ep[f].session = NoSession
    BY <1>3, <2>1 DEF OnceInv, OtherSession
  <2>5. ASSUME NEW v \in s.sessions
        PROVE  \E f \in Endpoint : s.ep[f].session = v
    <3>1. CASE v = s.ep[e].session
      BY <3>1
    <3>2. CASE v # s.ep[e].session
      <4>1. v # r.ep[e].session /\ v \in r.sessions
        BY <1>1, <1>3, <2>5, <3>2
      <4>2. PICK f \in Endpoint : r.ep[f].session = v
        BY <2>1, <4>1 DEF OnceInv
      <4>3. QED
        BY <4>1, <4>2 DEF OtherSession
    <3>3. QED
      BY <3>1, <3>2
  <2>6. QED
    BY <2>2, <2>3, <2>4, <2>5 DEF OnceInv
<1>4. ASSUME Plain
      PROVE  PlainInv(s)
  <2>1. PlainInv(r) /\ Listed(s) = Listed(r)
    BY <1>4 DEF LifeInv, OtherSession, Listed
  <2>2. \A f \in Endpoint : s.ep[f].name = r.ep[f].name /\ (InTree(s, f) <=> InTree(r, f))
    BY DEF OtherSession, InTree
  <2>3. QED
    BY <2>1, <2>2 DEF PlainInv, OtherSession
<1>5. QED
  BY <1>2, <1>3, <1>4 DEF LifeInv

(* The new session of an endpoint that has just been registered. *)
LEMMA CreateSessionLife ==
    ASSUME NEW r \in Registry, NEW e \in Endpoint, LifeInv(r),
           r.ep[e].alive, e \notin r.dangling,
           Once => r.ep[e].asked /\ r.ep[e].session = NoSession,
           NEW s \in CreateSession(r, e)
    PROVE  LifeInv(s)
<1>1. r.sessions \in SUBSET Session /\ NoSession \notin Session
  BY ConstantsAssumption DEF Registry
<1>2. CASE s = [r EXCEPT !.ep[e].session = NoSession]
  <2>1. s = WithSession(r, e, NoSession, r.sessions)
    BY <1>2 DEF WithSession, Registry
  <2>2. /\ OtherSession(r, s, e) /\ s \in Registry
        /\ s.ep[e].session = NoSession /\ s.sessions = r.sessions
    BY <1>1, <2>1, SetSessionFields
  <2>3. QED
    BY <1>1, <2>2, OtherSessionLife
<1>3. ASSUME NEW u \in Session \ r.sessions,
             s = [r EXCEPT !.ep[e].session = u, !.sessions = @ \cup {u}]
      PROVE  LifeInv(s)
  <2> DEFINE S == r.sessions \cup {u}
  <2>1. s = WithSession(r, e, u, S) /\ S \in SUBSET Session
    BY <1>1, <1>3 DEF WithSession, Registry
  <2> HIDE DEF S
  <2>2. /\ OtherSession(r, s, e) /\ s \in Registry
        /\ s.ep[e].session = u /\ s.sessions = S
    BY <1>1, <2>1, SetSessionFields
  <2>3. Once => r.ep[e].session \notin S
    BY <1>1, <1>3 DEF S
  <2>4. u \in S \ r.sessions
    BY <1>3 DEF S
  <2>5. \A v \in Session : v \notin {r.ep[e].session, u} => (v \in S <=> v \in r.sessions)
    BY DEF S
  <2>6. QED
    BY <1>1, <2>2, <2>3, <2>4, <2>5, OtherSessionLife
<1>4. QED
  BY <1>2, <1>3 DEF CreateSession

(***************************************************************************)
(* e, which waited, is registered under n, which no other endpoint bears.  *)
(***************************************************************************)
Registered(r, s, e, n) ==
    /\ s.dangling = r.dangling \ {e} /\ s.sessions = r.sessions
    /\ s.nr = (r.nr + 1) % CountWord
    /\ s.list[n] = e /\ \A k \in Name : k # n => s.list[k] = r.list[k]
    /\ \A f \in Endpoint : f # e => s.ep[f] = r.ep[f] /\ s.living[f] = r.living[f]
    /\ s.ep[e].alive = r.ep[e].alive /\ s.ep[e].session = r.ep[e].session
    /\ s.ep[e].asked = r.ep[e].asked /\ s.ep[e].name = n
    /\ InTree(s, e)

LEMMA RegisteredLife ==
    ASSUME NEW r, NEW s \in Registry, NEW t \in Nat, RegistryInv(r, t), LifeInv(r),
           NEW e \in Endpoint, NEW n \in Name, Registered(r, s, e, n),
           e \in r.dangling, r.list[n] = NoEndpoint, r.ep[e].alive,
           Once => r.ep[e].asked
    PROVE  LifeInv(s)
<1>1. /\ r \in Registry /\ s.dangling = {} /\ ~InTree(r, e)
      /\ r.list \in [Name -> Endpoint \cup {NoEndpoint}] /\ NoEndpoint \notin Endpoint
      /\ \A f \in Endpoint : r.ep[f].name \in Name \cup {NoName}
  BY ConstantsAssumption DEF RegistryInv, Registered, DanglingOne, DanglingOut, Registry, EndpointRec
<1>2. SessionInv(s)
  BY <1>1 DEF LifeInv, SessionInv, Registered
<1>3. ASSUME Once
      PROVE  OnceInv(s)
  <2>1. OnceInv(r)
    BY <1>3 DEF LifeInv
  <2>2. \A k \in Name : s.list[k] # NoEndpoint =>
             /\ s.ep[s.list[k]].alive
             /\ s.ep[s.list[k]].name = k
             /\ InTree(s, s.list[k])
    <3> SUFFICES ASSUME NEW k \in Name, s.list[k] # NoEndpoint
                 PROVE  /\ s.ep[s.list[k]].alive
                        /\ s.ep[s.list[k]].name = k
                        /\ InTree(s, s.list[k])
      OBVIOUS
    <3>1. CASE k = n
      BY <3>1 DEF Registered
    <3>2. CASE k # n
      <4>1. s.list[k] = r.list[k] /\ r.list[k] # e
        BY <1>1, <2>1, <3>2 DEF Registered, OnceInv
      <4>2. r.list[k] \in Endpoint
        BY <1>1, <4>1
      <4>3. s.ep[r.list[k]] = r.ep[r.list[k]] /\ s.living[r.list[k]] = r.living[r.list[k]]
        BY <4>1, <4>2 DEF Registered
      <4>4. QED
        BY <2>1, <4>1, <4>3 DEF OnceInv, InTree
    <3>3. QED
      BY <3>1, <3>2
  <2>3. \A f \in Endpoint : ~s.ep[f].asked => s.ep[f].name = NoName /\ s.ep[f].session = NoSession
    BY <1>3, <2>1 DEF OnceInv, Registered
  <2>4. \A v \in s.sessions : \E f \in Endpoint : s.ep[f].session = v
    <3> SUFFICES ASSUME NEW v \in s.sessions
                 PROVE  \E f \in Endpoint : s.ep[f].session = v
      OBVIOUS
    <3>1. PICK f \in Endpoint : r.ep[f].session = v
      BY <2>1 DEF OnceInv, Registered
    <3>2. QED
      BY <3>1 DEF Registered
  <2>5. QED
    BY <1>1, <2>2, <2>3, <2>4 DEF OnceInv
<1>4. ASSUME Plain
      PROVE  PlainInv(s)
  <2>1. PlainInv(r)
    BY <1>4 DEF LifeInv
  <2>2. Listed(s) = Listed(r) \cup {n} /\ n \notin Listed(r)
    BY <1>1 DEF Listed, Registered
  <2>3. Cardinality(Listed(s)) = Cardinality(Listed(r)) + 1 /\ Cardinality(Listed(r)) \in Nat
    BY <2>2, ListedFinite, FS_AddElement
  <2>4. s.nr = Cardinality(Listed(s)) % CountWord
    BY <2>1, <2>3, ModAdd DEF PlainInv, Registered
  <2>5. ASSUME NEW f \in Endpoint, InTree(s, f)
        PROVE  s.list[s.ep[f].name] = f
    <3>1. CASE f = e
      BY <3>1 DEF Registered
    <3>2. CASE f # e
      <4>1. s.ep[f] = r.ep[f] /\ InTree(r, f)
        BY <2>5, <3>2 DEF Registered, InTree
      <4>2. r.list[r.ep[f].name] = f /\ r.ep[f].name \in Name
        BY <1>1, <2>1, <4>1 DEF PlainInv, RegistryInv, TreeInv
      <4>3. r.ep[f].name # n
        BY <1>1, <4>2
      <4>4. QED
        BY <4>1, <4>2, <4>3 DEF Registered
    <3>3. QED
      BY <3>1, <3>2
  <2>6. \A f \in Endpoint : s.ep[f].name # NoName => InTree(s, f)
    BY <2>1 DEF PlainInv, Registered, InTree
  <2>7. QED
    BY <2>4, <2>5, <2>6 DEF PlainInv
<1>5. QED
  BY <1>2, <1>3, <1>4 DEF LifeInv

(* make_endpoint_ready, and the assignment of the name that follows it.    *)
LEMMA MakeReadyRegistered ==
    ASSUME NEW r \in Registry, NEW e \in Endpoint, NEW n \in Name, now \in Nat
    PROVE  /\ Registered(r, [MakeReady(r, e, n) EXCEPT !.ep[e].name = n], e, n)
           /\ r.ep[e].name = n => Registered(r, MakeReady(r, e, n), e, n)
<1> DEFINE m == MakeReady(r, e, n)
           x == [m.ep[e] EXCEPT !.name = n]
           s == SetEndpoint(m, e, x)
<1>1. /\ m \in Registry
      /\ m.dangling = r.dangling \ {e}
      /\ m.list[n] = e /\ \A k \in Name : k # n => m.list[k] = r.list[k]
      /\ m.sessions = r.sessions /\ m.living[e] = now
      /\ m.ep[e].alive = r.ep[e].alive /\ m.ep[e].name = r.ep[e].name
      /\ m.ep[e].session = r.ep[e].session
      /\ \A f \in Endpoint : f # e => m.ep[f] = r.ep[f] /\ m.living[f] = r.living[f]
  BY MakeReadyFields
<1>2. m.nr = (r.nr + 1) % CountWord
  BY DEF MakeReady, Registry
<1>3. m.ep[e].asked = r.ep[e].asked
  <2> DEFINE p == [r.ep EXCEPT ![e].t_living = now]
  <2>1. m.ep = p
    BY DEF MakeReady, Registry
  <2>2. p[e] = [r.ep[e] EXCEPT !.t_living = now]
    BY RegistryFields
  <2>3. QED
    BY <2>1, <2>2, RegistryFields DEF EndpointRec
<1>4. [m EXCEPT !.ep[e].name = n] = s
  BY DEF SetEndpoint
<1>5. s.nr = m.nr
  BY <1>1 DEF SetEndpoint, Registry
<1> HIDE DEF m
<1>6. m.ep[e] \in EndpointRec
  BY <1>1 DEF Registry
<1>7. /\ x \in EndpointRec /\ x.name = n /\ x.alive = m.ep[e].alive
      /\ x.session = m.ep[e].session /\ x.asked = m.ep[e].asked
  BY <1>6 DEF EndpointRec
<1> HIDE DEF x
<1>8. /\ s.ep[e] = x /\ \A f \in Endpoint : f # e => s.ep[f] = m.ep[f]
      /\ s.dangling = m.dangling /\ s.list = m.list /\ s.living = m.living
      /\ s.sessions = m.sessions
  BY <1>1, <1>7, EndpointChange
<1> HIDE DEF s
<1>9. now # NotInTree
  BY DEF NotInTree
<1>10. Registered(r, s, e, n)
  BY <1>1, <1>2, <1>3, <1>5, <1>7, <1>8, <1>9 DEF Registered, InTree
<1>11. r.ep[e].name = n => Registered(r, m, e, n)
  BY <1>1, <1>2, <1>3, <1>9 DEF Registered, InTree
<1>12. QED
  BY <1>4, <1>10, <1>11 DEF m

(* A new connection takes the place of the waiting endpoint.               *)
LEMMA AcceptLife ==
    ASSUME NEW r, NEW e \in Endpoint, NEW t \in {"unix", "web"}, now \in Nat,
           RegistryInv(r, now), LifeInv(r), ~r.ep[e].alive
    PROVE  LifeInv(StoreDangling([r EXCEPT !.ep[e] = NewEndpoint(t)], e))
<1> DEFINE x == NewEndpoint(t)
           q == SetEndpoint(r, e, x)
           s == StoreDangling(q, e)
<1>1. r \in Registry
  BY DEF RegistryInv
<1>2. /\ x \in EndpointRec /\ x.alive /\ x.name = NoName /\ x.session = NoSession
  BY DEF NewEndpoint, FreedEndpoint, EndpointRec
<1>3. q.nr = r.nr
  BY <1>1 DEF SetEndpoint, Registry
<1> HIDE DEF x
<1>4. /\ q \in Registry /\ q.ep[e] = x
      /\ \A f \in Endpoint : f # e => q.ep[f] = r.ep[f]
      /\ q.dangling = r.dangling /\ q.list = r.list /\ q.living = r.living
      /\ q.sessions = r.sessions
  BY <1>1, <1>2, EndpointChange
<1> HIDE DEF q
<1>5. InsertAppend(q.dangling, e) = {e}
  BY <1>4, InsertOne DEF RegistryInv, DanglingOne
<1>6. /\ s.dangling = {e} /\ s.ep = q.ep /\ s.list = q.list /\ s.living = q.living
      /\ s.sessions = q.sessions /\ s.nr = q.nr
  BY <1>4, <1>5 DEF StoreDangling, Registry
<1> HIDE DEF s
<1>7. r.ep[e].session = NoSession
  BY DEF LifeInv, SessionInv
<1>8. SessionInv(s)
  BY <1>2, <1>4, <1>6 DEF LifeInv, SessionInv
<1>9. ASSUME Once
      PROVE  OnceInv(s)
  <2>1. OnceInv(r)
    BY <1>9 DEF LifeInv
  <2>2. \A n \in Name : r.list[n] # NoEndpoint => r.list[n] \in Endpoint \ {e}
    BY <1>1, <2>1 DEF OnceInv, Registry
  <2>3. \A n \in Name : s.list[n] # NoEndpoint =>
             /\ s.ep[s.list[n]].alive
             /\ s.ep[s.list[n]].name = n
             /\ InTree(s, s.list[n])
    BY <1>4, <1>6, <2>1, <2>2 DEF OnceInv, InTree
  <2>4. \A f \in Endpoint : ~s.ep[f].asked => s.ep[f].name = NoName /\ s.ep[f].session = NoSession
    BY <1>2, <1>4, <1>6, <2>1 DEF OnceInv
  <2>5. \A v \in s.sessions : \E f \in Endpoint : s.ep[f].session = v
    <3> SUFFICES ASSUME NEW v \in s.sessions
                 PROVE  \E f \in Endpoint : s.ep[f].session = v
      OBVIOUS
    <3>1. PICK f \in Endpoint : r.ep[f].session = v
      BY <1>4, <1>6, <2>1 DEF OnceInv
    <3>2. v # NoSession
      BY <1>1, <1>4, <1>6, ConstantsAssumption DEF Registry
    <3>3. f # e
      BY <1>7, <3>1, <3>2
    <3>4. QED
      BY <1>4, <1>6, <3>1, <3>3
  <2>6. QED
    BY <1>2, <1>4, <1>6, <2>3, <2>4, <2>5 DEF OnceInv
<1>10. ASSUME Plain
       PROVE  PlainInv(s)
  <2>1. PlainInv(r) /\ Listed(s) = Listed(r) /\ s.nr = r.nr
    BY <1>3, <1>4, <1>6, <1>10 DEF LifeInv, Listed
  <2>2. ~InTree(r, e)
    BY DEF RegistryInv, TreeInv
  <2>3. QED
    BY <1>2, <1>4, <1>6, <2>1, <2>2 DEF PlainInv, InTree
<1>11. LifeInv(s)
  BY <1>8, <1>9, <1>10 DEF LifeInv
<1>12. QED
  BY <1>11 DEF s, q, x, SetEndpoint

-----------------------------------------------------------------------------
(***************************************************************************)
(* The steps.                                                              *)
(***************************************************************************)
LEMMA SentLife ==
    ASSUME NEW r, NEW t \in Nat, RegistryInv(r, t), LifeInv(r), NEW e \in Endpoint,
           NEW s \in Sent(r, e)
    PROVE  LifeInv(s)
BY OnCloseLife DEF Sent

LEMMA UnaskedFree ==
    ASSUME LifeInv(reg), NEW e \in Endpoint, MayStart(e), Once
    PROVE  reg.ep[e].name = NoName /\ reg.ep[e].session = NoSession
BY DEF LifeInv, OnceInv, MayStart, Once

LEMMA ForgetSessionLife ==
    ASSUME NEW r \in Registry, NEW e \in Endpoint, LifeInv(r),
           Once => r.ep[e].session = NoSession
    PROVE  LifeInv([r EXCEPT !.ep[e].session = NoSession])
<1> DEFINE s == WithSession(r, e, NoSession, r.sessions)
<1>1. r.sessions \in SUBSET Session /\ NoSession \notin Session
  BY ConstantsAssumption DEF Registry
<1>2. s = [r EXCEPT !.ep[e].session = NoSession]
  BY DEF WithSession, Registry
<1>3. /\ OtherSession(r, s, e) /\ s \in Registry
      /\ s.ep[e].session = NoSession /\ s.sessions = r.sessions
  BY <1>1, SetSessionFields
<1> HIDE DEF s
<1>4. LifeInv(s)
  BY <1>1, <1>3, OtherSessionLife
<1>5. QED
  BY <1>2, <1>4

LEMMA EndSessionLife ==
    ASSUME NEW r \in Registry, NEW e \in Endpoint, LifeInv(r)
    PROVE  LifeInv([r EXCEPT !.ep[e].session = NoSession, !.sessions = @ \ {r.ep[e].session}])
<1> DEFINE S == r.sessions \ {r.ep[e].session}
           s == WithSession(r, e, NoSession, S)
<1>1. r.sessions \in SUBSET Session /\ NoSession \notin Session /\ S \in SUBSET Session
  BY ConstantsAssumption DEF Registry
<1>2. s = [r EXCEPT !.ep[e].session = NoSession, !.sessions = @ \ {r.ep[e].session}]
  BY DEF WithSession, Registry
<1>3. /\ OtherSession(r, s, e) /\ s \in Registry
      /\ s.ep[e].session = NoSession /\ s.sessions = S
  BY <1>1, SetSessionFields
<1> HIDE DEF s
<1>4. LifeInv(s)
  BY <1>1, <1>3, OtherSessionLife
<1>5. QED
  BY <1>2, <1>4

(* What a registered endpoint's session is created from. *)
LEMMA NewSessionLife ==
    ASSUME NEW r, NEW m \in Registry, NEW t \in Nat, RegistryInv(r, t), LifeInv(r),
           NEW e \in Endpoint, NEW n \in Name, Registered(r, m, e, n),
           e \in r.dangling, r.list[n] = NoEndpoint, r.ep[e].alive,
           Once => r.ep[e].asked,
           NEW s \in CreateSession(m, e)
    PROVE  LifeInv(s)
<1>1. LifeInv(m)
  BY RegisteredLife
<1>2. r.ep[e].session = NoSession
  BY DEF LifeInv, SessionInv
<1>3. m.ep[e].alive /\ e \notin m.dangling /\ m.ep[e].session = NoSession
  BY <1>2 DEF Registered
<1>4. Once => m.ep[e].asked
  BY DEF Registered
<1>5. QED
  BY <1>1, <1>3, <1>4, CreateSessionLife

LEMMA ClientStepLife ==
    ASSUME IInv, LifeInv(reg), NEW e \in Endpoint, ClientStep(e)
    PROVE  LifeInv(reg')
<1>1. RegistryInv(reg, now) /\ now \in Nat /\ reg \in Registry
  BY ConstantsAssumption DEF IInv, RegistryInv
<1>2. /\ RegistryInv(Asked(e), now) /\ Asked(e) \in Registry
      /\ Asked(e).dangling = reg.dangling /\ Asked(e).list = reg.list
      /\ Asked(e).ep[e].alive = reg.ep[e].alive
  BY <1>1, AskedInv DEF RegistryInv
<1>3. /\ LifeInv(Asked(e)) /\ Asked(e).ep[e].asked
      /\ Asked(e).ep[e].session = reg.ep[e].session
  BY <1>1, AskedLife DEF Similar
<1>4. ASSUME NEW t \in {"unix", "web"}, Accept(e, t)
      PROVE  LifeInv(reg')
  BY <1>1, <1>4, AcceptInv, AcceptLife, SentLife DEF Accept
<1>5. CASE StartSessionRefused(e)
  <2> DEFINE r == [Asked(e) EXCEPT !.ep[e].session = NoSession]
  <2>1. RegistryInv(r, now)
    BY <1>1, <1>2, SetSessionInv
  <2>2. Once => Asked(e).ep[e].session = NoSession
    BY <1>3, <1>5, UnaskedFree DEF StartSessionRefused
  <2>3. LifeInv(r)
    BY <1>2, <1>3, <2>2, ForgetSessionLife
  <2>4. reg' \in Sent(r, e)
    BY <1>5 DEF StartSessionRefused
  <2> HIDE DEF r
  <2>5. QED
    BY <1>1, <2>1, <2>3, <2>4, SentLife
<1>6. CASE DuplicateRefused(e)
  BY <1>1, <1>2, <1>3, <1>6, SentLife DEF DuplicateRefused
<1>7. ASSUME NEW n \in Name, StartSession(e, n)
      PROVE  LifeInv(reg')
  <2> DEFINE r == [MakeReady(Asked(e), e, n) EXCEPT !.ep[e].name = n]
  <2>1. e \in Asked(e).dangling /\ Asked(e).list[n] = NoEndpoint /\ Asked(e).ep[e].alive
    BY <1>2, <1>7 DEF StartSession, Handle, MayAuthenticate
  <2>2. RegistryInv(r, now) /\ r \in Registry
    BY <1>1, <1>2, <2>1, MakeReadyInv DEF RegistryInv
  <2>3. Registered(Asked(e), r, e, n)
    BY <1>1, <1>2, MakeReadyRegistered
  <2>4. PICK r1 \in CreateSession(r, e) : reg' \in Sent(r1, e)
    BY <1>7 DEF StartSession
  <2> HIDE DEF r
  <2>5. LifeInv(r1)
    BY <1>1, <1>2, <1>3, <2>1, <2>2, <2>3, NewSessionLife
  <2>6. RegistryInv(r1, now)
    BY <1>1, <2>2, CreateSessionInv
  <2>7. QED
    BY <1>1, <2>4, <2>5, <2>6, SentLife
<1>8. ASSUME NEW n \in Name, NEW u \in Timeouts, MayDuplicate(e, n), reg.ep[e].alive
      PROVE  /\ RegistryInv(Claim(Asked(e), e, n, u), now)
             /\ LifeInv(Claim(Asked(e), e, n, u))
             /\ Claim(Asked(e), e, n, u).ep[e].asked
             /\ Claim(Asked(e), e, n, u).ep[e].alive
             /\ Claim(Asked(e), e, n, u).ep[e].name = n
             /\ Claim(Asked(e), e, n, u).list[n] = NoEndpoint
             /\ Claim(Asked(e), e, n, u) \in Registry
  <2>1. u \in Nat
    BY ConstantsAssumption
  <2>2. Asked(e).list[n] = NoEndpoint /\ Asked(e).ep[e].alive
    BY <1>2, <1>8 DEF MayDuplicate, NameFree
  <2>3. Claim(Asked(e), e, n, u).list = Asked(e).list
    BY <1>2, <2>1, ClaimSimilar DEF Similar
  <2>4. LifeInv(Claim(Asked(e), e, n, u)) /\ Claim(Asked(e), e, n, u).ep[e].asked
    BY <1>1, <1>8, <2>1, ClaimLife DEF MayDuplicate
  <2>5. QED
    BY <1>1, <1>2, <2>1, <2>2, <2>3, <2>4, ClaimInv DEF RegistryInv
<1>9. ASSUME NEW n \in Name, NEW u \in Timeouts, DuplicateAutoAccepted(e, n, u)
      PROVE  LifeInv(reg')
  <2> DEFINE r == Claim(Asked(e), e, n, u)
  <2>1. /\ RegistryInv(r, now) /\ r \in Registry /\ LifeInv(r)
        /\ r.ep[e].alive /\ r.ep[e].name = n /\ r.ep[e].asked /\ r.list[n] = NoEndpoint
    BY <1>8, <1>9 DEF DuplicateAutoAccepted, Handle
  <2>2. IF e \in r.dangling
        THEN \E r1 \in CreateSession(MakeReady(r, e, n), e) : reg' \in Sent(r1, e)
        ELSE reg' \in Sent(r, e)
    BY <1>9 DEF DuplicateAutoAccepted
  <2> HIDE DEF r
  <2>3. CASE e \in r.dangling
    <3> DEFINE m == MakeReady(r, e, n)
    <3>1. RegistryInv(m, now) /\ m \in Registry
      BY <1>1, <2>1, <2>3, MakeReadyNamedInv DEF RegistryInv
    <3>2. Registered(r, m, e, n)
      BY <1>1, <2>1, MakeReadyRegistered
    <3>3. PICK r1 \in CreateSession(m, e) : reg' \in Sent(r1, e)
      BY <2>2, <2>3
    <3> HIDE DEF m
    <3>4. LifeInv(r1)
      BY <1>1, <2>1, <2>3, <3>1, <3>2, NewSessionLife
    <3>5. RegistryInv(r1, now)
      BY <1>1, <3>1, CreateSessionInv
    <3>6. QED
      BY <1>1, <3>3, <3>4, <3>5, SentLife
  <2>4. CASE e \notin r.dangling
    BY <1>1, <2>1, <2>2, <2>4, SentLife
  <2>5. QED
    BY <2>3, <2>4
<1>10. ASSUME NEW n \in Name, NEW u \in Timeouts, DuplicateWaits(e, n, u)
       PROVE  LifeInv(reg')
  <2> DEFINE r == Claim(Asked(e), e, n, u)
             x == [r.ep[e] EXCEPT !.t_start_session = now]
  <2>1. r \in Registry /\ LifeInv(r) /\ r.ep[e].asked
    BY <1>8, <1>10 DEF DuplicateWaits, Handle
  <2>2. reg' = [r EXCEPT !.ep[e].t_start_session = now]
    BY <1>10 DEF DuplicateWaits
  <2> HIDE DEF r
  <2>3. reg' = SetEndpoint(r, e, x)
    BY <2>2 DEF SetEndpoint
  <2>4. r.ep[e] \in EndpointRec
    BY <2>1 DEF Registry
  <2>5. /\ x \in EndpointRec /\ x.alive = r.ep[e].alive /\ x.session = r.ep[e].session
        /\ x.asked = r.ep[e].asked /\ x.name = r.ep[e].name
    BY <1>1, <2>4 DEF EndpointRec
  <2> HIDE DEF x
  <2>6. Similar(r, SetEndpoint(r, e, x), e) /\ SetEndpoint(r, e, x).ep[e] = x
    BY <2>1, <2>5, SetEndpointSimilar
  <2>7. LifeInv(SetEndpoint(r, e, x))
    BY <2>1, <2>5, <2>6, SimilarLife
  <2>8. QED
    BY <2>3, <2>7
<1>11. CASE EndSession(e)
  <2> DEFINE r == Touch(reg, e)
  <2>1. r \in Registry /\ LifeInv(r) /\ r.ep[e].session = reg.ep[e].session
    BY <1>1, TouchInv, TouchLife DEF RegistryInv, Similar
  <2>2. reg' = [r EXCEPT !.ep[e].session = NoSession, !.sessions = @ \ {r.ep[e].session}]
    BY <1>11, <2>1 DEF EndSession
  <2> HIDE DEF r
  <2>3. LifeInv([r EXCEPT !.ep[e].session = NoSession, !.sessions = @ \ {r.ep[e].session}])
    BY <2>1, EndSessionLife
  <2>4. QED
    BY <2>2, <2>3
<1>12. CASE Packet(e)
  BY <1>1, <1>12, TouchInv, TouchLife, SentLife DEF Packet
<1>13. CASE Disconnect(e)
  BY <1>1, <1>13, OnCloseLife DEF Disconnect
<1>14. QED
  BY <1>4, <1>5, <1>6, <1>7, <1>9, <1>10, <1>11, <1>12, <1>13 DEF ClientStep

LEMMA UserStepLife ==
    ASSUME IInv, LifeInv(reg), NEW e \in Endpoint, UserStep(e)
    PROVE  LifeInv(reg')
<1>1. RegistryInv(reg, now) /\ now \in Nat /\ reg \in Registry
  BY ConstantsAssumption DEF IInv, RegistryInv
<1>2. CASE UserAccepts(e)
  <2> DEFINE n == reg.ep[e].name
             m == MakeReady(reg, e, n)
  <2>1. n \in Name /\ e \in reg.dangling /\ reg.ep[e].alive /\ reg' \in CreateSession(m, e)
    BY <1>1, <1>2 DEF UserAccepts, Handle, Registry, EndpointRec
  <2>2. reg.list[n] = NoEndpoint
    BY <1>1, <1>2 DEF UserAccepts, RegistryInv, DanglingFree
  <2>3. Once => reg.ep[e].asked
    BY <1>2 DEF UserAccepts, LifeInv, OnceInv
  <2> HIDE DEF n
  <2>4. m \in Registry
    BY <1>1, <2>1, MakeReadyFields
  <2>5. Registered(reg, m, e, n)
    BY <1>1, <2>1, MakeReadyRegistered DEF n
  <2> HIDE DEF m
  <2>6. QED
    BY <1>1, <2>1, <2>2, <2>3, <2>4, <2>5, NewSessionLife
<1>3. CASE UserAcceptsUnstarted(e)
  BY <1>3 DEF UserAcceptsUnstarted
<1>4. CASE UserCloses(e)
  BY <1>1, <1>4, RemoveEndpointLife DEF UserCloses
<1>5. QED
  BY <1>2, <1>3, <1>4 DEF UserStep

LEMMA IdleCheckLife ==
    ASSUME IInv, LifeInv(reg), IdleCheck
    PROVE  LifeInv(reg')
<1>1. RegistryInv(reg, now) /\ now \in Nat
  BY ConstantsAssumption DEF IInv
<1> DEFINE r == IF NoRespondingDue THEN CheckNoResponding(reg)
                ELSE IF Elapsed % DanglingPeriod = 0 THEN CheckDangling(reg)
                ELSE reg
<1>2. RegistryInv(r, now)
  BY <1>1, CheckNoRespondingInv, DanglingSweepsInv
<1>3. LifeInv(r)
  BY <1>1, CheckNoRespondingLife, DanglingSweepsLife
<1>4. reg' = CheckTimeoutDangling(r)
  BY DEF IdleCheck
<1> HIDE DEF r
<1>5. QED
  BY <1>1, <1>2, <1>3, <1>4, DanglingSweepsLife

-----------------------------------------------------------------------------
(***************************************************************************)
(* The inductive invariant: with one startSession per connection no step   *)
(* reads freed memory, too.                                                *)
(***************************************************************************)
LInv ==
    /\ IInv
    /\ LifeInv(reg)
    /\ Once => phase # "undefined"

LEMMA InitLInv == Init => LInv
<1> SUFFICES ASSUME Init PROVE LInv
  OBVIOUS
<1> DEFINE s == EmptyRegistry
<1>1. /\ s.dangling = {} /\ s.sessions = {} /\ s.nr = 0
      /\ \A n \in Name : s.list[n] = NoEndpoint
      /\ \A e \in Endpoint : /\ ~InTree(s, e) /\ s.ep[e].session = NoSession
                             /\ s.ep[e].name = NoName
  BY DEF EmptyRegistry, FreedEndpoint, InTree
<1> HIDE DEF s
<1>2. SessionInv(s) /\ OnceInv(s)
  BY <1>1 DEF SessionInv, OnceInv
<1>3. Listed(s) = {}
  BY <1>1 DEF Listed
<1>4. 0 % CountWord = 0
  BY ConstantsAssumption
<1>5. PlainInv(s)
  BY <1>1, <1>3, <1>4, FS_EmptySet DEF PlainInv
<1>6. LifeInv(s)
  BY <1>2, <1>5 DEF LifeInv
<1>7. QED
  BY <1>6, InitIInv DEF Init, LInv, s

LEMMA NextLInv == LInv /\ [Next]_vars => LInv'
<1> SUFFICES ASSUME LInv, [Next]_vars
             PROVE  LInv'
  OBVIOUS
<1>1. IInv /\ IInv' /\ LifeInv(reg)
  BY NextIInv DEF LInv
<1>2. RegistryInv(reg, now) /\ now \in Nat /\ reg \in Registry
  BY <1>1, ConstantsAssumption DEF IInv, RegistryInv
<1>3. UNCHANGED liberties
  BY DEF Next, vars, ClientStep, UserStep, Accept, StartSessionRefused, DuplicateRefused,
         StartSession, DuplicateAutoAccepted, DuplicateWaits, EndSession, Packet, Disconnect,
         Handle, UserAccepts, UserAcceptsUnstarted, UserCloses, IdleCheck, ReadsFreed, Stop,
         Tick, Stopped
<1>4. LifeInv(reg')
  <2>1. CASE Stop
    BY <1>1, <1>2, <2>1, DeinitLife DEF Stop
  <2>2. CASE UNCHANGED reg
    BY <1>1, <2>2
  <2>3. QED
    BY <1>1, <2>1, <2>2, ClientStepLife, UserStepLife, IdleCheckLife
       DEF Next, vars, ReadsFreed, Tick, Stopped
<1>5. Once => phase' # "undefined"
  <2> SUFFICES ASSUME Once
               PROVE  phase' # "undefined"
    OBVIOUS
  <2>1. OnceInv(reg) /\ phase # "undefined"
    BY DEF LInv, LifeInv
  <2>2. ~ReadsFreed
    <3>1. \A n \in Listed(reg) : reg.ep[reg.list[n]].alive
      BY <2>1 DEF OnceInv, Listed
    <3>2. \A d \in reg.dangling : reg.ep[d].alive
      BY <2>1 DEF OnceInv
    <3>3. QED
      BY <3>1, <3>2 DEF ReadsFreed, StaleEntry, StaleDangling
  <2>3. \A e \in Endpoint : ~UserAcceptsUnstarted(e)
    BY DEF UserAcceptsUnstarted, Once
  <2>4. QED
    BY <2>1, <2>2, <2>3
       DEF Next, vars, ClientStep, UserStep, Accept, StartSessionRefused, DuplicateRefused,
           StartSession, DuplicateAutoAccepted, DuplicateWaits, EndSession, Packet, Disconnect,
           Handle, UserAccepts, UserCloses, IdleCheck, Stop, Tick, Stopped
<1>6. LifeInv(reg)'
  BY <1>3, <1>4 DEF LifeInv, Once, Plain
<1>7. QED
  BY <1>1, <1>3, <1>5, <1>6 DEF LInv, Once

THEOREM LifeInvariance == Spec => []LInv
BY InitLInv, NextLInv, PTL DEF Spec

-----------------------------------------------------------------------------
(* remove_session is never called twice for a session, nor for the session  *)
(* of another endpoint, whatever clients and user do.                      *)
THEOREM SessionsOwnedOnce == Spec => []SessionsSound
<1>1. LInv => SessionsSound
  BY DEF LInv, LifeInv, SessionInv, SessionsSound
<1>2. QED
  BY <1>1, LifeInvariance, PTL

(* With one startSession per connection, duplicates or not, the lists refer *)
(* to live endpoints, no session is without an owner, and neither freed    *)
(* memory nor an uninitialised name is read.                               *)
THEOREM RegistryStaysLive == Spec => []RegistryLive
<1>1. LInv => RegistryLive
  <2> SUFFICES ASSUME LInv, Once
               PROVE  DanglingAlive /\ DanglingNameFree /\ EntriesLive /\ SessionsOwned /\ Defined
    BY DEF RegistryLive, Once
  <2>1. RegistryInv(reg, now) /\ OnceInv(reg) /\ phase # "undefined"
    BY DEF LInv, IInv, LifeInv
  <2>2. DanglingAlive /\ DanglingNameFree
    BY <2>1 DEF OnceInv, RegistryInv, DanglingOut, DanglingFree, DanglingAlive, DanglingNameFree
  <2>3. EntriesLive /\ SessionsOwned /\ Defined
    BY <2>1 DEF OnceInv, EntriesLive, Listed, SessionsOwned, Defined
  <2>4. QED
    BY <2>2, <2>3
<1>2. QED
  BY <1>1, LifeInvariance, PTL

(* Without duplicates nr_endpoints, which wraps around at its width, counts *)
(* the entries, and every endpoint of the tree is listed under its name.   *)
THEOREM BooksBalance == Spec => []Bookkeeping
<1>1. LInv => Bookkeeping
  <2> SUFFICES ASSUME LInv, Plain
               PROVE  CountExact /\ TreeListed
    BY DEF Bookkeeping, Plain
  <2>1. PlainInv(reg)
    BY DEF LInv, LifeInv
  <2>2. QED
    BY <2>1 DEF PlainInv, CountExact, TreeListed, Tree
<1>2. QED
  BY <1>1, LifeInvariance, PTL

-----------------------------------------------------------------------------
(***************************************************************************)
(* The sweep of the endpoints that do not respond stops at the first node  *)
(* whose endpoint responds: it misses none, for the nodes are in the order *)
(* of the times the endpoints were last heard of.                          *)
(***************************************************************************)
LEMMA SweptTree ==
    ASSUME NEW r, NEW t \in Nat, RegistryInv(r, t), NEW e \in Endpoint,
           InTree(CheckNoResponding(r), e)
    PROVE  /\ InTree(r, e) /\ e \notin NoResponding(r)
           /\ CheckNoResponding(r).ep[e] = r.ep[e]
<1> DEFINE R == NoResponding(r)
           u == Unlist(r, R)
           d == DelAll(u, R)
<1>1. R \in SUBSET Endpoint /\ \A f \in R : InTree(r, f)
  BY DEF NoResponding, Tree
<1>2. CheckNoResponding(r) = Decrease(d, Cardinality(R))
  BY DEF CheckNoResponding
<1>3. r \in Registry
  BY DEF RegistryInv
<1> HIDE DEF R
<1>4. RegistryInv(u, t) /\ RegistryInv(d, t) /\ d \in Registry
  BY <1>1, UnlistInv, DelAllInv DEF RegistryInv
<1>5. /\ u.ep = r.ep /\ u.living = r.living /\ u.sessions = r.sessions
      /\ u.dangling = r.dangling
      /\ \A n \in Name : u.list[n] \in {r.list[n], NoEndpoint}
  BY <1>3, UnlistFields
<1> HIDE DEF u
<1>6. Gone(r, d, R)
  BY <1>1, <1>4, <1>5, DelAllGone
<1> HIDE DEF d
<1>7. CheckNoResponding(r).ep = d.ep /\ CheckNoResponding(r).living = d.living
  BY <1>2, <1>4, DecreaseFields
<1>8. InTree(d, e)
  BY <1>7 DEF InTree
<1>9. e \notin R
  BY <1>1, <1>6, <1>8 DEF Gone, RegistryInv, TreeInv, InTree
<1>10. QED
  BY <1>6, <1>7, <1>8, <1>9 DEF Gone, InTree, R

LEMMA RemoveAllDanglingTree ==
    ASSUME NEW r, NEW t \in Nat, RegistryInv(r, t), NEW R \in SUBSET r.dangling,
           NEW e \in Endpoint, InTree(RemoveAllDangling(r, R), e)
    PROVE  InTree(r, e) /\ RemoveAllDangling(r, R).ep[e] = r.ep[e]
<1> DEFINE q == [r EXCEPT !.dangling = @ \ R]
<1>1. r \in Registry /\ R \in SUBSET Endpoint
  BY RegistryFields DEF RegistryInv
<1>2. RegistryInv(q, t)
  BY <1>1, RemoveDanglingInv
<1>3. /\ q.ep = r.ep /\ q.living = r.living /\ q.sessions = r.sessions
      /\ q.dangling = r.dangling \ R /\ q.list = r.list
  BY <1>1 DEF Registry
<1>4. RemoveAllDangling(r, R) = DelAll(q, R)
  BY DEF RemoveAllDangling
<1> HIDE DEF q
<1>5. Gone(r, DelAll(q, R), R)
  BY <1>1, <1>2, <1>3, DelAllGone
<1>6. InTree(r, e)
  BY <1>4, <1>5 DEF Gone, InTree
<1>7. e \notin R
  BY <1>1, <1>6 DEF RegistryInv, DanglingOut
<1>8. QED
  BY <1>4, <1>5, <1>6, <1>7 DEF Gone

LEMMA SweepMissesNone ==
    ASSUME IInv, IdleCheck, NoRespondingDue, NEW e \in Tree(reg')
    PROVE  now <= reg'.ep[e].t_living + NoRespondingTime
<1> DEFINE r == CheckNoResponding(reg)
           Q == {d \in r.dangling : now > StartDeadline(r, d)}
<1>1. RegistryInv(reg, now) /\ now \in Nat /\ RegistryInv(r, now)
  BY CheckNoRespondingInv, ConstantsAssumption DEF IInv
<1>2. reg' = RemoveAllDangling(r, Q) /\ Q \in SUBSET r.dangling
  BY DEF IdleCheck, CheckTimeoutDangling
<1>3. e \in Endpoint /\ InTree(reg', e)
  BY DEF Tree
<1> HIDE DEF Q
<1>4. InTree(r, e) /\ reg'.ep[e] = r.ep[e]
  BY <1>1, <1>2, <1>3, RemoveAllDanglingTree
<1>5. InTree(reg, e) /\ e \notin NoResponding(reg) /\ r.ep[e] = reg.ep[e]
  BY <1>1, <1>3, <1>4, SweptTree
<1>6. \A f \in Endpoint : InTree(reg, f) => /\ reg.living[f] = reg.ep[f].t_living
                                            /\ reg.ep[f].t_living \in Nat
  BY <1>1 DEF RegistryInv, TreeInv, Registry, EndpointRec
<1>7. NoRespondingTime \in Nat /\ PingTime \in Nat /\ PingTime <= NoRespondingTime
  BY ConstantsAssumption
<1>8. SUFFICES ASSUME now > reg.ep[e].t_living + NoRespondingTime
               PROVE  FALSE
  BY <1>1, <1>3, <1>4, <1>5, <1>6, <1>7
<1>9. PICK f \in Tree(reg) : /\ reg.living[f] <= reg.living[e]
                             /\ ~(now > reg.ep[f].t_living + PingTime)
  BY <1>3, <1>5, <1>8 DEF NoResponding, Tree
<1>10. f \in Endpoint /\ InTree(reg, f)
  BY DEF Tree
<1>11. QED
  BY <1>1, <1>3, <1>5, <1>6, <1>7, <1>8, <1>9, <1>10

(* check_no_responding_endpoints leaves no silent endpoint in the tree.     *)
THEOREM SweepsComplete == Spec => SweepComplete
<1>1. IInv /\ [Next]_vars =>
        [lastIdle' # lastIdle /\ NoRespondingDue
         => \A e \in Tree(reg') : now <= reg'.ep[e].t_living + NoRespondingTime]_vars
  <2> SUFFICES ASSUME IInv, Next, lastIdle' # lastIdle, NoRespondingDue, NEW e \in Tree(reg')
               PROVE  now <= reg'.ep[e].t_living + NoRespondingTime
    BY DEF vars
  <2>1. IdleCheck
    BY DEF Next, vars, ClientStep, UserStep, Accept, StartSessionRefused, DuplicateRefused,
           StartSession, DuplicateAutoAccepted, DuplicateWaits, EndSession, Packet, Disconnect,
           Handle, UserAccepts, UserAcceptsUnstarted, UserCloses, ReadsFreed, Stop,
           Tick, Stopped
  <2>2. QED
    BY <2>1, SweepMissesNone
<1>2. QED
  BY <1>1, Invariance, PTL DEF Spec, SweepComplete

-----------------------------------------------------------------------------
(***************************************************************************)
(* Without duplicates an endpoint of the tree bears its name to its end:   *)
(* what is alive in s and was in the tree of r has the name it had.        *)
(***************************************************************************)
Bears(r, s) ==
    \A f \in Endpoint :
        InTree(r, f) => s.ep[f].name = r.ep[f].name \/ ~s.ep[f].alive

LEMMA OnCloseEp ==
    ASSUME NEW r, NEW t \in Nat, RegistryInv(r, t), NEW e \in Endpoint
    PROVE  \A f \in Endpoint : OnClose(r, e).ep[f] \in {r.ep[f], FreedEndpoint}
<1> DEFINE d == Decrease(Unlist(r, {e}), 1)
           q == RemoveDangling(r, e)
<1>1. r \in Registry /\ Unlist(r, {e}) \in Registry
  BY UnlistInv DEF RegistryInv
<1>2. d.ep = r.ep /\ d \in Registry
  BY <1>1, UnlistFields, DecreaseFields, UnlistInv, DecreaseInv DEF RegistryInv
<1>3. q.ep = r.ep /\ q \in Registry
  BY <1>1 DEF RemoveDangling, Registry
<1>4. OnClose(r, e) \in {DelAll(d, {e}), DelAll(q, {e})}
  BY DEF OnClose
<1> HIDE DEF d, q
<1>5. ASSUME NEW p \in Registry
      PROVE  \A f \in Endpoint : DelAll(p, {e}).ep[f] \in {p.ep[f], FreedEndpoint}
  BY DEF DelAll, Registry
<1>6. QED
  BY <1>2, <1>3, <1>4, <1>5

LEMMA SentBears ==
    ASSUME NEW q, NEW r, NEW t \in Nat, RegistryInv(r, t), Bears(q, r),
           NEW e \in Endpoint, NEW s \in Sent(r, e)
    PROVE  Bears(q, s)
<1>1. \A f \in Endpoint : s.ep[f] \in {r.ep[f], FreedEndpoint}
  BY OnCloseEp DEF Sent
<1>2. QED
  BY <1>1 DEF Bears, FreedEndpoint

LEMMA CreateSessionBears ==
    ASSUME NEW q, NEW r \in Registry, Bears(q, r), NEW e \in Endpoint,
           NEW s \in CreateSession(r, e)
    PROVE  Bears(q, s)
<1>1. \A f \in Endpoint : s.ep[f].name = r.ep[f].name /\ s.ep[f].alive = r.ep[f].alive
  <2>1. ASSUME NEW u
        PROVE  \A f \in Endpoint : /\ [r.ep EXCEPT ![e].session = u][f].name = r.ep[f].name
                                   /\ [r.ep EXCEPT ![e].session = u][f].alive = r.ep[f].alive
    BY DEF Registry, EndpointRec
  <2>2. \E u : s.ep = [r.ep EXCEPT ![e].session = u]
    BY DEF CreateSession, Registry
  <2>3. QED
    BY <2>1, <2>2
<1>2. QED
  BY <1>1 DEF Bears

LEMMA SimilarBears ==
    ASSUME NEW r, NEW s, NEW e \in Endpoint, Similar(r, s, e),
           s.ep[e].name = r.ep[e].name
    PROVE  Bears(r, s)
BY DEF Similar, Bears

LEMMA ClientStepBears ==
    ASSUME IInv, Plain, NEW e \in Endpoint, ClientStep(e)
    PROVE  Bears(reg, reg')
<1>1. RegistryInv(reg, now) /\ now \in Nat /\ reg \in Registry
  BY ConstantsAssumption DEF IInv, RegistryInv
<1>2. RegistryInv(Asked(e), now) /\ Asked(e) \in Registry /\ Asked(e).dangling = reg.dangling
  BY <1>1, AskedInv DEF RegistryInv
<1>3. Bears(reg, Asked(e))
  BY <1>1, AskedLife, SimilarBears
<1>4. ASSUME NEW t \in {"unix", "web"}, Accept(e, t)
      PROVE  Bears(reg, reg')
  <2> DEFINE r == StoreDangling([reg EXCEPT !.ep[e] = NewEndpoint(t)], e)
  <2>1. RegistryInv(r, now)
    BY <1>1, <1>4, AcceptInv DEF Accept
  <2>2. r.ep = [reg.ep EXCEPT ![e] = NewEndpoint(t)]
    BY <1>1 DEF StoreDangling, Registry
  <2>3. ~InTree(reg, e)
    BY <1>1, <1>4 DEF Accept, RegistryInv, TreeInv
  <2>4. reg' \in Sent(r, e)
    BY <1>4 DEF Accept
  <2> HIDE DEF r
  <2>5. Bears(reg, r)
    BY <1>1, <2>2, <2>3 DEF Bears, Registry
  <2>6. QED
    BY <1>1, <2>1, <2>4, <2>5, SentBears
<1>5. CASE StartSessionRefused(e)
  <2> DEFINE r == [Asked(e) EXCEPT !.ep[e].session = NoSession]
  <2>1. RegistryInv(r, now)
    BY <1>1, <1>2, SetSessionInv
  <2>2. r \in CreateSession(Asked(e), e)
    BY DEF CreateSession
  <2>3. reg' \in Sent(r, e)
    BY <1>5 DEF StartSessionRefused
  <2> HIDE DEF r
  <2>4. Bears(reg, r)
    BY <1>2, <1>3, <2>2, CreateSessionBears
  <2>5. QED
    BY <1>1, <2>1, <2>3, <2>4, SentBears
<1>6. ASSUME NEW n \in Name, StartSession(e, n)
      PROVE  Bears(reg, reg')
  <2> DEFINE r == [MakeReady(Asked(e), e, n) EXCEPT !.ep[e].name = n]
  <2>1. e \in Asked(e).dangling /\ Asked(e).list[n] = NoEndpoint /\ Asked(e).ep[e].alive
    BY <1>1, <1>2, <1>6, AskedInv DEF StartSession, Handle, MayAuthenticate
  <2>2. RegistryInv(r, now) /\ r \in Registry
    BY <1>1, <1>2, <2>1, MakeReadyInv DEF RegistryInv
  <2>3. Registered(Asked(e), r, e, n)
    BY <1>1, <1>2, MakeReadyRegistered
  <2>4. PICK r1 \in CreateSession(r, e) : reg' \in Sent(r1, e)
    BY <1>6 DEF StartSession
  <2> HIDE DEF r
  <2>5. ~InTree(reg, e)
    BY <1>1, <1>2, <2>1 DEF RegistryInv, DanglingOut
  <2>6. Bears(reg, r)
    BY <1>3, <2>3, <2>5 DEF Bears, Registered
  <2>7. Bears(reg, r1) /\ RegistryInv(r1, now)
    BY <1>1, <2>2, <2>6, CreateSessionBears, CreateSessionInv
  <2>8. QED
    BY <1>1, <2>4, <2>7, SentBears
<1>7. CASE EndSession(e)
  <2> DEFINE r == Touch(reg, e)
  <2>1. r \in Registry /\ Bears(reg, r)
    BY <1>1, TouchInv, TouchLife, SimilarBears DEF RegistryInv
  <2>2. reg'.ep = [r.ep EXCEPT ![e].session = NoSession]
    BY <1>7, <2>1 DEF EndSession, Registry
  <2> HIDE DEF r
  <2>3. \A f \in Endpoint : reg'.ep[f].name = r.ep[f].name /\ reg'.ep[f].alive = r.ep[f].alive
    BY <2>1, <2>2 DEF Registry, EndpointRec
  <2>4. QED
    BY <2>1, <2>3 DEF Bears
<1>8. CASE Packet(e)
  <2>1. RegistryInv(Touch(reg, e), now) /\ Bears(reg, Touch(reg, e))
    BY <1>1, TouchInv, TouchLife, SimilarBears
  <2>2. QED
    BY <1>1, <1>8, <2>1, SentBears DEF Packet
<1>9. CASE Disconnect(e)
  <2>1. Bears(reg, reg)
    BY DEF Bears
  <2>2. QED
    BY <1>1, <1>9, <2>1, SentBears DEF Disconnect, Sent
<1>10. ~DuplicateRefused(e) /\ \A n \in Name, u \in Timeouts :
           ~DuplicateAutoAccepted(e, n, u) /\ ~DuplicateWaits(e, n, u)
  BY DEF Plain, DuplicateRefused, DuplicateAutoAccepted, DuplicateWaits, MayDuplicate
<1>11. QED
  BY <1>4, <1>5, <1>6, <1>7, <1>8, <1>9, <1>10 DEF ClientStep

LEMMA UserStepBears ==
    ASSUME IInv, Plain, LifeInv(reg), NEW e \in Endpoint, UserStep(e)
    PROVE  Bears(reg, reg')
<1>1. RegistryInv(reg, now) /\ now \in Nat /\ reg \in Registry /\ PlainInv(reg)
  BY ConstantsAssumption DEF IInv, RegistryInv, LifeInv
<1>2. ~UserAccepts(e)
  BY <1>1 DEF UserAccepts, PlainInv, RegistryInv, DanglingOut
<1>3. ~UserAcceptsUnstarted(e)
  BY DEF UserAcceptsUnstarted, Plain
<1>4. CASE UserCloses(e)
  <2> DEFINE u == Unlist(reg, {e})
             d == DelAll(u, {e})
  <2>1. u \in Registry /\ d \in Registry /\ u.ep = reg.ep
    BY <1>1, UnlistInv, DelAllInv, UnlistFields DEF RegistryInv
  <2>2. reg' = Decrease(d, 1)
    BY <1>4 DEF UserCloses, RemoveEndpoint
  <2> HIDE DEF u
  <2>3. \A f \in Endpoint : d.ep[f] \in {u.ep[f], FreedEndpoint}
    BY <2>1 DEF DelAll, Registry
  <2> HIDE DEF d
  <2>4. reg'.ep = d.ep
    BY <2>1, <2>2, DecreaseFields
  <2>5. QED
    BY <2>1, <2>3, <2>4 DEF Bears, FreedEndpoint
<1>5. QED
  BY <1>2, <1>3, <1>4 DEF UserStep

(* Every other step frees endpoints or leaves them alone. *)
LEMMA DelAllEp ==
    ASSUME NEW r \in Registry, NEW R, NEW k
    PROVE  /\ \A f \in Endpoint : DelAll(r, R).ep[f] \in {r.ep[f], FreedEndpoint}
           /\ Unlist(r, R).ep = r.ep
           /\ Decrease(r, k).ep = r.ep
BY DEF DelAll, Unlist, Decrease, Registry

LEMMA SweepsBear ==
    ASSUME NEW r, NEW t \in Nat, RegistryInv(r, t)
    PROVE  \A f \in Endpoint : /\ CheckNoResponding(r).ep[f] \in {r.ep[f], FreedEndpoint}
                               /\ CheckDangling(r).ep[f] \in {r.ep[f], FreedEndpoint}
                               /\ CheckTimeoutDangling(r).ep[f] \in {r.ep[f], FreedEndpoint}
<1>1. r \in Registry
  BY DEF RegistryInv
<1>2. \A f \in Endpoint : CheckNoResponding(r).ep[f] \in {r.ep[f], FreedEndpoint}
  <2> DEFINE R == NoResponding(r)
             u == Unlist(r, R)
             d == DelAll(u, R)
  <2>1. R \in SUBSET Endpoint
    BY DEF NoResponding, Tree
  <2>2. CheckNoResponding(r) = Decrease(d, Cardinality(R))
    BY DEF CheckNoResponding
  <2> HIDE DEF R
  <2>3. u \in Registry /\ d \in Registry /\ u.ep = r.ep
    BY <1>1, <2>1, UnlistInv, DelAllInv, DelAllEp DEF RegistryInv
  <2> HIDE DEF u
  <2>4. \A f \in Endpoint : d.ep[f] \in {u.ep[f], FreedEndpoint}
    BY <2>3, DelAllEp
  <2> HIDE DEF d
  <2>5. CheckNoResponding(r).ep = d.ep
    BY <2>2, <2>3, DelAllEp
  <2>6. QED
    BY <2>3, <2>4, <2>5
<1>3. ASSUME NEW R
      PROVE  \A f \in Endpoint : RemoveAllDangling(r, R).ep[f] \in {r.ep[f], FreedEndpoint}
  BY <1>1 DEF RemoveAllDangling, DelAll, Registry
<1>4. QED
  BY <1>2, <1>3 DEF CheckDangling, CheckTimeoutDangling

LEMMA NextBears == LInv /\ Plain /\ [Next]_vars => Bears(reg, reg')
<1> SUFFICES ASSUME LInv, Plain, [Next]_vars
             PROVE  Bears(reg, reg')
  OBVIOUS
<1>1. IInv /\ LifeInv(reg) /\ RegistryInv(reg, now) /\ now \in Nat /\ reg \in Registry
  BY ConstantsAssumption DEF LInv, IInv, RegistryInv
<1>2. CASE IdleCheck
  <2> DEFINE r == IF NoRespondingDue THEN CheckNoResponding(reg)
                  ELSE IF Elapsed % DanglingPeriod = 0 THEN CheckDangling(reg)
                  ELSE reg
  <2>1. RegistryInv(r, now)
    BY <1>1, CheckNoRespondingInv, DanglingSweepsInv
  <2>2. \A f \in Endpoint : r.ep[f] \in {reg.ep[f], FreedEndpoint}
    BY <1>1, SweepsBear
  <2>3. reg' = CheckTimeoutDangling(r)
    BY <1>2 DEF IdleCheck
  <2> HIDE DEF r
  <2>4. \A f \in Endpoint : reg'.ep[f] \in {r.ep[f], FreedEndpoint}
    BY <1>1, <2>1, <2>3, SweepsBear
  <2>5. QED
    BY <2>2, <2>4 DEF Bears, FreedEndpoint
<1>3. CASE Stop
  <2> DEFINE r1 == [reg EXCEPT !.living = [e \in Endpoint |-> NotInTree],
                               !.dangling = {},
                               !.list = [n \in Name |-> NoEndpoint]]
             Q == {reg.list[n] : n \in Listed(reg)} \cup reg.dangling
             d == DelAll(r1, Q)
  <2>1. reg' = Decrease(d, Cardinality(Listed(reg)))
    BY <1>3 DEF Stop, Deinit
  <2>2. Q \in SUBSET Endpoint
    BY <1>1 DEF Listed, Registry
  <2>2a. r1 \in Registry /\ r1.ep = reg.ep
    BY <1>1 DEF Registry
  <2>3. r1.dangling = {} /\ \A e \in Endpoint : r1.living[e] = NotInTree
    BY <1>1 DEF Registry
  <2> HIDE DEF r1, Q
  <2>4. RegistryInv(r1, now)
    BY <2>2a, <2>3 DEF RegistryInv, DanglingOne, DanglingOut, DanglingFree, TreeInv, InTree
  <2>5. d \in Registry /\ \A f \in Endpoint : d.ep[f] \in {r1.ep[f], FreedEndpoint}
    BY <1>1, <2>2, <2>2a, <2>4, DelAllInv, DelAllEp DEF RegistryInv
  <2> HIDE DEF d
  <2>6. reg'.ep = d.ep
    BY <2>1, <2>5, DelAllEp
  <2>7. QED
    BY <2>2a, <2>5, <2>6 DEF Bears, FreedEndpoint
<1>4. CASE UNCHANGED reg
  BY <1>4 DEF Bears
<1>5. QED
  BY <1>1, <1>2, <1>3, <1>4, ClientStepBears, UserStepBears
     DEF Next, ReadsFreed, Tick, Stopped, vars

(* Without duplicates an entry of endpoint_list goes only with its          *)
(* endpoint: no close and no sweep unregisters a client that still talks.  *)
THEOREM EntriesDieWithEndpoints == Spec => EntryDiesWithEndpoint
<1>1. LInv /\ LInv' /\ [Next]_vars =>
        [liberties = {} =>
         \A n \in Listed(reg) : reg'.list[n] = NoEndpoint => ~reg'.ep[reg.list[n]].alive]_vars
  <2> SUFFICES ASSUME LInv, LInv', Next, Plain,
                      NEW n \in Listed(reg), reg'.list[n] = NoEndpoint,
                      reg'.ep[reg.list[n]].alive
               PROVE  FALSE
    BY DEF Plain, vars
  <2> DEFINE e == reg.list[n]
  <2>1. n \in Name /\ reg.list[n] # NoEndpoint /\ e \in Endpoint
    BY DEF Listed, LInv, IInv, RegistryInv, Registry
  <2>2. reg.ep[e].name = n /\ InTree(reg, e)
    BY <2>1, PlainIsOnce DEF LInv, LifeInv, OnceInv
  <2>3. reg'.ep[e].name = n
    BY <2>1, <2>2, NextBears DEF Bears
  <2>4. liberties' = {}
    BY DEF Plain, Next, vars, ClientStep, UserStep, Accept, StartSessionRefused, DuplicateRefused,
           StartSession, DuplicateAutoAccepted, DuplicateWaits, EndSession, Packet, Disconnect,
           Handle, UserAccepts, UserAcceptsUnstarted, UserCloses, IdleCheck, ReadsFreed, Stop,
           Tick, Stopped
  <2>5. PlainInv(reg')
    BY <2>4 DEF LInv, LifeInv, Plain
  <2>6. reg'.list[reg'.ep[e].name] = e
    BY <2>1, <2>3, <2>5, ConstantsAssumption DEF PlainInv
  <2>7. QED
    BY <2>1, <2>3, <2>6, ConstantsAssumption
<1>2. QED
  BY <1>1, LifeInvariance, PTL DEF Spec, EntryDiesWithEndpoint

=============================================================================
