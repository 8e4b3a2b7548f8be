------------------------------- MODULE AvlTree ------------------------------
(***************************************************************************)
(* The balanced tree of lib/utils/avl.c and the name list of kvlist.c that *)
(* is made of it.  A tree keeps its nodes twice: linked in a list, in the  *)
(* order of their keys, and in a binary tree that holds one node of every  *)
(* group of equal keys, its leader.  An insertion or a deletion changes    *)
(* the list, the links of the tree and the balance stored in its nodes     *)
(* separately, and nothing in the code checks them against each other.     *)
(*                                                                         *)
(* The server's living_avl (endpoints by the time of their last sign of    *)
(* life, equal times allowed) is a tree with AllowDups; its endpoint_list  *)
(* and the other kvlists have one node for a name.                         *)
(***************************************************************************)
EXTENDS Integers, SequencesExt, FiniteSetsExt, NoValue

CONSTANTS
    Name,       \* the names of a kvlist, numbers from 1 (they are only compared)
    AddressOf,  \* where the node of a name may be: a set of numbers for each
    Time,       \* the keys of living_avl
    Endpoint    \* the addresses of its nodes, numbers

ASSUME TreeAssumption ==
    /\ Name \subseteq Nat \ {0} /\ Time \subseteq Nat
    /\ Endpoint \subseteq Nat /\ AddressOf \in [Name -> SUBSET (Nat \ Endpoint)]
    /\ Nil \notin Nat

\* Nil is the null pointer, and the head of the list.
VARIABLE tree

treeVars == <<tree>>

\* A new node is allocated while the old one is still in the list: a name with
\* two addresses can be given a new value without being deleted.
Node == Endpoint \cup UNION Range(AddressOf)

Side == {"left", "right"}
Other(side) == IF side = "left" THEN "right" ELSE "left"
Sign(side) == IF side = "left" THEN -1 ELSE 1

-----------------------------------------------------------------------------
(* The list                                                                *)

avl_init(dups, links) ==
    [list |-> <<>>, root |-> Nil, count |-> 0, allow_dups |-> dups,
     key |-> links, parent |-> links, child |-> [s \in Side |-> links],
     balance |-> [n \in Node |-> 0], leader |-> [n \in Node |-> FALSE]]

Pointers == [n \in Node |-> Nil]

list_is_last(t, n) == Last(t.list) = n
IndexIn(t, n) == CHOOSE i \in DOMAIN t.list : t.list[i] = n

\* The list is a ring through its head, which is Nil here.
avl_next(t, n) ==
    CASE n = Nil -> IF t.list = <<>> THEN Nil ELSE Head(t.list)
      [] list_is_last(t, n) -> Nil
      [] OTHER -> t.list[IndexIn(t, n) + 1]

avl_prev(t, n) ==
    CASE n = Nil -> IF t.list = <<>> THEN Nil ELSE Last(t.list)
      [] n = Head(t.list) -> Nil
      [] OTHER -> t.list[IndexIn(t, n) - 1]

avl_insert_before(t, pos, n) ==
    [t EXCEPT !.list = InsertAt(@, IndexIn(t, pos), n), !.count = @ + 1]

avl_insert_after(t, pos, n) ==
    [t EXCEPT !.list = InsertAt(@, IndexIn(t, pos) + 1, n), !.count = @ + 1]

\* What an unlinked node still holds is not read before avl_insert sets it.
avl_remove(t, n) ==
    [t EXCEPT !.list = RemoveAt(@, IndexIn(t, n)), !.count = @ - 1,
              !.key[n] = Nil, !.parent[n] = Nil, !.balance[n] = 0,
              !.leader[n] = FALSE,
              !.child = [s \in Side |-> [@[s] EXCEPT ![n] = Nil]]]

-----------------------------------------------------------------------------
(* The links of the tree                                                   *)

SideOf(t, n) == IF t.child["left"][t.parent[n]] = n THEN "left" ELSE "right"

\* Mutant: the child is not told.
SetParentNever(t, n, p) == t

SetParent(t, n, p) == IF n = Nil THEN t ELSE [t EXCEPT !.parent[n] = p]

\* n takes old's place below old's parent, or at the root.
Replace(t, old, n) ==
    IF t.parent[old] = Nil
    THEN [t EXCEPT !.root = n]
    ELSE [t EXCEPT !.child[SideOf(t, old)][t.parent[old]] = n]

\* avl_rotate_right is avl_rotate(t, n, "right"): n's left child comes up.
\* The two functions are mirror images, balances included.
avl_rotate(t, n, dir) ==
    LET sign == Sign(dir)
        up == t.child[Other(dir)][n]
        inner == t.child[dir][up]
        nb == sign * t.balance[n] + 1 - Min({sign * t.balance[up], 0})
        ub == sign * t.balance[up] + 1 + Max({nb, 0})
        moved == [Replace(t, n, up) EXCEPT
                     !.parent[up] = t.parent[n], !.parent[n] = up,
                     !.child[Other(dir)][n] = inner, !.child[dir][up] = n,
                     !.balance[n] = sign * nb, !.balance[up] = sign * ub]
    IN SetParent(moved, inner, n)

RECURSIVE avl_find_rec(_, _, _)
avl_find_rec(t, n, k) ==
    LET next == t.child[IF k < t.key[n] THEN "left" ELSE "right"][n]
    IN IF k = t.key[n] \/ next = Nil THEN n ELSE avl_find_rec(t, next, k)

avl_find(t, k) ==
    IF t.root = Nil THEN Nil
    ELSE LET n == avl_find_rec(t, t.root, k)
         IN IF t.key[n] = k THEN n ELSE Nil

\* The nearest nodes: from where the search ends along the list until the key
\* is on the right side of k, then on while it stays there.
avl_find_lessequal(t, k) ==
    LET Stays(i) == t.key[t.list[i]] <= k
        back == {i \in 1..IndexIn(t, avl_find_rec(t, t.root, k)) : Stays(i)}
        on == {j \in Max(back)..Len(t.list) : \A i \in Max(back)..j : Stays(i)}
    IN IF t.root = Nil \/ back = {} THEN Nil ELSE t.list[Max(on)]

avl_find_greaterequal(t, k) ==
    LET Stays(i) == t.key[t.list[i]] >= k
        forth == {i \in IndexIn(t, avl_find_rec(t, t.root, k))..Len(t.list) : Stays(i)}
        on == {j \in 1..Min(forth) : \A i \in j..Min(forth) : Stays(i)}
    IN IF t.root = Nil \/ forth = {} THEN Nil ELSE t.list[Min(on)]

-----------------------------------------------------------------------------
(* Insertion                                                               *)

\* The subtree of n has grown by a level.
RECURSIVE post_insert(_, _)
post_insert(t, n) ==
    IF t.parent[n] = Nil THEN t
    ELSE LET p == t.parent[n]
             side == SideOf(t, n)
             b == t.balance[p] + Sign(side)
             u == [t EXCEPT !.balance[p] = b]
         IN CASE b = 0 -> u
              [] b = Sign(side) -> post_insert(u, p)
              [] OTHER ->
                   IF t.balance[n] = Sign(side)
                   THEN avl_rotate(u, p, Other(side))
                   ELSE LET v == avl_rotate(u, n, side)
                        IN avl_rotate(v, v.parent[v.parent[n]], Other(side))

RECURSIVE EndOfGroup(_, _)
EndOfGroup(t, n) ==
    IF list_is_last(t, n) \/ t.leader[avl_next(t, n)] THEN n
    ELSE EndOfGroup(t, avl_next(t, n))

Hang(t, p, side, n, b) ==
    [t EXCEPT !.child[side][p] = n, !.parent[n] = p, !.balance[p] = b]

\* [0 or -1, the tree]; n's links are those avl_remove leaves.
avl_insert(t0, n, k) ==
    LET t == [t0 EXCEPT !.key[n] = k, !.leader[n] = TRUE]
        node == avl_find_rec(t, t.root, k)
        last == EndOfGroup(t, node)
    IN CASE t.root = Nil ->
              <<0, [t EXCEPT !.list = <<n>>, !.root = n, !.count = 1]>>
         [] k = t.key[node] /\ ~t.allow_dups -> <<-1, t0>>
         [] k = t.key[node] /\ t.allow_dups ->
              <<0, avl_insert_after([t EXCEPT !.leader[n] = FALSE], last, n)>>
         [] t.balance[node] = 1 ->
              <<0, Hang(avl_insert_before(t, node, n), node, "left", n, 0)>>
         [] t.balance[node] = -1 ->
              <<0, Hang(avl_insert_after(t, last, n), node, "right", n, 0)>>
         [] t.balance[node] = 0 /\ k < t.key[node] ->
              <<0, post_insert(Hang(avl_insert_before(t, node, n), node, "left", n, -1), node)>>
         [] OTHER ->
              <<0, post_insert(Hang(avl_insert_after(t, last, n), node, "right", n, 1), node)>>

-----------------------------------------------------------------------------
(* Deletion                                                                *)

\* The subtree on that side of p has shrunk by a level: avl_post_delete, and
\* the copy of it that avl_delete_worker has for a leaf.
RECURSIVE Shrunk(_, _, _)
avl_post_delete(t, n) ==
    IF t.parent[n] = Nil THEN t ELSE Shrunk(t, t.parent[n], SideOf(t, n))

Shrunk(t, p, side) ==
    LET b == t.balance[p] - Sign(side)
        u == [t EXCEPT !.balance[p] = b]
        sibling == t.child[Other(side)][p]
    IN CASE b = 0 -> avl_post_delete(u, p)
         [] b = -Sign(side) -> u
         [] OTHER ->
              IF t.balance[sibling] = 0 THEN avl_rotate(u, p, side)
              ELSE LET v == IF t.balance[sibling] = -Sign(side) THEN u
                            ELSE avl_rotate(u, sibling, Other(side))
                       w == avl_rotate(v, p, side)
                   IN avl_post_delete(w, w.parent[p])

RECURSIVE avl_local_min(_, _)
avl_local_min(t, n) ==
    IF t.child["left"][n] = Nil THEN n ELSE avl_local_min(t, t.child["left"][n])

\* m stands where n stood, with n's children and balance.
TakeOver(t, n, m) ==
    LET u == [Replace(t, n, m) EXCEPT
                 !.balance[m] = t.balance[n], !.parent[m] = t.parent[n],
                 !.child = [s \in Side |-> [@[s] EXCEPT ![m] = t.child[s][n]]]]
    IN SetParent(SetParent(u, t.child["left"][n], m), t.child["right"][n], m)

RECURSIVE avl_delete_worker(_, _)
avl_delete_worker(t, n) ==
    LET p == t.parent[n]
        l == t.child["left"][n]
        r == t.child["right"][n]
        only == IF l = Nil THEN r ELSE l
    IN CASE l = Nil /\ r = Nil ->
              IF p = Nil THEN [t EXCEPT !.root = Nil]
              ELSE Shrunk(Replace(t, n, Nil), p, SideOf(t, n))
         [] l # Nil /\ r # Nil ->
              LET m == avl_local_min(t, r)
              IN TakeOver(avl_delete_worker(t, m), n, m)
         [] OTHER -> avl_post_delete(SetParent(Replace(t, n, only), only, p), only)

avl_delete(t, n) ==
    LET next == avl_next(t, n)
    IN avl_remove(
         CASE ~t.leader[n] -> t
           [] t.leader[n] /\ t.allow_dups /\ next # Nil /\ ~t.leader[next] ->
                TakeOver([t EXCEPT !.leader[next] = TRUE], n, next)
           [] OTHER -> avl_delete_worker(t, n), n)

-----------------------------------------------------------------------------
(* Loops                                                                   *)

\* avl_for_each_element_safe whose body deletes the nodes with a key below k
\* and breaks at the first other one, as check_no_responding_endpoints does.
RECURSIVE Sweep(_, _, _, _)
Sweep(t, element, ptr, k) ==
    IF avl_prev(t, element) = avl_prev(t, Nil) THEN t
    ELSE IF t.key[element] >= k THEN t
    ELSE LET u == avl_delete(t, element)
         IN Sweep(u, ptr, avl_next(u, ptr), k)

\* Mutant: the loop begins one node late.
EachButFirst(t, k) ==
    LET second == avl_next(t, avl_next(t, Nil))
    IN IF avl_next(t, second) = Nil THEN t ELSE Sweep(t, second, avl_next(t, second), k)

avl_for_each_element_safe(t, k) ==
    LET first == avl_next(t, Nil) IN Sweep(t, first, avl_next(t, first), k)

avl_remove_all_elements(t) == avl_init(t.allow_dups, Pointers)

-----------------------------------------------------------------------------
(* The operations of the users of a tree                                   *)

InTree == {tree.list[i] : i \in DOMAIN tree.list}

TreeInit == \E dups \in BOOLEAN : tree = avl_init(dups, Pointers)

\* kvlist_set_ex: the node of the new value is allocated first (or cannot be,
\* and the old value stays), then the old one is deleted and freed.
kvlist_delete(t, name) ==
    LET n == avl_find(t, name) IN IF n = Nil THEN t ELSE avl_delete(t, n)

kvlist_set(name, n) ==
    /\ ~tree.allow_dups
    /\ tree' = avl_insert(kvlist_delete(tree, name), n, name)[2]

KvlistDelete(name) ==
    /\ ~tree.allow_dups
    /\ tree' = kvlist_delete(tree, name)

\* make_endpoint_ready
Insert(n, k) ==
    /\ tree.allow_dups
    /\ tree' = avl_insert(tree, n, k)[2]

\* update_endpoint_living_time: the key is changed in place, then the node
\* is taken out and put back; avl_delete reads no key.
Touch(n, k) ==
    /\ tree.allow_dups /\ k # tree.key[n]
    /\ tree' = avl_insert(avl_delete([tree EXCEPT !.key[n] = k], n), n, k)[2]

Delete(n) ==
    /\ tree.allow_dups
    /\ tree' = avl_delete(tree, n)

SweepBelow(k) ==
    /\ tree.allow_dups /\ tree.list # <<>>
    /\ tree' = avl_for_each_element_safe(tree, k)

RemoveAll == tree' = avl_remove_all_elements(tree)

TreeNext ==
    \/ \E name \in Name : \E n \in AddressOf[name] \ InTree : kvlist_set(name, n)
    \/ \E name \in Name : KvlistDelete(name)
    \/ \E n \in Endpoint \ InTree, k \in Time : Insert(n, k)
    \/ \E n \in InTree, k \in Time : Touch(n, k)
    \/ \E n \in InTree : Delete(n)
    \/ \E k \in Time : SweepBelow(k)
    \/ RemoveAll

-----------------------------------------------------------------------------
(* Properties                                                              *)

RECURSIVE InOrder(_, _)
InOrder(t, n) ==
    IF n = Nil THEN <<>>
    ELSE InOrder(t, t.child["left"][n]) \o <<n>> \o InOrder(t, t.child["right"][n])

RECURSIVE Height(_, _)
Height(t, n) ==
    IF n = Nil THEN 0
    ELSE 1 + Max({Height(t, t.child[s][n]) : s \in Side})

\* The two structures agree: the tree holds exactly the first node of every
\* group of equal keys, in the order of the list; parents and children name
\* each other; the stored balances are the true ones, and none is beyond 1.
Shape ==
    LET leads(i) == i = 1 \/ tree.key[tree.list[i]] # tree.key[tree.list[i - 1]]
    IN /\ \A i \in DOMAIN tree.list : tree.leader[tree.list[i]] <=> leads(i)
       /\ InOrder(tree, tree.root) = SelectSeq(tree.list, LAMBDA n : tree.leader[n])
       /\ tree.count = Len(tree.list)
       /\ tree.root # Nil => tree.parent[tree.root] = Nil
       /\ \A n \in ToSet(InOrder(tree, tree.root)) :
            /\ \A s \in Side :
                 tree.child[s][n] # Nil => tree.parent[tree.child[s][n]] = n
            /\ tree.balance[n] \in -1..1
            /\ tree.balance[n] = Height(tree, tree.child["right"][n])
                                   - Height(tree, tree.child["left"][n])

\* The searches, which read the tree and the list, answer what the list holds:
\* the leader of a key's group, the last node not above a key, the first not
\* below it.
Searches ==
    \A k \in Name \cup Time :
        LET Nodes(P(_)) == {i \in DOMAIN tree.list : P(tree.key[tree.list[i]])}
            least(S) == IF S = {} THEN Nil ELSE tree.list[Min(S)]
            equal(x) == x = k
            atMost(x) == x <= k
            atLeast(x) == x >= k
        IN /\ avl_find(tree, k) = least(Nodes(equal))
           /\ avl_find_lessequal(tree, k) =
                IF Nodes(atMost) = {} THEN Nil ELSE tree.list[Max(Nodes(atMost))]
           /\ avl_find_greaterequal(tree, k) = least(Nodes(atLeast))

\* Whatever was inserted, deleted, rekeyed or swept, the tree stays a balanced
\* index of its list and the searches of avl.c answer by it.
TreeSound == Shape /\ Searches
=============================================================================
