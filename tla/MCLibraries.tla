---------------------------- MODULE MCLibraries -----------------------------
(***************************************************************************)
(* The parts that the renderer is built from, side by side: a behaviour is *)
(* one of a kvlist or a tree of endpoints (AvlTree), of a sorted array     *)
(* (SortedArray), of a URI that is typed (Uris), or of the handler of the   *)
(* hvml scheme (Assets).  The other parts stay as they are.                *)
(***************************************************************************)
EXTENDS AvlTree, SortedArray, Assets

VARIABLES
    inUse,
    typedUri, typed         \* Uris

urisVars == <<typedUri, typed>>
mcVars == <<inUse, tree, array, urisVars, vars>>

-----------------------------------------------------------------------------
\* A kvlist with twelve names (in a tree of twelve a deletion can rotate at two
\* levels), of which one can be given a new value; a tree of endpoints with
\* equal times; a sorted array of any kind.
Names == 1..12
Addresses == [name \in Names |-> IF name = 6 THEN {2 * name - 1, 2 * name} ELSE {2 * name}]
Endpoints == 31..35
Times == 1..3
Values == 1..4

\* Paths of one letter, long enough for five parts; queries of two.
U == INSTANCE Uris WITH
    text <- typedUri, part <- typed,
    Letters <- {"a", "b"}, PathLetters <- {"a"}, MaxPath <- 9, MaxQuery <- 8

\* A client on a unix socket and two on web sockets, one of them of another
\* host; one URI for each way through the handler.
ClientSet == {[app |-> "a", runner |-> "r", type |-> "unix", host |-> "localhost"],
              [app |-> "b", runner |-> "r", type |-> "web", host |-> "far"],
              [app |-> "b", runner |-> "r", type |-> "web", host |-> "localhost"]}

Uri(host, app, runner, group, once) ==
    [valid |-> "yes", host |-> host, app |-> app, runner |-> runner, group |-> group,
     once |-> once, irId |-> FALSE]
Good == Uri("localhost", "a", "r", "g", FALSE)
UriSet == {[Good EXCEPT !.valid = "page"], [Good EXCEPT !.valid = "names"],
           Good, [Good EXCEPT !.irId = TRUE], Uri("other", "a", "r", "g", FALSE),
           Uri("localhost", "_renderer", "_builtin", "_null", FALSE),
           Uri("localhost", "_system", "r", "g", TRUE),
           Uri("localhost", "_self", "_self", "g", FALSE),
           Uri("originhost", "_self", "_http", "static", TRUE),
           Uri("originhost", "_self", "_http", "dynamic", FALSE),
           Uri("originhost", "_self", "_other", "dynamic", FALSE)}

ASSUME U!UrisAssumption

-----------------------------------------------------------------------------
TreeIdle == tree = avl_init(FALSE, Pointers)
ArrayIdle == array = sorted_array_create(FALSE, FALSE, 0)
UrisIdle == typedUri = <<>> /\ typed = Nil
AssetsIdle == Init /\ coverPage = FALSE /\ faults = {}

MCInit ==
    \/ inUse = "tree" /\ TreeInit /\ ArrayIdle /\ UrisIdle /\ AssetsIdle
    \/ inUse = "array" /\ ArrayInit /\ TreeIdle /\ UrisIdle /\ AssetsIdle
    \/ inUse = "uris" /\ U!Init /\ TreeIdle /\ ArrayIdle /\ AssetsIdle
    \/ /\ inUse = "assets" /\ Init /\ \A f, g \in faults : f = g
       /\ TreeIdle /\ ArrayIdle /\ UrisIdle

MCNext ==
    \/ inUse = "tree" /\ TreeNext /\ UNCHANGED <<inUse, array, urisVars, vars>>
    \/ inUse = "array" /\ ArrayNext /\ UNCHANGED <<inUse, tree, urisVars, vars>>
    \/ inUse = "uris" /\ U!Next /\ UNCHANGED <<inUse, tree, array, vars>>
    \/ inUse = "assets" /\ Next /\ UNCHANGED <<inUse, tree, array, urisVars>>

MCSpec == MCInit /\ [][MCNext]_mcVars

-----------------------------------------------------------------------------
\* The trees stay ordered and balanced with their lists in step (avl.c), an
\* array sorted and within its room (sorted_array.c); taking a URI apart undoes
\* putting it together, inside the memory reserved for it, and a key of a query
\* has its own value (hvml-uri.c, HbdrunURISchema.c).
PartsSound ==
    /\ TreeSound /\ ArraySound
    /\ inUse = "uris" => U!PathsSound /\ U!QueriesFound

\* A node of a kvlist is the item of its name, a node of a time-ordered tree is
\* the endpoint it is part of.
TreeAsBag == INSTANCE OrderedBag WITH
    bag <- [i \in DOMAIN tree.list |-> <<tree.key[tree.list[i]], tree.list[i]>>]

ArrayAsBag == INSTANCE OrderedBag WITH
    bag <- [i \in DOMAIN array.members |->
              <<IF array.desc THEN -array.members[i][1] ELSE array.members[i][1],
                array.members[i][2]>>]

\* Whatever is done to it, each container is the ordered container its users
\* take it for: no operation loses, duplicates or reorders another item.
ImplementBags == TreeAsBag!BagSpec /\ ArrayAsBag!BagSpec
=============================================================================
