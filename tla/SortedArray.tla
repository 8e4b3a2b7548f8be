----------------------------- MODULE SortedArray ----------------------------
(***************************************************************************)
(* The sorted array of lib/utils/sorted-array.c, which holds the handles   *)
(* of a session, the widgets and the element ids of a layouter and the     *)
(* descriptors the server selects on.  It is searched by halves and grows  *)
(* by SASZ_DEFAULT members when the allocator lets it.                     *)
(***************************************************************************)
EXTENDS Integers, SequencesExt

CONSTANTS
    SortValue,  \* numbers
    Data,       \* numbers
    SASZ_DEFAULT,
    MaxMembers  \* a bound

VARIABLE array

arrayVars == <<array>>

sorted_array_create(desc, dups, sz_init) ==
    [members |-> <<>>, desc |-> desc, dups |-> dups,
     sz_array |-> IF sz_init = 0 THEN SASZ_DEFAULT ELSE sz_init]

\* Whether sortv belongs before the member, in the order of the array.
Before(a, sortv, member) ==
    IF a.desc THEN sortv > member[1] ELSE sortv < member[1]

\* The search by halves, from 0: the range it ends with, low > high if the
\* value is not there; otherwise mid is where it is.
RECURSIVE Halves(_, _, _, _)
Halves(a, sortv, low, high) ==
    LET mid == (low + high) \div 2
        m == a.members[mid + 1]
    IN CASE low > high -> [found |-> FALSE, idx |-> low]
         [] low <= high /\ sortv = m[1] -> [found |-> TRUE, idx |-> mid]
         [] low <= high /\ Before(a, sortv, m) -> Halves(a, sortv, low, mid - 1)
         [] OTHER -> Halves(a, sortv, mid + 1, high)

Search(a, sortv) == Halves(a, sortv, 0, Len(a.members) - 1)

sorted_array_find(a, sortv) == Search(a, sortv).found

\* [0, -1 or -3, the array]; the members are moved up after the room is made.
sorted_array_add(a, sortv, data, memory) ==
    LET full == Len(a.members) + 1 >= a.sz_array
        at == Search(a, sortv).idx
    IN CASE ~a.dups /\ sorted_array_find(a, sortv) -> <<-1, a>>
         [] full /\ ~memory -> <<-3, a>>
         [] OTHER ->
              <<0, [a EXCEPT !.members = InsertAt(@, at + 1, <<sortv, data>>),
                             !.sz_array = IF full THEN @ + SASZ_DEFAULT ELSE @]>>

sorted_array_delete(a, idx) == [a EXCEPT !.members = RemoveAt(@, idx + 1)]

sorted_array_remove(a, sortv) ==
    IF sorted_array_find(a, sortv) THEN sorted_array_delete(a, Search(a, sortv).idx) ELSE a

-----------------------------------------------------------------------------
ArrayInit ==
    \E desc, dups \in BOOLEAN, sz \in {0, SASZ_DEFAULT + 1} :
        array = sorted_array_create(desc, dups, sz)

AddMember(sortv, data, memory) ==
    /\ Len(array.members) < MaxMembers
    /\ array' = sorted_array_add(array, sortv, data, memory)[2]

RemoveValue(sortv) == array' = sorted_array_remove(array, sortv)

DeleteAt(idx) == array' = sorted_array_delete(array, idx)

ArrayNext ==
    \/ \E sortv \in SortValue, data \in Data, memory \in BOOLEAN : AddMember(sortv, data, memory)
    \/ \E sortv \in SortValue : RemoveValue(sortv)
    \/ \E idx \in 0..Len(array.members) - 1 : DeleteAt(idx)

-----------------------------------------------------------------------------
(* Properties                                                              *)

\* The array never has more members than room, has no value twice unless it
\* was created for that, and its search by halves finds every value it holds
\* and no other.
ArraySound ==
    LET values == [i \in DOMAIN array.members |-> array.members[i][1]]
    IN /\ Len(array.members) <= array.sz_array
       /\ array.dups \/ IsInjective(values)
       /\ \A sortv \in SortValue :
            sorted_array_find(array, sortv) <=> sortv \in ToSet(values)
=============================================================================
