----------------------------- MODULE OrderedBag -----------------------------
(***************************************************************************)
(* What an ordered container promises its users: a sequence of items with  *)
(* their keys, always in the order of the keys.  A step puts one item in,  *)
(* takes one out, does both (a new value for a name, a new time for an     *)
(* endpoint), or takes out the items below a key; the other items stay,    *)
(* in their order.                                                         *)
(***************************************************************************)
EXTENDS Integers, SequencesExt

VARIABLE bag    \* a sequence of <<key, item>>

InOrderOfKeys(s) == \A i, j \in DOMAIN s : i < j => s[i][1] <= s[j][1]

With(s, t) == \E i \in DOMAIN t : s = RemoveAt(t, i)

Put == With(bag, bag')
Take == With(bag', bag)
Move == \E i \in DOMAIN bag : With(RemoveAt(bag, i), bag')

TakeBelow == \E i \in DOMAIN bag : bag' = SubSeq(bag, i, Len(bag)) /\ (i = 1 \/ bag[i - 1][1] < bag[i][1])
TakeAll == bag' = <<>>

BagInit == bag = <<>>
BagNext == (Put \/ Take \/ Move \/ TakeBelow \/ TakeAll) /\ InOrderOfKeys(bag')
BagSpec == BagInit /\ [][BagNext]_bag
=============================================================================
