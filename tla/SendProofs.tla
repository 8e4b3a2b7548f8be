----------------------------- MODULE SendProofs ----------------------------
(***************************************************************************)
(* Proofs about the write sides of the Unix sockets (UnixSocketSend) and   *)
(* of the web sockets (WebSocket): both implement SendStream.              *)
(***************************************************************************)
EXTENDS UnixSocketSend, WebSocket, TLAPS, SequenceTheorems, WellFoundedInduction

-----------------------------------------------------------------------------
(***************************************************************************)
(* Induction over the numbers of a set, for what the recursive functions   *)
(* of the model compute.                                                   *)
(***************************************************************************)
LEMMA Least ==
    ASSUME NEW T \in SUBSET Nat, T # {}
    PROVE  \E n \in T : \A m \in T : n <= m
<1>1. IsWellFoundedOn(OpToRel(<, Nat), Nat)
  BY NatLessThanWellFounded
<1>2. \E x \in T : \A y \in T : <<y, x>> \notin OpToRel(<, Nat)
  BY <1>1, WFMin
<1>3. PICK n \in T : \A m \in T : <<m, n>> \notin OpToRel(<, Nat)
  BY <1>2
<1>4. ASSUME NEW m \in T PROVE n <= m
  <2>1. <<m, n>> \notin OpToRel(<, Nat)
    BY <1>3
  <2>2. ~(m < n)
    BY <2>1 DEF OpToRel
  <2> QED BY <2>2
<1> QED BY <1>3, <1>4

LEMMA Induction ==
    ASSUME NEW S, 0 \in S, \A n \in Nat : n \in S => n + 1 \in S
    PROVE  Nat \subseteq S
<1>1. SUFFICES ASSUME Nat \ S # {} PROVE FALSE
  OBVIOUS
<1>2. PICK n \in Nat \ S : \A m \in Nat \ S : n <= m
  BY <1>1, Least
<1>3. n # 0
  BY <1>2
<1>4. n - 1 \in Nat /\ n - 1 \in S
  BY <1>2, <1>3
<1>5. (n - 1) + 1 \in S
  BY <1>4
<1> QED BY <1>2, <1>5

\* A bounded set of numbers has a greatest one.
LEMMA Greatest ==
    ASSUME NEW T \in SUBSET Nat, T # {}, NEW k \in Nat, \A n \in T : n <= k
    PROVE  Max(T) \in T /\ \A n \in T : n <= Max(T)
<1> DEFINE Bounds == {b \in Nat : \A n \in T : n <= b}
<1>1. PICK b \in Bounds : \A c \in Bounds : b <= c
  BY Least
<1>2. b \in T
  <2>1. SUFFICES ASSUME b \notin T PROVE FALSE
    OBVIOUS
  <2>2. \A n \in T : n <= b - 1
    BY <1>1, <2>1
  <2>3. b \in Nat /\ b - 1 >= 0
    <3>1. PICK n \in T : TRUE
      OBVIOUS
    <3> QED BY <1>1, <2>2, <3>1
  <2>4. b - 1 \in Bounds
    BY <2>2, <2>3
  <2> QED BY <1>1, <2>3, <2>4
<1>3. \A n \in T : b >= n
  BY <1>1
<1>4. Max(T) \in T /\ \A n \in T : Max(T) >= n
  BY <1>2, <1>3 DEF Max
<1> QED BY <1>4

-----------------------------------------------------------------------------
(***************************************************************************)
(* Concatenation of sequences.                                             *)
(***************************************************************************)
\* The recursive function that FlattenSeq chooses exists.
LEMMA FlattenFunction ==
    ASSUME NEW S, NEW ss \in Seq(Seq(S)), Len(ss) # 0
    PROVE  \E f : /\ f = [i \in 1..Len(ss) |-> IF i = 1 THEN ss[i] ELSE f[i - 1] \o ss[i]]
                  /\ FlattenSeq(ss) = f[Len(ss)]
<1> DEFINE Is(f, n) == f = [i \in 1..n |-> IF i = 1 THEN ss[i] ELSE f[i - 1] \o ss[i]]
           T == {n \in Nat : \E f : Is(f, n)}
<1>1. 0 \in T
  <2>1. Is([i \in 1..0 |-> <<>>], 0)
    OBVIOUS
  <2> QED BY <2>1
<1>2. ASSUME NEW n \in Nat, n \in T PROVE n + 1 \in T
  <2>1. PICK f : Is(f, n)
    BY <1>2
  <2> DEFINE g == [i \in 1..(n + 1) |-> IF i = 1 THEN ss[i] ELSE f[i - 1] \o ss[i]]
  <2>2. ASSUME NEW i \in 1..n PROVE g[i] = f[i]
    <3>1. i \in 1..(n + 1)
      BY <2>2
    <3>2. f[i] = IF i = 1 THEN ss[i] ELSE f[i - 1] \o ss[i]
      BY <2>1
    <3> QED BY <3>1, <3>2
  <2>3. ASSUME NEW i \in 1..(n + 1)
        PROVE  g[i] = IF i = 1 THEN ss[i] ELSE g[i - 1] \o ss[i]
    <3>1. i # 1 => i - 1 \in 1..n
      BY <2>3
    <3> QED BY <2>2, <2>3, <3>1
  <2>4. g = [i \in 1..(n + 1) |-> g[i]]
    OBVIOUS
  <2> HIDE DEF g
  <2>5. Is(g, n + 1)
    BY <2>3, <2>4
  <2> HIDE DEF Is
  <2> QED BY <2>5
<1> HIDE DEF Is
<1>3. Nat \subseteq T
  BY <1>1, <1>2, Induction
<1>4. Len(ss) \in Nat
  BY LenProperties
<1>5. \E f : Is(f, Len(ss))
  <2>1. Len(ss) \in T
    <3> HIDE DEF T
    <3> QED BY <1>3, <1>4
  <2> QED BY <2>1, Zenon
<1> USE DEF Is
<1> DEFINE f == CHOOSE f : Is(f, Len(ss))
<1>6. Is(f, Len(ss))
  BY <1>5
<1>7. FlattenSeq(ss) = f[Len(ss)]
  BY DEF FlattenSeq
<1> QED BY <1>6, <1>7

\* FlattenSeq concatenates, one more sequence behind the others.
LEMMA FlattenFacts ==
    ASSUME NEW S
    PROVE  /\ FlattenSeq(<<>>) = <<>>
           /\ \A ss \in Seq(Seq(S)) : FlattenSeq(ss) \in Seq(S)
           /\ \A ss \in Seq(Seq(S)), s \in Seq(S) :
                FlattenSeq(Append(ss, s)) = FlattenSeq(ss) \o s
<1>1. FlattenSeq(<<>>) = <<>>
  BY DEF FlattenSeq
<1>2. ASSUME NEW ss \in Seq(Seq(S)), Len(ss) # 0,
             NEW f, f = [i \in 1..Len(ss) |-> IF i = 1 THEN ss[i] ELSE f[i - 1] \o ss[i]]
      PROVE  f \in Seq(Seq(S)) /\ Len(f) = Len(ss)
  <2> DEFINE T == {n \in Nat : n + 1 <= Len(ss) => f[n + 1] \in Seq(S)}
  <2>1. Len(ss) \in Nat
    BY LenProperties
  <2>2. \A i \in 1..Len(ss) : ss[i] \in Seq(S)
    BY ElementOfSeq
  <2>3. \A i \in 1..Len(ss) : f[i] = IF i = 1 THEN ss[i] ELSE f[i - 1] \o ss[i]
    BY <1>2
  <2>4. 0 \in T
    BY <2>1, <2>2, <2>3
  <2>5. ASSUME NEW n \in Nat, n \in T PROVE n + 1 \in T
    <3>1. SUFFICES ASSUME n + 2 <= Len(ss) PROVE f[n + 2] \in Seq(S)
      OBVIOUS
    <3>2. n + 2 \in 1..Len(ss) /\ n + 2 # 1 /\ n + 1 <= Len(ss) /\ (n + 2) - 1 = n + 1
      BY <2>1, <3>1
    <3>3. f[n + 2] = f[n + 1] \o ss[n + 2]
      BY <2>3, <3>2
    <3>4. f[n + 1] \in Seq(S) /\ ss[n + 2] \in Seq(S)
      BY <2>2, <2>5, <3>2
    <3> QED BY <3>3, <3>4, ConcatProperties
  <2>6. Nat \subseteq T
    <3> HIDE DEF T
    <3> QED BY <2>4, <2>5, Induction
  <2>7. ASSUME NEW i \in 1..Len(ss) PROVE f[i] \in Seq(S)
    <3>1. i - 1 \in Nat /\ (i - 1) + 1 = i /\ i <= Len(ss)
      BY <2>1
    <3>2. i - 1 \in T
      BY <2>6, <3>1, Zenon
    <3> QED BY <3>1, <3>2
  <2>8. f = [i \in 1..Len(ss) |-> f[i]]
    BY <1>2
  <2>9. f \in [1..Len(ss) -> Seq(S)]
    BY <2>7, <2>8
  <2> QED BY <2>1, <2>9
<1>3. ASSUME NEW ss \in Seq(Seq(S)) PROVE FlattenSeq(ss) \in Seq(S)
  <2>1. CASE Len(ss) = 0
    BY <2>1 DEF FlattenSeq
  <2>2. CASE Len(ss) # 0
    <3>1. PICK f : /\ f = [i \in 1..Len(ss) |-> IF i = 1 THEN ss[i] ELSE f[i - 1] \o ss[i]]
                   /\ FlattenSeq(ss) = f[Len(ss)]
      BY <2>2, FlattenFunction
    <3>2. f \in Seq(Seq(S)) /\ Len(f) = Len(ss) /\ Len(ss) \in Nat
      BY <1>2, <2>2, <3>1, LenProperties
    <3>3. Len(ss) \in 1..Len(f)
      BY <2>2, <3>2
    <3>4. f[Len(ss)] \in Seq(S)
      BY <3>2, <3>3, ElementOfSeq
    <3> QED BY <3>1, <3>4
  <2> QED BY <2>1, <2>2
<1>4. ASSUME NEW ss \in Seq(Seq(S)), NEW s \in Seq(S)
      PROVE  FlattenSeq(Append(ss, s)) = FlattenSeq(ss) \o s
  <2> DEFINE tt == Append(ss, s)
             n == Len(ss)
  <2>1. /\ tt \in Seq(Seq(S)) /\ Len(tt) = n + 1 /\ n \in Nat
        /\ \A i \in 1..n : tt[i] = ss[i]
        /\ tt[n + 1] = s
    BY AppendProperties, LenProperties
  <2>2. PICK g : /\ g = [i \in 1..Len(tt) |-> IF i = 1 THEN tt[i] ELSE g[i - 1] \o tt[i]]
                 /\ FlattenSeq(tt) = g[Len(tt)]
    <3>1. Len(tt) # 0
      BY <2>1
    <3> HIDE DEF tt
    <3> QED BY <2>1, <3>1, FlattenFunction
  <2> HIDE DEF tt
  <2>3. CASE n = 0
    <3>1. g[1] = s
      BY <2>1, <2>2, <2>3
    <3>2. ss = <<>>
      <4>1. Len(ss) = 0 /\ ss \in Seq(Seq(S))
        BY <2>3
      <4> QED BY <4>1, EmptySeq
    <3> QED BY <1>1, <2>1, <2>2, <2>3, <3>1, <3>2, ConcatEmptySeq DEF tt
  <2>4. CASE n # 0
    <3>1. PICK f : /\ f = [i \in 1..n |-> IF i = 1 THEN ss[i] ELSE f[i - 1] \o ss[i]]
                   /\ FlattenSeq(ss) = f[n]
      BY <2>4, FlattenFunction
    <3> DEFINE T == {k \in Nat : k + 1 <= n => g[k + 1] = f[k + 1]}
    <3> HIDE DEF n
    <3>2. \A i \in 1..n : f[i] = IF i = 1 THEN ss[i] ELSE f[i - 1] \o ss[i]
      BY <3>1
    <3>3. \A i \in 1..(n + 1) : g[i] = IF i = 1 THEN tt[i] ELSE g[i - 1] \o tt[i]
      BY <2>1, <2>2
    <3>4. 0 \in T
      BY <2>1, <2>4, <3>2, <3>3
    <3>5. ASSUME NEW k \in Nat, k \in T PROVE k + 1 \in T
      <4>1. SUFFICES ASSUME k + 2 <= n PROVE g[k + 2] = f[k + 2]
        OBVIOUS
      <4>2. /\ k + 2 \in 1..n /\ k + 2 \in 1..(n + 1) /\ k + 2 # 1 /\ k + 1 <= n
            /\ (k + 2) - 1 = k + 1
        BY <2>1, <4>1
      <4>3. f[k + 2] = f[k + 1] \o ss[k + 2]
        BY <3>2, <4>2
      <4>4. g[k + 2] = g[k + 1] \o tt[k + 2]
        BY <3>3, <4>2
      <4> QED BY <2>1, <3>5, <4>2, <4>3, <4>4
    <3>6. Nat \subseteq T
      <4> HIDE DEF T
      <4> QED BY <3>4, <3>5, Induction
    <3>7. g[n] = f[n]
      <4>1. n - 1 \in Nat /\ (n - 1) + 1 = n /\ n <= n
        BY <2>1, <2>4
      <4>2. n - 1 \in T
        BY <3>6, <4>1, Zenon
      <4> QED BY <4>1, <4>2
    <3>8. g[n + 1] = g[n] \o s
      <4>1. n + 1 \in 1..(n + 1) /\ n + 1 # 1 /\ (n + 1) - 1 = n
        BY <2>1, <2>4
      <4> QED BY <2>1, <3>3, <4>1
    <3> QED BY <2>1, <2>2, <3>1, <3>7, <3>8 DEF tt
  <2> QED BY <2>3, <2>4
<1> QED BY <1>1, <1>3, <1>4

LEMMA FlattenOne ==
    ASSUME NEW S, NEW s \in Seq(S)
    PROVE  FlattenSeq(<<s>>) = s
<1>1. Append(<<>>, s) = <<s>> /\ <<>> \in Seq(Seq(S))
  BY EmptySeq
<1>2. FlattenSeq(Append(<<>>, s)) = FlattenSeq(<<>>) \o s
  BY <1>1, FlattenFacts
<1>3. FlattenSeq(<<>>) = <<>> /\ <<>> \o s = s
  BY FlattenFacts, ConcatEmptySeq
<1> QED BY <1>1, <1>2, <1>3

LEMMA FlattenConcat ==
    ASSUME NEW S, NEW ss \in Seq(Seq(S)), NEW tt \in Seq(Seq(S))
    PROVE  FlattenSeq(ss \o tt) = FlattenSeq(ss) \o FlattenSeq(tt)
<1> DEFINE Upto(n) == SubSeq(tt, 1, n)
           T == {n \in Nat : n <= Len(tt) =>
                    FlattenSeq(ss \o Upto(n)) = FlattenSeq(ss) \o FlattenSeq(Upto(n))}
<1>1. Len(tt) \in Nat
  BY LenProperties
<1>2. FlattenSeq(<<>>) = <<>> /\ \A uu \in Seq(Seq(S)) : FlattenSeq(uu) \in Seq(S)
  BY FlattenFacts
<1>3. 0 \in T
  <2>1. Upto(0) = <<>>
    BY SubSeqEmpty
  <2>2. ss \o <<>> = ss /\ FlattenSeq(ss) \o <<>> = FlattenSeq(ss)
    BY <1>2, ConcatEmptySeq
  <2> QED BY <1>2, <2>1, <2>2
<1>4. ASSUME NEW n \in Nat, n \in T PROVE n + 1 \in T
  <2>1. SUFFICES ASSUME n + 1 <= Len(tt)
        PROVE  FlattenSeq(ss \o Upto(n + 1)) = FlattenSeq(ss) \o FlattenSeq(Upto(n + 1))
    OBVIOUS
  <2>2. n + 1 \in 1..Len(tt) /\ 1 \in 1..Len(tt) /\ n + 1 \in 1..Len(tt) /\ n <= Len(tt)
    BY <1>1, <2>1
  <2> DEFINE u == Upto(n)
             s == tt[n + 1]
  <2>3. s \in Seq(S)
    BY <2>2, ElementOfSeq
  <2>4. u \in Seq(Seq(S))
    <3>1. \A i \in 1..n : tt[i] \in Seq(S)
      BY <1>1, <2>1, ElementOfSeq
    <3> QED BY <3>1, SubSeqProperties
  <2>5. Upto(n + 1) = u \o <<s>>
    <3>1. n + 1 \in 1..Len(tt) /\ (n + 1) - 1 = n
      BY <2>2
    <3>2. SubSeq(tt, 1, n + 1) = SubSeq(tt, 1, (n + 1) - 1) \o <<tt[n + 1]>>
      BY <2>2, <3>1, SubSeqRecursiveSecond
    <3> QED BY <3>1, <3>2
  <2>6. FlattenSeq(ss \o u) = FlattenSeq(ss) \o FlattenSeq(u)
    BY <1>4, <2>2
  <2> HIDE DEF u, s, Upto
  <2>7. Append(u, s) = u \o <<s>> /\ <<s>> \in Seq(Seq(S))
    BY <2>3, <2>4, AppendIsConcat
  <2>8. ss \o Upto(n + 1) = Append(ss \o u, s)
    <3>1. ss \o u \in Seq(Seq(S))
      BY <2>4, ConcatProperties
    <3>2. Append(ss \o u, s) = (ss \o u) \o <<s>>
      BY <2>3, <3>1, AppendIsConcat
    <3>3. (ss \o u) \o <<s>> = ss \o (u \o <<s>>)
      BY <2>4, <2>7, ConcatAssociative
    <3> QED BY <2>5, <3>2, <3>3
  <2>9. FlattenSeq(Append(ss \o u, s)) = FlattenSeq(ss \o u) \o s
    <3>1. ss \o u \in Seq(Seq(S))
      BY <2>4, ConcatProperties
    <3> QED BY <2>3, <3>1, FlattenFacts
  <2>10. FlattenSeq(Upto(n + 1)) = FlattenSeq(u) \o s
    BY <2>3, <2>4, <2>5, <2>7, FlattenFacts
  <2>11. (FlattenSeq(ss) \o FlattenSeq(u)) \o s = FlattenSeq(ss) \o (FlattenSeq(u) \o s)
    <3>1. FlattenSeq(ss) \in Seq(S) /\ FlattenSeq(u) \in Seq(S)
      BY <1>2, <2>4
    <3> QED BY <2>3, <3>1, ConcatAssociative
  <2> QED BY <2>6, <2>8, <2>9, <2>10, <2>11
<1>5. Nat \subseteq T
  <2> HIDE DEF T
  <2> QED BY <1>3, <1>4, Induction
<1>6. Len(tt) \in T
  BY <1>1, <1>5, Zenon
<1>7. Upto(Len(tt)) = tt
  BY SubSeqFull
<1> HIDE DEF Upto
<1>8. FlattenSeq(ss \o Upto(Len(tt))) = FlattenSeq(ss) \o FlattenSeq(Upto(Len(tt)))
  BY <1>1, <1>6
<1> QED BY <1>7, <1>8

\* A pair <<call, k>>; the byte before the buffer has k = 0.
UByte == Nat \X Nat

IsConcat(w, s, t) == w = s \o t

\* The sequence of the values of g.
Mapped(g, s) == [i \in 1..Len(s) |-> g[s[i]]]

LEMMA MappedValues ==
    ASSUME NEW S, NEW g, NEW s \in Seq(S)
    PROVE  /\ Len(Mapped(g, s)) = Len(s) /\ Len(s) \in Nat
           /\ \A i \in 1..Len(s) : s[i] \in S /\ Mapped(g, s)[i] = g[s[i]]
<1>1. Len(s) \in Nat /\ \A i \in 1..Len(s) : s[i] \in S
  BY LenProperties, ElementOfSeq
<1> QED BY <1>1 DEF Mapped

LEMMA MappedType ==
    ASSUME NEW S, NEW R, NEW g, \A x \in S : g[x] \in R, NEW s \in Seq(S)
    PROVE  Mapped(g, s) \in Seq(R)
<1>1. Len(s) \in Nat /\ \A i \in 1..Len(s) : s[i] \in S
  BY LenProperties, ElementOfSeq
<1>2. Mapped(g, s) \in [1..Len(s) -> R]
  BY <1>1 DEF Mapped
<1> QED BY <1>1, <1>2

LEMMA MappedConcat ==
    ASSUME NEW S, NEW g, NEW s \in Seq(S), NEW t \in Seq(S)
    PROVE  IsConcat(Mapped(g, s \o t), Mapped(g, s), Mapped(g, t))
<1>1. /\ s \o t \in Seq(S) /\ Len(s \o t) = Len(s) + Len(t)
      /\ \A i \in 1..(Len(s) + Len(t)) : (s \o t)[i] = IF i <= Len(s) THEN s[i] ELSE t[i - Len(s)]
  BY ConcatProperties
<1> DEFINE R == {g[x] : x \in S}
           a == Mapped(g, s)
           b == Mapped(g, t)
           c == Mapped(g, s \o t)
<1>0. \A x \in S : g[x] \in R
  OBVIOUS
<1> HIDE DEF R
<1>2. a \in Seq(R) /\ b \in Seq(R) /\ c \in Seq(R)
  BY <1>0, <1>1, MappedType
<1>3. Len(a) = Len(s) /\ Len(b) = Len(t) /\ Len(c) = Len(s) + Len(t) /\ Len(s) \in Nat /\ Len(t) \in Nat
  BY <1>1, MappedValues
<1>4. /\ a \o b \in Seq(R) /\ Len(a \o b) = Len(a) + Len(b)
      /\ \A i \in 1..(Len(a) + Len(b)) : (a \o b)[i] = IF i <= Len(a) THEN a[i] ELSE b[i - Len(a)]
  <2> HIDE DEF a, b
  <2> QED BY <1>2, ConcatProperties
<1>5. ASSUME NEW i \in 1..(Len(s) + Len(t)) PROVE c[i] = (a \o b)[i]
  <2>1. c[i] = g[(s \o t)[i]]
    <3>1. i \in 1..Len(s \o t)
      BY <1>1
    <3>2. \A w \in Seq(S) : \A j \in 1..Len(w) : Mapped(g, w)[j] = g[w[j]]
      BY MappedValues
    <3> QED BY <1>1, <3>1, <3>2
  <2>2. CASE i <= Len(s)
    <3>1. i \in 1..Len(s)
      BY <1>3, <2>2
    <3>2. a[i] = g[s[i]]
      BY <3>1, MappedValues
    <3> HIDE DEF a, b, c
    <3> QED BY <1>1, <1>3, <1>4, <2>1, <2>2, <3>2
  <2>3. CASE i > Len(s)
    <3>1. i - Len(s) \in 1..Len(t) /\ ~(i <= Len(s))
      BY <1>3, <2>3
    <3>2. b[i - Len(s)] = g[t[i - Len(s)]]
      BY <3>1, MappedValues
    <3> HIDE DEF a, b, c
    <3> QED BY <1>1, <1>3, <1>4, <2>1, <3>1, <3>2
  <2> QED BY <1>3, <2>2, <2>3
<1> HIDE DEF a, b, c
<1>6. c = a \o b
  BY <1>2, <1>3, <1>4, <1>5, SeqEqual
<1> QED BY <1>6 DEF a, b, c, IsConcat

LEMMA FlattenMapped ==
    ASSUME NEW S, NEW g, \A x \in S : g[x] \in Seq(UByte)
    PROVE  /\ FlattenSeq(Mapped(g, <<>>)) = <<>>
           /\ \A s \in Seq(S) : FlattenSeq(Mapped(g, s)) \in Seq(UByte)
           /\ \A s \in Seq(S), t \in Seq(S) :
                IsConcat(FlattenSeq(Mapped(g, s \o t)), FlattenSeq(Mapped(g, s)), FlattenSeq(Mapped(g, t)))
           /\ \A x \in S : FlattenSeq(Mapped(g, <<x>>)) = g[x]
<1>1. /\ Mapped(g, <<>>) = <<>>
      /\ \A s \in Seq(S) : Mapped(g, s) \in Seq(Seq(UByte))
      /\ \A x \in S : Mapped(g, <<x>>) = <<g[x]>>
  BY MappedType DEF Mapped
<1>2. FlattenSeq(<<>>) = <<>> /\ \A ss \in Seq(Seq(UByte)) : FlattenSeq(ss) \in Seq(UByte)
  BY FlattenFacts
<1>3. ASSUME NEW s \in Seq(S), NEW t \in Seq(S)
      PROVE  IsConcat(FlattenSeq(Mapped(g, s \o t)), FlattenSeq(Mapped(g, s)), FlattenSeq(Mapped(g, t)))
  <2>1. IsConcat(Mapped(g, s \o t), Mapped(g, s), Mapped(g, t))
    BY MappedConcat
  <2>2. FlattenSeq(Mapped(g, s) \o Mapped(g, t)) = FlattenSeq(Mapped(g, s)) \o FlattenSeq(Mapped(g, t))
    BY <1>1, FlattenConcat
  <2> QED BY <2>1, <2>2 DEF IsConcat
<1>4. ASSUME NEW x \in S PROVE FlattenSeq(Mapped(g, <<x>>)) = g[x]
  BY <1>1, FlattenOne
<1> QED BY <1>1, <1>2, <1>3, <1>4

-----------------------------------------------------------------------------
(***************************************************************************)
(* The bytes of buffers.                                                   *)
(***************************************************************************)

LEMMA BytesFacts ==
    ASSUME NEW call \in Nat, NEW from \in Nat, NEW to \in Nat, from <= to + 1
    PROVE  /\ Bytes(call, from, to) \in Seq(UByte)
           /\ Len(Bytes(call, from, to)) = to - from + 1
           /\ \A i \in 1..(to - from + 1) : Bytes(call, from, to)[i] = <<call, from + i - 1>>
<1>1. to - from + 1 \in Nat
  OBVIOUS
<1>2. Bytes(call, from, to) \in [1..(to - from + 1) -> UByte]
  BY DEF Bytes, UByte
<1> QED BY <1>1, <1>2 DEF Bytes

AreBytes(bytes, call, from, to) ==
    /\ bytes \in Seq(UByte) /\ Len(bytes) = to - from + 1
    /\ \A i \in 1..(to - from + 1) : bytes[i] = <<call, from + i - 1>>

LEMMA BytesAre ==
    \A call, from, to \in Nat : from <= to + 1 => AreBytes(Bytes(call, from, to), call, from, to)
BY BytesFacts DEF AreBytes

LEMMA BytesConcat ==
    ASSUME NEW call \in Nat, NEW from \in Nat, NEW k \in Nat, NEW to \in Nat,
           NEW next \in Nat, next = k + 1, from <= next, k <= to
    PROVE  IsConcat(Bytes(call, from, to), Bytes(call, from, k), Bytes(call, next, to))
<1> DEFINE a == Bytes(call, from, k)
           b == Bytes(call, next, to)
           c == Bytes(call, from, to)
<1>0. next <= to + 1 /\ from <= to + 1 /\ from <= k + 1
  OBVIOUS
<1>a. AreBytes(a, call, from, k) /\ AreBytes(b, call, next, to) /\ AreBytes(c, call, from, to)
  BY <1>0, BytesAre
<1> HIDE DEF a, b, c
<1>1. /\ a \in Seq(UByte) /\ Len(a) = k - from + 1
      /\ \A i \in 1..(k - from + 1) : a[i] = <<call, from + i - 1>>
  BY <1>a DEF AreBytes
<1>2. /\ b \in Seq(UByte) /\ Len(b) = to - next + 1
      /\ \A i \in 1..(to - next + 1) : b[i] = <<call, next + i - 1>>
  BY <1>a DEF AreBytes
<1>3. /\ c \in Seq(UByte) /\ Len(c) = to - from + 1
      /\ \A i \in 1..(to - from + 1) : c[i] = <<call, from + i - 1>>
  BY <1>a DEF AreBytes
<1>4. /\ a \o b \in Seq(UByte) /\ Len(a \o b) = Len(a) + Len(b)
      /\ \A i \in 1..(Len(a) + Len(b)) : (a \o b)[i] = IF i <= Len(a) THEN a[i] ELSE b[i - Len(a)]
  BY <1>1, <1>2, ConcatProperties
<1>5. Len(a \o b) = Len(c)
  BY <1>1, <1>2, <1>3, <1>4
<1>6. ASSUME NEW i \in 1..Len(c) PROVE (a \o b)[i] = c[i]
  <2>1. c[i] = <<call, from + i - 1>> /\ i \in 1..(Len(a) + Len(b)) /\ Len(a) \in Nat
    BY <1>1, <1>2, <1>3
  <2>2. CASE i <= Len(a)
    BY <1>1, <1>4, <2>1, <2>2
  <2>3. CASE i > Len(a)
    <3>1. i - Len(a) \in 1..(to - next + 1) /\ next + (i - Len(a)) - 1 = from + i - 1
      BY <1>1, <1>2, <1>3, <2>1, <2>3
    <3>2. b[i - Len(a)] = <<call, next + (i - Len(a)) - 1>>
      BY <1>2, <3>1
    <3> QED BY <1>1, <1>4, <2>1, <2>3, <3>1, <3>2
  <2> QED BY <2>1, <2>2, <2>3
<1>7. a \o b = c
  BY <1>3, <1>4, <1>5, <1>6, SeqEqual
<1> QED BY <1>7 DEF a, b, c, IsConcat


\* The bytes of buffers among some bytes.
LEMMA OfBuffersFacts ==
    /\ OfBuffers(<<>>) = <<>>
    /\ \A s \in Seq(UByte) : OfBuffers(s) \in Seq(UByte)
    /\ \A s \in Seq(UByte), t \in Seq(UByte) : IsConcat(OfBuffers(s \o t), OfBuffers(s), OfBuffers(t))
    /\ \A b \in UByte : OfBuffers(<<b>>) = IF b[2] > 0 THEN <<b>> ELSE <<>>
<1> DEFINE g == [b \in UByte |-> IF b[2] > 0 THEN <<b>> ELSE <<>>]
<1>1. g \in [UByte -> Seq(UByte)]
  OBVIOUS
<1>2. ASSUME NEW s \in Seq(UByte) PROVE OfBuffers(s) = FlattenSeq(Mapped(g, s))
  <2>1. \A i \in 1..Len(s) : s[i] \in UByte
    BY ElementOfSeq
  <2>2. Mapped(g, s) = [i \in 1..Len(s) |-> IF s[i][2] > 0 THEN <<s[i]>> ELSE <<>>]
    BY <2>1 DEF Mapped
  <2> QED BY <2>2 DEF OfBuffers
<1>3. <<>> \in Seq(UByte) /\ \A b \in UByte : <<b>> \in Seq(UByte)
  OBVIOUS
<1>4. \A b \in UByte : g[b] = IF b[2] > 0 THEN <<b>> ELSE <<>>
  OBVIOUS
<1> HIDE DEF g
<1>5. OfBuffers(<<>>) = <<>>
  BY <1>1, <1>2, <1>3, FlattenMapped
<1>6. ASSUME NEW s \in Seq(UByte) PROVE OfBuffers(s) \in Seq(UByte)
  <2>1. FlattenSeq(Mapped(g, s)) \in Seq(UByte)
    BY <1>1, FlattenMapped
  <2> QED BY <1>2, <2>1
<1>7. ASSUME NEW s \in Seq(UByte), NEW t \in Seq(UByte)
      PROVE  IsConcat(OfBuffers(s \o t), OfBuffers(s), OfBuffers(t))
  <2>1. s \o t \in Seq(UByte)
    BY ConcatProperties
  <2>2. IsConcat(FlattenSeq(Mapped(g, s \o t)), FlattenSeq(Mapped(g, s)), FlattenSeq(Mapped(g, t)))
    BY <1>1, FlattenMapped
  <2> QED BY <1>2, <2>1, <2>2 DEF IsConcat
<1>8. ASSUME NEW b \in UByte PROVE OfBuffers(<<b>>) = IF b[2] > 0 THEN <<b>> ELSE <<>>
  <2>1. FlattenSeq(Mapped(g, <<b>>)) = g[b]
    BY <1>1, FlattenMapped
  <2> QED BY <1>2, <1>3, <1>4, <2>1
<1> QED BY <1>5, <1>6, <1>7, <1>8

LEMMA OfBuffersOfBytes ==
    ASSUME NEW call \in Nat, NEW from \in Nat \ {0}, NEW to \in Nat, from <= to + 1
    PROVE  OfBuffers(Bytes(call, from, to)) = Bytes(call, from, to)
<1> DEFINE Upto(n) == Bytes(call, from, from + n - 1)
           T == {n \in Nat : OfBuffers(Upto(n)) = Upto(n)}
<1>1. 0 \in T
  <2>1. Bytes(call, from, from - 1) = <<>>
    <3>1. (from - 1) - from + 1 = 0
      OBVIOUS
    <3>2. Bytes(call, from, from - 1) = [i \in 1..0 |-> <<call, from + i - 1>>]
      BY <3>1 DEF Bytes
    <3> QED BY <3>2
  <2>2. from + 0 - 1 = from - 1
    OBVIOUS
  <2> QED BY <2>1, <2>2, OfBuffersFacts
<1>2. ASSUME NEW n \in Nat, n \in T PROVE n + 1 \in T
  <2> DEFINE k == from + n - 1
  <2>1. k \in Nat /\ k + 1 \in Nat /\ from <= k + 1 /\ k <= k + 1 /\ from + (n + 1) - 1 = k + 1
        /\ k + 1 > 0 /\ (k + 1) - (k + 1) + 1 = 1
    OBVIOUS
  <2>2. OfBuffers(Bytes(call, from, k)) = Bytes(call, from, k)
    BY <1>2
  <2> HIDE DEF k
  <2>3. Bytes(call, from, k) \o Bytes(call, k + 1, k + 1) = Bytes(call, from, k + 1)
    <3>1. IsConcat(Bytes(call, from, k + 1), Bytes(call, from, k), Bytes(call, k + 1, k + 1))
      BY <2>1, BytesConcat
    <3> QED BY <3>1 DEF IsConcat
  <2>4. Bytes(call, k + 1, k + 1) = <<<<call, k + 1>>>>
    <3>1. Bytes(call, k + 1, k + 1) = [i \in 1..1 |-> <<call, (k + 1) + i - 1>>]
      BY <2>1 DEF Bytes
    <3>2. (k + 1) + 1 - 1 = k + 1
      BY <2>1
    <3> QED BY <3>1, <3>2
  <2>5. <<call, k + 1>> \in UByte /\ <<call, k + 1>>[2] > 0
    BY <2>1 DEF UByte
  <2>6. OfBuffers(Bytes(call, k + 1, k + 1)) = Bytes(call, k + 1, k + 1)
    BY <2>4, <2>5, OfBuffersFacts
  <2>7. Bytes(call, from, k) \in Seq(UByte) /\ Bytes(call, k + 1, k + 1) \in Seq(UByte)
    BY <2>1, BytesFacts
  <2>8. OfBuffers(Bytes(call, from, k) \o Bytes(call, k + 1, k + 1))
          = OfBuffers(Bytes(call, from, k)) \o OfBuffers(Bytes(call, k + 1, k + 1))
    BY <2>7, OfBuffersFacts DEF IsConcat
  <2>9. OfBuffers(Bytes(call, from, k + 1)) = Bytes(call, from, k + 1)
    BY <2>2, <2>3, <2>6, <2>8
  <2> QED BY <2>1, <2>9
<1>3. Nat \subseteq T
  <2> HIDE DEF T
  <2> QED BY <1>1, <1>2, Induction
<1>4. to - from + 1 \in Nat /\ from + (to - from + 1) - 1 = to
  OBVIOUS
<1>5. to - from + 1 \in T
  BY <1>3, <1>4, Zenon
<1>6. OfBuffers(Upto(to - from + 1)) = Upto(to - from + 1)
  BY <1>5, Zenon
<1> QED BY <1>4, <1>6

\* Of a node: the byte before the buffer is left out.
LEMMA OfBuffersOfNode ==
    ASSUME NEW call \in Nat, NEW from \in Nat, NEW to \in Nat \ {0}, from <= to
    PROVE  OfBuffers(Bytes(call, from, to)) = Bytes(call, IF from = 0 THEN 1 ELSE from, to)
<1>1. CASE from = 0
  <2>1. Bytes(call, 0, 0) \o Bytes(call, 1, to) = Bytes(call, 0, to)
    <3>1. IsConcat(Bytes(call, 0, to), Bytes(call, 0, 0), Bytes(call, 1, to))
      BY BytesConcat
    <3> QED BY <3>1 DEF IsConcat
  <2>2. Bytes(call, 0, 0) = <<<<call, 0>>>>
    <3>1. Bytes(call, 0, 0) = [i \in 1..1 |-> <<call, 0 + i - 1>>]
      BY DEF Bytes
    <3> QED BY <3>1
  <2>3. <<call, 0>> \in UByte /\ ~(<<call, 0>>[2] > 0)
    BY DEF UByte
  <2>4. OfBuffers(Bytes(call, 0, 0)) = <<>>
    BY <2>2, <2>3, OfBuffersFacts
  <2>5. OfBuffers(Bytes(call, 1, to)) = Bytes(call, 1, to)
    BY OfBuffersOfBytes
  <2>6. Bytes(call, 0, 0) \in Seq(UByte) /\ Bytes(call, 1, to) \in Seq(UByte)
    <3>1. 0 \in Nat /\ 1 \in Nat /\ to \in Nat /\ 0 <= 0 + 1 /\ 1 <= to + 1
      OBVIOUS
    <3> QED BY <3>1, BytesFacts, Zenon
  <2>7. OfBuffers(Bytes(call, 0, 0) \o Bytes(call, 1, to)) = <<>> \o Bytes(call, 1, to)
    BY <2>4, <2>5, <2>6, OfBuffersFacts DEF IsConcat
  <2>8. <<>> \o Bytes(call, 1, to) = Bytes(call, 1, to)
    BY <2>6, ConcatEmptySeq
  <2> QED BY <1>1, <2>1, <2>7, <2>8
<1>2. CASE from # 0
  BY <1>2, OfBuffersOfBytes
<1> QED BY <1>1, <1>2


-----------------------------------------------------------------------------
(***************************************************************************)
(* The nodes of a queue.                                                   *)
(***************************************************************************)
Node ==
    {n \in [call : Nat, next : Nat, last : Nat \ {0}] : n.next <= n.last}

LEMMA UnsentFacts ==
    ASSUME NEW n \in Node
    PROVE  /\ Unsent(n) \in Seq(UByte) /\ Len(Unsent(n)) = Left(n) /\ Left(n) \in Nat \ {0}
           /\ OfBuffers(Unsent(n)) = Bytes(n.call, IF n.next = 0 THEN 1 ELSE n.next, n.last)
<1>1. n.call \in Nat /\ n.next \in Nat /\ n.last \in Nat \ {0} /\ n.next <= n.last
  BY DEF Node
<1>2. n.next <= n.last + 1
  BY <1>1
<1>3. Unsent(n) \in Seq(UByte) /\ Len(Unsent(n)) = n.last - n.next + 1
  BY <1>1, <1>2, BytesFacts DEF Unsent
<1>4. OfBuffers(Unsent(n)) = Bytes(n.call, IF n.next = 0 THEN 1 ELSE n.next, n.last)
  BY <1>1, OfBuffersOfNode DEF Unsent
<1> QED BY <1>1, <1>3, <1>4 DEF Left

LEMMA UnsentBytesFacts ==
    /\ UnsentBytes(<<>>) = <<>>
    /\ \A s \in Seq(Node) : UnsentBytes(s) \in Seq(UByte)
    /\ \A s \in Seq(Node), t \in Seq(Node) :
         IsConcat(UnsentBytes(s \o t), UnsentBytes(s), UnsentBytes(t))
    /\ \A n \in Node : UnsentBytes(<<n>>) = Unsent(n)
<1> DEFINE g == [n \in Node |-> Unsent(n)]
<1>1. \A n \in Node : g[n] \in Seq(UByte) /\ g[n] = Unsent(n)
  BY UnsentFacts
<1> HIDE DEF g
<1>2. ASSUME NEW s \in Seq(Node) PROVE UnsentBytes(s) = FlattenSeq(Mapped(g, s))
  <2>1. \A i \in 1..Len(s) : s[i] \in Node
    BY ElementOfSeq
  <2>2. Mapped(g, s) = [i \in 1..Len(s) |-> Unsent(s[i])]
    BY <1>1, <2>1 DEF Mapped
  <2> QED BY <2>2 DEF UnsentBytes
<1>3. <<>> \in Seq(Node) /\ \A n \in Node : <<n>> \in Seq(Node)
  OBVIOUS
<1>4. UnsentBytes(<<>>) = <<>>
  BY <1>1, <1>2, <1>3, FlattenMapped
<1>5. ASSUME NEW s \in Seq(Node) PROVE UnsentBytes(s) \in Seq(UByte)
  <2>1. FlattenSeq(Mapped(g, s)) \in Seq(UByte)
    BY <1>1, FlattenMapped
  <2> QED BY <1>2, <2>1
<1>6. ASSUME NEW s \in Seq(Node), NEW t \in Seq(Node)
      PROVE  IsConcat(UnsentBytes(s \o t), UnsentBytes(s), UnsentBytes(t))
  <2>1. s \o t \in Seq(Node)
    BY ConcatProperties
  <2>2. IsConcat(FlattenSeq(Mapped(g, s \o t)), FlattenSeq(Mapped(g, s)), FlattenSeq(Mapped(g, t)))
    BY <1>1, FlattenMapped
  <2> QED BY <1>2, <2>1, <2>2
<1>7. ASSUME NEW n \in Node PROVE UnsentBytes(<<n>>) = Unsent(n)
  <2>1. FlattenSeq(Mapped(g, <<n>>)) = g[n]
    BY <1>1, FlattenMapped
  <2> QED BY <1>1, <1>2, <1>3, <2>1
<1> QED BY <1>4, <1>5, <1>6, <1>7

LEMMA SumFacts ==
    /\ SumLeft(<<>>) = 0
    /\ \A s \in Seq(Node) : SumLeft(s) \in Nat
    /\ \A s \in Seq(Node), t \in Seq(Node) : SumLeft(s \o t) = SumLeft(s) + SumLeft(t)
    /\ \A n \in Node : SumLeft(<<n>>) = Left(n)
<1>1. SumLeft(<<>>) = 0
  BY UnsentBytesFacts DEF SumLeft
<1>2. ASSUME NEW s \in Seq(Node) PROVE SumLeft(s) \in Nat
  <2>1. UnsentBytes(s) \in Seq(UByte)
    BY UnsentBytesFacts
  <2> QED BY <2>1, LenProperties DEF SumLeft
<1>3. ASSUME NEW s \in Seq(Node), NEW t \in Seq(Node)
      PROVE  SumLeft(s \o t) = SumLeft(s) + SumLeft(t)
  <2>1. UnsentBytes(s) \in Seq(UByte) /\ UnsentBytes(t) \in Seq(UByte)
    BY UnsentBytesFacts
  <2>2. UnsentBytes(s \o t) = UnsentBytes(s) \o UnsentBytes(t)
    BY UnsentBytesFacts DEF IsConcat
  <2>3. Len(UnsentBytes(s) \o UnsentBytes(t)) = Len(UnsentBytes(s)) + Len(UnsentBytes(t))
    BY <2>1, ConcatProperties
  <2> QED BY <2>2, <2>3 DEF SumLeft
<1>4. ASSUME NEW n \in Node PROVE SumLeft(<<n>>) = Left(n)
  BY UnsentBytesFacts, UnsentFacts DEF SumLeft
<1> QED BY <1>1, <1>2, <1>3, <1>4

-----------------------------------------------------------------------------
(***************************************************************************)
(* What us_write took to send.                                             *)
(***************************************************************************)
LEMMA BuffersFacts ==
    ASSUME NEW calls \in Seq(Nat \ {0}), NEW lost
    PROVE  /\ BuffersOf(calls, lost) \in Seq(Seq(UByte))
           /\ FlattenSeq(BuffersOf(calls, lost)) \in Seq(UByte)
<1>1. Len(calls) \in Nat /\ \A i \in 1..Len(calls) : calls[i] \in Nat \ {0}
  BY LenProperties, ElementOfSeq
<1>2. ASSUME NEW i \in 1..Len(calls) PROVE Bytes(i, 1, calls[i]) \in Seq(UByte)
  <2>1. i \in Nat /\ 1 \in Nat /\ calls[i] \in Nat /\ 1 <= calls[i] + 1
    BY <1>1
  <2> QED BY <2>1, BytesFacts
<1>3. <<>> \in Seq(UByte)
  OBVIOUS
<1>4. BuffersOf(calls, lost) \in [1..Len(calls) -> Seq(UByte)]
  BY <1>2, <1>3 DEF BuffersOf
<1>5. BuffersOf(calls, lost) \in Seq(Seq(UByte))
  BY <1>1, <1>4
<1> QED BY <1>5, FlattenFacts

\* A call adds its buffer, or nothing when the buffer is forgotten.
LEMMA WrittenGrows ==
    ASSUME NEW calls \in Seq(Nat \ {0}), NEW lost \in SUBSET (1..Len(calls)), NEW len \in Nat \ {0}
    PROVE  /\ IsConcat(FlattenSeq(BuffersOf(Append(calls, len), lost)),
                       FlattenSeq(BuffersOf(calls, lost)), Bytes(Len(calls) + 1, 1, len))
           /\ FlattenSeq(BuffersOf(Append(calls, len), lost \cup {Len(calls) + 1}))
                = FlattenSeq(BuffersOf(calls, lost))
<1> DEFINE n == Len(calls)
           old == BuffersOf(calls, lost)
<1>1. /\ n \in Nat /\ Len(Append(calls, len)) = n + 1
      /\ \A i \in 1..n : Append(calls, len)[i] = calls[i]
      /\ Append(calls, len)[n + 1] = len
  BY AppendProperties, LenProperties
<1>2. n + 1 \notin lost
  BY <1>1
<1>3. old \in Seq(Seq(UByte)) /\ FlattenSeq(old) \in Seq(UByte)
  BY BuffersFacts
<1>4. Len(old) = n /\ \A i \in 1..n : old[i] = IF i \in lost THEN <<>> ELSE Bytes(i, 1, calls[i])
  BY <1>1 DEF BuffersOf
<1>5. Bytes(n + 1, 1, len) \in Seq(UByte) /\ <<>> \in Seq(UByte)
  <2>1. n + 1 \in Nat /\ 1 \in Nat /\ len \in Nat /\ 1 <= len + 1
    BY <1>1
  <2> QED BY <2>1, BytesFacts
<1>6. ASSUME NEW s \in Seq(UByte)
      PROVE  /\ Len(Append(old, s)) = n + 1 /\ Append(old, s) \in Seq(Seq(UByte))
             /\ \A i \in 1..n : Append(old, s)[i] = old[i]
             /\ Append(old, s)[n + 1] = s
             /\ FlattenSeq(Append(old, s)) = FlattenSeq(old) \o s
  <2> HIDE DEF old
  <2> QED BY <1>3, <1>4, <1>6, AppendProperties, FlattenFacts
<1>7. BuffersOf(Append(calls, len), lost) = Append(old, Bytes(n + 1, 1, len))
  <2> DEFINE new == BuffersOf(Append(calls, len), lost)
             app == Append(old, Bytes(n + 1, 1, len))
  <2>1. new \in Seq(Seq(UByte)) /\ app \in Seq(Seq(UByte))
    <3>1. Append(calls, len) \in Seq(Nat \ {0})
      BY AppendProperties
    <3> QED BY <1>5, <1>6, <3>1, BuffersFacts
  <2>2. Len(new) = n + 1 /\ Len(app) = n + 1
    BY <1>1, <1>5, <1>6 DEF BuffersOf
  <2>3. ASSUME NEW i \in 1..(n + 1) PROVE new[i] = app[i]
    <3>1. new[i] = IF i \in lost THEN <<>> ELSE Bytes(i, 1, Append(calls, len)[i])
      BY <1>1 DEF BuffersOf
    <3>2. CASE i \in 1..n
      <4>1. app[i] = old[i]
        BY <1>5, <1>6, <3>2
      <4> QED BY <1>1, <1>4, <3>1, <3>2, <4>1
    <3>3. CASE i = n + 1
      <4>1. app[i] = Bytes(n + 1, 1, len)
        BY <1>5, <1>6, <3>3
      <4> QED BY <1>1, <1>2, <3>1, <3>3, <4>1
    <3>4. i \in 1..n \/ i = n + 1
      BY <1>1, <2>3
    <3> QED BY <3>2, <3>3, <3>4
  <2> HIDE DEF new, app
  <2>4. new = app
    BY <2>1, <2>2, <2>3, SeqEqual
  <2> QED BY <2>4 DEF new, app
<1>8. BuffersOf(Append(calls, len), lost \cup {n + 1}) = Append(old, <<>>)
  <2> DEFINE new == BuffersOf(Append(calls, len), lost \cup {n + 1})
             app == Append(old, <<>>)
  <2>1. new \in Seq(Seq(UByte)) /\ app \in Seq(Seq(UByte))
    <3>1. Append(calls, len) \in Seq(Nat \ {0})
      BY AppendProperties
    <3> QED BY <1>5, <1>6, <3>1, BuffersFacts
  <2>2. Len(new) = n + 1 /\ Len(app) = n + 1
    BY <1>1, <1>5, <1>6 DEF BuffersOf
  <2>3. ASSUME NEW i \in 1..(n + 1) PROVE new[i] = app[i]
    <3>1. new[i] = IF i \in lost \cup {n + 1} THEN <<>> ELSE Bytes(i, 1, Append(calls, len)[i])
      BY <1>1 DEF BuffersOf
    <3>2. CASE i \in 1..n
      <4>1. app[i] = old[i]
        BY <1>5, <1>6, <3>2
      <4>2. i # n + 1
        BY <1>1, <3>2
      <4> QED BY <1>1, <1>4, <3>1, <3>2, <4>1, <4>2
    <3>3. CASE i = n + 1
      <4>1. app[i] = <<>>
        BY <1>5, <1>6, <3>3
      <4> QED BY <3>1, <3>3, <4>1
    <3>4. i \in 1..n \/ i = n + 1
      BY <1>1, <2>3
    <3> QED BY <3>2, <3>3, <3>4
  <2> HIDE DEF new, app
  <2>4. new = app
    BY <2>1, <2>2, <2>3, SeqEqual
  <2> QED BY <2>4 DEF new, app
<1>9. FlattenSeq(Append(old, <<>>)) = FlattenSeq(old)
  BY <1>3, <1>5, <1>6, ConcatEmptySeq
<1>10. FlattenSeq(Append(old, Bytes(n + 1, 1, len))) = FlattenSeq(old) \o Bytes(n + 1, 1, len)
  BY <1>5, <1>6
<1> QED BY <1>7, <1>8, <1>9, <1>10 DEF IsConcat

-----------------------------------------------------------------------------
(***************************************************************************)
(* The longest buffer, and the frames of a packet.                         *)
(***************************************************************************)
LEMMA LongestFacts ==
    /\ LongestBuffer \in Nat \ {0}
    /\ HeaderSize \in 1..LongestBuffer
    /\ \A sz \in Payloads : (IF sz < MaxFrame THEN sz ELSE MaxFrame) <= LongestBuffer
<1> DEFINE F(sz) == IF sz < MaxFrame THEN sz ELSE MaxFrame
           T == {HeaderSize} \cup {F(sz) : sz \in Payloads}
<1>1. HeaderSize \in Nat \ {0} /\ MaxFrame \in Nat \ {0} /\ Payloads \subseteq Nat \ {0}
  BY SendAssumption, MaxFrameAssumption
<1>2. \A sz \in Payloads : F(sz) \in Nat /\ F(sz) <= MaxFrame
  BY <1>1
<1>3. LongestBuffer = Max(T)
  BY DEF LongestBuffer
<1> HIDE DEF F
<1>4. T \in SUBSET Nat /\ T # {} /\ HeaderSize \in T /\ \A sz \in Payloads : F(sz) \in T
  BY <1>1, <1>2
<1>5. HeaderSize + MaxFrame \in Nat /\ \A n \in T : n <= HeaderSize + MaxFrame
  BY <1>1, <1>2
<1> HIDE DEF T
<1>6. Max(T) \in T /\ \A n \in T : n <= Max(T)
  BY <1>4, <1>5, Greatest
<1>7. LongestBuffer \in Nat /\ HeaderSize <= LongestBuffer /\ \A sz \in Payloads : F(sz) <= LongestBuffer
  BY <1>3, <1>4, <1>6
<1>8. LongestBuffer \in Nat \ {0} /\ HeaderSize \in 1..LongestBuffer
  BY <1>1, <1>7
<1>9. \A sz \in Payloads : (IF sz < MaxFrame THEN sz ELSE MaxFrame) <= LongestBuffer
  BY <1>7 DEF F
<1> QED BY <1>8, <1>9

\* Every frame of a packet holds at least one byte and at most MaxFrame.
LEMMA FramesFacts ==
    ASSUME NEW sz \in Payloads
    PROVE  /\ Len(Frames("text", sz)) \in Nat
           /\ \A i \in 1..Len(Frames("text", sz)) :
                Frames("text", sz)[i].sz_payload \in 1..LongestBuffer
<1>1. MaxFrame \in Nat \ {0} /\ sz \in Nat \ {0}
  BY SendAssumption, MaxFrameAssumption
<1>2. LongestBuffer \in Nat /\ (IF sz < MaxFrame THEN sz ELSE MaxFrame) <= LongestBuffer
  BY LongestFacts
<1>3. CASE sz > MaxFrame
  <2> DEFINE n == (sz + MaxFrame - 1) \div MaxFrame
             t == (sz + MaxFrame - 1) % MaxFrame
  <2>1. n \in Nat /\ t \in 0..(MaxFrame - 1) /\ sz + MaxFrame - 1 = n * MaxFrame + t
    <3>1. sz + MaxFrame - 1 \in Nat
      BY <1>1
    <3>2. ASSUME NEW i \in Nat
          PROVE  /\ i \div MaxFrame \in Nat /\ i % MaxFrame \in 0..(MaxFrame - 1)
                 /\ i = (i \div MaxFrame) * MaxFrame + (i % MaxFrame)
      BY <1>1
    <3> QED BY <3>1, <3>2
  <2>2. Len(Frames("text", sz)) = n
    BY <1>1, <1>3, <2>1 DEF Frames
  <2>3. ASSUME NEW i \in 1..n
        PROVE  Frames("text", sz)[i].sz_payload = IF i < n THEN MaxFrame ELSE sz - (n - 1) * MaxFrame
    BY <1>1, <1>3, <2>1 DEF Frames
  <2> HIDE DEF n, t
  <2>4. sz - (n - 1) * MaxFrame = t + 1
    <3>1. (n - 1) * MaxFrame = n * MaxFrame - MaxFrame
      BY <1>1, <2>1
    <3> QED BY <1>1, <2>1, <3>1
  <2>5. MaxFrame <= LongestBuffer
    BY <1>1, <1>2, <1>3
  <2>6. ASSUME NEW i \in 1..n PROVE Frames("text", sz)[i].sz_payload \in 1..LongestBuffer
    BY <1>1, <1>2, <2>1, <2>3, <2>4, <2>5
  <2> QED BY <2>1, <2>2, <2>6
<1>4. CASE sz <= MaxFrame
  <2>1. Frames("text", sz) = <<[op |-> "text", fragmented |-> 0, sz_payload |-> sz]>>
    BY <1>1, <1>4 DEF Frames
  <2>2. sz \in 1..LongestBuffer
    BY <1>1, <1>2, <1>4
  <2>3. Len(Frames("text", sz)) = 1
    BY <2>1
  <2>4. Frames("text", sz)[1].sz_payload = sz
    BY <2>1
  <2> QED BY <2>2, <2>3, <2>4
<1> QED BY <1>1, <1>3, <1>4

-----------------------------------------------------------------------------
(***************************************************************************)
(* A client.                                                               *)
(***************************************************************************)
Client ==
    [pending : Seq(Node), sz_pending : 0..(SizeWord - 1), status : SUBSET Status,
     armed : BOOLEAN, failed : BOOLEAN, calls : Seq(Nat \ {0}), lost : SUBSET Nat,
     wire : Seq(UByte)]

Typed(c) ==
    /\ c \in Client
    /\ Len(c.calls) <= MaxCalls
    /\ c.lost \subseteq 1..Len(c.calls)
    /\ \A i \in 1..Len(c.pending) : c.pending[i].call \in 1..Len(c.calls)

\* sz_pending may be too large; it stays below what the calls have asked for.
Counted(c) ==
    /\ SumLeft(c.pending) <= c.sz_pending
    /\ c.sz_pending <= Len(c.calls) * (LongestBuffer + 1)
    /\ SumLeft(c.pending) < Threshold + LongestBuffer + 1

IsWatched(c) ==
    c.pending # <<>> /\ "CLOSE" \notin c.status => c.armed /\ "SENDING" \in c.status

Good(c) == Typed(c) /\ Counted(c) /\ IsWatched(c)

Extends(s, t) == \E u \in Seq(UByte) : IsConcat(t, s, u)

\* A client on which the write side is a stream.
Flows(c) ==
    IF "ERR" \in c.status
    THEN peer = "gone" /\ Extends(OfBuffers(c.wire), Written(c))
    ELSE IsConcat(Written(c), OfBuffers(c.wire), OfBuffers(Queued(c)))

\* What a call may do to the stream.
Follows(c, d) ==
    /\ Extends(Written(c), Written(d))
    /\ Extends(OfBuffers(c.wire), OfBuffers(d.wire))
    /\ "ERR" \in c.status => "ERR" \in d.status /\ d.wire = c.wire

LEMMA ExtendsFacts ==
    /\ \A s \in Seq(UByte) : Extends(s, s) /\ Extends(<<>>, s)
    /\ \A s, t \in Seq(UByte) : Extends(s, s \o t)
    /\ \A s, t, u \in Seq(UByte) : Extends(s, t) /\ Extends(t, u) => Extends(s, u)
<1>1. <<>> \in Seq(UByte)
  OBVIOUS
<1>2. \A s, t \in Seq(UByte) : Extends(s, s \o t)
  BY DEF Extends, IsConcat
<1>3. ASSUME NEW s \in Seq(UByte) PROVE Extends(s, s) /\ Extends(<<>>, s)
  <2>1. s \o <<>> = s /\ <<>> \o s = s
    BY ConcatEmptySeq
  <2> QED BY <1>1, <2>1 DEF Extends, IsConcat
<1>4. ASSUME NEW s \in Seq(UByte), NEW t \in Seq(UByte), NEW u \in Seq(UByte),
             Extends(s, t), Extends(t, u)
      PROVE  Extends(s, u)
  <2>1. PICK a \in Seq(UByte) : IsConcat(t, s, a)
    BY <1>4 DEF Extends
  <2>2. PICK b \in Seq(UByte) : IsConcat(u, t, b)
    BY <1>4 DEF Extends
  <2>3. u = (s \o a) \o b
    BY <2>1, <2>2 DEF IsConcat
  <2>4. (s \o a) \o b = s \o (a \o b)
    BY ConcatAssociative
  <2>5. a \o b \in Seq(UByte)
    BY ConcatProperties
  <2> QED BY <2>3, <2>4, <2>5 DEF Extends, IsConcat
<1> QED BY <1>2, <1>3, <1>4

LEMMA ExtendsIsPrefix ==
    ASSUME NEW s \in Seq(UByte), NEW t \in Seq(UByte), Extends(s, t)
    PROVE  IsPrefix(s, t)
<1>1. PICK u \in Seq(UByte) : IsConcat(t, s, u)
  BY DEF Extends
<1>2. t = s \o u
  BY <1>1 DEF IsConcat
<1>3. Len(t) = Len(s) + Len(u) /\ Len(s) \in Nat /\ Len(u) \in Nat
  BY <1>2, ConcatProperties, LenProperties
<1>4. SubSeq(t, 1, Len(s)) = SubSeq(s, 1, Len(s))
  <2>1. CASE Len(s) = 0
    <3>1. \A w : SubSeq(w, 1, 0) = <<>>
      BY SubSeqEmpty
    <3> QED BY <2>1, <3>1
  <2>2. CASE Len(s) # 0
    <3>1. Len(s) \in 1..Len(s) /\ 1 \in 1..Len(s)
      BY <1>3, <2>2
    <3>2. SubSeq(s \o u, 1, Len(s)) = SubSeq(s, 1, Len(s))
      BY <3>1, SubSeqOfConcat1
    <3> QED BY <1>2, <3>2
  <2> QED BY <2>1, <2>2
<1> QED BY <1>3, <1>4 DEF IsPrefix

LEMMA ClientFacts ==
    ASSUME NEW c, Typed(c)
    PROVE  /\ c.pending \in Seq(Node) /\ c.sz_pending \in 0..(SizeWord - 1)
           /\ c.status \subseteq Status /\ c.armed \in BOOLEAN /\ c.failed \in BOOLEAN
           /\ c.calls \in Seq(Nat \ {0}) /\ Len(c.calls) \in Nat /\ Len(c.calls) <= MaxCalls
           /\ c.lost \in SUBSET (1..Len(c.calls)) /\ c.wire \in Seq(UByte)
           /\ Written(c) = FlattenSeq(BuffersOf(c.calls, c.lost))
           /\ Written(c) \in Seq(UByte) /\ OfBuffers(c.wire) \in Seq(UByte)
           /\ Queued(c) \in Seq(UByte) /\ OfBuffers(Queued(c)) \in Seq(UByte)
           /\ SumLeft(c.pending) \in Nat
<1>1. /\ c.pending \in Seq(Node) /\ c.sz_pending \in 0..(SizeWord - 1)
      /\ c.status \subseteq Status /\ c.armed \in BOOLEAN /\ c.failed \in BOOLEAN
      /\ c.calls \in Seq(Nat \ {0}) /\ c.wire \in Seq(UByte)
      /\ Len(c.calls) <= MaxCalls /\ c.lost \in SUBSET (1..Len(c.calls))
  BY DEF Typed, Client
<1>2. Len(c.calls) \in Nat
  BY <1>1, LenProperties
<1>3. Written(c) = FlattenSeq(BuffersOf(c.calls, c.lost))
  BY DEF Written, BuffersOf
<1>4. Written(c) \in Seq(UByte)
  BY <1>1, <1>3, BuffersFacts
<1>5. OfBuffers(c.wire) \in Seq(UByte)
  BY <1>1, OfBuffersFacts
<1>6. Queued(c) \in Seq(UByte)
  BY <1>1, UnsentBytesFacts DEF Queued
<1>7. OfBuffers(Queued(c)) \in Seq(UByte)
  BY <1>6, OfBuffersFacts
<1>8. SumLeft(c.pending) \in Nat
  BY <1>1, SumFacts
<1> QED BY <1>1, <1>2, <1>3, <1>4, <1>5, <1>6, <1>7, <1>8

\* The word is wide enough for the calls of a connection.
LEMMA WordIsWide ==
    ASSUME NEW n \in Nat, n <= MaxCalls
    PROVE  /\ n * (LongestBuffer + 1) \in Nat /\ n * (LongestBuffer + 1) < SizeWord
           /\ (n + 1) * (LongestBuffer + 1) = n * (LongestBuffer + 1) + LongestBuffer + 1
           /\ SizeWord \in Nat \ {0} /\ MaxCalls \in Nat /\ Threshold \in Nat \ {0}
<1>1. LongestBuffer + 1 \in Nat /\ LongestBuffer \in Nat
  BY LongestFacts
<1>2. MaxCalls \in Nat /\ SizeWord \in Nat \ {0} /\ Threshold \in Nat \ {0}
  BY SendAssumption, ThresholdAssumption
<1>3. MaxCalls * (LongestBuffer + 1) < SizeWord
  BY WordAssumption
<1>4. \A a, b, m \in Nat : a <= b => a * m <= b * m /\ a * m \in Nat /\ b * m \in Nat
  OBVIOUS
<1>5. n * (LongestBuffer + 1) <= MaxCalls * (LongestBuffer + 1) /\ n * (LongestBuffer + 1) \in Nat
      /\ MaxCalls * (LongestBuffer + 1) \in Nat
  BY <1>1, <1>2, <1>4
<1>6. (n + 1) * (LongestBuffer + 1) = n * (LongestBuffer + 1) + LongestBuffer + 1
  BY <1>1
<1> QED BY <1>2, <1>3, <1>5, <1>6

-----------------------------------------------------------------------------
(***************************************************************************)
(* Steps of the stream.                                                    *)
(***************************************************************************)
\* b is written, x is sent, and what waited moves up.
Moves(c, d) ==
    \E b, x, m \in Seq(UByte) :
        /\ IsConcat(Written(d), Written(c), b)
        /\ IsConcat(OfBuffers(d.wire), OfBuffers(c.wire), x)
        /\ IsConcat(m, OfBuffers(Queued(c)), b)
        /\ IsConcat(m, x, OfBuffers(Queued(d)))

LEMMA ThreeConcat ==
    ASSUME NEW s \in Seq(UByte), NEW t \in Seq(UByte), NEW u \in Seq(UByte),
           NEW st, NEW tu, IsConcat(st, s, t), IsConcat(tu, t, u), NEW w
    PROVE  IsConcat(w, st, u) <=> IsConcat(w, s, tu)
<1>1. (s \o t) \o u = s \o (t \o u)
  BY ConcatAssociative
<1> QED BY <1>1 DEF IsConcat

LEMMA MovesFlow ==
    ASSUME NEW c, Typed(c), NEW d, Typed(d), Moves(c, d), Flows(c),
           "ERR" \notin c.status, "ERR" \notin d.status
    PROVE  Flows(d) /\ Follows(c, d)
<1> DEFINE W == Written(c)
           W2 == Written(d)
           D == OfBuffers(c.wire)
           D2 == OfBuffers(d.wire)
           Q == OfBuffers(Queued(c))
           Q2 == OfBuffers(Queued(d))
<1>1. PICK b \in Seq(UByte), x \in Seq(UByte), m \in Seq(UByte) :
        IsConcat(W2, W, b) /\ IsConcat(D2, D, x) /\ IsConcat(m, Q, b) /\ IsConcat(m, x, Q2)
  BY DEF Moves
<1>2. /\ W \in Seq(UByte) /\ W2 \in Seq(UByte) /\ D \in Seq(UByte) /\ D2 \in Seq(UByte)
      /\ Q \in Seq(UByte) /\ Q2 \in Seq(UByte)
  BY ClientFacts
<1>3. IsConcat(W, D, Q)
  BY DEF Flows
<1>4. (Flows(d) /\ Follows(c, d)) <=> (IsConcat(W2, D2, Q2) /\ Extends(W, W2) /\ Extends(D, D2))
  BY DEF Flows, Follows
<1> HIDE DEF W, W2, D, D2, Q, Q2
<1>5. IsConcat(W2, D, m)
  BY <1>1, <1>2, <1>3, ThreeConcat
<1>6. IsConcat(W2, D2, Q2)
  BY <1>1, <1>2, <1>5, ThreeConcat
<1>7. Extends(W, W2) /\ Extends(D, D2)
  BY <1>1 DEF Extends
<1> QED BY <1>4, <1>6, <1>7

LEMMA BrokenFlow ==
    ASSUME NEW c, Typed(c), NEW d, Typed(d), Flows(c), peer = "gone",
           "ERR" \in d.status, d.wire = c.wire, Extends(Written(c), Written(d))
    PROVE  Flows(d) /\ Follows(c, d)
<1>1. /\ Written(c) \in Seq(UByte) /\ Written(d) \in Seq(UByte)
      /\ OfBuffers(c.wire) \in Seq(UByte) /\ OfBuffers(Queued(c)) \in Seq(UByte)
  BY ClientFacts
<1>2. Extends(OfBuffers(c.wire), Written(c))
  <2>1. CASE "ERR" \in c.status
    BY <2>1 DEF Flows
  <2>2. CASE "ERR" \notin c.status
    BY <1>1, <2>2 DEF Flows, Extends
  <2> QED BY <2>1, <2>2
<1>3. Extends(OfBuffers(c.wire), Written(d))
  BY <1>1, <1>2, ExtendsFacts
<1>4. Extends(OfBuffers(c.wire), OfBuffers(d.wire))
  BY <1>1, ExtendsFacts
<1> QED BY <1>3, <1>4 DEF Flows, Follows

LEMMA FollowsTransitive ==
    ASSUME NEW c, Typed(c), NEW d, Typed(d), NEW e, Typed(e), Follows(c, d), Follows(d, e)
    PROVE  Follows(c, e)
<1>1. /\ Written(c) \in Seq(UByte) /\ Written(d) \in Seq(UByte) /\ Written(e) \in Seq(UByte)
      /\ OfBuffers(c.wire) \in Seq(UByte) /\ OfBuffers(d.wire) \in Seq(UByte)
      /\ OfBuffers(e.wire) \in Seq(UByte)
  BY ClientFacts
<1>2. Extends(Written(c), Written(e))
  BY <1>1, ExtendsFacts DEF Follows
<1>3. Extends(OfBuffers(c.wire), OfBuffers(e.wire))
  BY <1>1, ExtendsFacts DEF Follows
<1> QED BY <1>2, <1>3 DEF Follows

LEMMA FollowsItself ==
    ASSUME NEW c, Typed(c)
    PROVE  Follows(c, c)
<1>1. Written(c) \in Seq(UByte) /\ OfBuffers(c.wire) \in Seq(UByte)
  BY ClientFacts
<1> QED BY <1>1, ExtendsFacts DEF Follows

-----------------------------------------------------------------------------
(***************************************************************************)
(* us_queue_data and on_pending.                                           *)
(***************************************************************************)
\* One node more in a queue.
LEMMA OneMore ==
    ASSUME NEW s \in Seq(Node), NEW n \in Node, NEW t, IsConcat(t, s, <<n>>)
    PROVE  /\ t \in Seq(Node) /\ SumLeft(t) = SumLeft(s) + Left(n) /\ Len(t) = Len(s) + 1
           /\ \A i \in 1..Len(t) : (i \in 1..Len(s) /\ t[i] = s[i]) \/ t[i] = n
           /\ IsConcat(OfBuffers(UnsentBytes(t)), OfBuffers(UnsentBytes(s)), OfBuffers(Unsent(n)))
<1>1. t = s \o <<n>> /\ <<n>> \in Seq(Node) /\ Len(<<n>>) = 1 /\ <<n>>[1] = n
  BY DEF IsConcat
<1>2. /\ t \in Seq(Node) /\ Len(t) = Len(s) + 1 /\ Len(s) \in Nat
      /\ \A i \in 1..(Len(s) + 1) : t[i] = IF i <= Len(s) THEN s[i] ELSE <<n>>[i - Len(s)]
  BY <1>1, ConcatProperties, LenProperties
<1>3. SumLeft(t) = SumLeft(s) + Left(n)
  BY <1>1, SumFacts
<1>4. \A i \in 1..Len(t) : (i \in 1..Len(s) /\ t[i] = s[i]) \/ t[i] = n
  BY <1>1, <1>2
<1>5. UnsentBytes(t) = UnsentBytes(s) \o Unsent(n)
  <2>1. IsConcat(UnsentBytes(s \o <<n>>), UnsentBytes(s), UnsentBytes(<<n>>))
    BY <1>1, UnsentBytesFacts
  <2>2. UnsentBytes(<<n>>) = Unsent(n)
    BY UnsentBytesFacts
  <2> QED BY <1>1, <2>1, <2>2 DEF IsConcat
<1>6. UnsentBytes(s) \in Seq(UByte) /\ Unsent(n) \in Seq(UByte)
  BY UnsentBytesFacts, UnsentFacts
<1>7. IsConcat(OfBuffers(UnsentBytes(s) \o Unsent(n)), OfBuffers(UnsentBytes(s)), OfBuffers(Unsent(n)))
  BY <1>6, OfBuffersFacts
<1> QED BY <1>2, <1>3, <1>4, <1>5, <1>7

LEMMA QueueStep ==
    ASSUME NEW c \in Client, NEW call \in Nat, NEW from \in Nat, NEW to \in Nat \ {0}, from <= to,
           c.sz_pending + (to - from + 1) < SizeWord,
           NEW d \in UsQueueData(c, call, from, to)
    PROVE  /\ d \in Client /\ d.calls = c.calls /\ d.lost = c.lost /\ d.wire = c.wire
           /\ d.armed = c.armed
           /\ \/ /\ "nomem" \in env
                 /\ d.pending = <<>> /\ d.sz_pending = 0
              \/ /\ IsConcat(d.pending, c.pending, <<[call |-> call, next |-> from, last |-> to]>>)
                 /\ d.sz_pending = c.sz_pending + (to - from + 1)
                 /\ "SENDING" \in d.status
                 /\ "ERR" \in d.status <=> "ERR" \in c.status
<1> DEFINE n == [call |-> call, next |-> from, last |-> to]
           size == (c.sz_pending + (to - from + 1)) % SizeWord
           more == IF size >= Threshold THEN {"THROTTLING"} ELSE {}
<1>1. SizeWord \in Nat \ {0}
  BY SendAssumption
<1>2. /\ c.pending \in Seq(Node) /\ c.sz_pending \in 0..(SizeWord - 1) /\ c.status \subseteq Status
  BY DEF Client
<1>3. n \in Node
  BY DEF Node
<1>4. size = c.sz_pending + (to - from + 1) /\ size \in 0..(SizeWord - 1)
  <2>1. c.sz_pending + (to - from + 1) \in 0..(SizeWord - 1)
    BY <1>1, <1>2
  <2>2. \A k \in 0..(SizeWord - 1) : k % SizeWord = k
    BY <1>1
  <2> QED BY <2>1, <2>2
<1>5. Append(c.pending, n) = c.pending \o <<n>> /\ Append(c.pending, n) \in Seq(Node)
  <2> HIDE DEF n
  <2> QED BY <1>2, <1>3, AppendIsConcat, AppendProperties
<1>6. more \subseteq {"THROTTLING"}
  OBVIOUS
<1>7. \/ d = [c EXCEPT !.pending = Append(@, n), !.sz_pending = size,
                       !.status = @ \cup {"SENDING"} \cup more]
      \/ /\ "nomem" \in env
         /\ d = [c EXCEPT !.pending = <<>>, !.sz_pending = 0, !.status = {"ERR", "CLOSE"}]
  BY DEF UsQueueData
<1> HIDE DEF n, size, more
<1>8. CASE d = [c EXCEPT !.pending = Append(@, n), !.sz_pending = size,
                         !.status = @ \cup {"SENDING"} \cup more]
  <2>1. c.status \cup {"SENDING"} \cup more \in SUBSET Status
    BY <1>2, <1>6 DEF Status
  <2>2. d \in Client
    BY <1>4, <1>5, <1>8, <2>1 DEF Client
  <2>3. /\ d.calls = c.calls /\ d.lost = c.lost /\ d.wire = c.wire /\ d.armed = c.armed
        /\ d.pending = Append(c.pending, n) /\ d.sz_pending = size
        /\ d.status = c.status \cup {"SENDING"} \cup more
    BY <1>8 DEF Client
  <2>4. "ERR" \in d.status <=> "ERR" \in c.status
    BY <1>6, <2>3
  <2>5. IsConcat(d.pending, c.pending, <<n>>)
    BY <1>5, <2>3 DEF IsConcat
  <2> QED BY <1>4, <2>2, <2>3, <2>4, <2>5 DEF n
<1>9. CASE /\ "nomem" \in env
           /\ d = [c EXCEPT !.pending = <<>>, !.sz_pending = 0, !.status = {"ERR", "CLOSE"}]
  <2>1. <<>> \in Seq(Node) /\ 0 \in 0..(SizeWord - 1) /\ {"ERR", "CLOSE"} \in SUBSET Status
    BY <1>1 DEF Status
  <2>2. d \in Client
    BY <1>9, <2>1 DEF Client
  <2> QED BY <1>9, <2>2 DEF Client
<1> QED BY <1>7, <1>8, <1>9

LEMMA OnPendingStep ==
    ASSUME NEW c \in Client
    PROVE  /\ OnPending(c) \in Client
           /\ OnPending(c).pending = c.pending /\ OnPending(c).sz_pending = c.sz_pending
           /\ OnPending(c).status = c.status /\ OnPending(c).calls = c.calls
           /\ OnPending(c).lost = c.lost /\ OnPending(c).wire = c.wire
           /\ "SENDING" \in c.status /\ "CLOSE" \notin c.status => OnPending(c).armed
           /\ c.armed => OnPending(c).armed
  BY DEF OnPending, Client

-----------------------------------------------------------------------------
(***************************************************************************)
(* us_write.                                                               *)
(***************************************************************************)
\* What a call of us_write does to a client.
Wrote(c, d) ==
    /\ Good(d)
    /\ Len(d.calls) = Len(c.calls) + 1
    /\ "nomem" \notin env /\ Flows(c) => Flows(d) /\ Follows(c, d)

\* The call is counted, and its buffer is written as far as the properties go.
LEMMA NewCall ==
    ASSUME NEW c, Typed(c), Len(c.calls) < MaxCalls, NEW len \in 1..LongestBuffer
    PROVE  /\ Append(c.calls, len) \in Seq(Nat \ {0})
           /\ Len(Append(c.calls, len)) = Len(c.calls) + 1
           /\ Len(c.calls) + 1 <= MaxCalls /\ Len(c.calls) + 1 \in Nat \ {0}
           /\ (Len(c.calls) + 1) * (LongestBuffer + 1)
                = Len(c.calls) * (LongestBuffer + 1) + LongestBuffer + 1
           /\ (Len(c.calls) + 1) * (LongestBuffer + 1) < SizeWord
           /\ Len(c.calls) * (LongestBuffer + 1) \in Nat
           /\ Bytes(Len(c.calls) + 1, 1, len) \in Seq(UByte)
           /\ \A d : /\ d.calls = Append(c.calls, len)
                     /\ d.lost = c.lost
                     => IsConcat(Written(d), Written(c), Bytes(Len(c.calls) + 1, 1, len))
           /\ \A d : /\ d.calls = Append(c.calls, len)
                     /\ d.lost = c.lost \cup {Len(c.calls) + 1}
                     => Written(d) = Written(c)
<1>1. LongestBuffer \in Nat \ {0} /\ len \in Nat \ {0} /\ MaxCalls \in Nat
  BY LongestFacts, SendAssumption
<1>2. /\ c.calls \in Seq(Nat \ {0}) /\ Len(c.calls) \in Nat /\ Len(c.calls) <= MaxCalls
      /\ c.lost \in SUBSET (1..Len(c.calls))
      /\ Written(c) = FlattenSeq(BuffersOf(c.calls, c.lost))
  BY ClientFacts
<1>3. Append(c.calls, len) \in Seq(Nat \ {0}) /\ Len(Append(c.calls, len)) = Len(c.calls) + 1
  BY <1>1, <1>2, AppendProperties
<1>4. Len(c.calls) + 1 <= MaxCalls /\ Len(c.calls) + 1 \in Nat \ {0}
  BY <1>1, <1>2
<1>5. Len(c.calls) * (LongestBuffer + 1) \in Nat
      /\ (Len(c.calls) + 1) * (LongestBuffer + 1) = Len(c.calls) * (LongestBuffer + 1) + LongestBuffer + 1
  BY <1>2, WordIsWide
<1>6. (Len(c.calls) + 1) * (LongestBuffer + 1) < SizeWord
  BY <1>4, WordIsWide
<1>7. Bytes(Len(c.calls) + 1, 1, len) \in Seq(UByte)
  <2>1. 1 \in Nat /\ len \in Nat /\ 1 <= len + 1 /\ Len(c.calls) + 1 \in Nat
    BY <1>1, <1>4
  <2> QED BY <2>1, BytesFacts
<1>8. ASSUME NEW d, d.calls = Append(c.calls, len), d.lost = c.lost
      PROVE  IsConcat(Written(d), Written(c), Bytes(Len(c.calls) + 1, 1, len))
  <2>1. Written(d) = FlattenSeq(BuffersOf(Append(c.calls, len), c.lost))
    BY <1>8 DEF Written, BuffersOf
  <2>2. IsConcat(FlattenSeq(BuffersOf(Append(c.calls, len), c.lost)),
                 FlattenSeq(BuffersOf(c.calls, c.lost)), Bytes(Len(c.calls) + 1, 1, len))
    BY <1>1, <1>2, WrittenGrows
  <2> QED BY <1>2, <2>1, <2>2
<1>9. ASSUME NEW d, d.calls = Append(c.calls, len), d.lost = c.lost \cup {Len(c.calls) + 1}
      PROVE  Written(d) = Written(c)
  <2>1. Written(d) = FlattenSeq(BuffersOf(Append(c.calls, len), c.lost \cup {Len(c.calls) + 1}))
    BY <1>9 DEF Written, BuffersOf
  <2>2. FlattenSeq(BuffersOf(Append(c.calls, len), c.lost \cup {Len(c.calls) + 1}))
          = FlattenSeq(BuffersOf(c.calls, c.lost))
    BY <1>1, <1>2, WrittenGrows
  <2> QED BY <1>2, <2>1, <2>2
<1> QED BY <1>3, <1>4, <1>5, <1>6, <1>7, <1>8, <1>9

\* The connection breaks while the call writes.
LEMMA BreakStep ==
    ASSUME NEW c, Good(c), Len(c.calls) < MaxCalls, NEW len \in 1..LongestBuffer,
           peer = "gone", NEW d, Typed(d),
           d.calls = Append(c.calls, len),
           d.lost = c.lost \/ d.lost = c.lost \cup {Len(c.calls) + 1},
           d.pending = c.pending, d.sz_pending = c.sz_pending, d.wire = c.wire,
           "ERR" \in d.status, "CLOSE" \in d.status
    PROVE  Wrote(c, d)
<1>1. /\ Typed(c) /\ Counted(c)
      /\ Len(c.calls) * (LongestBuffer + 1) \in Nat
      /\ (Len(c.calls) + 1) * (LongestBuffer + 1)
           = Len(c.calls) * (LongestBuffer + 1) + LongestBuffer + 1
      /\ Len(d.calls) = Len(c.calls) + 1
  BY NewCall DEF Good
<1>2. c.sz_pending \in Nat /\ LongestBuffer \in Nat
  BY <1>1, ClientFacts, LongestFacts
<1>3. Counted(d)
  BY <1>1, <1>2 DEF Counted
<1>4. IsWatched(d)
  BY DEF IsWatched
<1>5. ASSUME "nomem" \notin env, Flows(c) PROVE Flows(d) /\ Follows(c, d)
  <2>1. Extends(Written(c), Written(d))
    <3>1. CASE d.lost = c.lost
      <4>1. IsConcat(Written(d), Written(c), Bytes(Len(c.calls) + 1, 1, len))
            /\ Bytes(Len(c.calls) + 1, 1, len) \in Seq(UByte)
        BY <1>1, <3>1, NewCall
      <4> QED BY <4>1 DEF Extends
    <3>2. CASE d.lost = c.lost \cup {Len(c.calls) + 1}
      <4>1. Written(d) = Written(c)
        BY <1>1, <3>2, NewCall
      <4>2. Written(c) \in Seq(UByte)
        BY <1>1, ClientFacts
      <4> QED BY <4>1, <4>2, ExtendsFacts
    <3> QED BY <3>1, <3>2
  <2> QED BY <1>1, <1>5, <2>1, BrokenFlow
<1> QED BY <1>1, <1>3, <1>4, <1>5 DEF Wrote, Good

\* The kernel took the first n bytes of the buffer; the rest is queued (with
\* the byte before the buffer when write() failed with EAGAIN).
LEMMA QueueRest ==
    ASSUME NEW c, Good(c), Len(c.calls) < MaxCalls, NEW len \in 1..LongestBuffer,
           c.pending = <<>>, peer # "gone", NEW n \in 0..(len - 1), NEW from \in Nat,
           from = n + 1 \/ (n = 0 /\ from = 0),
           NEW e \in Client, e.calls = Append(c.calls, len), e.lost = c.lost,
           e.pending = <<>>, e.sz_pending = c.sz_pending, e.status = c.status,
           IsConcat(e.wire, c.wire, Bytes(Len(c.calls) + 1, 1, n)),
           NEW p \in UsQueueData(e, Len(c.calls) + 1, from, len)
    PROVE  Wrote(c, OnPending(p))
<1> DEFINE call == Len(c.calls) + 1
           node == [call |-> call, next |-> from, last |-> len]
           d == OnPending(p)
<1>1. Typed(c) /\ Counted(c)
  BY DEF Good
<1>2. /\ LongestBuffer \in Nat \ {0} /\ len \in Nat \ {0} /\ len <= LongestBuffer /\ n \in Nat
      /\ from <= len /\ len - from + 1 \in 1..(LongestBuffer + 1)
  BY LongestFacts
<1>3. /\ call \in Nat \ {0} /\ call <= MaxCalls /\ Len(e.calls) = call
      /\ call * (LongestBuffer + 1) = Len(c.calls) * (LongestBuffer + 1) + LongestBuffer + 1
      /\ call * (LongestBuffer + 1) < SizeWord /\ Len(c.calls) * (LongestBuffer + 1) \in Nat
  BY <1>1, NewCall
<1>4. c.sz_pending \in Nat /\ c.sz_pending <= Len(c.calls) * (LongestBuffer + 1)
      /\ c.wire \in Seq(UByte) /\ c.lost \subseteq 1..Len(c.calls) /\ Len(c.calls) \in Nat
  <2>1. c.sz_pending <= Len(c.calls) * (LongestBuffer + 1)
    BY <1>1 DEF Counted
  <2>2. /\ c.sz_pending \in Nat /\ c.wire \in Seq(UByte)
        /\ c.lost \subseteq 1..Len(c.calls) /\ Len(c.calls) \in Nat
    BY <1>1, ClientFacts
  <2> QED BY <2>1, <2>2
<1>5. c.sz_pending + (len - from + 1) <= call * (LongestBuffer + 1)
  <2>1. len - from + 1 \in Nat /\ len - from + 1 <= LongestBuffer + 1 /\ LongestBuffer \in Nat
    BY <1>2
  <2>2. call * (LongestBuffer + 1) \in Nat /\ Len(c.calls) * (LongestBuffer + 1) \in Nat
    BY <1>3, WordIsWide
  <2>3. /\ call * (LongestBuffer + 1) = Len(c.calls) * (LongestBuffer + 1) + LongestBuffer + 1
        /\ c.sz_pending \in Nat /\ c.sz_pending <= Len(c.calls) * (LongestBuffer + 1)
    BY <1>3, <1>4
  <2>4. \A a, b, k, l, x \in Nat :
          b = a + l + 1 /\ x <= a /\ k <= l + 1 => x + k <= b
    OBVIOUS
  <2>5. \A b, k \in Nat : /\ b = Len(c.calls) * (LongestBuffer + 1) + LongestBuffer + 1
                          /\ k <= LongestBuffer + 1
                          => c.sz_pending + k <= b
    BY <2>1, <2>2, <2>3, <2>4
  <2> QED BY <2>1, <2>2, <2>3, <2>5
<1>6. c.sz_pending + (len - from + 1) < SizeWord
  <2>1. SizeWord \in Nat /\ call * (LongestBuffer + 1) \in Nat
    BY <1>3, WordIsWide
  <2>2. c.sz_pending + (len - from + 1) \in Nat
    BY <1>2, <1>4
  <2>3. \A i, j, k \in Nat : i <= j /\ j < k => i < k
    OBVIOUS
  <2> QED BY <1>3, <1>5, <2>1, <2>2, <2>3, Zenon
<1>7. /\ p \in Client /\ p.calls = e.calls /\ p.lost = e.lost /\ p.wire = e.wire
      /\ \/ /\ "nomem" \in env
            /\ p.pending = <<>> /\ p.sz_pending = 0
         \/ /\ IsConcat(p.pending, e.pending, <<node>>)
            /\ p.sz_pending = e.sz_pending + (len - from + 1)
            /\ "SENDING" \in p.status
            /\ "ERR" \in p.status <=> "ERR" \in e.status
  BY <1>2, <1>3, <1>6, QueueStep
<1>8. /\ d \in Client /\ d.pending = p.pending /\ d.sz_pending = p.sz_pending
      /\ d.status = p.status /\ d.calls = p.calls /\ d.lost = p.lost /\ d.wire = p.wire
      /\ "SENDING" \in p.status /\ "CLOSE" \notin p.status => d.armed
  BY <1>7, OnPendingStep
<1>9. node \in Node /\ Left(node) = len - from + 1 /\ node.call = call
  BY <1>2, <1>3 DEF Node, Left
<1> SUFFICES Wrote(c, d)
  OBVIOUS
<1> HIDE DEF node, d
<1>10. Len(d.calls) <= MaxCalls /\ d.lost \subseteq 1..Len(d.calls) /\ Len(d.calls) = call
  BY <1>3, <1>4, <1>7, <1>8
<1>11. CASE "nomem" \in env /\ p.pending = <<>> /\ p.sz_pending = 0
  <2>1. Typed(d)
    BY <1>8, <1>10, <1>11 DEF Typed
  <2>2. call * (LongestBuffer + 1) \in Nat /\ Threshold \in Nat \ {0}
    BY <1>3, WordIsWide
  <2>3. Counted(d)
    <3>1. SumLeft(d.pending) = 0 /\ d.sz_pending = 0
      BY <1>8, <1>11, SumFacts
    <3>2. 0 <= Len(d.calls) * (LongestBuffer + 1)
      BY <1>10, <2>2
    <3>3. 0 < Threshold + LongestBuffer + 1
      BY <1>2, <2>2
    <3> QED BY <3>1, <3>2, <3>3 DEF Counted
  <2>4. IsWatched(d)
    BY <1>8, <1>11 DEF IsWatched
  <2> QED BY <1>10, <1>11, <2>1, <2>3, <2>4 DEF Wrote, Good
<1>12. CASE /\ IsConcat(p.pending, e.pending, <<node>>)
            /\ p.sz_pending = e.sz_pending + (len - from + 1)
            /\ "SENDING" \in p.status
            /\ "ERR" \in p.status <=> "ERR" \in e.status
  <2>1. e.pending \in Seq(Node) /\ IsConcat(d.pending, e.pending, <<node>>)
    BY <1>8, <1>12
  <2>2. /\ d.pending \in Seq(Node) /\ SumLeft(d.pending) = SumLeft(e.pending) + Left(node)
        /\ \A i \in 1..Len(d.pending) :
             (i \in 1..Len(e.pending) /\ d.pending[i] = e.pending[i]) \/ d.pending[i] = node
        /\ IsConcat(OfBuffers(UnsentBytes(d.pending)), OfBuffers(UnsentBytes(e.pending)), OfBuffers(Unsent(node)))
    <3>1. \A t : \A s \in Seq(Node), x \in Node : IsConcat(t, s, <<x>>) =>
            /\ t \in Seq(Node) /\ SumLeft(t) = SumLeft(s) + Left(x)
            /\ \A i \in 1..Len(t) : (i \in 1..Len(s) /\ t[i] = s[i]) \/ t[i] = x
            /\ IsConcat(OfBuffers(UnsentBytes(t)), OfBuffers(UnsentBytes(s)), OfBuffers(Unsent(x)))
      BY OneMore
    <3> QED BY <1>9, <2>1, <3>1
  <2>3. \A i \in 1..Len(d.pending) : d.pending[i] = node
    <3>1. 1..Len(e.pending) = {}
      OBVIOUS
    <3> QED BY <2>2, <3>1
  <2>4. SumLeft(d.pending) = len - from + 1
    BY <1>2, <1>9, <2>2, SumFacts
  <2>5. call \in 1..Len(d.calls)
    BY <1>3, <1>10
  <2>6. Typed(d)
    BY <1>8, <1>9, <1>10, <2>3, <2>5 DEF Typed
  <2>7. Counted(d)
    <3>1. d.sz_pending = c.sz_pending + (len - from + 1) /\ Threshold \in Nat \ {0}
      BY <1>8, <1>12, SendAssumption, ThresholdAssumption
    <3>2. d.sz_pending <= Len(d.calls) * (LongestBuffer + 1)
      BY <1>5, <1>10, <3>1
    <3>3. SumLeft(d.pending) <= d.sz_pending /\ SumLeft(d.pending) < Threshold + LongestBuffer + 1
      BY <1>2, <1>4, <2>4, <3>1
    <3> QED BY <3>2, <3>3 DEF Counted
  <2>8. IsWatched(d)
    BY <1>8, <1>12 DEF IsWatched
  <2>9. ASSUME "nomem" \notin env, Flows(c) PROVE Flows(d) /\ Follows(c, d)
    <3>1. "ERR" \notin c.status /\ "ERR" \notin d.status
      BY <1>8, <1>12, <2>9 DEF Flows
    <3> DEFINE b == Bytes(call, 1, len)
               x == Bytes(call, 1, n)
               y == Bytes(call, n + 1, len)
    <3>2. b \in Seq(UByte)
      BY <1>1, NewCall
    <3>3. x \in Seq(UByte) /\ OfBuffers(x) = x
      <4>1. call \in Nat /\ 1 \in Nat \ {0} /\ n \in Nat /\ 1 <= n + 1
        BY <1>2, <1>3
      <4> QED BY <4>1, BytesFacts, OfBuffersOfBytes
    <3>4. IsConcat(b, x, y)
      <4>1. call \in Nat /\ 1 \in Nat /\ n \in Nat /\ len \in Nat /\ n + 1 \in Nat /\ 1 <= n + 1 /\ n <= len
        BY <1>2, <1>3
      <4> QED BY <4>1, BytesConcat
    <3>5. OfBuffers(Unsent(node)) = y
      <4>1. node.next = from /\ node.last = len /\ node.call = call
        BY DEF node
      <4>2. (IF from = 0 THEN 1 ELSE from) = n + 1
        BY <1>2
      <4>3. OfBuffers(Unsent(node)) = Bytes(node.call, IF node.next = 0 THEN 1 ELSE node.next, node.last)
        BY <1>9, UnsentFacts
      <4> QED BY <4>1, <4>2, <4>3
    <3>6. IsConcat(Written(d), Written(c), b)
      BY <1>1, <1>7, <1>8, NewCall
    <3>7. IsConcat(d.wire, c.wire, x)
      BY <1>7, <1>8
    <3> HIDE DEF b, x, y
    <3>8. IsConcat(OfBuffers(d.wire), OfBuffers(c.wire), x)
      <4>1. IsConcat(OfBuffers(c.wire \o x), OfBuffers(c.wire), OfBuffers(x))
        BY <1>4, <3>3, OfBuffersFacts
      <4> QED BY <3>3, <3>7, <4>1 DEF IsConcat
    <3>9. OfBuffers(Queued(c)) = <<>>
      BY UnsentBytesFacts, OfBuffersFacts DEF Queued
    <3>10. IsConcat(OfBuffers(Queued(d)), <<>>, y)
      BY <2>2, <3>5, UnsentBytesFacts, OfBuffersFacts DEF Queued
    <3>11. OfBuffers(Queued(d)) = y
      <4>1. OfBuffers(Unsent(node)) \in Seq(UByte)
        BY <1>9, UnsentFacts, OfBuffersFacts
      <4> QED BY <3>5, <3>10, <4>1, ConcatEmptySeq DEF IsConcat
    <3>12. IsConcat(b, OfBuffers(Queued(c)), b)
      BY <3>2, <3>9, ConcatEmptySeq DEF IsConcat
    <3>13. Moves(c, d)
      BY <3>2, <3>3, <3>4, <3>6, <3>8, <3>11, <3>12 DEF Moves
    <3> QED BY <1>1, <2>6, <2>9, <3>1, <3>13, MovesFlow
  <2> QED BY <1>10, <2>6, <2>7, <2>8, <2>9 DEF Wrote, Good
<1> QED BY <1>7, <1>11, <1>12

\* The outcomes of write(): it takes n bytes, or fails with EAGAIN.
TakenUpTo(n, c, call, len) ==
    LET d == [c EXCEPT !.wire = @ \o Bytes(call, 1, n), !.failed = FALSE]
    IN  IF n = len THEN {d} ELSE {OnPending(q) : q \in UsQueueData(d, call, n + 1, len)}
NothingTaken(c, call, len) ==
    {OnPending(q) : q \in UsQueueData([c EXCEPT !.failed = TRUE], call, 0, len)}

LEMMA UsWriteDataCases ==
    ASSUME NEW c, NEW call, NEW len, peer # "gone", NEW d \in UsWriteData(c, call, len)
    PROVE  \/ \E n \in 1..len : d \in TakenUpTo(n, c, call, len)
           \/ d \in NothingTaken(c, call, len)
<1>1. UsWriteData(c, call, len) =
        (UNION {TakenUpTo(n, c, call, len) : n \in 1..len})
        \cup (IF "full" \in env THEN NothingTaken(c, call, len) ELSE {})
  BY DEF UsWriteData, TakenUpTo, NothingTaken
<1> QED BY <1>1

LEMMA UsWriteDataStep ==
    ASSUME NEW c, Good(c), Len(c.calls) < MaxCalls, NEW len \in 1..LongestBuffer,
           c.pending = <<>>,
           NEW d \in UsWriteData([c EXCEPT !.calls = Append(@, len)], Len(c.calls) + 1, len)
    PROVE  Wrote(c, d)
<1> DEFINE call == Len(c.calls) + 1
           e == [c EXCEPT !.calls = Append(@, len)]
           sent(n) == [e EXCEPT !.wire = @ \o Bytes(call, 1, n), !.failed = FALSE]
           tried == [e EXCEPT !.failed = TRUE]
<1>1. Typed(c) /\ c \in Client
  BY DEF Good, Typed
<1>2. LongestBuffer \in Nat \ {0} /\ len \in Nat \ {0} /\ len <= LongestBuffer
  BY LongestFacts
<1>3. /\ Append(c.calls, len) \in Seq(Nat \ {0}) /\ Len(Append(c.calls, len)) = call
      /\ call <= MaxCalls /\ call \in Nat \ {0}
  BY <1>1, NewCall
<1>4. /\ e \in Client /\ e.calls = Append(c.calls, len) /\ e.lost = c.lost /\ e.pending = c.pending
      /\ e.sz_pending = c.sz_pending /\ e.status = c.status /\ e.wire = c.wire
      /\ c.wire \in Seq(UByte)
  BY <1>1, <1>3 DEF Client
<1>5. /\ c.lost \subseteq 1..Len(c.calls) /\ Len(c.calls) \in Nat
      /\ \A i \in 1..Len(c.pending) : c.pending[i].call \in 1..Len(c.calls)
  BY <1>1, ClientFacts DEF Typed
<1>6. \/ peer = "gone" /\ d = Broken(e)
      \/ peer # "gone" /\ d = sent(len)
      \/ peer # "gone" /\ \E n \in 1..(len - 1) :
            \E q \in UsQueueData(sent(n), call, n + 1, len) : d = OnPending(q)
      \/ peer # "gone" /\ \E q \in UsQueueData(tried, call, 0, len) : d = OnPending(q)
  <2> HIDE DEF e, call
  <2>1. d \in UsWriteData(e, call, len)
    BY DEF e, call
  <2>2. CASE peer = "gone"
    BY <2>1, <2>2 DEF UsWriteData
  <2>3. CASE peer # "gone"
    <3>1. \/ \E n \in 1..len : d \in TakenUpTo(n, e, call, len)
          \/ d \in NothingTaken(e, call, len)
      BY <2>1, <2>3, UsWriteDataCases
    <3>2. ASSUME NEW n \in 1..len, n # len PROVE n \in 1..(len - 1)
      BY <1>2, <3>2
    <3> QED BY <2>3, <3>1, <3>2 DEF TakenUpTo, NothingTaken
  <2> QED BY <2>2, <2>3
<1> HIDE DEF e
<1>7. ASSUME NEW n \in 0..len
      PROVE  /\ call \in Nat /\ 1 \in Nat \ {0} /\ n \in Nat /\ 1 <= n + 1
             /\ Bytes(call, 1, n) \in Seq(UByte) /\ OfBuffers(Bytes(call, 1, n)) = Bytes(call, 1, n)
  <2>1. call \in Nat /\ 1 \in Nat \ {0} /\ n \in Nat /\ 1 <= n + 1
    BY <1>2, <1>3
  <2> HIDE DEF call
  <2> QED BY <2>1, BytesFacts, OfBuffersOfBytes
<1>8. ASSUME NEW n \in 0..len
      PROVE  /\ sent(n) \in Client /\ sent(n).calls = e.calls /\ sent(n).lost = e.lost
             /\ sent(n).pending = e.pending /\ sent(n).sz_pending = e.sz_pending
             /\ sent(n).status = e.status /\ IsConcat(sent(n).wire, c.wire, Bytes(call, 1, n))
  <2> DEFINE x == Bytes(call, 1, n)
  <2>1. c.wire \o x \in Seq(UByte)
    <3>1. x \in Seq(UByte)
      BY <1>7
    <3> HIDE DEF x
    <3> QED BY <1>4, <3>1, ConcatProperties
  <2> HIDE DEF x
  <2> DEFINE w == c.wire \o x
             v == [e EXCEPT !.wire = w, !.failed = FALSE]
  <2>2. sent(n) = v
    BY <1>4 DEF x
  <2>3. w \in Seq(UByte) /\ IsConcat(w, c.wire, x)
    BY <2>1 DEF IsConcat
  <2> HIDE DEF w
  <2>4. v \in Client /\ v.calls = e.calls /\ v.lost = e.lost /\ v.pending = e.pending
        /\ v.sz_pending = e.sz_pending /\ v.status = e.status /\ v.wire = w
    BY <1>4, <2>3 DEF Client
  <2> HIDE DEF v, sent
  <2> QED BY <2>2, <2>3, <2>4 DEF x
<1>9. CASE peer = "gone" /\ d = Broken(e)
  <2>1. /\ d \in Client /\ d.calls = e.calls /\ d.lost = e.lost /\ d.pending = e.pending
        /\ d.sz_pending = e.sz_pending /\ d.wire = e.wire /\ "ERR" \in d.status /\ "CLOSE" \in d.status
    BY <1>4, <1>9 DEF Broken, Client, Status
  <2>2. Typed(d)
    <3>1. Len(d.calls) = call /\ d.lost \subseteq 1..call
      BY <1>3, <1>4, <1>5, <2>1
    <3>2. 1..Len(d.pending) = {}
      BY <1>4, <2>1
    <3> QED BY <1>3, <2>1, <3>1, <3>2 DEF Typed
  <2> QED BY <1>4, <1>9, <2>1, <2>2, BreakStep
<1>10. CASE peer # "gone" /\ d = sent(len)
  <2>1. len \in 0..len
    BY <1>2
  <2>2. /\ d \in Client /\ d.calls = Append(c.calls, len) /\ d.lost = c.lost /\ d.pending = <<>>
        /\ d.sz_pending = c.sz_pending /\ d.status = c.status
        /\ IsConcat(d.wire, c.wire, Bytes(call, 1, len))
    BY <1>4, <1>8, <1>10, <2>1
  <2>3. Typed(d)
    <3>1. Len(d.calls) = call /\ d.lost \subseteq 1..call
      BY <1>3, <1>5, <2>2
    <3>2. 1..Len(d.pending) = {}
      BY <2>2
    <3> QED BY <1>3, <2>2, <3>1, <3>2 DEF Typed
  <2>4. Counted(d)
    <3>1. /\ SumLeft(d.pending) = 0 /\ d.sz_pending \in Nat /\ Threshold \in Nat
          /\ c.sz_pending <= Len(c.calls) * (LongestBuffer + 1) /\ Len(d.calls) = call
      BY <1>1, <1>3, <2>2, SumFacts, ClientFacts, SendAssumption, ThresholdAssumption DEF Good, Counted
    <3>2. call * (LongestBuffer + 1) = Len(c.calls) * (LongestBuffer + 1) + LongestBuffer + 1
          /\ Len(c.calls) * (LongestBuffer + 1) \in Nat
      BY <1>1, NewCall
    <3>3. c.sz_pending <= call * (LongestBuffer + 1)
      BY <1>2, <2>2, <3>1, <3>2
    <3>4. 0 < Threshold + LongestBuffer + 1
      BY <1>2, <3>1
    <3>5. 0 <= d.sz_pending /\ d.sz_pending = c.sz_pending
      BY <2>2, <3>1
    <3> QED BY <3>1, <3>3, <3>4, <3>5 DEF Counted
  <2>5. IsWatched(d)
    BY <2>2 DEF IsWatched
  <2>6. ASSUME "nomem" \notin env, Flows(c) PROVE Flows(d) /\ Follows(c, d)
    <3>1. "ERR" \notin c.status /\ "ERR" \notin d.status
      BY <1>10, <2>2, <2>6 DEF Flows
    <3> DEFINE x == Bytes(call, 1, len)
    <3>2. x \in Seq(UByte) /\ OfBuffers(x) = x
      BY <1>7, <2>1
    <3>3. IsConcat(Written(d), Written(c), x)
      BY <1>1, <2>2, NewCall
    <3>4. IsConcat(d.wire, c.wire, x)
      BY <2>2
    <3> HIDE DEF x
    <3>5. IsConcat(OfBuffers(d.wire), OfBuffers(c.wire), x)
      <4>1. IsConcat(OfBuffers(c.wire \o x), OfBuffers(c.wire), OfBuffers(x))
        BY <1>4, <3>2, OfBuffersFacts
      <4> QED BY <3>2, <3>4, <4>1 DEF IsConcat
    <3>6. OfBuffers(Queued(c)) = <<>> /\ OfBuffers(Queued(d)) = <<>>
      BY <2>2, UnsentBytesFacts, OfBuffersFacts DEF Queued
    <3>7. IsConcat(x, OfBuffers(Queued(c)), x)
      BY <3>2, <3>6, ConcatEmptySeq DEF IsConcat
    <3>8. IsConcat(x, x, OfBuffers(Queued(d)))
      BY <3>2, <3>6, ConcatEmptySeq DEF IsConcat
    <3>9. Moves(c, d)
      BY <3>2, <3>3, <3>5, <3>7, <3>8 DEF Moves
    <3> QED BY <1>1, <2>3, <2>6, <3>1, <3>9, MovesFlow
  <2> QED BY <1>3, <2>2, <2>3, <2>4, <2>5, <2>6 DEF Wrote, Good
<1>11. ASSUME peer # "gone", NEW n \in 1..(len - 1),
              NEW q \in UsQueueData(sent(n), call, n + 1, len)
       PROVE  Wrote(c, OnPending(q))
  <2>1. n \in 0..len /\ n \in 0..(len - 1) /\ n + 1 \in Nat
    BY <1>2
  <2> DEFINE v == sent(n)
             from == n + 1
  <2>2. /\ v \in Client /\ v.calls = Append(c.calls, len) /\ v.lost = c.lost
        /\ v.pending = <<>> /\ v.sz_pending = c.sz_pending
        /\ v.status = c.status /\ IsConcat(v.wire, c.wire, Bytes(call, 1, n))
    BY <1>4, <1>8, <2>1
  <2>3. q \in UsQueueData(v, call, from, len) /\ from = n + 1 /\ from \in Nat
    BY <2>1
  <2> HIDE DEF v, from, sent
  <2>4. ASSUME NEW w \in Client, w.calls = Append(c.calls, len), w.lost = c.lost,
               w.pending = <<>>, w.sz_pending = c.sz_pending, w.status = c.status,
               NEW k \in 0..(len - 1), NEW i \in Nat, i = k + 1,
               IsConcat(w.wire, c.wire, Bytes(call, 1, k)), NEW p \in UsQueueData(w, call, i, len)
        PROVE  Wrote(c, OnPending(p))
    BY <1>11, <2>4, QueueRest
  <2> QED BY <1>11, <2>1, <2>2, <2>3, <2>4
<1>12. ASSUME peer # "gone", NEW q \in UsQueueData(tried, call, 0, len)
       PROVE  Wrote(c, OnPending(q))
  <2>1. 0 \in 0..(len - 1) /\ 0 \in Nat
    BY <1>2
  <2>2. /\ tried \in Client /\ tried.calls = Append(c.calls, len) /\ tried.lost = c.lost
        /\ tried.pending = <<>> /\ tried.sz_pending = c.sz_pending
        /\ tried.status = c.status /\ tried.wire = c.wire
    BY <1>4 DEF Client
  <2>3. Bytes(call, 1, 0) = <<>>
    BY DEF Bytes
  <2>4. IsConcat(tried.wire, c.wire, Bytes(call, 1, 0))
    BY <1>4, <2>2, <2>3, ConcatEmptySeq DEF IsConcat
  <2> HIDE DEF tried
  <2> QED BY <1>12, <2>1, <2>2, <2>4, QueueRest
<1> HIDE DEF sent, tried
<1> QED BY <1>6, <1>9, <1>10, <1>11, <1>12

\* A buffer queued behind others.
LEMMA QueueBehind ==
    ASSUME NEW c, Good(c), Len(c.calls) < MaxCalls, NEW len \in 1..LongestBuffer,
           c.pending # <<>>, c.sz_pending < Threshold,
           NEW e \in Client, e.calls = Append(c.calls, len), e.lost = c.lost,
           e.pending = c.pending, e.sz_pending = c.sz_pending, e.status = c.status,
           e.armed = c.armed, e.wire = c.wire,
           NEW d \in UsQueueData(e, Len(c.calls) + 1, 1, len)
    PROVE  Wrote(c, d)
<1> DEFINE call == Len(c.calls) + 1
           node == [call |-> call, next |-> 1, last |-> len]
<1>1. Typed(c) /\ Counted(c) /\ IsWatched(c)
  BY DEF Good
<1>2. LongestBuffer \in Nat \ {0} /\ len \in Nat \ {0} /\ len <= LongestBuffer /\ len - 1 + 1 = len
  BY LongestFacts
<1>3. /\ call \in Nat \ {0} /\ call <= MaxCalls /\ Len(e.calls) = call
      /\ call * (LongestBuffer + 1) = Len(c.calls) * (LongestBuffer + 1) + LongestBuffer + 1
      /\ call * (LongestBuffer + 1) < SizeWord /\ Len(c.calls) * (LongestBuffer + 1) \in Nat
  BY <1>1, NewCall
<1>4. c.sz_pending \in Nat /\ c.sz_pending <= Len(c.calls) * (LongestBuffer + 1)
      /\ c.wire \in Seq(UByte) /\ c.lost \subseteq 1..Len(c.calls) /\ Len(c.calls) \in Nat
      /\ c.pending \in Seq(Node)
  BY <1>1, ClientFacts DEF Counted
<1>5. c.sz_pending + len <= call * (LongestBuffer + 1)
  <2>1. \A i, m \in Nat : i <= m => i + len <= m + LongestBuffer + 1
    BY <1>2
  <2>2. c.sz_pending + len <= Len(c.calls) * (LongestBuffer + 1) + LongestBuffer + 1
    BY <1>3, <1>4, <2>1
  <2> QED BY <1>3, <2>2
<1>6. c.sz_pending + len < SizeWord
  <2>1. SizeWord \in Nat /\ call * (LongestBuffer + 1) \in Nat
    BY <1>3, WordIsWide
  <2>2. c.sz_pending + len \in Nat
    BY <1>2, <1>4
  <2>3. \A i, j, k \in Nat : i <= j /\ j < k => i < k
    OBVIOUS
  <2> QED BY <1>3, <1>5, <2>1, <2>2, <2>3, Zenon
<1>7. /\ d \in Client /\ d.calls = e.calls /\ d.lost = e.lost /\ d.wire = e.wire /\ d.armed = e.armed
      /\ \/ /\ "nomem" \in env
            /\ d.pending = <<>> /\ d.sz_pending = 0
         \/ /\ IsConcat(d.pending, e.pending, <<node>>)
            /\ d.sz_pending = e.sz_pending + len
            /\ "SENDING" \in d.status
            /\ "ERR" \in d.status <=> "ERR" \in e.status
  <2>1. 1 \in Nat /\ 1 <= len /\ e.sz_pending + (len - 1 + 1) < SizeWord
    BY <1>2, <1>6
  <2> QED BY <1>2, <1>3, <2>1, QueueStep
<1>8. node \in Node /\ Left(node) = len /\ node.call = call
  BY <1>2, <1>3 DEF Node, Left
<1> HIDE DEF node
<1>9. Len(d.calls) <= MaxCalls /\ d.lost \subseteq 1..Len(d.calls) /\ Len(d.calls) = call
  BY <1>3, <1>4, <1>7
<1>10. CASE "nomem" \in env /\ d.pending = <<>> /\ d.sz_pending = 0
  <2>1. Typed(d)
    BY <1>7, <1>9, <1>10 DEF Typed
  <2>2. call * (LongestBuffer + 1) \in Nat /\ Threshold \in Nat \ {0}
    BY <1>3, WordIsWide
  <2>3. Counted(d)
    <3>1. SumLeft(d.pending) = 0 /\ d.sz_pending = 0
      BY <1>10, SumFacts
    <3>2. 0 <= Len(d.calls) * (LongestBuffer + 1)
      BY <1>9, <2>2
    <3>3. 0 < Threshold + LongestBuffer + 1
      BY <1>2, <2>2
    <3> QED BY <3>1, <3>2, <3>3 DEF Counted
  <2>4. IsWatched(d)
    BY <1>10 DEF IsWatched
  <2> QED BY <1>9, <1>10, <2>1, <2>3, <2>4 DEF Wrote, Good
<1>11. CASE /\ IsConcat(d.pending, e.pending, <<node>>)
            /\ d.sz_pending = e.sz_pending + len
            /\ "SENDING" \in d.status
            /\ "ERR" \in d.status <=> "ERR" \in e.status
  <2>1. /\ d.pending \in Seq(Node) /\ SumLeft(d.pending) = SumLeft(c.pending) + Left(node)
        /\ \A i \in 1..Len(d.pending) :
             (i \in 1..Len(c.pending) /\ d.pending[i] = c.pending[i]) \/ d.pending[i] = node
        /\ IsConcat(OfBuffers(UnsentBytes(d.pending)), OfBuffers(UnsentBytes(c.pending)), OfBuffers(Unsent(node)))
    <3>1. \A t : \A s \in Seq(Node), x \in Node : IsConcat(t, s, <<x>>) =>
            /\ t \in Seq(Node) /\ SumLeft(t) = SumLeft(s) + Left(x)
            /\ \A i \in 1..Len(t) : (i \in 1..Len(s) /\ t[i] = s[i]) \/ t[i] = x
            /\ IsConcat(OfBuffers(UnsentBytes(t)), OfBuffers(UnsentBytes(s)), OfBuffers(Unsent(x)))
      BY OneMore
    <3> QED BY <1>4, <1>8, <1>11, <3>1
  <2>2. Typed(d)
    <3>1. \A i \in 1..Len(c.pending) : c.pending[i].call \in 1..Len(c.calls)
      BY <1>1 DEF Typed
    <3>2. call \in 1..Len(d.calls) /\ 1..Len(c.calls) \subseteq 1..Len(d.calls)
      BY <1>3, <1>4, <1>9
    <3>3. \A i \in 1..Len(d.pending) : d.pending[i].call \in 1..Len(d.calls)
      BY <1>8, <2>1, <3>1, <3>2
    <3> QED BY <1>7, <1>9, <3>3 DEF Typed
  <2>3. Counted(d)
    <3>1. SumLeft(c.pending) <= c.sz_pending /\ SumLeft(c.pending) \in Nat /\ Threshold \in Nat \ {0}
      BY <1>1, ClientFacts, SendAssumption, ThresholdAssumption DEF Counted
    <3>2. d.sz_pending = c.sz_pending + len /\ SumLeft(d.pending) = SumLeft(c.pending) + len
      BY <1>8, <1>11, <2>1
    <3>3. d.sz_pending <= Len(d.calls) * (LongestBuffer + 1)
      BY <1>5, <1>9, <3>2
    <3>4. SumLeft(d.pending) <= d.sz_pending /\ SumLeft(d.pending) < Threshold + LongestBuffer + 1
      BY <1>2, <1>4, <3>1, <3>2
    <3> QED BY <3>3, <3>4 DEF Counted
  <2>4. "CLOSE" \notin d.status => d.armed
    <3>1. "CLOSE" \notin d.status => "CLOSE" \notin c.status
      <4>1. "CLOSE" \in e.status => "CLOSE" \in d.status
        BY DEF UsQueueData, Client
      <4> QED BY <4>1
    <3> QED BY <1>1, <1>7, <3>1 DEF IsWatched
  <2>5. IsWatched(d)
    BY <1>11, <2>4 DEF IsWatched
  <2>6. ASSUME "nomem" \notin env, Flows(c) PROVE Flows(d) /\ Follows(c, d)
    <3> DEFINE b == Bytes(call, 1, len)
    <3>1. b \in Seq(UByte) /\ IsConcat(Written(d), Written(c), b)
      BY <1>1, <1>7, NewCall
    <3>2. OfBuffers(Unsent(node)) = b
      <4>1. node.next = 1 /\ node.last = len /\ node.call = call
        BY DEF node
      <4>2. OfBuffers(Unsent(node)) = Bytes(node.call, IF node.next = 0 THEN 1 ELSE node.next, node.last)
        BY <1>8, UnsentFacts
      <4> QED BY <4>1, <4>2
    <3> HIDE DEF b
    <3>3. CASE "ERR" \in c.status
      <4>1. peer = "gone" /\ "ERR" \in d.status /\ d.wire = c.wire
        BY <1>7, <1>11, <2>6, <3>3 DEF Flows
      <4>2. Extends(Written(c), Written(d))
        BY <3>1 DEF Extends
      <4> QED BY <1>1, <2>2, <2>6, <4>1, <4>2, BrokenFlow
    <3>4. CASE "ERR" \notin c.status
      <4>1. "ERR" \notin d.status
        BY <1>11, <3>4
      <4> DEFINE Q == OfBuffers(Queued(c))
      <4>2. Q \in Seq(UByte) /\ OfBuffers(c.wire) \in Seq(UByte) /\ <<>> \in Seq(UByte)
        BY <1>1, ClientFacts
      <4>3. IsConcat(OfBuffers(d.wire), OfBuffers(c.wire), <<>>)
        BY <1>7, <4>2, ConcatEmptySeq DEF IsConcat
      <4>4. IsConcat(OfBuffers(Queued(d)), Q, b)
        BY <2>1, <3>2 DEF Queued
      <4> HIDE DEF Q
      <4>5. OfBuffers(Queued(d)) \in Seq(UByte)
        BY <2>2, ClientFacts
      <4>6. IsConcat(OfBuffers(Queued(d)), <<>>, OfBuffers(Queued(d)))
        BY <4>5, ConcatEmptySeq DEF IsConcat
      <4>7. Moves(c, d)
        BY <3>1, <4>2, <4>3, <4>4, <4>5, <4>6 DEF Moves, Q
      <4> QED BY <1>1, <2>2, <2>6, <3>4, <4>1, <4>7, MovesFlow
    <3> QED BY <3>3, <3>4
  <2> QED BY <1>9, <2>2, <2>3, <2>5, <2>6 DEF Wrote, Good
<1> QED BY <1>7, <1>10, <1>11

-----------------------------------------------------------------------------
(***************************************************************************)
(* us_write_pending.                                                       *)
(***************************************************************************)
\* The kernel takes p bytes of a node, not all of it.
LEMMA NodeMoves ==
    ASSUME NEW h \in Node, NEW p \in 0..(Left(h) - 1)
    PROVE  /\ [h EXCEPT !.next = @ + p] \in Node /\ [h EXCEPT !.next = @ + p].call = h.call
           /\ Bytes(h.call, h.next, h.next + p - 1) \in Seq(UByte)
           /\ IsConcat(Unsent(h), Bytes(h.call, h.next, h.next + p - 1), Unsent([h EXCEPT !.next = @ + p]))
<1> DEFINE t == [h EXCEPT !.next = @ + p]
           x == Bytes(h.call, h.next, h.next + p - 1)
<1>1. h \in [call : Nat, next : Nat, last : Nat \ {0}] /\ h.next <= h.last /\ p \in Nat
      /\ h.next + p <= h.last
  BY DEF Node, Left
<1>2. h.call \in Nat /\ h.next \in Nat /\ h.last \in Nat \ {0}
  BY <1>1
<1>3. /\ t \in [call : Nat, next : Nat, last : Nat \ {0}]
      /\ t.call = h.call /\ t.next = h.next + p /\ t.last = h.last
  BY <1>1
<1>4. t \in Node
  BY <1>1, <1>3 DEF Node
<1>5. CASE p = 0
  <2>1. t = h
    BY <1>1, <1>5
  <2>2. x = <<>>
    <3>1. (h.next + 0 - 1) - h.next + 1 = 0
      BY <1>2
    <3>2. x = [i \in 1..0 |-> <<h.call, h.next + i - 1>>]
      BY <1>5, <3>1 DEF Bytes
    <3> QED BY <3>2
  <2>3. Unsent(h) \in Seq(UByte)
    BY UnsentFacts
  <2>4. IsConcat(Unsent(h), <<>>, Unsent(h))
    BY <2>3, ConcatEmptySeq DEF IsConcat
  <2> HIDE DEF t, x
  <2>5. x \in Seq(UByte) /\ IsConcat(Unsent(h), x, Unsent(t))
    BY <2>1, <2>2, <2>4
  <2> QED BY <1>3, <1>4, <2>5 DEF t, x
<1>6. CASE p # 0
  <2>1. h.next + p - 1 \in Nat /\ h.next + p = (h.next + p - 1) + 1 /\ h.next <= h.next + p
        /\ h.next + p - 1 <= h.last /\ h.next + p \in Nat /\ h.last \in Nat
    BY <1>1, <1>2, <1>6
  <2> DEFINE k == h.next + p - 1
             m == h.next + p
  <2>2. k \in Nat /\ m \in Nat /\ m = k + 1 /\ h.next <= m /\ k <= h.last /\ h.next <= k + 1
    BY <2>1
  <2>3. Unsent(t) = Bytes(h.call, m, h.last) /\ Unsent(h) = Bytes(h.call, h.next, h.last)
    BY <1>3 DEF Unsent
  <2> HIDE DEF k, m
  <2>4. IsConcat(Bytes(h.call, h.next, h.last), Bytes(h.call, h.next, k), Bytes(h.call, m, h.last))
    BY <1>2, <2>2, BytesConcat
  <2>5. Bytes(h.call, h.next, k) \in Seq(UByte)
    BY <1>2, <2>2, BytesFacts
  <2> HIDE DEF t
  <2> QED BY <1>3, <1>4, <2>3, <2>4, <2>5 DEF k, t
<1> QED BY <1>5, <1>6

\* Some bytes of the queue go to the kernel, in order.
LEMMA PendingStep ==
    ASSUME NEW c \in Client, SumLeft(c.pending) <= c.sz_pending, peer # "gone",
           NEW s \in StoppingPoints(c)
    PROVE  LET d == UsWritePending(c, s[1], s[2])
           IN  /\ d \in Client /\ d.calls = c.calls /\ d.lost = c.lost /\ d.status = c.status
               /\ d.armed = c.armed
               /\ c.pending = <<>> => d.pending = <<>>
               /\ \A i \in 1..Len(d.pending) : \E j \in 1..Len(c.pending) :
                    d.pending[i].call = c.pending[j].call
               /\ SumLeft(d.pending) <= SumLeft(c.pending)
               /\ SumLeft(d.pending) <= d.sz_pending
               /\ d.sz_pending <= c.sz_pending
               /\ \E x \in Seq(UByte) : IsConcat(d.wire, c.wire, x) /\ IsConcat(Queued(c), x, Queued(d))
<1> DEFINE n == Len(c.pending)
           k == s[1]
           p == s[2]
           d == UsWritePending(c, k, p)
           done == SubSeq(c.pending, 1, k)
           rest == SubSeq(c.pending, k + 1, n)
           part == IF rest = <<>> THEN <<>> ELSE Bytes(rest[1].call, rest[1].next, rest[1].next + p - 1)
           left == IF rest = <<>> THEN <<>> ELSE <<[rest[1] EXCEPT !.next = @ + p]>> \o Tail(rest)
           size == (c.sz_pending - SumLeft(done)) % SizeWord
           wire == c.wire \o UnsentBytes(done) \o part
           fails == rest # <<>> /\ p = 0
<1>1. /\ c.pending \in Seq(Node) /\ n \in Nat /\ c.sz_pending \in 0..(SizeWord - 1)
      /\ c.wire \in Seq(UByte) /\ SizeWord \in Nat \ {0}
      /\ \A i \in 1..n : c.pending[i] \in Node
  BY LenProperties, ElementOfSeq, SendAssumption DEF Client
<1>2. /\ k \in 0..n
      /\ k # n => p \in 0..(Left(c.pending[k + 1]) - 1)
  <2>1. CASE s = <<n, 0>>
    BY <1>1, <2>1
  <2>2. CASE s # <<n, 0>>
    <3>1. PICK m \in 0..(n - 1) : s \in {<<m, q>> : q \in 0..(Left(c.pending[m + 1]) - 1)}
      BY <2>2 DEF StoppingPoints
    <3>2. s[1] = m /\ s[2] \in 0..(Left(c.pending[m + 1]) - 1)
      BY <3>1
    <3> QED BY <1>1, <3>2
  <2> QED BY <2>1, <2>2
<1>3. d = [c EXCEPT !.pending = left, !.sz_pending = size, !.wire = wire, !.failed = fails]
  BY DEF UsWritePending
<1>4. /\ done \in Seq(Node)
      /\ rest \in Seq(Node) /\ Len(rest) = n - k
      /\ \A i \in 1..(n - k) : rest[i] = c.pending[k + i]
      /\ IsConcat(c.pending, done, rest)
  <2>1. done \in Seq(Node)
    <3>1. \A i \in 1..k : c.pending[i] \in Node
      BY <1>1, <1>2
    <3> QED BY <1>2, <3>1, SubSeqProperties
  <2>2. \A i \in (k + 1)..n : c.pending[i] \in Node
    BY <1>1, <1>2
  <2>3. k + 1 \in Int /\ n \in Int
    BY <1>1, <1>2
  <2>4. /\ rest \in Seq(Node) /\ Len(rest) = IF k + 1 <= n THEN n - (k + 1) + 1 ELSE 0
        /\ \A i \in 1..(n - (k + 1) + 1) : rest[i] = c.pending[(k + 1) + i - 1]
    BY <2>2, <2>3, SubSeqProperties
  <2>5. Len(rest) = n - k /\ \A i \in 1..(n - k) : rest[i] = c.pending[k + i]
    <3>1. n - (k + 1) + 1 = n - k /\ (~(k + 1 <= n) => n - k = 0)
      BY <1>1, <1>2
    <3>2. \A i \in 1..(n - k) : (k + 1) + i - 1 = k + i
      BY <1>1, <1>2
    <3> QED BY <2>4, <3>1, <3>2
  <2>6. done \o rest = c.pending
    <3>1. 1 \in 1..(n + 1) /\ k \in (1 - 1)..n /\ n \in k..n
      BY <1>1, <1>2
    <3>2. SubSeq(c.pending, 1, k) \o SubSeq(c.pending, k + 1, n) = SubSeq(c.pending, 1, n)
      BY <1>1, <3>1, ConcatAdjacentSubSeq
    <3>3. SubSeq(c.pending, 1, n) = c.pending
      BY <1>1, SubSeqFull
    <3> QED BY <3>2, <3>3
  <2> HIDE DEF rest, done
  <2> QED BY <2>1, <2>4, <2>5, <2>6 DEF IsConcat
<1> HIDE DEF rest, done
<1>5. /\ left \in Seq(Node) /\ part \in Seq(UByte)
      /\ \A i \in 1..Len(left) : \E j \in 1..n : left[i].call = c.pending[j].call
      /\ IsConcat(UnsentBytes(rest), part, UnsentBytes(left))
      /\ n = 0 => left = <<>>
  <2>1. CASE rest = <<>>
    <3>1. left = <<>> /\ part = <<>>
      BY <2>1
    <3>2. UnsentBytes(<<>>) = <<>> /\ <<>> \in Seq(UByte) /\ <<>> \in Seq(Node) /\ 1..Len(<<>>) = {}
      BY UnsentBytesFacts
    <3>3. IsConcat(UnsentBytes(rest), part, UnsentBytes(left))
      BY <2>1, <3>1, <3>2, ConcatEmptySeq DEF IsConcat
    <3> QED BY <3>1, <3>2, <3>3
  <2>2. CASE rest # <<>>
    <3> DEFINE h == rest[1]
               t == Tail(rest)
               m == [h EXCEPT !.next = @ + p]
    <3>1. n - k >= 1 /\ Len(rest) >= 1
      BY <1>1, <1>2, <1>4, <2>2, EmptySeq
    <3>2. /\ h \in Node /\ h = c.pending[k + 1] /\ t \in Seq(Node) /\ Len(t) = n - k - 1
          /\ \A i \in 1..Len(t) : t[i] = rest[i + 1]
      BY <1>1, <1>2, <1>4, <2>2, <3>1, ElementOfSeq, HeadTailProperties
    <3>3. rest = <<h>> \o t
      <4>1. rest = Append(<<>>, Head(rest)) \o Tail(rest) /\ Head(rest) = rest[1]
        BY <1>4, <2>2
      <4> QED BY <4>1
    <3>4. p \in 0..(Left(h) - 1)
      BY <1>2, <3>1, <3>2
    <3> HIDE DEF h, t
    <3>5. m \in Node /\ m.call = h.call
      BY <3>2, <3>4, NodeMoves
    <3>6. part = Bytes(h.call, h.next, h.next + p - 1) /\ left = <<m>> \o t
      BY <2>2 DEF h, t
    <3>7. part \in Seq(UByte) /\ IsConcat(Unsent(h), part, Unsent(m))
      BY <3>2, <3>4, <3>6, NodeMoves
    <3> HIDE DEF m, part
    <3>8. /\ left \in Seq(Node) /\ Len(left) = 1 + Len(t) /\ Len(t) \in Nat
          /\ \A i \in 1..(1 + Len(t)) : left[i] = IF i <= 1 THEN m ELSE t[i - 1]
      <4>1. <<m>> \in Seq(Node) /\ Len(<<m>>) = 1 /\ <<m>>[1] = m
        BY <3>5
      <4>2. /\ <<m>> \o t \in Seq(Node) /\ Len(<<m>> \o t) = Len(<<m>>) + Len(t)
            /\ \A i \in 1..(Len(<<m>>) + Len(t)) :
                 (<<m>> \o t)[i] = IF i <= Len(<<m>>) THEN <<m>>[i] ELSE t[i - Len(<<m>>)]
        <5> DEFINE a == <<m>>
        <5>1. a \in Seq(Node)
          BY <4>1
        <5> HIDE DEF a
        <5>2. /\ a \o t \in Seq(Node) /\ Len(a \o t) = Len(a) + Len(t)
              /\ \A i \in 1..(Len(a) + Len(t)) : (a \o t)[i] = IF i <= Len(a) THEN a[i] ELSE t[i - Len(a)]
          BY <3>2, <5>1, ConcatProperties
        <5> QED BY <5>2 DEF a
      <4>3. Len(t) \in Nat
        BY <3>2, LenProperties
      <4>4. \A i \in 1..(1 + Len(t)) : i <= 1 => i = 1
        BY <4>3
      <4> HIDE DEF left
      <4> QED BY <3>6, <4>1, <4>2, <4>3, <4>4
    <3>9. ASSUME NEW i \in 1..Len(left) PROVE \E j \in 1..n : left[i].call = c.pending[j].call
      <4>1. CASE i = 1
        <5>1. left[i] = m /\ k + 1 \in 1..n
          BY <1>1, <1>2, <3>1, <3>8, <4>1
        <5> QED BY <3>2, <3>5, <5>1
      <4>2. CASE i # 1
        <5>1. i \in 1..(1 + Len(t)) /\ ~(i <= 1) /\ i - 1 \in 1..Len(t) /\ (i - 1) + 1 = i
          BY <3>8, <4>2
        <5>2. left[i] = rest[i] /\ i \in 1..(n - k)
          BY <1>1, <1>2, <3>2, <3>8, <5>1
        <5>3. k + i \in 1..n
          BY <1>1, <1>2, <5>2
        <5> QED BY <1>4, <5>2, <5>3
      <4> QED BY <4>1, <4>2
    <3>10. IsConcat(UnsentBytes(rest), part, UnsentBytes(left))
      <4>1. <<h>> \in Seq(Node) /\ <<m>> \in Seq(Node)
        BY <3>2, <3>5
      <4>2. IsConcat(UnsentBytes(<<h>> \o t), UnsentBytes(<<h>>), UnsentBytes(t))
        BY <3>2, <4>1, UnsentBytesFacts
      <4>3. IsConcat(UnsentBytes(<<m>> \o t), UnsentBytes(<<m>>), UnsentBytes(t))
        BY <3>2, <4>1, UnsentBytesFacts
      <4>4. UnsentBytes(<<h>>) = Unsent(h) /\ UnsentBytes(<<m>>) = Unsent(m)
        BY <3>2, <3>5, UnsentBytesFacts
      <4>5. Unsent(m) \in Seq(UByte) /\ UnsentBytes(t) \in Seq(UByte)
        BY <3>2, <3>5, UnsentFacts, UnsentBytesFacts
      <4>6. IsConcat(UnsentBytes(rest), Unsent(h), UnsentBytes(t))
        BY <3>3, <4>2, <4>4
      <4>7. IsConcat(UnsentBytes(left), Unsent(m), UnsentBytes(t))
        BY <3>6, <4>3, <4>4
      <4> QED BY <3>7, <4>5, <4>6, <4>7, ThreeConcat
    <3>11. n # 0
      BY <1>1, <1>2, <3>1
    <3> HIDE DEF left
    <3> QED BY <3>7, <3>8, <3>9, <3>10, <3>11
  <2> QED BY <2>1, <2>2
<1> HIDE DEF left, part
<1> DEFINE x == UnsentBytes(done) \o part
<1>6. UnsentBytes(done) \in Seq(UByte) /\ UnsentBytes(left) \in Seq(UByte) /\ UnsentBytes(rest) \in Seq(UByte)
  BY <1>4, <1>5, UnsentBytesFacts
<1>7. x \in Seq(UByte) /\ Len(x) = Len(UnsentBytes(done)) + Len(part)
  BY <1>5, <1>6, ConcatProperties
<1>8. IsConcat(x, UnsentBytes(done), part)
  BY DEF IsConcat
<1>9. IsConcat(UnsentBytes(c.pending), UnsentBytes(done), UnsentBytes(rest))
  <2>1. IsConcat(UnsentBytes(done \o rest), UnsentBytes(done), UnsentBytes(rest))
    BY <1>4, UnsentBytesFacts
  <2> QED BY <1>4, <2>1 DEF IsConcat
<1>10. IsConcat(UnsentBytes(c.pending), x, UnsentBytes(left))
  <2> HIDE DEF x
  <2> QED BY <1>5, <1>6, <1>8, <1>9, ThreeConcat
<1>11. IsConcat(wire, c.wire, x)
  <2>1. (c.wire \o UnsentBytes(done)) \o part = c.wire \o (UnsentBytes(done) \o part)
    <3> DEFINE u == UnsentBytes(done)
               w == c.wire
    <3>1. u \in Seq(UByte) /\ w \in Seq(UByte)
      BY <1>1, <1>6
    <3> HIDE DEF u, w
    <3>2. (w \o u) \o part = w \o (u \o part)
      BY <1>5, <3>1, ConcatAssociative
    <3> QED BY <3>2 DEF u, w
  <2> QED BY <2>1 DEF IsConcat
<1>12. wire \in Seq(UByte)
  <2> HIDE DEF x, wire
  <2>1. c.wire \o x \in Seq(UByte)
    BY <1>1, <1>7, ConcatProperties
  <2> QED BY <1>11, <2>1 DEF IsConcat
<1> HIDE DEF x, wire
<1>13. /\ SumLeft(c.pending) = Len(x) + SumLeft(left) /\ SumLeft(left) \in Nat /\ Len(x) \in Nat
       /\ SumLeft(done) <= Len(x) /\ SumLeft(done) \in Nat
  <2>1. Len(x \o UnsentBytes(left)) = Len(x) + Len(UnsentBytes(left))
    <3> DEFINE u == UnsentBytes(left)
    <3>1. u \in Seq(UByte)
      BY <1>6
    <3> HIDE DEF u
    <3>2. Len(x \o u) = Len(x) + Len(u)
      BY <1>7, <3>1, ConcatProperties
    <3> QED BY <3>2 DEF u
  <2>2. Len(x) \in Nat /\ Len(UnsentBytes(left)) \in Nat /\ Len(UnsentBytes(done)) \in Nat /\ Len(part) \in Nat
    BY <1>5, <1>6, <1>7, LenProperties
  <2> QED BY <1>7, <1>10, <2>1, <2>2 DEF IsConcat, SumLeft
<1>14. size = c.sz_pending - SumLeft(done) /\ size \in 0..(SizeWord - 1)
  <2>1. c.sz_pending - SumLeft(done) \in 0..(SizeWord - 1)
    BY <1>1, <1>13
  <2>2. \A i \in 0..(SizeWord - 1) : i % SizeWord = i
    BY <1>1
  <2> QED BY <2>1, <2>2
<1> HIDE DEF size
<1>15. fails \in BOOLEAN
  OBVIOUS
<1> HIDE DEF fails
<1>16. /\ d \in Client /\ d.calls = c.calls /\ d.lost = c.lost /\ d.status = c.status /\ d.armed = c.armed
       /\ d.pending = left /\ d.sz_pending = size /\ d.wire = wire
  <2> HIDE DEF d
  <2> QED BY <1>3, <1>5, <1>12, <1>14, <1>15 DEF Client
<1> HIDE DEF d
<1>17. c.pending = <<>> => d.pending = <<>>
  BY <1>5, <1>16
<1>18. /\ SumLeft(d.pending) <= SumLeft(c.pending) /\ SumLeft(d.pending) <= d.sz_pending
       /\ d.sz_pending <= c.sz_pending
  BY <1>1, <1>13, <1>14, <1>16
<1>19. IsConcat(d.wire, c.wire, x) /\ IsConcat(Queued(c), x, Queued(d))
  BY <1>10, <1>11, <1>16 DEF Queued
<1>20. \A i \in 1..Len(d.pending) : \E j \in 1..Len(c.pending) : d.pending[i].call = c.pending[j].call
  BY <1>5, <1>16
<1> QED BY <1>7, <1>16, <1>17, <1>18, <1>19, <1>20 DEF d

-----------------------------------------------------------------------------
(***************************************************************************)
(* us_write and us_send_packet.                                            *)
(***************************************************************************)
\* What any of the functions leaves of a client it is given.
Served(c, d) ==
    /\ Good(d)
    /\ "nomem" \notin env /\ Flows(c) => Flows(d) /\ Follows(c, d)

LEMMA ServedFacts ==
    /\ \A c : Good(c) => Served(c, c)
    /\ \A c, d, e : Good(c) /\ Served(c, d) /\ Served(d, e) => Served(c, e)
<1>1. ASSUME NEW c, Good(c) PROVE Served(c, c)
  BY <1>1, FollowsItself DEF Served, Good
<1>2. ASSUME NEW c, NEW d, NEW e, Good(c), Served(c, d), Served(d, e) PROVE Served(c, e)
  <2>1. Typed(c) /\ Typed(d) /\ Typed(e) /\ Good(e)
    BY <1>2 DEF Served, Good
  <2>2. ASSUME "nomem" \notin env, Flows(c) PROVE Flows(e) /\ Follows(c, e)
    <3>1. Flows(d) /\ Follows(c, d) /\ Flows(e) /\ Follows(d, e)
      BY <1>2, <2>2 DEF Served
    <3> QED BY <2>1, <3>1, FollowsTransitive
  <2> QED BY <2>1, <2>2 DEF Served
<1> QED BY <1>1, <1>2

\* The kernel takes bytes of the queue; the call of len bytes is forgotten (a
\* throttled client), or there is no call (us_handle_writes).
LEMMA FlushFlow ==
    ASSUME NEW c, Typed(c), NEW d, Typed(d), peer # "gone", Flows(c),
           "ERR" \in d.status <=> "ERR" \in c.status, Written(d) = Written(c),
           \E x \in Seq(UByte) : IsConcat(d.wire, c.wire, x) /\ IsConcat(Queued(c), x, Queued(d))
    PROVE  Flows(d) /\ Follows(c, d)
<1> DEFINE Q == Queued(c)
           R == Queued(d)
           w == c.wire
           v == d.wire
<1>1. PICK x \in Seq(UByte) : IsConcat(v, w, x) /\ IsConcat(Q, x, R)
  OBVIOUS
<1>2. /\ w \in Seq(UByte) /\ Q \in Seq(UByte) /\ R \in Seq(UByte) /\ v \in Seq(UByte)
      /\ OfBuffers(Q) \in Seq(UByte) /\ Written(c) \in Seq(UByte)
  BY ClientFacts
<1>3. "ERR" \notin c.status /\ "ERR" \notin d.status
  BY DEF Flows
<1> HIDE DEF Q, R, w, v
<1>4. OfBuffers(x) \in Seq(UByte) /\ <<>> \in Seq(UByte)
  BY OfBuffersFacts
<1>5. IsConcat(OfBuffers(v), OfBuffers(w), OfBuffers(x))
  <2>1. IsConcat(OfBuffers(w \o x), OfBuffers(w), OfBuffers(x))
    BY <1>2, OfBuffersFacts
  <2> QED BY <1>1, <2>1 DEF IsConcat
<1>6. IsConcat(OfBuffers(Q), OfBuffers(x), OfBuffers(R))
  <2>1. IsConcat(OfBuffers(x \o R), OfBuffers(x), OfBuffers(R))
    BY <1>2, OfBuffersFacts
  <2> QED BY <1>1, <2>1 DEF IsConcat
<1>7. IsConcat(Written(d), Written(c), <<>>)
  BY <1>2, ConcatEmptySeq DEF IsConcat
<1>8. IsConcat(OfBuffers(Q), OfBuffers(Q), <<>>)
  BY <1>2, ConcatEmptySeq DEF IsConcat
<1>9. Moves(c, d)
  BY <1>2, <1>4, <1>5, <1>6, <1>7, <1>8 DEF Moves, Q, R, w, v
<1> QED BY <1>3, <1>9, MovesFlow

LEMMA UsWriteStep ==
    ASSUME NEW c, Good(c), Len(c.calls) < MaxCalls, NEW len \in 1..LongestBuffer,
           NEW d \in UsWrite(c, len)
    PROVE  Wrote(c, d)
<1> DEFINE call == Len(c.calls) + 1
           e == [c EXCEPT !.calls = Append(@, len)]
<1>1. Typed(c) /\ Counted(c) /\ IsWatched(c) /\ c \in Client
  BY DEF Good, Typed
<1>2. /\ Append(c.calls, len) \in Seq(Nat \ {0}) /\ Len(Append(c.calls, len)) = call
      /\ call <= MaxCalls /\ call \in Nat \ {0}
  BY <1>1, NewCall
<1>3. /\ e \in Client /\ e.calls = Append(c.calls, len) /\ e.lost = c.lost /\ e.pending = c.pending
      /\ e.sz_pending = c.sz_pending /\ e.status = c.status /\ e.wire = c.wire /\ e.armed = c.armed
  BY <1>1, <1>2 DEF Client
<1>4. c.lost \subseteq 1..Len(c.calls) /\ Len(c.calls) \in Nat /\ c.sz_pending \in Nat
      /\ SumLeft(c.pending) \in Nat /\ Threshold \in Nat
  BY <1>1, ClientFacts, SendAssumption, ThresholdAssumption
<1>5. CASE c.pending = <<>>
  <2>1. d \in UsWriteData([c EXCEPT !.calls = Append(@, len)], Len(c.calls) + 1, len)
    BY <1>5 DEF UsWrite
  <2> QED BY <1>5, <2>1, UsWriteDataStep
<1>6. CASE c.pending # <<>> /\ c.sz_pending < Threshold
  <2> DEFINE f == [e EXCEPT !.failed = FALSE]
  <2>1. d \in UsQueueData(f, Len(c.calls) + 1, 1, len)
    BY <1>6 DEF UsWrite
  <2>2. /\ f \in Client /\ f.calls = Append(c.calls, len) /\ f.lost = c.lost /\ f.pending = c.pending
        /\ f.sz_pending = c.sz_pending /\ f.status = c.status /\ f.wire = c.wire /\ f.armed = c.armed
    BY <1>3 DEF Client
  <2> HIDE DEF f
  <2> QED BY <1>6, <2>1, <2>2, QueueBehind
<1>7. CASE c.pending # <<>> /\ ~(c.sz_pending < Threshold)
  <2> DEFINE f == [e EXCEPT !.lost = @ \cup {call}]
  <2>1. PICK s \in StoppingPoints(e) : d = UsWritePending(f, s[1], s[2])
    BY <1>7 DEF UsWrite
  <2>2. /\ f \in Client /\ f.calls = Append(c.calls, len) /\ f.lost = c.lost \cup {call}
        /\ f.pending = c.pending /\ f.sz_pending = c.sz_pending /\ f.status = c.status
        /\ f.wire = c.wire /\ f.armed = c.armed
    <3>1. c.lost \cup {call} \in SUBSET Nat
      BY <1>2, <1>4
    <3> HIDE DEF e
    <3> QED BY <1>3, <3>1 DEF Client
  <2>3. s \in StoppingPoints(f)
    <3>1. StoppingPoints(f) = StoppingPoints(e)
      BY <1>3, <2>2 DEF StoppingPoints
    <3> QED BY <3>1
  <2>4. c.lost \cup {call} \subseteq 1..call
    BY <1>2, <1>4
  <2>5. \A i \in 1..Len(c.pending) : c.pending[i].call \in 1..call
    <3>1. 1..Len(c.calls) \subseteq 1..call
      BY <1>2, <1>4
    <3> QED BY <1>1, <3>1 DEF Typed
  <2> HIDE DEF f
  <2>6. CASE peer = "gone"
    <3>1. d = Broken(f)
      BY <1>7, <2>1, <2>2, <2>6 DEF UsWritePending
    <3>2. /\ d \in Client /\ d.calls = f.calls /\ d.lost = f.lost /\ d.pending = f.pending
          /\ d.sz_pending = f.sz_pending /\ d.wire = f.wire /\ "ERR" \in d.status /\ "CLOSE" \in d.status
      BY <2>2, <3>1 DEF Broken, Client, Status
    <3>3. Typed(d)
      BY <1>2, <2>2, <2>4, <2>5, <3>2 DEF Typed
    <3> QED BY <2>2, <2>6, <3>2, <3>3, BreakStep
  <2>7. CASE peer # "gone"
    <3>1. SumLeft(f.pending) <= f.sz_pending
      BY <1>1, <2>2 DEF Counted
    <3>2. /\ d \in Client /\ d.calls = f.calls /\ d.lost = f.lost /\ d.status = f.status
          /\ d.armed = f.armed
          /\ f.pending = <<>> => d.pending = <<>>
          /\ \A i \in 1..Len(d.pending) : \E j \in 1..Len(f.pending) : d.pending[i].call = f.pending[j].call
          /\ SumLeft(d.pending) <= SumLeft(f.pending)
          /\ SumLeft(d.pending) <= d.sz_pending
          /\ d.sz_pending <= f.sz_pending
          /\ \E x \in Seq(UByte) : IsConcat(d.wire, f.wire, x) /\ IsConcat(Queued(f), x, Queued(d))
      BY <2>1, <2>2, <2>3, <2>7, <3>1, PendingStep
    <3>3. Typed(d)
      BY <1>2, <2>2, <2>4, <2>5, <3>2 DEF Typed
    <3>4. Counted(d)
      <4>1. SumLeft(d.pending) \in Nat /\ d.sz_pending \in Nat /\ Len(d.calls) = call
        BY <1>2, <2>2, <3>2, <3>3, ClientFacts
      <4>2. LongestBuffer \in Nat /\ SumLeft(c.pending) < Threshold + LongestBuffer + 1
            /\ c.sz_pending <= Len(c.calls) * (LongestBuffer + 1)
        BY <1>1, LongestFacts DEF Counted
      <4>3. call * (LongestBuffer + 1) = Len(c.calls) * (LongestBuffer + 1) + LongestBuffer + 1
            /\ Len(c.calls) * (LongestBuffer + 1) \in Nat
        BY <1>1, NewCall
      <4>4. d.sz_pending <= Len(d.calls) * (LongestBuffer + 1)
        <5>1. d.sz_pending <= c.sz_pending
          BY <2>2, <3>2
        <5>2. \A i, j, m \in Nat : i <= j /\ j <= m => i <= m + LongestBuffer + 1
          BY <4>2
        <5>3. d.sz_pending <= Len(c.calls) * (LongestBuffer + 1) + LongestBuffer + 1
          BY <1>4, <4>1, <4>2, <4>3, <5>1, <5>2
        <5> QED BY <4>1, <4>3, <5>3
      <4>5. SumLeft(d.pending) < Threshold + LongestBuffer + 1
        BY <1>4, <2>2, <3>2, <4>1, <4>2
      <4> QED BY <3>2, <4>4, <4>5 DEF Counted
    <3>5. IsWatched(d)
      BY <1>1, <1>7, <2>2, <3>2 DEF IsWatched
    <3>6. ASSUME "nomem" \notin env, Flows(c) PROVE Flows(d) /\ Follows(c, d)
      <4>1. Written(d) = Written(c)
        BY <1>1, <2>2, <3>2, NewCall
      <4>2. Queued(f) = Queued(c) /\ f.wire = c.wire
        BY <2>2 DEF Queued
      <4>3. \E x \in Seq(UByte) : IsConcat(d.wire, c.wire, x) /\ IsConcat(Queued(c), x, Queued(d))
        BY <3>2, <4>2
      <4>4. "ERR" \in d.status <=> "ERR" \in c.status
        BY <2>2, <3>2
      <4> QED BY <1>1, <2>7, <3>3, <3>6, <4>1, <4>3, <4>4, FlushFlow
    <3>7. Len(d.calls) = call
      BY <1>2, <2>2, <3>2
    <3> QED BY <3>3, <3>4, <3>5, <3>6, <3>7 DEF Wrote, Good
  <2> QED BY <2>6, <2>7
<1> QED BY <1>5, <1>6, <1>7

\* The lengths of the buffers of a packet: a header before every payload.
LengthOf(sz, i) == IF i % 2 = 1 THEN HeaderSize ELSE Frames("text", sz)[i \div 2].sz_payload

LEMMA Lengths ==
    ASSUME NEW sz \in Payloads, NEW i \in 1..(2 * Len(Frames("text", sz)))
    PROVE  LengthOf(sz, i) \in 1..LongestBuffer
<1>1. Len(Frames("text", sz)) \in Nat
      /\ \A j \in 1..Len(Frames("text", sz)) : Frames("text", sz)[j].sz_payload \in 1..LongestBuffer
  BY FramesFacts
<1>2. CASE i % 2 = 1
  BY <1>2, LongestFacts DEF LengthOf
<1>3. CASE i % 2 # 1
  <2>1. i \div 2 \in 1..Len(Frames("text", sz))
    BY <1>1, <1>3
  <2> QED BY <1>1, <1>3, <2>1 DEF LengthOf
<1> QED BY <1>2, <1>3

\* The clients after i calls; the recursive function that UsSendPacket takes
\* the last value of exists.
IsClients(f, n, c, sz) ==
    f = [i \in 0..n |-> IF i = 0 THEN {c} ELSE UNION {UsWrite(d, LengthOf(sz, i)) : d \in f[i - 1]}]

LEMMA ClientsExist ==
    ASSUME NEW c, NEW sz, NEW n \in Nat
    PROVE  \E f : IsClients(f, n, c, sz)
<1> DEFINE T == {k \in Nat : \E f : IsClients(f, k, c, sz)}
<1>1. 0 \in T
  <2> DEFINE f == [i \in 0..0 |-> {c}]
  <2>1. f = [i \in 0..0 |-> IF i = 0 THEN {c} ELSE UNION {UsWrite(d, LengthOf(sz, i)) : d \in f[i - 1]}]
    OBVIOUS
  <2> HIDE DEF f
  <2>2. IsClients(f, 0, c, sz)
    BY <2>1 DEF IsClients
  <2> QED BY <2>2
<1>2. ASSUME NEW k \in Nat, k \in T PROVE k + 1 \in T
  <2>1. PICK f : IsClients(f, k, c, sz)
    BY <1>2
  <2> DEFINE After(i, g) == IF i = 0 THEN {c} ELSE UNION {UsWrite(d, LengthOf(sz, i)) : d \in g[i - 1]}
             h == [i \in 0..(k + 1) |-> After(i, f)]
  <2>2. f = [i \in 0..k |-> After(i, f)]
    BY <2>1 DEF IsClients
  <2>3. ASSUME NEW i, NEW g, NEW j, g[i - 1] = j[i - 1] PROVE After(i, g) = After(i, j)
    BY <2>3
  <2>4. ASSUME NEW g, NEW j PROVE After(0, g) = After(0, j)
    OBVIOUS
  <2>5. ASSUME NEW g, g = [i \in 0..(k + 1) |-> After(i, g)] PROVE IsClients(g, k + 1, c, sz)
    BY <2>5 DEF IsClients
  <2> HIDE DEF After
  <2>6. ASSUME NEW i \in 0..k PROVE h[i] = f[i]
    <3>1. i \in 0..(k + 1)
      BY <2>6
    <3>2. f[i] = After(i, f)
      BY <2>2
    <3> QED BY <3>1, <3>2
  <2>7. ASSUME NEW i \in 0..(k + 1) PROVE After(i, f) = After(i, h)
    <3>1. CASE i = 0
      BY <2>4, <3>1
    <3>2. CASE i # 0
      <4>1. i - 1 \in 0..k
        BY <2>7, <3>2
      <4>2. h[i - 1] = f[i - 1]
        BY <2>6, <4>1
      <4> HIDE DEF h
      <4> QED BY <2>3, <4>2
    <3> QED BY <3>1, <3>2
  <2>8. h = [i \in 0..(k + 1) |-> After(i, h)]
    BY <2>7
  <2> HIDE DEF h
  <2>9. IsClients(h, k + 1, c, sz)
    BY <2>5, <2>8
  <2> QED BY <2>9
<1>3. Nat \subseteq T
  <2> HIDE DEF T
  <2> QED BY <1>1, <1>2, Induction
<1> QED BY <1>3

LEMMA PacketStep ==
    ASSUME NEW c, Good(c), NEW sz \in Payloads,
           Len(c.calls) + 2 * Len(Frames("text", sz)) <= MaxCalls,
           NEW d \in UsSendPacket(c, sz)
    PROVE  Served(c, d)
<1> DEFINE last == 2 * Len(Frames("text", sz))
<1>1. last \in Nat /\ Len(c.calls) \in Nat /\ MaxCalls \in Nat /\ Len(c.calls) + last <= MaxCalls
  <2>1. last \in Nat
    BY FramesFacts
  <2>2. Len(c.calls) \in Nat /\ MaxCalls \in Nat
    BY ClientFacts, SendAssumption DEF Good
  <2> QED BY <2>1, <2>2
<1>2. PICK f : IsClients(f, last, c, sz) /\ UsSendPacket(c, sz) = f[last]
  <2> DEFINE g == CHOOSE g : IsClients(g, last, c, sz)
  <2>1. IsClients(g, last, c, sz)
    BY <1>1, ClientsExist
  <2>2. UsSendPacket(c, sz) = g[last]
    BY DEF UsSendPacket, IsClients, LengthOf
  <2> QED BY <2>1, <2>2
<1>3. ASSUME NEW i \in 1..last PROVE LengthOf(sz, i) \in 1..LongestBuffer
  BY Lengths
<1> HIDE DEF last
<1>4. /\ f[0] = {c}
      /\ \A i \in 1..last : f[i] = UNION {UsWrite(e, LengthOf(sz, i)) : e \in f[i - 1]}
  <2>1. \A i \in 0..last : f[i] = IF i = 0 THEN {c} ELSE UNION {UsWrite(e, LengthOf(sz, i)) : e \in f[i - 1]}
    BY <1>2 DEF IsClients
  <2>2. 0 \in 0..last /\ \A i \in 1..last : i \in 0..last /\ i # 0
    BY <1>1
  <2> QED BY <2>1, <2>2
<1> DEFINE T == {n \in Nat : n <= last =>
                    \A e \in f[n] : Served(c, e) /\ Len(e.calls) = Len(c.calls) + n}
<1>5. 0 \in T
  BY <1>1, <1>4, ServedFacts
<1>6. ASSUME NEW n \in Nat, n \in T PROVE n + 1 \in T
  <2>1. SUFFICES ASSUME n + 1 <= last, NEW b \in f[n + 1]
                 PROVE  Served(c, b) /\ Len(b.calls) = Len(c.calls) + (n + 1)
    <3>1. n + 1 \in Nat
      OBVIOUS
    <3> QED BY <3>1, Zenon
  <2>2. n + 1 \in 1..last /\ (n + 1) - 1 = n /\ n <= last
    BY <1>1, <2>1
  <2>3. PICK e \in f[n] : b \in UsWrite(e, LengthOf(sz, n + 1))
    BY <1>4, <2>2
  <2>4. Served(c, e) /\ Len(e.calls) = Len(c.calls) + n
    BY <1>6, <2>2
  <2>5. Good(e) /\ Len(e.calls) < MaxCalls
    BY <1>1, <2>1, <2>4 DEF Served
  <2>6. Wrote(e, b)
    <3>1. LengthOf(sz, n + 1) \in 1..LongestBuffer
      BY <1>3, <2>2
    <3> QED BY <2>3, <2>5, <3>1, UsWriteStep
  <2>7. Served(e, b) /\ Len(b.calls) = Len(e.calls) + 1
    BY <2>6 DEF Wrote, Served
  <2>8. Served(c, b)
    BY <2>4, <2>7, ServedFacts
  <2>9. Len(b.calls) = Len(c.calls) + (n + 1)
    <3>1. Len(b.calls) = (Len(c.calls) + n) + 1
      BY <2>4, <2>7
    <3>2. \A i, j \in Nat : (i + j) + 1 = i + (j + 1)
      OBVIOUS
    <3>3. Len(c.calls) \in Nat /\ n \in Nat
      BY <1>1
    <3>4. (Len(c.calls) + n) + 1 = Len(c.calls) + (n + 1)
      BY <3>2, <3>3, Zenon
    <3> QED BY <3>1, <3>4
  <2> QED BY <2>8, <2>9
<1>7. Nat \subseteq T
  <2> HIDE DEF T
  <2> QED BY <1>5, <1>6, Induction
<1> QED BY <1>1, <1>2, <1>7

\* Only marks change, not what is written, queued or sent.
LEMMA MarksStep ==
    ASSUME NEW c, Good(c), NEW d \in Client,
           d.pending = c.pending, d.sz_pending = c.sz_pending, d.calls = c.calls,
           d.lost = c.lost, d.wire = c.wire, "ERR" \in d.status <=> "ERR" \in c.status,
           IsWatched(d)
    PROVE  Served(c, d)
<1>1. Typed(c) /\ Counted(c)
  BY DEF Good
<1>2. Typed(d)
  BY <1>1 DEF Typed
<1>3. Counted(d)
  BY <1>1 DEF Counted
<1>4. Written(d) = Written(c) /\ Queued(d) = Queued(c)
  BY DEF Written, Queued
<1>5. Flows(c) => Flows(d)
  BY <1>4 DEF Flows
<1>6. Follows(c, d)
  <2>1. Follows(c, c)
    BY <1>1, FollowsItself
  <2> QED BY <1>4, <2>1 DEF Follows
<1> QED BY <1>2, <1>3, <1>5, <1>6 DEF Served, Good

\* us_write_pending, called by us_handle_writes.
LEMMA FlushStep ==
    ASSUME NEW c, Good(c), NEW s \in StoppingPoints(c)
    PROVE  Served(c, UsWritePending(c, s[1], s[2]))
           /\ UsWritePending(c, s[1], s[2]) \in Client
           /\ UsWritePending(c, s[1], s[2]).calls = c.calls
<1> DEFINE d == UsWritePending(c, s[1], s[2])
<1>1. Typed(c) /\ Counted(c) /\ IsWatched(c) /\ c \in Client
  BY DEF Good, Typed
<1>2. CASE peer = "gone"
  <2>1. d = IF c.pending = <<>> THEN [c EXCEPT !.failed = FALSE] ELSE Broken(c)
    BY <1>2 DEF UsWritePending
  <2>2. /\ d \in Client /\ d.pending = c.pending /\ d.sz_pending = c.sz_pending
        /\ d.calls = c.calls /\ d.lost = c.lost /\ d.wire = c.wire
        /\ c.pending # <<>> => "ERR" \in d.status /\ "CLOSE" \in d.status
        /\ c.pending = <<>> => d.status = c.status
    <3>1. CASE c.pending = <<>>
      BY <1>1, <2>1, <3>1 DEF Client
    <3>2. CASE c.pending # <<>>
      <4>1. d = [c EXCEPT !.status = {"ERR", "CLOSE"}, !.failed = TRUE]
        BY <2>1, <3>2 DEF Broken
      <4>2. {"ERR", "CLOSE"} \in SUBSET Status
        BY DEF Status
      <4> HIDE DEF d
      <4> QED BY <1>1, <3>2, <4>1, <4>2 DEF Client
    <3> QED BY <3>1, <3>2
  <2> HIDE DEF d
  <2>3. IsWatched(d)
    BY <2>2 DEF IsWatched
  <2>4. CASE c.pending = <<>>
    <3>1. Served(c, d)
      BY <2>2, <2>3, <2>4, MarksStep
    <3> QED BY <2>2, <3>1 DEF d
  <2>5. CASE c.pending # <<>>
    <3>1. Typed(d)
      BY <1>1, <2>2 DEF Typed
    <3>2. Counted(d)
      BY <1>1, <2>2 DEF Counted
    <3>3. Written(d) = Written(c) /\ Written(c) \in Seq(UByte)
      BY <1>1, <2>2, ClientFacts DEF Written
    <3>4. Extends(Written(c), Written(d))
      BY <3>3, ExtendsFacts
    <3>5. Flows(c) => Flows(d) /\ Follows(c, d)
      BY <1>1, <1>2, <2>2, <2>5, <3>1, <3>4, BrokenFlow
    <3>6. Served(c, d)
      BY <2>3, <3>1, <3>2, <3>5 DEF Served, Good
    <3> QED BY <2>2, <3>6 DEF d
  <2> QED BY <2>4, <2>5
<1>3. CASE peer # "gone"
  <2>1. SumLeft(c.pending) <= c.sz_pending
    BY <1>1 DEF Counted
  <2>2. /\ d \in Client /\ d.calls = c.calls /\ d.lost = c.lost /\ d.status = c.status
        /\ d.armed = c.armed
        /\ c.pending = <<>> => d.pending = <<>>
        /\ \A i \in 1..Len(d.pending) : \E j \in 1..Len(c.pending) : d.pending[i].call = c.pending[j].call
        /\ SumLeft(d.pending) <= SumLeft(c.pending)
        /\ SumLeft(d.pending) <= d.sz_pending
        /\ d.sz_pending <= c.sz_pending
        /\ \E x \in Seq(UByte) : IsConcat(d.wire, c.wire, x) /\ IsConcat(Queued(c), x, Queued(d))
    BY <1>1, <1>3, <2>1, PendingStep
  <2> HIDE DEF d
  <2>3. Typed(d)
    BY <1>1, <2>2 DEF Typed
  <2>4. Counted(d)
    <3>1. SumLeft(d.pending) \in Nat /\ d.sz_pending \in Nat /\ SumLeft(c.pending) \in Nat /\ c.sz_pending \in Nat
      BY <1>1, <2>3, ClientFacts
    <3>2. LongestBuffer \in Nat /\ Threshold \in Nat /\ Len(c.calls) \in Nat /\ Len(c.calls) <= MaxCalls
      BY <1>1, ClientFacts, LongestFacts, SendAssumption, ThresholdAssumption
    <3>3. Len(c.calls) * (LongestBuffer + 1) \in Nat
      BY <3>2, WordIsWide
    <3>4. d.sz_pending <= Len(d.calls) * (LongestBuffer + 1)
      <4>1. \A i, j, m \in Nat : i <= j /\ j <= m => i <= m
        OBVIOUS
      <4>2. c.sz_pending <= Len(c.calls) * (LongestBuffer + 1)
        BY <1>1 DEF Counted
      <4>3. d.sz_pending <= Len(c.calls) * (LongestBuffer + 1)
        BY <2>2, <3>1, <3>3, <4>1, <4>2
      <4> QED BY <2>2, <4>3
    <3>5. SumLeft(d.pending) < Threshold + LongestBuffer + 1
      <4>1. SumLeft(c.pending) < Threshold + LongestBuffer + 1
        BY <1>1 DEF Counted
      <4> QED BY <2>2, <3>1, <3>2, <4>1
    <3> QED BY <2>2, <3>4, <3>5 DEF Counted
  <2>5. IsWatched(d)
    BY <1>1, <2>2 DEF IsWatched
  <2>6. Flows(c) => Flows(d) /\ Follows(c, d)
    <3>1. Written(d) = Written(c)
      BY <2>2 DEF Written
    <3> QED BY <1>1, <1>3, <2>2, <2>3, <3>1, FlushFlow
  <2>7. Served(c, d)
    BY <2>3, <2>4, <2>5, <2>6 DEF Served, Good
  <2> QED BY <2>2, <2>7 DEF d
<1> QED BY <1>2, <1>3

-----------------------------------------------------------------------------
(***************************************************************************)
(* The inductive invariant.                                                *)
(***************************************************************************)
IInv ==
    /\ Good(usc)
    /\ endpoint \in {"ready", "closing"}
    /\ peer \in {"up", "gone"}
    /\ phase \in {"open", "freed", "flushed", "read"}
    /\ phase = "open" /\ "nomem" \notin env => Flows(usc)

LEMMA NewIsGood ==
    /\ Good(NewClient) /\ Flows(NewClient)
    /\ Written(NewClient) = <<>> /\ OfBuffers(NewClient.wire) = <<>>
    /\ OfBuffers(Queued(NewClient)) = <<>>
<1>1. SizeWord \in Nat \ {0} /\ MaxCalls \in Nat /\ Threshold \in Nat /\ LongestBuffer \in Nat
  BY SendAssumption, ThresholdAssumption, LongestFacts
<1>2. 0 \in 0..(SizeWord - 1)
  BY <1>1
<1>3. /\ NewClient.pending = <<>> /\ NewClient.sz_pending = 0 /\ NewClient.status = {}
      /\ NewClient.calls = <<>> /\ NewClient.lost = {} /\ NewClient.wire = <<>>
  BY DEF NewClient
<1>4. NewClient \in Client
  BY <1>2 DEF NewClient, Client
<1>5. Len(<<>>) = 0 /\ 1..0 = {}
  OBVIOUS
<1>6. Typed(NewClient)
  BY <1>1, <1>3, <1>4, <1>5 DEF Typed
<1>7. Counted(NewClient)
  <2>1. 0 * (LongestBuffer + 1) = 0 /\ 0 < Threshold + LongestBuffer + 1
    BY <1>1
  <2> QED BY <1>3, <1>5, <2>1, SumFacts DEF Counted
<1>8. IsWatched(NewClient)
  BY <1>3 DEF IsWatched
<1>9. Written(NewClient) = <<>>
  <2>1. BuffersOf(<<>>, {}) = <<>>
    BY DEF BuffersOf
  <2>2. Written(NewClient) = FlattenSeq(BuffersOf(<<>>, {}))
    BY <1>3, <1>6, ClientFacts
  <2> QED BY <2>1, <2>2, FlattenFacts
<1>10. OfBuffers(NewClient.wire) = <<>> /\ OfBuffers(Queued(NewClient)) = <<>>
  BY <1>3, OfBuffersFacts, UnsentBytesFacts DEF Queued
<1>11. Flows(NewClient)
  <2>1. IsConcat(<<>>, <<>>, <<>>)
    BY ConcatEmptySeq, EmptySeq DEF IsConcat
  <2> QED BY <1>3, <1>9, <1>10, <2>1 DEF Flows
<1> QED BY <1>6, <1>7, <1>8, <1>9, <1>10, <1>11 DEF Good

\* A new connection satisfies the invariant (us_handle_accept).
THEOREM Initialization ==
    Init => IInv
<1>1. ASSUME Init PROVE IInv
  <2>1. usc = NewClient /\ endpoint = "ready" /\ peer = "up" /\ phase = "open"
    BY <1>1 DEF Init
  <2> QED BY <2>1, NewIsGood DEF IInv
<1> QED BY <1>1

\* Every step of an open connection but the peer's serves the client.
Serves ==
    /\ phase = "open"
    /\ Served(usc, usc')
    /\ endpoint' \in {"ready", "closing"}
    /\ phase' \in {"open", "freed", "flushed", "read"}
    /\ UNCHANGED <<env, peer>>

LEMMA WriteServes ==
    ASSUME IInv, phase = "open", NEW len \in 1..LongestBuffer, CallsLeft(1), NEW d \in UsWrite(usc, len)
    PROVE  Served(usc, d)
<1>1. Good(usc) /\ Len(usc.calls) + 1 <= MaxCalls
  BY DEF IInv, CallsLeft
<1>2. Len(usc.calls) < MaxCalls
  <2>1. Len(usc.calls) \in Nat /\ MaxCalls \in Nat
    BY <1>1, ClientFacts, SendAssumption DEF Good
  <2> QED BY <1>1, <2>1
<1>3. Wrote(usc, d)
  BY <1>1, <1>2, UsWriteStep
<1> QED BY <1>3 DEF Wrote, Served

LEMMA StepServes ==
    ASSUME IInv, Next
    PROVE  Serves \/ PeerCloses \/ Accept
<1>1. Good(usc) /\ HeaderSize \in 1..LongestBuffer
      /\ endpoint \in {"ready", "closing"} /\ phase \in {"open", "freed", "flushed", "read"}
  BY LongestFacts DEF IInv
<1>2. ASSUME NEW sz \in Payloads, SendMessage(sz) PROVE Serves
  <2>1. usc' \in UsSendPacket(usc, sz) /\ Len(usc.calls) + 2 * Len(Frames("text", sz)) <= MaxCalls
    BY <1>2 DEF SendMessage, CallsLeft
  <2>2. Served(usc, usc')
    BY <1>1, <2>1, PacketStep
  <2> QED BY <1>1, <1>2, <2>2 DEF SendMessage, Serves
<1>3. ASSUME NEW sz \in Payloads, ReadFails(sz) PROVE Serves
  <2>1. usc' \in UsSendPacket(usc, sz) /\ Len(usc.calls) + 2 * Len(Frames("text", sz)) <= MaxCalls
    BY <1>3 DEF ReadFails, CallsLeft
  <2>2. Served(usc, usc')
    BY <1>1, <2>1, PacketStep
  <2> QED BY <1>1, <1>3, <2>2 DEF ReadFails, CleanupInRead, Serves
<1>4. CASE Ping
  <2>1. Served(usc, usc')
    BY <1>1, <1>4, WriteServes DEF Ping
  <2> QED BY <1>1, <1>4, <2>1 DEF Ping, Serves
<1>5. CASE Pong
  <2>1. Served(usc, usc')
    BY <1>1, <1>5, WriteServes DEF Pong
  <2>2. phase' \in {"open", "freed", "flushed", "read"}
    BY <1>1, <1>5 DEF Pong, CleanupInRead
  <2> QED BY <1>1, <1>5, <2>1, <2>2 DEF Pong, Serves
<1>6. CASE Removed
  <2>1. Served(usc, usc') 
    BY <1>1, <1>6, ServedFacts DEF Removed
  <2> QED BY <1>1, <1>6, <2>1 DEF Removed, Serves
<1>7. CASE HandleWrites
  <2>1. phase = "open" /\ UNCHANGED <<env, endpoint, peer>>
    BY <1>7 DEF HandleWrites
  <2> DEFINE Marked(c) == IF c.pending = <<>> THEN [c EXCEPT !.status = @ \ {"SENDING"}] ELSE c
             Armed(d) == [d EXCEPT !.armed = "SENDING" \in d.status \/ "CLOSE" \in d.status]
  <2>2. PICK s \in StoppingPoints(usc) :
          LET c == UsWritePending(usc, s[1], s[2])
              d == Marked(c)
          IN  IF "CLOSE" \in d.status /\ "SENDING" \notin d.status
              THEN usc' = d /\ phase' = "read"
              ELSE usc' = Armed(d) /\ UNCHANGED phase
    BY <1>7 DEF HandleWrites
  <2> DEFINE c == UsWritePending(usc, s[1], s[2])
             d == Marked(c)
  <2>3. Served(usc, c) /\ c \in Client
    BY <1>1, FlushStep
  <2>4. \/ /\ usc' = d /\ phase' = "read" /\ "CLOSE" \in d.status
        \/ /\ usc' = Armed(d) /\ phase' = phase
    BY <2>2
  <2> HIDE DEF c
  <2>5. /\ d \in Client /\ d.pending = c.pending /\ d.sz_pending = c.sz_pending
        /\ d.calls = c.calls /\ d.lost = c.lost /\ d.wire = c.wire /\ d.armed = c.armed
        /\ "ERR" \in d.status <=> "ERR" \in c.status
        /\ "CLOSE" \in d.status <=> "CLOSE" \in c.status
        /\ c.pending # <<>> => d.status = c.status
    BY <2>3 DEF Client
  <2> HIDE DEF d, Marked
  <2>6. /\ Armed(d) \in Client /\ Armed(d).pending = d.pending /\ Armed(d).sz_pending = d.sz_pending
        /\ Armed(d).calls = d.calls /\ Armed(d).lost = d.lost /\ Armed(d).wire = d.wire
        /\ Armed(d).status = d.status
        /\ "SENDING" \in d.status => Armed(d).armed
    BY <2>5 DEF Client
  <2> HIDE DEF Armed
  <2>7. Good(c) /\ IsWatched(c)
    BY <2>3 DEF Served, Good
  <2>8. IsWatched(d)
    BY <2>5, <2>7 DEF IsWatched
  <2>9. IsWatched(Armed(d))
    BY <2>5, <2>6, <2>7 DEF IsWatched
  <2>10. Served(c, d)
    BY <2>5, <2>7, <2>8, MarksStep
  <2>11. Served(c, Armed(d))
    BY <2>5, <2>6, <2>7, <2>9, MarksStep
  <2>12. Served(usc, d) /\ Served(usc, Armed(d))
    BY <1>1, <2>3, <2>10, <2>11, ServedFacts
  <2>13. Served(usc, usc') /\ phase' \in {"open", "freed", "flushed", "read"}
    BY <1>1, <2>4, <2>12
  <2> QED BY <1>1, <2>1, <2>13 DEF Serves
<1> QED BY <1>2, <1>3, <1>4, <1>5, <1>6, <1>7 DEF Next

LEMMA Consecution ==
    IInv /\ [Next]_vars => IInv'
<1> SUFFICES ASSUME IInv, [Next]_vars PROVE IInv'
  OBVIOUS
<1>1. CASE Serves
  <2>1. Good(usc')
    BY <1>1 DEF Serves, Served
  <2>2. "nomem" \notin env' /\ phase' = "open" => Flows(usc)'
    <3>1. "nomem" \notin env => Flows(usc')
      BY <1>1 DEF Serves, Served, IInv
    <3> QED BY <1>1, <3>1 DEF Serves, Flows
  <2> QED BY <1>1, <2>1, <2>2 DEF IInv, Serves
<1>2. CASE PeerCloses
  <2>1. usc' = usc /\ env' = env /\ phase' = phase /\ endpoint' = endpoint /\ peer' = "gone"
    BY <1>2 DEF PeerCloses
  <2>2. Flows(usc) => Flows(usc)'
    BY <2>1 DEF Flows
  <2> QED BY <2>1, <2>2 DEF IInv
<1>3. CASE Accept
  <2>1. usc' = NewClient /\ endpoint' = "ready" /\ peer' = "up" /\ phase' = "open"
    BY <1>3 DEF Accept
  <2>2. Good(usc') /\ "ERR" \notin usc'.status
        /\ IsConcat(Written(usc'), OfBuffers(usc'.wire), OfBuffers(Queued(usc')))
    <3>1. "ERR" \notin NewClient.status
      BY DEF NewClient
    <3> QED BY <2>1, <3>1, NewIsGood DEF Flows
  <2>3. Flows(usc)'
    BY <2>2 DEF Flows
  <2> QED BY <2>1, <2>2, <2>3 DEF IInv
<1>4. CASE UNCHANGED vars
  <2>1. usc' = usc /\ env' = env /\ phase' = phase /\ endpoint' = endpoint /\ peer' = peer
    BY <1>4 DEF vars
  <2>2. Flows(usc) => Flows(usc)'
    BY <2>1 DEF Flows
  <2> QED BY <2>1, <2>2 DEF IInv
<1> QED BY <1>1, <1>2, <1>3, <1>4, StepServes

\* The invariant holds on every behaviour of the write side.
THEOREM Invariance ==
    Spec => []IInv
<1>1. Init => IInv
  BY Initialization
<1>2. IInv /\ [Next]_vars => IInv'
  BY Consecution
<1> QED BY <1>1, <1>2, PTL DEF Spec

\* The bookkeeping of the write side is sound: sz_pending covers what is queued
\* and stays in its word, the queue is bounded by the throttle, and the socket is
\* watched for room for as long as something is queued.
THEOREM SendIsSound ==
    Spec => []SendSound
<1>1. IInv => SendSound
  <2> SUFFICES ASSUME IInv PROVE SendSound
    OBVIOUS
  <2>1. Typed(usc) /\ Counted(usc) /\ IsWatched(usc) /\ usc \in Client
    BY DEF IInv, Good, Typed
  <2>2. /\ usc.sz_pending \in 0..(SizeWord - 1) /\ usc.status \subseteq Status
        /\ {usc.armed, usc.failed} \subseteq BOOLEAN /\ Len(usc.calls) <= MaxCalls
        /\ usc.pending \in Seq(Node) /\ usc.calls \in Seq(Nat \ {0})
    BY <2>1, ClientFacts
  <2>3. \A i \in 1..Len(usc.pending) : usc.pending[i] \in Node /\ usc.pending[i].call \in 1..Len(usc.calls)
    BY <2>1, <2>2, ElementOfSeq DEF Typed
  <2>4. DOMAIN usc.pending = 1..Len(usc.pending) /\ DOMAIN usc.calls = 1..Len(usc.calls)
    BY <2>2
  <2>5. \A i \in DOMAIN usc.pending :
          usc.pending[i].call \in DOMAIN usc.calls /\ usc.pending[i].next <= usc.pending[i].last
    BY <2>3, <2>4 DEF Node
  <2>6. TypeOK
    BY <2>2, <2>5 DEF TypeOK, IInv
  <2>7. SizeCovers
    <3>1. usc.sz_pending \in Nat /\ SumLeft(usc.pending) \in Nat
      BY <2>1, ClientFacts
    <3> QED BY <2>1, <3>1 DEF SizeCovers, Counted
  <2>8. Bounded
    BY <2>1 DEF Bounded, Counted
  <2>9. Watched
    BY <2>1 DEF Watched, IsWatched
  <2> QED BY <2>6, <2>7, <2>8, <2>9 DEF SendSound
<1> QED BY <1>1, Invariance, PTL

-----------------------------------------------------------------------------
(***************************************************************************)
(* The write side implements SendStream.                                   *)
(***************************************************************************)
LEMMA PrefixOf ==
    ASSUME NEW s \in Seq(UByte), NEW t \in Seq(UByte), Extends(s, t)
    PROVE  Stream!IsPrefix(s, t)
<1>1. IsPrefix(s, t)
  BY ExtendsIsPrefix
<1> QED BY <1>1 DEF IsPrefix, Stream!IsPrefix

LEMMA StreamInit ==
    Init => Stream!Start
<1> SUFFICES ASSUME Init PROVE Stream!Start
  OBVIOUS
<1>1. usc = NewClient /\ phase = "open" /\ "ERR" \notin usc.status
  BY DEF Init, NewClient
<1>2. Accepted = <<>> /\ Delivered = <<>> /\ Waiting = <<>>
  BY <1>1, NewIsGood DEF Accepted, Delivered, Waiting
<1>3. StreamState = "open"
  BY <1>1 DEF StreamState
<1> QED BY <1>2, <1>3 DEF Stream!Start

LEMMA StreamStep ==
    IInv /\ [Next]_vars => [Stream!StreamNext]_(Stream!streamVars)
<1> SUFFICES ASSUME IInv, [Next]_vars
             PROVE  Stream!StreamNext \/ UNCHANGED Stream!streamVars
  OBVIOUS
<1>1. CASE Serves
  <2>1. /\ phase = "open" /\ Served(usc, usc') /\ env' = env
        /\ phase' \in {"open", "freed", "flushed", "read"}
    BY <1>1 DEF Serves
  <2>2. CASE ~Streams
    <3>1. /\ Accepted = <<>> /\ Accepted' = <<>> /\ Delivered = <<>> /\ Delivered' = <<>>
          /\ Waiting' = <<>>
      BY <2>1, <2>2 DEF Streams, Accepted, Delivered, Waiting
    <3>2. StreamState = "open" /\ StreamState' \in {"open", "broken", "closed"}
      BY <2>1, <2>2 DEF StreamState
    <3>3. <<>> \in Seq(UByte)
      OBVIOUS
    <3>4. Stream!IsPrefix(<<>>, <<>>)
      <4>1. Extends(<<>>, <<>>)
        BY <3>3, ExtendsFacts
      <4> QED BY <3>3, <4>1, PrefixOf
    <3>5. <<>> = <<>> \o <<>>
      BY <3>3, ConcatEmptySeq
    <3>6. Stream!Transfer
      BY <3>1, <3>2, <3>4, <3>5 DEF Stream!Transfer
    <3> QED BY <3>6 DEF Stream!StreamNext
  <2>3. CASE Streams
    <3>1. Flows(usc) /\ Flows(usc') /\ Follows(usc, usc') /\ Typed(usc) /\ Typed(usc')
      BY <2>1, <2>3 DEF Streams, IInv, Served, Good
    <3> DEFINE W == Written(usc)
               V == Written(usc')
               D == OfBuffers(usc.wire)
               E == OfBuffers(usc'.wire)
               Q == OfBuffers(Queued(usc'))
    <3>2. W \in Seq(UByte) /\ V \in Seq(UByte) /\ D \in Seq(UByte) /\ E \in Seq(UByte) /\ Q \in Seq(UByte)
      BY <3>1, ClientFacts
    <3>3. Accepted = W /\ Accepted' = V /\ Delivered = D /\ Delivered' = E /\ Waiting' = Q
      BY <2>1, <2>3 DEF Streams, Accepted, Delivered, Waiting
    <3>4. Extends(W, V) /\ Extends(D, E)
      BY <3>1 DEF Follows
    <3>5. Extends(E, V) /\ ("ERR" \notin usc'.status => IsConcat(V, E, Q))
      <4>1. CASE "ERR" \in usc'.status
        BY <3>1, <4>1 DEF Flows
      <4>2. CASE "ERR" \notin usc'.status
        <5>1. IsConcat(V, E, Q)
          BY <3>1, <4>2 DEF Flows
        <5> QED BY <3>2, <5>1 DEF Extends
      <4> QED BY <4>1, <4>2
    <3>6. "ERR" \in usc.status => "ERR" \in usc'.status /\ D = E
      BY <3>1 DEF Follows
    <3>7. /\ StreamState = IF "ERR" \in usc.status THEN "broken" ELSE "open"
          /\ StreamState' = IF phase' # "open" THEN "closed"
                            ELSE IF "ERR" \in usc'.status THEN "broken" ELSE "open"
      BY <2>1, <2>3 DEF StreamState, Streams
    <3> HIDE DEF W, V, D, E, Q
    <3>8. Stream!IsPrefix(W, V) /\ Stream!IsPrefix(D, E) /\ Stream!IsPrefix(E, V)
      BY <3>2, <3>4, <3>5, PrefixOf
    <3>9. CASE "ERR" \in usc.status
      <4>1. Stream!GiveUp
        BY <3>3, <3>6, <3>7, <3>8, <3>9 DEF Stream!GiveUp
      <4> QED BY <4>1 DEF Stream!StreamNext
    <3>10. CASE "ERR" \notin usc.status
      <4>1. "ERR" \notin usc'.status => V = E \o Q
        BY <3>5 DEF IsConcat
      <4>2. Stream!Transfer
        BY <3>3, <3>7, <3>8, <3>10, <4>1 DEF Stream!Transfer
      <4> QED BY <4>2 DEF Stream!StreamNext
    <3> QED BY <3>9, <3>10
  <2> QED BY <2>2, <2>3
<1>2. CASE PeerCloses \/ UNCHANGED vars
  <2>1. usc' = usc /\ env' = env /\ phase' = phase
    BY <1>2 DEF PeerCloses, vars
  <2>2. Accepted' = Accepted /\ Delivered' = Delivered /\ Waiting' = Waiting /\ StreamState' = StreamState
    BY <2>1 DEF Accepted, Delivered, Waiting, StreamState, Streams
  <2> QED BY <2>2 DEF Stream!streamVars
<1>3. CASE Accept
  <2>1. usc' = NewClient /\ phase' = "open" /\ phase # "open"
    BY <1>3 DEF Accept
  <2>2. /\ Written(usc') = <<>> /\ OfBuffers(usc'.wire) = <<>> /\ OfBuffers(Queued(usc')) = <<>>
        /\ "ERR" \notin usc'.status
    <3>1. "ERR" \notin NewClient.status
      BY DEF NewClient
    <3> QED BY <2>1, <3>1, NewIsGood
  <2>3. Accepted' = <<>> /\ Delivered' = <<>> /\ Waiting' = <<>>
    BY <2>2 DEF Accepted, Delivered, Waiting
  <2>4. StreamState' = "open" /\ StreamState = "closed"
    BY <2>1, <2>2 DEF StreamState
  <2>5. Stream!Reconnect
    BY <2>3, <2>4 DEF Stream!Reconnect, Stream!Start
  <2> QED BY <2>5 DEF Stream!StreamNext
<1> QED BY <1>1, <1>2, <1>3, StepServes

\* The write side of the Unix socket is a stream: partial writes, queued buffers,
\* a throttled client and a peer that goes lose, repeat and reorder nothing.
THEOREM Refinement ==
    Spec => ImplementsStream
<1>1. Init => Stream!Start
  BY StreamInit
<1>2. IInv /\ [Next]_vars => [Stream!StreamNext]_(Stream!streamVars)
  BY StreamStep
<1> QED BY <1>1, <1>2, Invariance, PTL DEF Spec, ImplementsStream, Stream!StreamSpec

-----------------------------------------------------------------------------
(***************************************************************************)
(* A client of the web sockets.  Of what a step does to it only the write  *)
(* side matters here: the flags, frames and messages may be anything.      *)
(***************************************************************************)
WsFields == {"status", "queue", "headers", "frame", "message", "armed", "accepted",
             "calls", "lost", "wire"}

WsClient(c) ==
    /\ c = [f \in WsFields |-> c[f]]
    /\ c.queue \in Seq(UByte) /\ c.wire \in Seq(UByte)
    /\ c.calls \in Seq(Nat \ {0}) /\ c.lost \in SUBSET (1..Len(c.calls))

\* While the peer is there, what waits is what was written and not sent.
WsFlows(c) ==
    /\ WsClient(c)
    /\ ws_peer.up => IsConcat(WsWritten(c), c.wire, c.queue)

WsFollows(c, d) ==
    /\ Extends(WsWritten(c), WsWritten(d))
    /\ Extends(c.wire, d.wire)
    /\ ~ws_peer.up => d.wire = c.wire

WsServed(c, d) == WsFlows(d) /\ WsFollows(c, d)

LEMMA WsFacts ==
    ASSUME NEW c, WsClient(c)
    PROVE  /\ WsWritten(c) \in Seq(UByte) /\ Len(c.calls) \in Nat
           /\ c.queue \in Seq(UByte) /\ c.wire \in Seq(UByte)
           /\ c.calls \in Seq(Nat \ {0}) /\ c.lost \in SUBSET (1..Len(c.calls))
<1>1. /\ c.queue \in Seq(UByte) /\ c.wire \in Seq(UByte)
      /\ c.calls \in Seq(Nat \ {0}) /\ c.lost \in SUBSET (1..Len(c.calls))
  BY DEF WsClient
<1>2. WsWritten(c) \in Seq(UByte)
  BY <1>1, BuffersFacts DEF WsWritten
<1>3. Len(c.calls) \in Nat
  BY <1>1, LenProperties
<1> QED BY <1>1, <1>2, <1>3

\* A step that leaves the write side as it is.
SameWrites(c, d) ==
    /\ d = [f \in WsFields |-> d[f]]
    /\ d.queue = c.queue /\ d.wire = c.wire /\ d.calls = c.calls /\ d.lost = c.lost

LEMMA SameServed ==
    ASSUME NEW c, WsFlows(c), NEW d, SameWrites(c, d)
    PROVE  WsServed(c, d)
<1>1. WsClient(d) /\ WsWritten(d) = WsWritten(c)
  BY DEF WsFlows, WsClient, SameWrites, WsWritten
<1>2. WsFlows(d)
  BY <1>1 DEF WsFlows, SameWrites
<1>3. WsWritten(c) \in Seq(UByte) /\ c.wire \in Seq(UByte)
  BY WsFacts DEF WsFlows
<1>4. WsFollows(c, d)
  BY <1>1, <1>3, ExtendsFacts DEF WsFollows, SameWrites
<1> QED BY <1>2, <1>4 DEF WsServed

LEMMA WsServedTwice ==
    ASSUME NEW c, WsFlows(c), NEW d, WsServed(c, d), NEW e, WsServed(d, e)
    PROVE  WsServed(c, e)
<1>1. WsFlows(d) /\ WsFlows(e) /\ WsFollows(c, d) /\ WsFollows(d, e)
  BY DEF WsServed
<1>2. /\ WsWritten(c) \in Seq(UByte) /\ WsWritten(d) \in Seq(UByte) /\ WsWritten(e) \in Seq(UByte)
      /\ c.wire \in Seq(UByte) /\ d.wire \in Seq(UByte) /\ e.wire \in Seq(UByte)
  BY <1>1, WsFacts DEF WsFlows
<1>3. Extends(WsWritten(c), WsWritten(e)) /\ Extends(c.wire, e.wire)
  BY <1>1, <1>2, ExtendsFacts DEF WsFollows
<1>4. ~ws_peer.up => e.wire = c.wire
  BY <1>1 DEF WsFollows
<1> QED BY <1>1, <1>3, <1>4 DEF WsServed, WsFollows

\* b is written, x is sent, and what waited moves up.
WsMoves(c, d) ==
    \E b, x, m \in Seq(UByte) :
        /\ IsConcat(WsWritten(d), WsWritten(c), b)
        /\ IsConcat(d.wire, c.wire, x)
        /\ IsConcat(m, c.queue, b)
        /\ IsConcat(m, x, d.queue)

LEMMA WsMovesServed ==
    ASSUME NEW c, WsFlows(c), NEW d, WsClient(d), WsMoves(c, d), ws_peer.up
    PROVE  WsServed(c, d)
<1> DEFINE W == WsWritten(c)
           V == WsWritten(d)
           D == c.wire
           E == d.wire
           Q == c.queue
           R == d.queue
<1>1. PICK b \in Seq(UByte), x \in Seq(UByte), m \in Seq(UByte) :
        IsConcat(V, W, b) /\ IsConcat(E, D, x) /\ IsConcat(m, Q, b) /\ IsConcat(m, x, R)
  BY DEF WsMoves
<1>2. /\ W \in Seq(UByte) /\ V \in Seq(UByte) /\ D \in Seq(UByte) /\ E \in Seq(UByte)
      /\ Q \in Seq(UByte) /\ R \in Seq(UByte)
  BY WsFacts DEF WsFlows
<1>3. IsConcat(W, D, Q)
  BY DEF WsFlows
<1>4. WsServed(c, d) <=> (IsConcat(V, E, R) /\ Extends(W, V) /\ Extends(D, E))
  BY DEF WsServed, WsFlows, WsFollows
<1> HIDE DEF W, V, D, E, Q, R
<1>5. IsConcat(V, D, m)
  BY <1>1, <1>2, <1>3, ThreeConcat
<1>6. IsConcat(V, E, R)
  BY <1>1, <1>2, <1>5, ThreeConcat
<1>7. Extends(W, V) /\ Extends(D, E)
  BY <1>1 DEF Extends
<1> QED BY <1>4, <1>6, <1>7

\* A call of ws_respond is counted, and its buffer written or forgotten.
LEMMA NewWsCall ==
    ASSUME NEW c, WsClient(c), NEW len \in Nat \ {0}
    PROVE  /\ Append(c.calls, len) \in Seq(Nat \ {0})
           /\ Len(Append(c.calls, len)) = Len(c.calls) + 1
           /\ c.lost \cup {Len(c.calls) + 1} \in SUBSET (1..Len(Append(c.calls, len)))
           /\ c.lost \in SUBSET (1..Len(Append(c.calls, len)))
           /\ Bytes(Len(c.calls) + 1, 1, len) \in Seq(UByte)
           /\ \A d : d.calls = Append(c.calls, len) /\ d.lost = c.lost
                     => IsConcat(WsWritten(d), WsWritten(c), Bytes(Len(c.calls) + 1, 1, len))
           /\ \A d : d.calls = Append(c.calls, len) /\ d.lost = c.lost \cup {Len(c.calls) + 1}
                     => WsWritten(d) = WsWritten(c)
<1>1. /\ c.calls \in Seq(Nat \ {0}) /\ Len(c.calls) \in Nat
      /\ c.lost \in SUBSET (1..Len(c.calls)) /\ len \in Nat
  BY WsFacts
<1>2. Append(c.calls, len) \in Seq(Nat \ {0}) /\ Len(Append(c.calls, len)) = Len(c.calls) + 1
  BY <1>1, AppendProperties
<1>3. /\ c.lost \cup {Len(c.calls) + 1} \in SUBSET (1..(Len(c.calls) + 1))
      /\ c.lost \in SUBSET (1..(Len(c.calls) + 1))
  BY <1>1
<1>4. Bytes(Len(c.calls) + 1, 1, len) \in Seq(UByte)
  <2>1. 1 \in Nat /\ 1 <= len + 1 /\ Len(c.calls) + 1 \in Nat
    BY <1>1
  <2> QED BY <1>1, <2>1, BytesFacts
<1>5. ASSUME NEW d, d.calls = Append(c.calls, len), d.lost = c.lost
      PROVE  IsConcat(WsWritten(d), WsWritten(c), Bytes(Len(c.calls) + 1, 1, len))
  BY <1>1, <1>5, WrittenGrows DEF WsWritten
<1>6. ASSUME NEW d, d.calls = Append(c.calls, len), d.lost = c.lost \cup {Len(c.calls) + 1}
      PROVE  WsWritten(d) = WsWritten(c)
  BY <1>1, <1>6, WrittenGrows DEF WsWritten
<1> QED BY <1>2, <1>3, <1>4, <1>5, <1>6

\* on_pending leaves the write side as it is.
LEMMA WsOnPending ==
    ASSUME NEW c, c = [f \in WsFields |-> c[f]]
    PROVE  SameWrites(c, OnPending(c))
BY DEF SameWrites, OnPending, WsFields

LEMMA WsStatus ==
    ASSUME NEW c, c = [f \in WsFields |-> c[f]], NEW s
    PROVE  SameWrites(c, SetStatus(c, s)) /\ SetStatus(c, s).status = s
BY DEF SameWrites, SetStatus, WsFields

\* A part of a sequence and the rest of it.
LEMMA PartAndRest ==
    ASSUME NEW s \in Seq(UByte), NEW n \in 0..Len(s)
    PROVE  /\ SubSeq(s, 1, n) \in Seq(UByte) /\ SubSeq(s, n + 1, Len(s)) \in Seq(UByte)
           /\ IsConcat(s, SubSeq(s, 1, n), SubSeq(s, n + 1, Len(s)))
           /\ n = Len(s) => SubSeq(s, n + 1, Len(s)) = <<>>
<1> DEFINE p == SubSeq(s, 1, n)
           r == SubSeq(s, n + 1, Len(s))
<1>1. Len(s) \in Nat /\ n \in Nat /\ n <= Len(s) /\ \A i \in 1..Len(s) : s[i] \in UByte
  BY LenProperties, ElementOfSeq
<1>2. p \in Seq(UByte) /\ Len(p) = n /\ \A i \in 1..n : p[i] = s[i]
  <2>1. 1 \in Int /\ n \in Int /\ \A i \in 1..n : s[i] \in UByte
    BY <1>1
  <2>2. /\ p \in Seq(UByte) /\ Len(p) = IF 1 <= n THEN n - 1 + 1 ELSE 0
        /\ \A i \in 1..(n - 1 + 1) : p[i] = s[1 + i - 1]
    BY <2>1, SubSeqProperties
  <2> QED BY <1>1, <2>2
<1>3. r \in Seq(UByte) /\ Len(r) = Len(s) - n /\ \A i \in 1..(Len(s) - n) : r[i] = s[n + i]
  <2>1. n + 1 \in Int /\ Len(s) \in Int /\ \A i \in (n + 1)..Len(s) : s[i] \in UByte
    BY <1>1
  <2>2. /\ r \in Seq(UByte) /\ Len(r) = IF n + 1 <= Len(s) THEN Len(s) - (n + 1) + 1 ELSE 0
        /\ \A i \in 1..(Len(s) - (n + 1) + 1) : r[i] = s[(n + 1) + i - 1]
    BY <2>1, SubSeqProperties
  <2> QED BY <1>1, <2>2
<1>4. n = Len(s) => r = <<>>
  <2>1. n = Len(s) => Len(s) < n + 1 /\ n + 1 \in Int /\ Len(s) \in Int
    BY <1>1
  <2> QED BY <2>1, SubSeqEmpty
<1> HIDE DEF p, r
<1>5. /\ p \o r \in Seq(UByte) /\ Len(p \o r) = Len(p) + Len(r)
      /\ \A i \in 1..(Len(p) + Len(r)) : (p \o r)[i] = IF i <= Len(p) THEN p[i] ELSE r[i - Len(p)]
  BY <1>2, <1>3, ConcatProperties
<1>6. Len(p \o r) = Len(s)
  BY <1>1, <1>2, <1>3, <1>5
<1>7. ASSUME NEW i \in 1..Len(s) PROVE (p \o r)[i] = s[i]
  <2>1. CASE i <= n
    BY <1>1, <1>2, <1>3, <1>5, <2>1
  <2>2. CASE i > n
    <3>1. i - n \in 1..(Len(s) - n) /\ n + (i - n) = i /\ i \in 1..(Len(p) + Len(r))
      BY <1>1, <1>2, <1>3, <2>2
    <3>2. r[i - n] = s[i]
      BY <1>3, <3>1
    <3> QED BY <1>1, <1>2, <1>5, <2>2, <3>1, <3>2
  <2>3. i <= n \/ i > n
    BY <1>1
  <2> QED BY <2>1, <2>2, <2>3
<1>8. p \o r = s
  BY <1>5, <1>6, <1>7, SeqEqual
<1> QED BY <1>2, <1>3, <1>4, <1>8 DEF p, r, IsConcat

\* ws_respond_data: some bytes of the buffer are sent, the others wait.
LEMMA RespondDataServed ==
    ASSUME NEW c, WsFlows(c), c.queue = <<>>, ws_peer.up,
           NEW call \in Nat, NEW len \in Nat,
           NEW e, WsClient(e), e.queue = <<>>, e.wire = c.wire,
           IsConcat(WsWritten(e), WsWritten(c), Bytes(call, 1, len)),
           NEW d \in RespondData(e, call, len)
    PROVE  WsServed(c, d)
<1> DEFINE b == Bytes(call, 1, len)
           Sent(n) == Bytes(call, 1, n)
           Left1(n) == Bytes(call, n + 1, len)
           all(n) == [e EXCEPT !.wire = @ \o Sent(n)]
           some(n) == [e EXCEPT !.wire = @ \o Sent(n), !.queue = Left1(n),
                                !.status = @ \cup {"SENDING"}]
<1>1. PICK n \in Taken(len) : d = IF n = len THEN all(n) ELSE OnPending(some(n))
  BY DEF RespondData
<1>2. n \in Nat /\ n <= len
  BY DEF Taken
<1>3. b \in Seq(UByte) /\ Sent(n) \in Seq(UByte) /\ Left1(n) \in Seq(UByte) /\ IsConcat(b, Sent(n), Left1(n))
  <2>1. 1 \in Nat /\ 1 <= len + 1 /\ 1 <= n + 1 /\ n + 1 \in Nat /\ n + 1 <= len + 1
    BY <1>2
  <2>2. Bytes(call, 1, len) \in Seq(UByte) /\ Bytes(call, 1, n) \in Seq(UByte)
        /\ Bytes(call, n + 1, len) \in Seq(UByte)
    BY <1>2, <2>1, BytesFacts
  <2>3. \A next \in Nat : next = n + 1 /\ 1 <= next /\ n <= len
          => IsConcat(Bytes(call, 1, len), Bytes(call, 1, n), Bytes(call, next, len))
    BY <1>2, <2>1, BytesConcat
  <2> QED BY <1>2, <2>1, <2>2, <2>3
<1>4. c.wire \in Seq(UByte) /\ e = [f \in WsFields |-> e[f]] /\ WsWritten(c) \in Seq(UByte)
  BY WsFacts DEF WsFlows, WsClient
<1> HIDE DEF b, Sent, Left1
<1>5. <<>> \in Seq(UByte) /\ IsConcat(b, <<>>, b) /\ IsConcat(b, b, <<>>)
  BY <1>3, ConcatEmptySeq, EmptySeq DEF IsConcat
<1>6. c.wire \o Sent(n) \in Seq(UByte) /\ IsConcat(c.wire \o Sent(n), c.wire, Sent(n))
  BY <1>3, <1>4, ConcatProperties DEF IsConcat
<1>7. CASE n = len
  <2>1. d = all(n)
    BY <1>1, <1>7
  <2>2. /\ d = [f \in WsFields |-> d[f]] /\ d.queue = <<>> /\ d.wire = c.wire \o Sent(n)
        /\ d.calls = e.calls /\ d.lost = e.lost
    BY <1>4, <2>1 DEF WsFields
  <2>3. Sent(n) = b
    BY <1>7 DEF Sent, b
  <2>4. WsClient(d) /\ WsWritten(d) = WsWritten(e)
    BY <1>5, <1>6, <2>2 DEF WsClient, WsWritten
  <2>5. WsMoves(c, d)
    <3>1. IsConcat(WsWritten(d), WsWritten(c), b)
      BY <2>4 DEF b
    <3>2. IsConcat(d.wire, c.wire, b)
      BY <1>6, <2>2, <2>3
    <3>3. IsConcat(b, c.queue, b) /\ IsConcat(b, b, d.queue)
      BY <1>5, <2>2
    <3> QED BY <1>3, <3>1, <3>2, <3>3 DEF WsMoves
  <2> QED BY <2>4, <2>5, WsMovesServed
<1>8. CASE n # len
  <2> DEFINE g == some(n)
  <2>1. d = OnPending(g)
    BY <1>1, <1>8
  <2>2. /\ g = [f \in WsFields |-> g[f]] /\ g.queue = Left1(n) /\ g.wire = c.wire \o Sent(n)
        /\ g.calls = e.calls /\ g.lost = e.lost
    BY <1>4 DEF WsFields
  <2> HIDE DEF g
  <2>3. SameWrites(g, d)
    BY <2>1, <2>2, WsOnPending
  <2>4. WsClient(d) /\ WsWritten(d) = WsWritten(e)
    BY <1>3, <1>6, <2>2, <2>3 DEF WsClient, WsWritten, SameWrites
  <2>5. WsMoves(c, d)
    <3>1. IsConcat(WsWritten(d), WsWritten(c), b)
      BY <2>4 DEF b
    <3>2. IsConcat(d.wire, c.wire, Sent(n))
      BY <1>6, <2>2, <2>3 DEF SameWrites
    <3>3. IsConcat(b, c.queue, b) /\ IsConcat(b, Sent(n), d.queue)
      BY <1>3, <1>5, <2>2, <2>3 DEF SameWrites
    <3> QED BY <1>3, <3>1, <3>2, <3>3 DEF WsMoves
  <2> QED BY <2>4, <2>5, WsMovesServed
<1> QED BY <1>7, <1>8

\* ws_respond_cache: the first bytes of the queue are sent.
LEMMA RespondCacheServed ==
    ASSUME NEW c, WsFlows(c), NEW n \in 0..Len(c.queue)
    PROVE  WsServed(c, RespondCache(c, n))
<1> DEFINE d == RespondCache(c, n)
           sent == SubSeq(c.queue, 1, n)
           rest == SubSeq(c.queue, n + 1, Len(c.queue))
           e == [c EXCEPT !.wire = @ \o sent, !.queue = rest]
<1>1. /\ c = [f \in WsFields |-> c[f]] /\ c.queue \in Seq(UByte) /\ c.wire \in Seq(UByte)
      /\ WsWritten(c) \in Seq(UByte)
  BY WsFacts DEF WsFlows, WsClient
<1>2. CASE ~ws_peer.up
  <2>1. d = SetStatus(c, {"ERR", "CLOSE"})
    BY <1>2 DEF RespondCache
  <2> QED BY <1>1, <2>1, WsStatus, SameServed
<1>3. CASE ws_peer.up
  <2>1. /\ sent \in Seq(UByte) /\ rest \in Seq(UByte) /\ IsConcat(c.queue, sent, rest)
        /\ n = Len(c.queue) => rest = <<>>
    BY <1>1, PartAndRest
  <2>2. d = IF n = Len(c.queue) THEN ClearQueue(e) ELSE e
    BY <1>3 DEF RespondCache
  <2> HIDE DEF sent, rest, d
  <2>3. /\ e = [f \in WsFields |-> e[f]] /\ e.queue = rest /\ e.wire = c.wire \o sent
        /\ e.calls = c.calls /\ e.lost = c.lost
    BY <1>1 DEF WsFields
  <2> HIDE DEF e
  <2>4. /\ d = [f \in WsFields |-> d[f]] /\ d.queue = rest /\ d.wire = c.wire \o sent
        /\ d.calls = c.calls /\ d.lost = c.lost
    <3>1. CASE n = Len(c.queue)
      BY <2>1, <2>2, <2>3, <3>1 DEF ClearQueue, WsFields
    <3>2. CASE n # Len(c.queue)
      BY <2>2, <2>3, <3>2
    <3> QED BY <3>1, <3>2
  <2>5. c.wire \o sent \in Seq(UByte) /\ IsConcat(d.wire, c.wire, sent)
    BY <1>1, <2>1, <2>4, ConcatProperties DEF IsConcat
  <2>6. WsClient(d) /\ WsWritten(d) = WsWritten(c)
    BY <2>1, <2>4, <2>5 DEF WsFlows, WsClient, WsWritten
  <2>7. WsMoves(c, d)
    <3>1. /\ <<>> \in Seq(UByte) /\ IsConcat(WsWritten(d), WsWritten(c), <<>>)
          /\ IsConcat(c.queue, c.queue, <<>>)
      BY <1>1, <2>6, ConcatEmptySeq, EmptySeq DEF IsConcat
    <3>2. IsConcat(c.queue, sent, d.queue)
      BY <2>1, <2>4
    <3> QED BY <1>1, <2>1, <2>5, <3>1, <3>2 DEF WsMoves
  <2>8. WsServed(c, d)
    BY <1>3, <2>6, <2>7, WsMovesServed
  <2> QED BY <2>8 DEF d
<1> QED BY <1>2, <1>3

\* A step that writes nothing and sends nothing.
LEMMA StillServed ==
    ASSUME NEW c, WsFlows(c), NEW d, WsClient(d), WsWritten(d) = WsWritten(c),
           d.queue = c.queue, d.wire = c.wire
    PROVE  WsServed(c, d)
<1>1. WsFlows(d)
  BY DEF WsFlows
<1>2. WsWritten(c) \in Seq(UByte) /\ c.wire \in Seq(UByte)
  BY WsFacts DEF WsFlows
<1>3. WsFollows(c, d)
  BY <1>2, ExtendsFacts DEF WsFollows
<1> QED BY <1>1, <1>3 DEF WsServed

\* ws_realloc_send_buf: the buffer waits behind the others.
LEMMA AppendServed ==
    ASSUME NEW c, WsFlows(c), NEW len \in Nat \ {0},
           NEW e, WsClient(e), e.queue = c.queue, e.wire = c.wire,
           e.calls = Append(c.calls, len), e.lost = c.lost
    PROVE  WsServed(c, AppendToQueue(e, Len(c.calls) + 1, len))
<1> DEFINE b == Bytes(Len(c.calls) + 1, 1, len)
           q == c.queue \o b
           d == AppendToQueue(e, Len(c.calls) + 1, len)
<1>1. /\ WsClient(c) /\ WsWritten(c) \in Seq(UByte)
      /\ c.queue \in Seq(UByte) /\ c.wire \in Seq(UByte)
  BY WsFacts DEF WsFlows
<1>2. b \in Seq(UByte) /\ \A g : g.calls = Append(c.calls, len) /\ g.lost = c.lost
                              => IsConcat(WsWritten(g), WsWritten(c), b)
  BY <1>1, NewWsCall
<1>3. /\ d = [f \in WsFields |-> d[f]] /\ d.queue = q
      /\ d.wire = e.wire /\ d.calls = e.calls /\ d.lost = e.lost
  BY DEF AppendToQueue, WsClient, WsFields
<1> HIDE DEF b, d
<1>4. q \in Seq(UByte) /\ IsConcat(q, c.queue, b)
  BY <1>1, <1>2, ConcatProperties DEF IsConcat
<1>5. WsClient(d)
  BY <1>3, <1>4 DEF WsClient
<1>6. IsConcat(WsWritten(d), WsWritten(c), b)
  BY <1>2, <1>3
<1>7. /\ <<>> \in Seq(UByte) /\ IsConcat(d.wire, c.wire, <<>>) /\ IsConcat(q, <<>>, d.queue)
  BY <1>1, <1>3, <1>4, ConcatEmptySeq, EmptySeq DEF IsConcat
<1> HIDE DEF q
<1>8. CASE ws_peer.up
  <2>1. WsMoves(c, d)
    BY <1>2, <1>4, <1>6, <1>7 DEF WsMoves
  <2>2. WsServed(c, d)
    BY <1>5, <1>8, <2>1, WsMovesServed
  <2> QED BY <2>2 DEF d
<1>9. CASE ~ws_peer.up
  <2>1. WsFlows(d)
    BY <1>5, <1>9 DEF WsFlows
  <2>2. Extends(WsWritten(c), WsWritten(d))
    BY <1>2, <1>6 DEF Extends
  <2>3. Extends(c.wire, d.wire)
    BY <1>1, <1>3, ExtendsFacts
  <2>4. WsServed(c, d)
    BY <1>3, <2>1, <2>2, <2>3 DEF WsServed, WsFollows
  <2> QED BY <2>4 DEF d
<1> QED BY <1>8, <1>9

LEMMA TakenFacts ==
    ASSUME NEW len \in Nat
    PROVE  Taken(len) \subseteq 0..len
BY DEF Taken

\* ws_respond: the buffer is sent, or waits, or is lost as a whole.
LEMMA RespondServed ==
    ASSUME NEW c, WsFlows(c), NEW len \in Nat \ {0}, NEW x \in Respond(c, len)
    PROVE  WsServed(c, x)
<1> DEFINE call == Len(c.calls) + 1
           d == [c EXCEPT !.calls = Append(@, len)]
           l == [d EXCEPT !.lost = @ \cup {call}]
<1>1. /\ WsClient(c) /\ c = [f \in WsFields |-> c[f]] /\ c.queue \in Seq(UByte)
      /\ c.wire \in Seq(UByte) /\ Len(c.calls) \in Nat
  BY WsFacts DEF WsFlows, WsClient
<1>2. /\ d = [f \in WsFields |-> d[f]] /\ d.queue = c.queue /\ d.wire = c.wire
      /\ d.calls = Append(c.calls, len) /\ d.lost = c.lost
  BY <1>1 DEF WsFields
<1>3. WsClient(d) /\ IsConcat(WsWritten(d), WsWritten(c), Bytes(call, 1, len))
  <2>1. /\ Append(c.calls, len) \in Seq(Nat \ {0})
        /\ c.lost \in SUBSET (1..Len(Append(c.calls, len)))
        /\ \A g : g.calls = Append(c.calls, len) /\ g.lost = c.lost
                  => IsConcat(WsWritten(g), WsWritten(c), Bytes(call, 1, len))
    BY <1>1, NewWsCall
  <2> HIDE DEF d
  <2> QED BY <1>1, <1>2, <2>1 DEF WsClient
<1>4. CASE c.queue = <<>> /\ ws_peer.up
  <2>1. x \in RespondData(d, call, len)
    BY <1>4 DEF Respond
  <2> HIDE DEF d
  <2>2. call \in Nat /\ len \in Nat /\ d.queue = <<>>
    BY <1>1, <1>2, <1>4
  <2> HIDE DEF call
  <2> QED BY <1>2, <1>3, <1>4, <2>1, <2>2, RespondDataServed
<1>5. CASE c.queue = <<>> /\ ~ws_peer.up
  <2>1. x = SetStatus(c, {"ERR", "CLOSE"})
    BY <1>5 DEF Respond, RespondData
  <2> QED BY <1>1, <2>1, WsStatus, SameServed
<1>6. CASE c.queue # <<>> /\ "THROTTLING" \notin c.status
  <2>1. x = AppendToQueue(d, Len(c.calls) + 1, len)
    BY <1>6 DEF Respond
  <2> HIDE DEF d
  <2> QED BY <1>2, <1>3, <2>1, AppendServed
<1>7. CASE c.queue # <<>> /\ "THROTTLING" \in c.status
  <2>1. PICK n \in Taken(Len(d.queue)) : x = RespondCache(l, n)
    BY <1>7 DEF Respond
  <2>2. /\ l = [f \in WsFields |-> l[f]] /\ l.queue = c.queue /\ l.wire = c.wire
        /\ l.calls = Append(c.calls, len) /\ l.lost = c.lost \cup {call}
    BY <1>1 DEF WsFields
  <2>3. WsClient(l) /\ WsWritten(l) = WsWritten(c)
    <3>1. /\ Append(c.calls, len) \in Seq(Nat \ {0})
          /\ c.lost \cup {call} \in SUBSET (1..Len(Append(c.calls, len)))
          /\ \A g : g.calls = Append(c.calls, len) /\ g.lost = c.lost \cup {call}
                    => WsWritten(g) = WsWritten(c)
      BY <1>1, NewWsCall
    <3> HIDE DEF l
    <3> QED BY <1>1, <2>2, <3>1 DEF WsClient
  <2>4. n \in 0..Len(l.queue)
    <3>1. Len(c.queue) \in Nat
      BY <1>1, LenProperties
    <3> HIDE DEF l, d
    <3> QED BY <1>2, <2>2, <3>1, TakenFacts
  <2> HIDE DEF l
  <2>5. WsServed(c, l) /\ WsFlows(l)
    <3>1. WsServed(c, l)
      BY <2>2, <2>3, StillServed
    <3> QED BY <3>1 DEF WsServed
  <2>6. WsServed(l, x)
    BY <2>1, <2>4, <2>5, RespondCacheServed
  <2> QED BY <2>5, <2>6, WsServedTwice
<1> QED BY <1>4, <1>5, <1>6, <1>7

\* ws_respond without data, from ws_handle_writes.
LEMMA RespondNothingServed ==
    ASSUME NEW c, WsFlows(c), NEW x \in RespondNothing(c)
    PROVE  WsServed(c, x)
<1>1. /\ WsClient(c) /\ c = [f \in WsFields |-> c[f]] /\ c.queue \in Seq(UByte)
      /\ Len(c.queue) \in Nat /\ WsWritten(c) \in Seq(UByte)
  BY WsFacts, LenProperties DEF WsFlows, WsClient
<1>2. CASE c.queue = <<>> /\ ws_peer.up
  <2>1. x \in RespondData(c, 0, 0) /\ 0 \in Nat
    BY <1>2 DEF RespondNothing
  <2>2. Bytes(0, 1, 0) = <<>>
    BY DEF Bytes
  <2>3. IsConcat(WsWritten(c), WsWritten(c), Bytes(0, 1, 0))
    BY <1>1, <2>2, ConcatEmptySeq DEF IsConcat
  <2> QED BY <1>1, <1>2, <2>1, <2>3, RespondDataServed
<1>3. CASE c.queue = <<>> /\ ~ws_peer.up
  <2>1. x = SetStatus(c, {"ERR", "CLOSE"})
    BY <1>3 DEF RespondNothing, RespondData
  <2> QED BY <1>1, <2>1, WsStatus, SameServed
<1>4. CASE c.queue # <<>>
  <2>1. PICK n \in 1..Len(c.queue) : x = RespondCache(c, n)
    BY <1>4 DEF RespondNothing
  <2>2. n \in 0..Len(c.queue)
    BY <1>1
  <2> QED BY <2>1, <2>2, RespondCacheServed
<1> QED BY <1>2, <1>3, <1>4

(***************************************************************************)
(* The readers answer through ws_respond, and change flags, frames and     *)
(* messages before and after.                                              *)
(***************************************************************************)
LEMMA ThenSame ==
    ASSUME NEW c, WsFlows(c), NEW d, WsServed(c, d), NEW e, SameWrites(d, e)
    PROVE  WsServed(c, e)
<1>1. WsFlows(d)
  BY DEF WsServed
<1>2. WsServed(d, e)
  BY <1>1, SameServed
<1> QED BY <1>2, WsServedTwice

LEMMA ThenRespond ==
    ASSUME NEW c, WsFlows(c), NEW d, WsServed(c, d), NEW x \in Respond(d, 1)
    PROVE  WsServed(c, x)
<1>1. WsFlows(d) /\ 1 \in Nat \ {0}
  BY DEF WsServed
<1>2. WsServed(d, x)
  BY <1>1, RespondServed
<1> QED BY <1>2, WsServedTwice

LEMMA ThenStatus ==
    ASSUME NEW c, WsFlows(c), NEW d, WsServed(c, d), NEW s
    PROVE  WsServed(c, SetStatus(d, s))
<1>1. d = [f \in WsFields |-> d[f]]
  BY DEF WsServed, WsFlows, WsClient
<1>2. SameWrites(d, SetStatus(d, s))
  BY <1>1, WsStatus
<1> QED BY <1>2, ThenSame

LEMMA SelfServed ==
    ASSUME NEW c, WsFlows(c)
    PROVE  WsServed(c, c) /\ c = [f \in WsFields |-> c[f]]
<1>1. SameWrites(c, c) /\ c = [f \in WsFields |-> c[f]]
  BY DEF WsFlows, WsClient, SameWrites
<1> QED BY <1>1, SameServed

LEMMA ThenAccepted ==
    ASSUME NEW c, WsFlows(c), NEW cs, \A d \in cs : WsServed(c, d), NEW x \in OnAccepted(cs)
    PROVE  WsServed(c, x)
<1>1. PICK y \in RespondAll(cs, 1) : x = [y EXCEPT !.accepted = @ + 1]
  BY DEF OnAccepted
<1>2. PICK d \in cs : y \in Respond(d, 1)
  BY <1>1 DEF RespondAll
<1>3. WsServed(c, y)
  BY <1>2, ThenRespond
<1>4. y = [f \in WsFields |-> y[f]]
  BY <1>3 DEF WsServed, WsFlows, WsClient
<1>5. SameWrites(y, x)
  BY <1>1, <1>4 DEF SameWrites, WsFields
<1> QED BY <1>3, <1>5, ThenSame

LEMMA CloseServed ==
    ASSUME NEW c, WsFlows(c), NEW d, WsServed(c, d), NEW x \in CloseWithFrame(d)
    PROVE  WsServed(c, x)
<1> DEFINE e == SetStatus(d, {"ERR", "CLOSE"})
<1>1. WsServed(c, e) /\ x \in Respond(e, 1)
  BY ThenStatus DEF CloseWithFrame
<1> HIDE DEF e
<1> QED BY <1>1, ThenRespond

LEMMA HandshakeServed ==
    ASSUME NEW c, WsFlows(c), NEW units, NEW r \in ReadHandshake(c, units)
    PROVE  WsServed(c, r.c)
<1> DEFINE n == Len(units)
           d == [c EXCEPT !.headers = @ + n]
           bad == \E i \in 1..n : units[i].kind = "bad"
           closed == SetStatus(c, {"ERR", "CLOSE"})
           reading == SetStatus(d, {"READING"})
<1>1. WsServed(c, c) /\ c = [f \in WsFields |-> c[f]]
  BY SelfServed
<1>2. WsServed(c, d)
  <2>1. SameWrites(c, d)
    BY <1>1 DEF SameWrites, WsFields
  <2> QED BY <2>1, SameServed
<1>3. \/ n = 0 /\ r \in {Result(x, units, <<>>) : x \in Respond(closed, 1)}
      \/ r \in {Result(SetStatus(x, {"CLOSE"}), <<>>, <<>>) : x \in Respond(d, 1)}
      \/ r \in {Result(x, <<>>, <<>>) : x \in OnAccepted({reading})}
      \/ r \in {Result(x, <<>>, <<>>) : x \in OnAccepted({SetStatus(y, {}) : y \in Respond(d, 1)})}
  BY DEF ReadHandshake
<1> HIDE DEF d, n, bad
<1>4. CASE r \in {Result(x, units, <<>>) : x \in Respond(closed, 1)}
  <2>1. PICK x \in Respond(closed, 1) : r.c = x
    BY <1>4 DEF Result
  <2>2. WsServed(c, closed)
    BY <1>1, ThenStatus
  <2> HIDE DEF closed
  <2> QED BY <2>1, <2>2, ThenRespond
<1>5. CASE r \in {Result(SetStatus(x, {"CLOSE"}), <<>>, <<>>) : x \in Respond(d, 1)}
  <2>1. PICK x \in Respond(d, 1) : r.c = SetStatus(x, {"CLOSE"})
    BY <1>5 DEF Result
  <2>2. WsServed(c, x)
    BY <1>2, ThenRespond
  <2> QED BY <2>1, <2>2, ThenStatus
<1>6. CASE r \in {Result(x, <<>>, <<>>) : x \in OnAccepted({reading})}
  <2>1. r.c \in OnAccepted({reading})
    BY <1>6 DEF Result
  <2>2. WsServed(c, reading)
    BY <1>2, ThenStatus
  <2> HIDE DEF reading
  <2> DEFINE cs == {reading}
  <2>3. (\A e \in cs : WsServed(c, e)) /\ r.c \in OnAccepted(cs)
    BY <2>1, <2>2
  <2> HIDE DEF cs
  <2> QED BY <2>3, ThenAccepted
<1>7. CASE r \in {Result(x, <<>>, <<>>) : x \in OnAccepted({SetStatus(y, {}) : y \in Respond(d, 1)})}
  <2> DEFINE cs == {SetStatus(y, {}) : y \in Respond(d, 1)}
  <2>1. r.c \in OnAccepted(cs)
    BY <1>7 DEF Result
  <2>2. ASSUME NEW e \in cs PROVE WsServed(c, e)
    <3>1. PICK y \in Respond(d, 1) : e = SetStatus(y, {})
      OBVIOUS
    <3>2. WsServed(c, y)
      BY <1>2, ThenRespond
    <3> QED BY <3>1, <3>2, ThenStatus
  <2> HIDE DEF cs
  <2> QED BY <2>1, <2>2, ThenAccepted
<1> QED BY <1>3, <1>4, <1>5, <1>6, <1>7

LEMMA ReadFailsServed ==
    ASSUME NEW c, WsFlows(c), NEW d, WsServed(c, d), NEW units, NEW r \in WsReadFails(d, units)
    PROVE  WsServed(c, r.c)
<1>1. CASE ws_peer.up
  <2>1. r.c = SetStatus(d, {"READING"})
    BY <1>1 DEF WsReadFails, Result
  <2> QED BY <2>1, ThenStatus
<1>2. CASE ~ws_peer.up
  <2>1. PICK x \in CloseWithFrame(d) : r.c = x
    BY <1>2 DEF WsReadFails, Result
  <2> QED BY <2>1, CloseServed
<1> QED BY <1>1, <1>2

LEMMA HeaderServed ==
    ASSUME NEW c, WsFlows(c), NEW units, NEW r \in ReadHeader(c, units)
    PROVE  WsServed(c, r.c)
<1> DEFINE n == Min({2 - c.frame.got, Len(units)})
           u == Head(units)
           d == [c EXCEPT !.frame = [got |-> @.got + n, op |-> u.op, fin |-> u.fin,
                                     len |-> u.len, masked |-> u.masked]]
           e == [d EXCEPT !.frame.got = 1]
<1>1. WsServed(c, c) /\ c = [f \in WsFields |-> c[f]]
  BY SelfServed
<1>2. WsServed(c, d) /\ WsServed(c, e)
  <2>1. SameWrites(c, d) /\ SameWrites(c, e)
    BY <1>1 DEF SameWrites, WsFields
  <2> HIDE DEF d, e
  <2> QED BY <2>1, SameServed
<1>3. \/ r \in WsReadFails(c, Rest(units, n))
      \/ r \in WsReadFails(d, Rest(units, n))
      \/ r.c \in {SetStatus(d, {}), SetStatus(e, {"ERR", "CLOSE"})}
  <2>1. CASE n < 2 - c.frame.got
    <3>1. r \in WsReadFails(IF n = 0 THEN c ELSE d, Rest(units, n))
      BY <2>1 DEF ReadHeader
    <3> HIDE DEF n, d
    <3> QED BY <3>1
  <2>2. CASE ~(n < 2 - c.frame.got)
    <3>1. r = Result(IF d.frame.masked THEN SetStatus(d, {}) ELSE SetStatus(e, {"ERR", "CLOSE"}),
                     Rest(units, n), <<>>)
      BY <2>2 DEF ReadHeader
    <3> HIDE DEF n, d, e
    <3> QED BY <3>1 DEF Result
  <2> QED BY <2>1, <2>2
<1> HIDE DEF d, e, n
<1> QED BY <1>1, <1>2, <1>3, ReadFailsServed, ThenStatus

LEMMA EndServed ==
    ASSUME NEW c, WsFlows(c), NEW d, WsServed(c, d), NEW units, NEW messages
    PROVE  /\ WsServed(c, EndFrame(d, units, messages).c)
           /\ WsServed(c, EndFrame(FreeMessage(d), units, messages).c)
<1> DEFINE e == [d EXCEPT !.frame = NoFrame]
           g == FreeMessage(d)
           h == [g EXCEPT !.frame = NoFrame]
<1>1. EndFrame(d, units, messages).c = e /\ EndFrame(g, units, messages).c = h
  BY DEF EndFrame, Result
<1>2. d = [f \in WsFields |-> d[f]]
  BY DEF WsServed, WsFlows, WsClient
<1>3. SameWrites(d, e) /\ SameWrites(d, g)
  BY <1>2 DEF SameWrites, WsFields, FreeMessage
<1>4. SameWrites(d, h)
  <2>1. g = [f \in WsFields |-> g[f]]
    BY <1>3 DEF SameWrites
  <2> HIDE DEF g
  <2> QED BY <1>3, <2>1 DEF SameWrites, WsFields
<1> HIDE DEF e, g, h
<1>5. WsServed(c, e) /\ WsServed(c, h)
  BY <1>3, <1>4, ThenSame
<1> QED BY <1>1, <1>5 DEF g

LEMMA TextServed ==
    ASSUME NEW c, WsFlows(c), NEW d, WsServed(c, d), NEW units, NEW r \in WsHandleText(d, units)
    PROVE  WsServed(c, r.c)
<1> DEFINE e == [d EXCEPT !.message.buflen = 0, !.message.fragmented = TRUE]
           s == SetStatus(d, {"ERR", "CLOSE"})
           m == e.message.payload
<1>1. d = [f \in WsFields |-> d[f]]
  BY DEF WsServed, WsFlows, WsClient
<1>2. WsServed(c, e) /\ WsServed(c, s)
  <2>1. SameWrites(d, e)
    BY <1>1 DEF SameWrites, WsFields
  <2> HIDE DEF e
  <2> QED BY <2>1, ThenSame, ThenStatus
<1>3. \/ r \in {EndFrame(s, units, <<>>), EndFrame(e, units, <<>>)}
      \/ \E x \in {e} \cup UNION {Respond(e, p) : p \in Replies} :
           r = EndFrame(FreeMessage(x), units, <<m>>)
  BY DEF WsHandleText
<1> HIDE DEF e, s, m
<1>4. CASE r \in {EndFrame(s, units, <<>>), EndFrame(e, units, <<>>)}
  BY <1>2, <1>4, EndServed
<1>5. CASE \E x \in {e} \cup UNION {Respond(e, p) : p \in Replies} :
             r = EndFrame(FreeMessage(x), units, <<m>>)
  <2>1. PICK x \in {e} \cup UNION {Respond(e, p) : p \in Replies} :
          r = EndFrame(FreeMessage(x), units, <<m>>)
    BY <1>5
  <2>2. WsServed(c, x)
    <3>1. CASE x = e
      BY <1>2, <3>1
    <3>2. CASE x # e
      <4>1. PICK p \in Replies : x \in Respond(e, p)
        BY <2>1, <3>2
      <4>2. p \in Nat \ {0} /\ WsFlows(e)
        BY <1>2, WebSocketAssumption DEF WsServed
      <4>3. WsServed(e, x)
        BY <4>1, <4>2, RespondServed
      <4> QED BY <1>2, <4>3, WsServedTwice
    <3> QED BY <3>1, <3>2
  <2> QED BY <2>1, <2>2, EndServed
<1> QED BY <1>3, <1>4, <1>5

LEMMA PingServed ==
    ASSUME NEW c, WsFlows(c), NEW d, WsServed(c, d), NEW units, NEW r \in HandlePing(d, units)
    PROVE  WsServed(c, r.c)
<1>1. PICK x \in Respond(d, 1) : \E e : /\ r.c = EndFrame(e, units, <<>>).c
                                        /\ e \in {x, [x EXCEPT !.message = e.message]}
  <2> DEFINE kept == [d.message EXCEPT !.payload = SubSeq(@, 1, Len(@) - d.frame.len), !.buflen = 0]
             m == IF d.message.fragmented THEN kept ELSE NoMessage
  <2> HIDE DEF m
  <2>1. CASE d.frame.len = 0
    BY <2>1 DEF HandlePing
  <2>2. CASE d.frame.len # 0
    <3>1. PICK x \in Respond(d, 1) : r = EndFrame([x EXCEPT !.message = m], units, <<>>)
      BY <2>2 DEF HandlePing, m
    <3> DEFINE e == [x EXCEPT !.message = m]
    <3>2. WsServed(c, x)
      BY ThenRespond
    <3>3. x = [f \in WsFields |-> x[f]]
      BY <3>2 DEF WsServed, WsFlows, WsClient
    <3>4. e.message = m
      BY <3>3 DEF WsFields
    <3> QED BY <3>1, <3>4
  <2> QED BY <2>1, <2>2
<1>2. WsServed(c, x)
  BY ThenRespond
<1>3. x = [f \in WsFields |-> x[f]]
  BY <1>2 DEF WsServed, WsFlows, WsClient
<1>4. PICK e : r.c = EndFrame(e, units, <<>>).c /\ e \in {x, [x EXCEPT !.message = e.message]}
  BY <1>1
<1>5. WsServed(c, e)
  <2>1. CASE e = x
    BY <1>2, <2>1
  <2>2. CASE e = [x EXCEPT !.message = e.message]
    <3>1. SameWrites(x, e)
      BY <1>3, <2>2 DEF SameWrites, WsFields
    <3> QED BY <1>2, <3>1, ThenSame
  <2> QED BY <1>4, <2>1, <2>2
<1> QED BY <1>4, <1>5, EndServed

LEMMA PayloadServed ==
    ASSUME NEW c, WsFlows(c), NEW d, WsServed(c, d), NEW units, NEW r \in HandlePayload(d, units)
    PROVE  WsServed(c, r.c)
<1> DEFINE s == SetStatus(d, {"ERR", "CLOSE"})
<1>1. \/ r \in WsHandleText(d, units) \/ r \in HandlePing(d, units) \/ r \in HandlePong(d, units)
      \/ r = EndFrame(s, units, <<>>)
      \/ r \in {EndFrame(x, units, <<>>) : x \in CloseWithFrame(d)}
  BY DEF HandlePayload
<1>2. WsServed(c, s)
  BY ThenStatus
<1> HIDE DEF s
<1>3. CASE r \in HandlePong(d, units)
  BY <1>3, EndServed DEF HandlePong
<1>4. CASE r = EndFrame(s, units, <<>>)
  BY <1>2, <1>4, EndServed
<1>5. CASE r \in {EndFrame(x, units, <<>>) : x \in CloseWithFrame(d)}
  <2>1. PICK x \in CloseWithFrame(d) : r = EndFrame(x, units, <<>>)
    BY <1>5
  <2> QED BY <2>1, CloseServed, EndServed
<1> QED BY <1>1, <1>3, <1>4, <1>5, TextServed, PingServed

LEMMA ReadPayloadServed ==
    ASSUME NEW c, WsFlows(c), NEW d, WsServed(c, d), NEW units, NEW r \in WsReadPayload(d, units)
    PROVE  WsServed(c, r.c)
<1> DEFINE need == d.frame.len - d.message.buflen
           n == Min({need, Len(units)})
           e == [d EXCEPT !.message.payload = @ \o SubSeq(units, 1, n),
                          !.message.buflen = @ + n]
<1>1. \/ r \in HandlePayload(e, Rest(units, n))
      \/ r.c \in {SetStatus(d, {"ERR", "CLOSE"}), SetStatus(e, {"READING"}), SetStatus(d, {"READING"})}
      \/ \E x \in CloseWithFrame(d) : r.c = SetStatus(x, {"READING"})
  <2>1. CASE TooLarge(d)
    BY <2>1 DEF WsReadPayload, Result
  <2>2. CASE ~TooLarge(d) /\ n = need
    BY <2>2 DEF WsReadPayload, Result
  <2>3. CASE ~TooLarge(d) /\ n # need
    BY <2>3 DEF WsReadPayload, Result
  <2> QED BY <2>1, <2>2, <2>3
<1>2. d = [f \in WsFields |-> d[f]]
  BY DEF WsServed, WsFlows, WsClient
<1>3. WsServed(c, e)
  <2>1. SameWrites(d, e)
    BY <1>2 DEF SameWrites, WsFields
  <2> HIDE DEF e
  <2> QED BY <2>1, ThenSame
<1> HIDE DEF e, n
<1>4. CASE \E x \in CloseWithFrame(d) : r.c = SetStatus(x, {"READING"})
  <2>1. PICK x \in CloseWithFrame(d) : r.c = SetStatus(x, {"READING"})
    BY <1>4
  <2> QED BY <2>1, CloseServed, ThenStatus
<1> QED BY <1>1, <1>3, <1>4, PayloadServed, ThenStatus

\* ws_read: whatever arrived, and however it is answered.
LEMMA ReadServed ==
    ASSUME NEW c, WsFlows(c), NEW units, NEW r \in ReadClientData(c, units)
    PROVE  WsServed(c, r.c)
<1>1. CASE r \in ReadHandshake(c, units)
  BY <1>1, HandshakeServed
<1>2. CASE r \in ReadMessage(c, units)
  <2>1. WsServed(c, c)
    BY SelfServed
  <2>2. CASE HeaderComplete(c)
    BY <1>2, <2>1, <2>2, ReadPayloadServed DEF ReadMessage
  <2>3. CASE ~HeaderComplete(c)
    <3>1. PICK h \in ReadHeader(c, units) : r \in (IF HeaderComplete(h.c) THEN WsReadPayload(h.c, h.rest) ELSE {h})
      BY <1>2, <2>3 DEF ReadMessage
    <3>2. WsServed(c, h.c)
      BY HeaderServed
    <3> QED BY <3>1, <3>2, ReadPayloadServed
  <2> QED BY <2>2, <2>3
<1> QED BY <1>1, <1>2 DEF ReadClientData

-----------------------------------------------------------------------------
(***************************************************************************)
(* The invariant of a web socket, and the steps that serve its client.     *)
(***************************************************************************)
PeerFields == {"up", "asked", "ended", "frames", "controls", "part", "sent"}

WsIInv ==
    /\ WsFlows(wsc)
    /\ ws_peer = [f \in PeerFields |-> ws_peer[f]]
    /\ ws_peer.up \in BOOLEAN
    /\ ws_phase \in {"open", "closed"}

WsServes ==
    /\ ws_phase = "open" /\ ws_phase' \in {"open", "closed"}
    /\ ws_peer' = ws_peer
    /\ WsServed(wsc, wsc')

\* What the peer does while it stays.
PeerWorks ==
    /\ wsc' = wsc /\ ws_phase' = ws_phase
    /\ ws_peer' = [f \in PeerFields |-> ws_peer'[f]]
    /\ ws_peer'.up = ws_peer.up

LEMMA WsStep ==
    ASSUME WsIInv, [WsNext]_wsVars
    PROVE  WsServes \/ WsAccept \/ PeerGoes \/ PeerWorks
<1> DEFINE P(p) == p = [f \in PeerFields |-> p[f]] /\ p.up = ws_peer.up
<1>0. WsFlows(wsc) /\ P(ws_peer) /\ WsServed(wsc, wsc)
  BY SelfServed DEF WsIInv
<1>1. CASE WsHandleReads
  <2>1. PICK r \in ReadClientData(wsc, ws_socket) : wsc' = r.c /\ ws_phase' \in {"open", "closed"}
    BY <1>1 DEF WsHandleReads
  <2>2. WsServed(wsc, wsc')
    BY <1>0, <2>1, ReadServed
  <2> QED BY <1>1, <2>1, <2>2 DEF WsServes, WsHandleReads
<1>2. CASE WsHandleWrites
  <2>1. PICK c \in RespondNothing(wsc) :
          LET d == IF c.queue = <<>> THEN SetStatus(c, c.status \ {"SENDING"}) ELSE c
          IN  /\ ws_phase' \in {"open", "closed"}
              /\ wsc' \in {d, [d EXCEPT !.armed = "SENDING" \in d.status \/ "CLOSE" \in d.status]}
    BY <1>2 DEF WsHandleWrites
  <2> DEFINE d == IF c.queue = <<>> THEN SetStatus(c, c.status \ {"SENDING"}) ELSE c
             e == [d EXCEPT !.armed = "SENDING" \in d.status \/ "CLOSE" \in d.status]
  <2>2. WsServed(wsc, c)
    BY <1>0, RespondNothingServed
  <2>3. WsServed(wsc, d)
    BY <1>0, <2>2, ThenStatus
  <2>4. wsc' \in {d, e} /\ ws_phase' \in {"open", "closed"}
    BY <2>1
  <2> HIDE DEF d
  <2>5. d = [f \in WsFields |-> d[f]]
    BY <2>3 DEF WsServed, WsFlows, WsClient
  <2>6. SameWrites(d, e)
    BY <2>5 DEF SameWrites, WsFields
  <2> HIDE DEF e
  <2>7. WsServed(wsc, e)
    BY <1>0, <2>3, <2>6, ThenSame
  <2> QED BY <1>2, <2>3, <2>4, <2>7 DEF WsServes, WsHandleWrites
<1>3. CASE \E len \in Replies : Send(len)
  <2>1. PICK len \in Replies : Send(len)
    BY <1>3
  <2>2. len \in Nat \ {0}
    BY WebSocketAssumption
  <2>3. WsServed(wsc, wsc')
    BY <1>0, <2>1, <2>2, RespondServed DEF Send
  <2> QED BY <2>1, <2>3 DEF WsServes, Send
<1>4. CASE WsRemoved
  BY <1>0, <1>4 DEF WsServes, WsRemoved
<1>5. CASE \E kind \in {"http", "bad"} : PeerAsks(kind)
  <2>1. PICK kind : PeerAsks(kind)
    BY <1>5
  <2> DEFINE p == [ws_peer EXCEPT !.asked = TRUE, !.ended = (kind = "bad")]
  <2>2. P(p)
    BY <1>0 DEF PeerFields
  <2> QED BY <2>1, <2>2 DEF PeerWorks, PeerAsks
<1>6. ASSUME NEW frame, NEW p, PeerSends(frame, p), P(p) PROVE PeerWorks
  BY <1>6 DEF PeerSends, PeerWorks
<1>7. CASE \E len \in DataSizes, fin \in BOOLEAN : PeerSendsData(len, fin)
  <2>1. PICK len \in DataSizes, fin \in BOOLEAN : PeerSendsData(len, fin)
    BY <1>7
  <2>2. PICK frame, ended, part, sent : PeerSends(frame,
          [ws_peer EXCEPT !.frames = @ + 1, !.ended = ended, !.part = part, !.sent = sent])
    <3> DEFINE op == IF ws_peer.part = <<>> THEN "text" ELSE "continuation"
               payload == [i \in 1..len |-> [kind |-> "data", frame |-> ws_peer.frames + 1, pos |-> i]]
               whole == ws_peer.part \o payload
               p == [ws_peer EXCEPT !.frames = @ + 1, !.ended = TooLong(len),
                                    !.part = IF fin THEN <<>> ELSE whole]
               q == IF fin THEN [p EXCEPT !.sent = Append(@, whole)] ELSE p
    <3>1. PeerSends(Frame(op, fin, TRUE, payload), q)
      BY <2>1 DEF PeerSendsData
    <3> DEFINE g(x, y) == [ws_peer EXCEPT !.frames = @ + 1, !.ended = TooLong(len),
                                          !.part = x, !.sent = y]
    <3> HIDE DEF whole
    <3>2. q = g(IF fin THEN <<>> ELSE whole,
                IF fin THEN Append(ws_peer.sent, whole) ELSE ws_peer.sent)
      BY <1>0 DEF PeerFields
    <3> HIDE DEF op, payload, q
    <3> QED BY <3>1, <3>2
  <2> DEFINE p == [ws_peer EXCEPT !.frames = @ + 1, !.ended = ended, !.part = part, !.sent = sent]
  <2>3. P(p)
    BY <1>0 DEF PeerFields
  <2> HIDE DEF p
  <2> QED BY <1>6, <2>2, <2>3 DEF p
<1>8. CASE \E op \in {"ping", "pong", "close"}, len \in ControlSizes : WsPeerSendsControl(op, len)
  <2>1. PICK op, len : WsPeerSendsControl(op, len)
    BY <1>8
  <2> DEFINE p == [ws_peer EXCEPT !.controls = @ + 1, !.ended = (op = "close" \/ TooLong(len))]
  <2>2. P(p)
    BY <1>0 DEF PeerFields
  <2>3. PICK frame : PeerSends(frame, p)
    BY <2>1 DEF WsPeerSendsControl
  <2> HIDE DEF p
  <2> QED BY <1>6, <2>2, <2>3
<1>9. CASE PeerSendsUnmasked
  <2> DEFINE p == [ws_peer EXCEPT !.controls = @ + 1, !.ended = TRUE]
  <2>1. P(p)
    BY <1>0 DEF PeerFields
  <2>2. PICK frame : PeerSends(frame, p)
    BY <1>9 DEF PeerSendsUnmasked
  <2> HIDE DEF p
  <2> QED BY <1>6, <2>1, <2>2
<1>10. CASE WsNetwork
  BY <1>0, <1>10 DEF WsNetwork, WsArrive, PeerWorks
<1>11. CASE UNCHANGED wsVars
  BY <1>0, <1>11 DEF wsVars, PeerWorks
<1> QED BY <1>1, <1>2, <1>3, <1>4, <1>5, <1>7, <1>8, <1>9, <1>10, <1>11 DEF WsNext

LEMMA NewWsIsEmpty ==
    /\ WsFlows(NewWsClient)
    /\ WsWritten(NewWsClient) = <<>> /\ NewWsClient.wire = <<>> /\ NewWsClient.queue = <<>>
<1> DEFINE c == NewWsClient
<1>1. /\ c = [f \in WsFields |-> c[f]] /\ c.queue = <<>> /\ c.wire = <<>>
      /\ c.calls = <<>> /\ c.lost = {}
  BY DEF NewWsClient, WsFields
<1>2. /\ <<>> \in Seq(UByte) /\ <<>> \in Seq(Nat \ {0}) /\ Len(<<>>) = 0
      /\ {} \in SUBSET (1..Len(<<>>))
  OBVIOUS
<1> HIDE DEF c
<1>3. WsClient(c)
  BY <1>1, <1>2 DEF WsClient
<1>4. WsWritten(c) = <<>>
  <2>1. BuffersOf(c.calls, c.lost) = <<>>
    BY <1>1 DEF BuffersOf
  <2> QED BY <2>1, FlattenFacts DEF WsWritten
<1>5. IsConcat(<<>>, <<>>, <<>>)
  BY <1>2, ConcatEmptySeq DEF IsConcat
<1>6. WsFlows(c)
  BY <1>1, <1>3, <1>4, <1>5 DEF WsFlows
<1> QED BY <1>1, <1>4, <1>6 DEF c

LEMMA WsInitialization ==
    WsInit => WsIInv /\ WsStream!Start
<1> SUFFICES ASSUME WsInit PROVE WsIInv /\ WsStream!Start
  OBVIOUS
<1>1. wsc = NewWsClient /\ ws_peer = NewPeer /\ ws_phase = "open"
  BY DEF WsInit
<1>2. ws_peer = [f \in PeerFields |-> ws_peer[f]] /\ ws_peer.up = TRUE
  BY <1>1 DEF NewPeer, PeerFields
<1>3. WsIInv
  BY <1>1, <1>2, NewWsIsEmpty DEF WsIInv
<1>4. WsStreamState = "open"
  BY <1>1, <1>2 DEF WsStreamState
<1> QED BY <1>1, <1>3, <1>4, NewWsIsEmpty DEF WsStream!Start

LEMMA WsConsecution ==
    WsIInv /\ [WsNext]_wsVars => WsIInv'
<1> SUFFICES ASSUME WsIInv, [WsNext]_wsVars PROVE WsIInv'
  OBVIOUS
<1>1. CASE WsServes \/ PeerWorks
  <2>1. WsFlows(wsc') /\ ws_phase' \in {"open", "closed"}
    BY <1>1 DEF WsServes, WsServed, PeerWorks, WsIInv
  <2>2. ws_peer'.up = ws_peer.up /\ ws_peer' = [f \in PeerFields |-> ws_peer'[f]]
    BY <1>1 DEF WsServes, PeerWorks, WsIInv
  <2>3. WsFlows(wsc)'
    BY <2>1, <2>2 DEF WsFlows
  <2> QED BY <2>1, <2>2, <2>3 DEF WsIInv
<1>2. CASE WsAccept
  <2>1. wsc' = NewWsClient /\ ws_peer' = NewPeer /\ ws_phase' = "open"
    BY <1>2 DEF WsAccept
  <2>2. /\ WsClient(wsc')
        /\ WsWritten(wsc') = <<>> /\ wsc'.wire = <<>> /\ wsc'.queue = <<>>
    BY <2>1, NewWsIsEmpty DEF WsFlows
  <2>3. IsConcat(<<>>, <<>>, <<>>)
    <3>1. <<>> \in Seq(UByte)
      OBVIOUS
    <3> QED BY <3>1, ConcatEmptySeq DEF IsConcat
  <2>4. WsFlows(wsc)'
    BY <2>2, <2>3 DEF WsFlows
  <2>5. ws_peer' = [f \in PeerFields |-> ws_peer'[f]] /\ ws_peer'.up = TRUE
    BY <2>1 DEF NewPeer, PeerFields
  <2> QED BY <2>1, <2>4, <2>5 DEF WsIInv
<1>3. CASE PeerGoes
  <2>1. wsc' = wsc /\ ws_phase' = ws_phase /\ ws_peer' = [ws_peer EXCEPT !.up = FALSE]
    BY <1>3 DEF PeerGoes
  <2>2. ws_peer' = [f \in PeerFields |-> ws_peer'[f]] /\ ws_peer'.up = FALSE
    BY <2>1 DEF PeerFields, WsIInv
  <2>3. WsFlows(wsc)'
    BY <2>1, <2>2 DEF WsFlows, WsIInv
  <2> QED BY <2>1, <2>2, <2>3 DEF WsIInv
<1> QED BY <1>1, <1>2, <1>3, WsStep

\* While the peer of a web socket is there, what waits in the queue is, byte for
\* byte, what was written and not sent, whatever a read or a write does in between.
THEOREM WebInvariance ==
    WsSpec => []WsIInv
<1>1. WsInit => WsIInv
  BY WsInitialization
<1>2. WsIInv /\ [WsNext]_wsVars => WsIInv'
  BY WsConsecution
<1> QED BY <1>1, <1>2, PTL DEF WsSpec

LEMMA WsPrefixOf ==
    ASSUME NEW s \in Seq(UByte), NEW t \in Seq(UByte), Extends(s, t)
    PROVE  WsStream!IsPrefix(s, t)
<1>1. IsPrefix(s, t)
  BY ExtendsIsPrefix
<1> QED BY <1>1 DEF IsPrefix, WsStream!IsPrefix

LEMMA WsStreamStep ==
    WsIInv /\ [WsNext]_wsVars => [WsStream!StreamNext]_(WsStream!streamVars)
<1> SUFFICES ASSUME WsIInv, [WsNext]_wsVars
             PROVE  WsStream!StreamNext \/ UNCHANGED WsStream!streamVars
  OBVIOUS
<1> DEFINE W == WsWritten(wsc)
           V == WsWritten(wsc')
           D == wsc.wire
           E == wsc'.wire
           Q == wsc'.queue
<1>1. CASE WsServes
  <2>1. /\ ws_phase = "open" /\ ws_phase' \in {"open", "closed"} /\ ws_peer' = ws_peer
        /\ WsFlows(wsc) /\ WsFlows(wsc') /\ WsFollows(wsc, wsc')
    BY <1>1 DEF WsServes, WsServed, WsIInv
  <2>2. W \in Seq(UByte) /\ V \in Seq(UByte) /\ D \in Seq(UByte) /\ E \in Seq(UByte)
    BY <2>1, WsFacts DEF WsFlows
  <2>3. WsStream!IsPrefix(W, V) /\ WsStream!IsPrefix(D, E)
    BY <2>1, <2>2, WsPrefixOf DEF WsFollows
  <2>4. WsWritten(wsc)' = V /\ wsc.wire' = E /\ wsc.queue' = Q
    BY DEF WsWritten
  <2>5. CASE ws_peer.up
    <3>1. IsConcat(V, E, Q) /\ Q \in Seq(UByte)
      BY <2>1, <2>5, WsFacts DEF WsFlows
    <3>2. V = E \o Q
      BY <3>1 DEF IsConcat
    <3>3. WsStream!IsPrefix(E, V)
      BY <2>2, <3>1, WsPrefixOf DEF Extends
    <3>4. WsStreamState = "open" /\ WsStreamState' \in {"open", "closed"}
      BY <2>1, <2>5 DEF WsStreamState
    <3> HIDE DEF W, V, D, E, Q
    <3>5. WsStream!Transfer
      BY <2>3, <2>4, <3>2, <3>3, <3>4 DEF WsStream!Transfer, W, D
    <3> QED BY <3>5 DEF WsStream!StreamNext
  <2>6. CASE ~ws_peer.up
    <3>1. E = D
      BY <2>1, <2>6 DEF WsFollows
    <3>2. WsStreamState = "broken" /\ WsStreamState' \in {"broken", "closed"}
      BY <2>1, <2>6 DEF WsStreamState
    <3> HIDE DEF V, E, Q
    <3>3. WsStream!GiveUp
      BY <2>3, <2>4, <3>1, <3>2 DEF WsStream!GiveUp
    <3> QED BY <3>3 DEF WsStream!StreamNext
  <2> QED BY <2>5, <2>6
<1>2. CASE PeerWorks
  <2>1. wsc' = wsc /\ ws_phase' = ws_phase /\ ws_peer'.up = ws_peer.up
    BY <1>2 DEF PeerWorks
  <2>2. WsWritten(wsc)' = WsWritten(wsc) /\ WsStreamState' = WsStreamState
    BY <2>1 DEF WsWritten, WsStreamState
  <2> QED BY <2>1, <2>2 DEF WsStream!streamVars
<1>3. CASE WsAccept
  <2>1. wsc' = NewWsClient /\ ws_peer' = NewPeer /\ ws_phase' = "open" /\ ws_phase = "closed"
    BY <1>3 DEF WsAccept
  <2>2. WsWritten(wsc)' = <<>> /\ wsc.wire' = <<>> /\ wsc.queue' = <<>>
    <3>1. WsWritten(wsc)' = WsWritten(wsc')
      BY DEF WsWritten
    <3> QED BY <2>1, <3>1, NewWsIsEmpty
  <2>3. WsStreamState = "closed" /\ WsStreamState' = "open"
    BY <2>1 DEF WsStreamState, NewPeer
  <2>4. WsStream!Reconnect
    BY <2>2, <2>3 DEF WsStream!Reconnect, WsStream!Start
  <2> QED BY <2>4 DEF WsStream!StreamNext
<1>4. CASE PeerGoes
  <2>1. /\ wsc' = wsc /\ ws_phase = "open" /\ ws_phase' = "open" /\ ws_peer.up
        /\ ws_peer' = [ws_peer EXCEPT !.up = FALSE]
    BY <1>4 DEF PeerGoes
  <2>2. ~ws_peer'.up
    BY <2>1 DEF PeerFields, WsIInv
  <2>3. WsFlows(wsc) /\ IsConcat(W, D, wsc.queue) /\ W \in Seq(UByte) /\ D \in Seq(UByte)
    BY <2>1, WsFacts DEF WsFlows, WsIInv
  <2>4. Extends(W, W) /\ Extends(D, D) /\ Extends(D, W)
    BY <2>3, WsFacts, ExtendsFacts DEF Extends, WsFlows
  <2>5. WsStream!IsPrefix(W, W) /\ WsStream!IsPrefix(D, D) /\ WsStream!IsPrefix(D, W)
    BY <2>3, <2>4, WsPrefixOf
  <2>6. WsWritten(wsc)' = W /\ wsc.wire' = D
    BY <2>1 DEF WsWritten
  <2>7. WsStreamState = "open" /\ WsStreamState' = "broken"
    BY <2>1, <2>2 DEF WsStreamState
  <2> HIDE DEF W, D
  <2>8. WsStream!Transfer
    BY <2>5, <2>6, <2>7 DEF WsStream!Transfer, W, D
  <2> QED BY <2>8 DEF WsStream!StreamNext
<1> QED BY <1>1, <1>2, <1>3, <1>4, WsStep

\* The write side of a web socket is the stream that the write side of a Unix
\* socket is: partial writes, a throttled client, flags that a read overwrites
\* and a peer that goes lose, repeat or reorder nothing.
THEOREM WebRefinement ==
    WsSpec => WebImplementsStream
<1>1. WsInit => WsStream!Start
  BY WsInitialization
<1>2. WsIInv /\ [WsNext]_wsVars => [WsStream!StreamNext]_(WsStream!streamVars)
  BY WsStreamStep
<1> QED BY <1>1, <1>2, WebInvariance, PTL DEF WsSpec, WebImplementsStream, WsStream!StreamSpec

=============================================================================
