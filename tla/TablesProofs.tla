----------------------------- MODULE TablesProofs -----------------------------
(***************************************************************************)
(* Proofs about Tables: for any database, order, limits, texts and clicks. *)
(***************************************************************************)
EXTENDS Tables, FiniteSetTheorems, SequenceTheorems, WellFoundedInduction, TLAPS

-----------------------------------------------------------------------------
(* Induction over the naturals.                                            *)

LessThan == {p \in Nat \X Nat : p[1] < p[2]}

\* A set of naturals that is not empty has a least member.
LEMMA LeastMember ==
  ASSUME NEW S \in SUBSET Nat, S # {}
  PROVE  \E n \in S : \A m \in S : n <= m
<1>1. IsWellFoundedOn(LessThan, Nat)
  <2>1. OpToRel(<, Nat) = LessThan
    BY Zenon DEF OpToRel, LessThan
  <2>. QED
    BY ONLY <2>1, NatLessThanWellFounded, Zenon
<1>2. PICK n \in S : \A m \in S : ~(<<m, n>> \in LessThan)
  BY <1>1, WFMin
<1>3. ASSUME NEW m \in S, ~(n <= m) PROVE FALSE
  <2>1. <<m, n>> \in LessThan
    BY <1>3 DEF LessThan
  <2>. QED
    BY <1>2, <2>1
<1>. QED
  BY <1>3

\* What holds of zero, and of the successor of whatever it holds of, holds of all.
LEMMA Induct ==
  ASSUME NEW S \in SUBSET Nat, 0 \in S, \A n \in S : n + 1 \in S
  PROVE  S = Nat
<1>. SUFFICES ASSUME Nat \ S # {} PROVE FALSE
  OBVIOUS
<1>1. PICK n \in Nat \ S : \A m \in Nat \ S : n <= m
  <2>1. Nat \ S \in SUBSET Nat
    OBVIOUS
  <2>. QED
    BY <2>1, LeastMember
<1>2. n # 0 /\ n - 1 \in Nat
  BY <1>1
<1>3. n - 1 \in S
  BY <1>1, <1>2
<1>. QED
  BY <1>1, <1>2, <1>3

-----------------------------------------------------------------------------
(* FlattenSeq, of the first n values of a function.                        *)

FlatStep(f, g, i) == IF i = 1 THEN f[i] ELSE g[i - 1] \o f[i]

Flat(f, n) == FlattenSeq([j \in 1..n |-> f[j]])

LEMMA FlatExists ==
  ASSUME NEW f, NEW n \in Nat
  PROVE  \E g : g = [i \in 1..n |-> FlatStep(f, g, i)]
<1>. DEFINE T == {k \in Nat : \E g : g = [i \in 1..k |-> FlatStep(f, g, i)]}
<1>1. 0 \in T
  <2>. DEFINE g == [i \in 1..0 |-> {}]
  <2>1. g = [i \in 1..0 |-> FlatStep(f, g, i)]
    OBVIOUS
  <2>2. \E h : h = [i \in 1..0 |-> FlatStep(f, h, i)]
    <3>. HIDE DEF g
    <3>. QED
      BY <2>1
  <2>. QED
    BY <2>2
<1>2. ASSUME NEW k \in T PROVE k + 1 \in T
  <2>0. k \in Nat
    OBVIOUS
  <2>1. PICK g : g = [i \in 1..k |-> FlatStep(f, g, i)]
    OBVIOUS
  <2>. DEFINE h == [i \in 1..k + 1 |-> FlatStep(f, g, i)]
  <2>2. \A i \in 1..k : h[i] = g[i]
    BY <2>0, <2>1
  <2>3. ASSUME NEW i \in 1..k + 1 PROVE h[i] = FlatStep(f, h, i)
    <3>1. h[i] = FlatStep(f, g, i)
      OBVIOUS
    <3>2. i # 1 => i - 1 \in 1..k
      BY <2>0
    <3>. HIDE DEF h
    <3>. QED
      BY <2>2, <3>1, <3>2 DEF FlatStep
  <2>4. h = [i \in 1..k + 1 |-> FlatStep(f, h, i)]
    BY <2>3
  <2>5. \E e : e = [i \in 1..k + 1 |-> FlatStep(f, e, i)]
    <3>. HIDE DEF h
    <3>. QED
      BY <2>4
  <2>. QED
    BY <2>0, <2>5
<1>3. T = Nat
  <2>. HIDE DEF T
  <2>1. T \in SUBSET Nat
    BY DEF T
  <2>. QED
    BY <1>1, <1>2, <2>1, Induct
<1>4. n \in T
  <2>. HIDE DEF T
  <2>. QED
    BY <1>3
<1>. QED
  BY <1>4

\* Flattening some sequences and flattening fewer go the same way.
LEMMA FlatSame ==
  ASSUME NEW f, NEW m \in Nat, NEW n \in Nat, m <= n,
         NEW g, g = [i \in 1..m |-> FlatStep(f, g, i)],
         NEW h, h = [i \in 1..n |-> FlatStep(f, h, i)]
  PROVE  \A i \in 1..m : g[i] = h[i]
<1>. DEFINE T == {k \in Nat : k \in 1..m => g[k] = h[k]}
<1>1. 0 \in T
  OBVIOUS
<1>2. ASSUME NEW k \in T PROVE k + 1 \in T
  <2>1. k \in Nat /\ (k \in 1..m => g[k] = h[k])
    OBVIOUS
  <2>2. ASSUME k + 1 \in 1..m PROVE g[k + 1] = h[k + 1]
    <3>1. k + 1 \in 1..n /\ (k + 1) - 1 = k /\ (k + 1 = 1 \/ k \in 1..m)
      BY <2>1, <2>2
    <3>2. g[k + 1] = FlatStep(f, g, k + 1) /\ h[k + 1] = FlatStep(f, h, k + 1)
      BY <2>2, <3>1
    <3>. QED
      BY <2>1, <3>1, <3>2 DEF FlatStep
  <2>. QED
    BY <2>1, <2>2
<1>3. T = Nat
  <2>. HIDE DEF T
  <2>1. T \in SUBSET Nat
    BY DEF T
  <2>. QED
    BY <1>1, <1>2, <2>1, Induct
<1>4. ASSUME NEW i \in 1..m PROVE g[i] = h[i]
  <2>1. i \in T
    <3>. HIDE DEF T
    <3>. QED
      BY <1>3
  <2>. QED
    BY <2>1
<1>. QED
  BY <1>4

LEMMA FlatNone == ASSUME NEW f PROVE Flat(f, 0) = << >>
<1>1. [j \in 1..0 |-> f[j]] = << >>
  OBVIOUS
<1>. QED
  BY <1>1 DEF Flat, FlattenSeq

LEMMA FlatIs ==
  ASSUME NEW f, NEW n \in Nat \ {0}, NEW g, g = [i \in 1..n |-> FlatStep(f, g, i)]
  PROVE  Flat(f, n) = g[n]
<1>. DEFINE s == [j \in 1..n |-> f[j]]
            IsG(h) == h = [i \in 1..n |-> FlatStep(f, h, i)]
            flatten == CHOOSE h : IsG(h)
<1>1. Len(s) = n /\ Len(s) # 0
  OBVIOUS
<1>2. IsG(flatten)
  OBVIOUS
<1>3. Flat(f, n) = flatten[n]
  <2>1. flatten = CHOOSE h : h = [i \in 1..n |-> IF i = 1 THEN s[i] ELSE h[i - 1] \o s[i]]
    <3>1. \A i \in 1..n : s[i] = f[i]
      OBVIOUS
    <3>2. ASSUME NEW h
          PROVE  [i \in 1..n |-> FlatStep(f, h, i)]
                   = [i \in 1..n |-> IF i = 1 THEN s[i] ELSE h[i - 1] \o s[i]]
      BY <3>1 DEF FlatStep
    <3>. HIDE DEF s
    <3>. QED
      BY <3>2
  <2>. HIDE DEF s, flatten
  <2>2. Flat(f, n) = FlattenSeq(s)
    BY DEF Flat, s
  <2>3. FlattenSeq(s) = flatten[n]
    BY ONLY <1>1, <2>1 DEF FlattenSeq
  <2>. QED
    BY ONLY <2>2, <2>3
<1>4. \A i \in 1..n : flatten[i] = g[i]
  <2>1. n \in Nat /\ n <= n
    OBVIOUS
  <2>2. flatten = [i \in 1..n |-> FlatStep(f, flatten, i)]
    BY ONLY <1>2
  <2>. HIDE DEF flatten
  <2>. QED
    BY ONLY g = [i \in 1..n |-> FlatStep(f, g, i)], <2>1, <2>2, FlatSame, SMTT(30)
<1>. QED
  BY <1>3, <1>4

\* One sequence more is appended.
LEMMA FlatMore ==
  ASSUME NEW S, NEW f, NEW n \in Nat, \A i \in 1..n + 1 : f[i] \in Seq(S),
         Flat(f, n) \in Seq(S)
  PROVE  Flat(f, n + 1) = Flat(f, n) \o f[n + 1]
<1>0. n + 1 \in Nat \ {0} /\ n <= n + 1 /\ n + 1 \in 1..n + 1
  OBVIOUS
<1>1. PICK h : h = [i \in 1..n + 1 |-> FlatStep(f, h, i)]
  BY <1>0, FlatExists
<1>2. Flat(f, n + 1) = h[n + 1]
  BY <1>0, <1>1, FlatIs
<1>3. h[n + 1] = FlatStep(f, h, n + 1)
  BY <1>0, <1>1
<1>4. CASE n = 0
  <2>1. Flat(f, n) = << >>
    BY <1>4, FlatNone
  <2>2. f[n + 1] \in Seq(S)
    BY <1>4
  <2>3. << >> \o f[n + 1] = f[n + 1]
    BY <2>2, ConcatEmptySeq
  <2>. QED
    BY <1>2, <1>3, <1>4, <2>1, <2>3 DEF FlatStep
<1>5. CASE n # 0
  <2>. DEFINE g == [i \in 1..n |-> h[i]]
  <2>1. ASSUME NEW i \in 1..n PROVE g[i] = FlatStep(f, g, i)
    <3>1. i \in 1..n + 1 /\ (i = 1 \/ i - 1 \in 1..n)
      OBVIOUS
    <3>2. g[i] = FlatStep(f, h, i)
      BY <1>1, <3>1
    <3>. QED
      BY <3>1, <3>2 DEF FlatStep
  <2>2. g = [i \in 1..n |-> FlatStep(f, g, i)]
    BY <2>1
  <2>3. Flat(f, n) = h[n]
    <3>1. g[n] = h[n]
      BY <1>5
    <3>. HIDE DEF g
    <3>. QED
      BY <1>5, <2>2, <3>1, FlatIs
  <2>4. n + 1 # 1 /\ (n + 1) - 1 = n
    BY <1>5
  <2>. QED
    BY <1>2, <1>3, <2>3, <2>4 DEF FlatStep
<1>. QED
  BY <1>4, <1>5

\* The sequences that are flattened are over some set, and so is the result.
LEMMA FlatType ==
  ASSUME NEW S, NEW f, NEW n \in Nat, \A i \in 1..n : f[i] \in Seq(S)
  PROVE  \A k \in 0..n : Flat(f, k) \in Seq(S)
<1>. DEFINE T == {k \in Nat : k <= n => Flat(f, k) \in Seq(S)}
<1>1. 0 \in T
  BY FlatNone, EmptySeq
<1>2. ASSUME NEW k \in T PROVE k + 1 \in T
  <2>1. k \in Nat
    OBVIOUS
  <2>2. ASSUME k + 1 <= n PROVE Flat(f, k + 1) \in Seq(S)
    <3>1. Flat(f, k) \in Seq(S)
      BY <2>1, <2>2
    <3>2. \A i \in 1..k + 1 : f[i] \in Seq(S)
      BY <2>1, <2>2
    <3>3. Flat(f, k + 1) = Flat(f, k) \o f[k + 1]
      BY <2>1, <3>1, <3>2, FlatMore
    <3>4. f[k + 1] \in Seq(S)
      BY <2>1, <3>2
    <3>. QED
      BY <3>1, <3>3, <3>4, ConcatProperties
  <2>. QED
    BY <2>1, <2>2
<1>3. T = Nat
  <2>. HIDE DEF T
  <2>1. T \in SUBSET Nat
    BY DEF T
  <2>. QED
    BY <1>1, <1>2, <2>1, Induct
<1>4. ASSUME NEW k \in 0..n PROVE Flat(f, k) \in Seq(S)
  <2>1. k \in T
    <3>. HIDE DEF T
    <3>. QED
      BY <1>3
  <2>. QED
    BY <2>1
<1>. QED
  BY <1>4

\* What is in either of two sequences.
LEMMA ConcatMembers ==
  ASSUME NEW S, NEW s \in Seq(S), NEW t \in Seq(S)
  PROVE  ToSet(s \o t) = ToSet(s) \cup ToSet(t)
<1>1. /\ Len(s) \in Nat /\ Len(t) \in Nat /\ DOMAIN s = 1..Len(s) /\ DOMAIN t = 1..Len(t)
      /\ s \o t \in Seq(S)
  BY LenProperties, ConcatProperties
<1>2. DOMAIN (s \o t) = 1..Len(s) + Len(t)
  BY <1>1, LenProperties, ConcatProperties
<1>3. \A i \in 1..Len(s) + Len(t) : (s \o t)[i] = IF i <= Len(s) THEN s[i] ELSE t[i - Len(s)]
  BY ConcatProperties
<1>4. ASSUME NEW x \in ToSet(s \o t) PROVE x \in ToSet(s) \cup ToSet(t)
  <2>1. PICK i \in 1..Len(s) + Len(t) : x = (s \o t)[i]
    BY <1>2 DEF ToSet
  <2>2. CASE i <= Len(s)
    <3>1. i \in 1..Len(s) /\ x = s[i]
      BY <1>1, <1>3, <2>1, <2>2
    <3>. QED
      BY <1>1, <3>1 DEF ToSet
  <2>3. CASE ~(i <= Len(s))
    <3>1. i - Len(s) \in 1..Len(t) /\ x = t[i - Len(s)]
      BY <1>1, <1>3, <2>1, <2>3
    <3>. QED
      BY <1>1, <3>1 DEF ToSet
  <2>. QED
    BY <2>2, <2>3
<1>5. ASSUME NEW i \in 1..Len(s) PROVE s[i] \in ToSet(s \o t)
  <2>1. i \in 1..Len(s) + Len(t) /\ i <= Len(s)
    BY <1>1
  <2>2. (s \o t)[i] = s[i]
    BY <1>3, <2>1
  <2>. QED
    BY <1>2, <2>1, <2>2 DEF ToSet
<1>6. ASSUME NEW i \in 1..Len(t) PROVE t[i] \in ToSet(s \o t)
  <2>1. Len(s) + i \in 1..Len(s) + Len(t) /\ ~(Len(s) + i <= Len(s)) /\ (Len(s) + i) - Len(s) = i
    BY <1>1
  <2>2. (s \o t)[Len(s) + i] = t[i]
    BY <1>3, <2>1
  <2>. QED
    BY <1>2, <2>1, <2>2 DEF ToSet
<1>. QED
  BY <1>1, <1>4, <1>5, <1>6 DEF ToSet

\* Flattening yields what is in the sequences.
LEMMA FlatMembers ==
  ASSUME NEW S, NEW f, NEW n \in Nat, \A i \in 1..n : f[i] \in Seq(S)
  PROVE  ToSet(Flat(f, n)) = UNION {ToSet(f[i]) : i \in 1..n}
<1>. DEFINE U(k) == UNION {ToSet(f[i]) : i \in 1..k}
            T == {k \in Nat : k <= n => ToSet(Flat(f, k)) = U(k)}
<1>1. 0 \in T
  <2>1. ToSet(Flat(f, 0)) = {}
    BY FlatNone DEF ToSet
  <2>2. U(0) = {}
    OBVIOUS
  <2>. QED
    BY <2>1, <2>2
<1>2. ASSUME NEW k \in T PROVE k + 1 \in T
  <2>1. k \in Nat
    OBVIOUS
  <2>2. ASSUME k + 1 <= n PROVE ToSet(Flat(f, k + 1)) = U(k + 1)
    <3>1. Flat(f, k) \in Seq(S)
      <4>1. k \in 0..n
        BY <2>1, <2>2
      <4>. QED
        BY <4>1, FlatType
    <3>2. \A i \in 1..k + 1 : f[i] \in Seq(S)
      BY <2>1, <2>2
    <3>3. Flat(f, k + 1) = Flat(f, k) \o f[k + 1]
      BY <2>1, <3>1, <3>2, FlatMore
    <3>4. f[k + 1] \in Seq(S)
      BY <2>1, <3>2
    <3>5. ToSet(Flat(f, k + 1)) = ToSet(Flat(f, k)) \cup ToSet(f[k + 1])
      <4>. DEFINE a == Flat(f, k)
                  b == f[k + 1]
      <4>1. a \in Seq(S) /\ b \in Seq(S) /\ Flat(f, k + 1) = a \o b
        BY <3>1, <3>3, <3>4
      <4>. HIDE DEF a, b
      <4>2. ToSet(a \o b) = ToSet(a) \cup ToSet(b)
        BY ONLY <4>1, ConcatMembers
      <4>. QED
        BY <4>1, <4>2 DEF a, b
    <3>6. ToSet(Flat(f, k)) = U(k)
      BY <2>1, <2>2
    <3>7. U(k + 1) = U(k) \cup ToSet(f[k + 1])
      <4>1. 1..k + 1 = (1..k) \cup {k + 1}
        BY <2>1
      <4>. QED
        BY <4>1
    <3>. QED
      BY <3>5, <3>6, <3>7
  <2>. QED
    BY <2>1, <2>2
<1>3. T = Nat
  <2>. HIDE DEF T
  <2>1. T \in SUBSET Nat
    BY DEF T
  <2>. QED
    BY <1>1, <1>2, <2>1, Induct
<1>4. n \in T
  <2>. HIDE DEF T
  <2>. QED
    BY <1>3
<1>. QED
  BY <1>4

-----------------------------------------------------------------------------
(* Preorder, of trees of any size.                                         *)

\* The children of a node come before it.
Descends(inputs, top) ==
  /\ top \in Nat /\ DOMAIN inputs = 1..top
  /\ \A i \in 1..top : inputs[i] \in Seq(1..i - 1)

\* The nodes from the inputs of a node downwards, if order[j] are those from node j.
Downwards(inputs, order, i) ==
  <<i>> \o Flat([l \in 1..Len(inputs[i]) |-> order[inputs[i][l]]], Len(inputs[i]))

LEMMA DownwardsOf ==
  ASSUME NEW inputs, NEW i \in DOMAIN inputs, NEW S, inputs[i] \in Seq(S), NEW order
  PROVE  Downwards(inputs, order, i)
           = <<i>> \o FlattenSeq([k \in DOMAIN inputs[i] |-> order[inputs[i][k]]])
<1>. DEFINE n == Len(inputs[i])
            f == [l \in 1..n |-> order[inputs[i][l]]]
<1>1. DOMAIN inputs[i] = 1..n /\ n \in Nat
  BY LenProperties
<1>2. [j \in 1..n |-> f[j]] = [k \in 1..n |-> order[inputs[i][k]]]
  OBVIOUS
<1>. QED
  BY <1>1, <1>2 DEF Downwards, Flat

LEMMA SameDownwards ==
  ASSUME NEW inputs, NEW i, NEW S, inputs[i] \in Seq(S), NEW g, NEW h,
         \A k \in 1..Len(inputs[i]) : g[inputs[i][k]] = h[inputs[i][k]]
  PROVE  Downwards(inputs, g, i) = Downwards(inputs, h, i)
<1>1. Len(inputs[i]) \in Nat
  BY LenProperties
<1>2. [l \in 1..Len(inputs[i]) |-> g[inputs[i][l]]] = [l \in 1..Len(inputs[i]) |-> h[inputs[i][l]]]
  OBVIOUS
<1>. QED
  BY <1>1, <1>2 DEF Downwards

\* There is a function that gives every node the nodes below it.
LEMMA OrderExists ==
  ASSUME NEW inputs, NEW top, Descends(inputs, top)
  PROVE  \E g : g = [i \in DOMAIN inputs |-> Downwards(inputs, g, i)]
<1>. DEFINE T == {k \in Nat : k <= top => \E g : g = [i \in 1..k |-> Downwards(inputs, g, i)]}
<1>1. 0 \in T
  <2>. DEFINE g == [i \in 1..0 |-> {}]
  <2>1. g = [i \in 1..0 |-> Downwards(inputs, g, i)]
    OBVIOUS
  <2>2. \E f : f = [i \in 1..0 |-> Downwards(inputs, f, i)]
    <3>. HIDE DEF g
    <3>. QED
      BY <2>1
  <2>. QED
    BY <2>2
<1>2. ASSUME NEW k \in T, k + 1 <= top PROVE k + 1 \in T
  <2>0. k \in Nat /\ k <= top /\ top \in Nat
    BY <1>2 DEF Descends
  <2>1. PICK g : g = [i \in 1..k |-> Downwards(inputs, g, i)]
    BY <2>0
  <2>. DEFINE h == [i \in 1..k + 1 |-> Downwards(inputs, g, i)]
  <2>2. \A i \in 1..k : h[i] = g[i]
    BY <2>0, <2>1
  <2>3. ASSUME NEW i \in 1..k + 1 PROVE h[i] = Downwards(inputs, h, i)
    <3>1. i \in 1..top /\ inputs[i] \in Seq(1..i - 1)
      BY <1>2, <2>0 DEF Descends
    <3>2. \A l \in 1..Len(inputs[i]) : inputs[i][l] \in 1..k
      <4>1. \A l \in 1..Len(inputs[i]) : inputs[i][l] \in 1..i - 1
        BY <3>1, ElementOfSeq
      <4>. QED
        BY <2>0, <4>1
    <3>3. \A l \in 1..Len(inputs[i]) : g[inputs[i][l]] = h[inputs[i][l]]
      <4>. HIDE DEF h
      <4>. QED
        BY <2>2, <3>2
    <3>4. h[i] = Downwards(inputs, g, i)
      OBVIOUS
    <3>. HIDE DEF h
    <3>. QED
      <4>1. Downwards(inputs, g, i) = Downwards(inputs, h, i)
        BY ONLY <3>1, <3>3, SameDownwards
      <4>. QED
        BY <3>4, <4>1
  <2>4. h = [i \in 1..k + 1 |-> Downwards(inputs, h, i)]
    BY <2>3
  <2>5. \E f : f = [i \in 1..k + 1 |-> Downwards(inputs, f, i)]
    <3>. HIDE DEF h
    <3>. QED
      BY <2>4
  <2>. QED
    BY <2>0, <2>5
<1>3. ASSUME NEW k \in T, ~(k + 1 <= top) PROVE k + 1 \in T
  BY <1>3
<1>4. T = Nat
  <2>. HIDE DEF T
  <2>1. T \in SUBSET Nat
    BY DEF T
  <2>. QED
    BY <1>1, <1>2, <1>3, <2>1, Induct
<1>5. top \in T
  <2>. HIDE DEF T
  <2>. QED
    BY <1>4 DEF Descends
<1>6. top <= top /\ DOMAIN inputs = 1..top
  BY DEF Descends
<1>. QED
  BY <1>5, <1>6

\* The preorder of every node is itself and the preorders of its inputs.
LEMMA PreOrderNext ==
  ASSUME NEW inputs, NEW top, Descends(inputs, top)
  PROVE  \A i \in 1..top : PreOrders(inputs)[i] = Downwards(inputs, PreOrders(inputs), i)
<1>. DEFINE IsG(g) == g = [i \in DOMAIN inputs |-> Downwards(inputs, g, i)]
            order == CHOOSE g : IsG(g)
<1>1. IsG(order)
  BY OrderExists
<1>2. PreOrders(inputs) = order
  <2>1. ASSUME NEW g
        PROVE  [i \in DOMAIN inputs |-> Downwards(inputs, g, i)]
                 = [i \in DOMAIN inputs |->
                      <<i>> \o FlattenSeq([k \in DOMAIN inputs[i] |-> g[inputs[i][k]]])]
    <3>1. ASSUME NEW i \in DOMAIN inputs
          PROVE  Downwards(inputs, g, i)
                   = <<i>> \o FlattenSeq([k \in DOMAIN inputs[i] |-> g[inputs[i][k]]])
      <4>1. inputs[i] \in Seq(1..i - 1)
        BY DEF Descends
      <4>. QED
        BY <4>1, DownwardsOf
    <3>. QED
      BY <3>1
  <2>. QED
    BY <2>1 DEF PreOrders
<1>3. \A i \in DOMAIN inputs : order[i] = Downwards(inputs, order, i)
  BY <1>1
<1>4. DOMAIN inputs = 1..top
  BY DEF Descends
<1>. HIDE DEF order
<1>. QED
  BY <1>2, <1>3, <1>4

\* Preorders are sequences of nodes.
LEMMA PreOrderType ==
  ASSUME NEW inputs, NEW top, Descends(inputs, top)
  PROVE  \A i \in 1..top : PreOrders(inputs)[i] \in Seq(1..top)
<1>. DEFINE O == PreOrders(inputs)
            T == {k \in Nat : \A i \in 1..top : i <= k => O[i] \in Seq(1..top)}
<1>1. 0 \in T
  BY DEF Descends
<1>2. ASSUME NEW k \in T PROVE k + 1 \in T
  <2>0. k \in Nat /\ top \in Nat /\ \A i \in 1..top : i <= k => O[i] \in Seq(1..top)
    BY DEF Descends
  <2>1. ASSUME NEW i \in 1..top, i <= k + 1 PROVE O[i] \in Seq(1..top)
    <3>. DEFINE n == Len(inputs[i])
                f == [l \in 1..n |-> O[inputs[i][l]]]
    <3>1. inputs[i] \in Seq(1..i - 1) /\ n \in Nat
      BY LenProperties DEF Descends
    <3>2. \A l \in 1..n : inputs[i][l] \in 1..top /\ inputs[i][l] <= k
      <4>1. \A l \in 1..n : inputs[i][l] \in 1..i - 1
        BY <3>1, ElementOfSeq
      <4>. QED
        BY <2>0, <2>1, <4>1
    <3>3. \A l \in 1..n : f[l] \in Seq(1..top)
      BY <2>0, <3>2
    <3>4. Flat(f, n) \in Seq(1..top)
      <4>1. n \in 0..n
        BY <3>1
      <4>. HIDE DEF f, n
      <4>. QED
        BY <3>1, <3>3, <4>1, FlatType
    <3>5. O[i] = <<i>> \o Flat(f, n)
      BY PreOrderNext DEF Downwards
    <3>6. <<i>> \in Seq(1..top)
      BY <2>1
    <3>. HIDE DEF f, n, O
    <3>. QED
      BY <3>4, <3>5, <3>6, ConcatProperties
  <2>. QED
    BY <2>0, <2>1
<1>3. T = Nat
  <2>. HIDE DEF T
  <2>1. T \in SUBSET Nat
    BY DEF T
  <2>. QED
    BY <1>1, <1>2, <2>1, Induct
<1>4. ASSUME NEW i \in 1..top PROVE O[i] \in Seq(1..top)
  <2>1. i \in Nat /\ i <= i
    OBVIOUS
  <2>2. i \in T
    <3>. HIDE DEF T
    <3>. QED
      BY <1>3, <2>1
  <2>. QED
    BY <2>1, <2>2
<1>. QED
  BY <1>4

\* From a node downwards there are the node, and what there is from its inputs.
LEMMA PreOrderMembers ==
  ASSUME NEW inputs, NEW top, Descends(inputs, top), NEW i \in 1..top
  PROVE  LET O == PreOrders(inputs)
         IN /\ ToSet(inputs[i]) \subseteq 1..i - 1
            /\ ToSet(O[i]) = {i} \cup UNION {ToSet(O[j]) : j \in ToSet(inputs[i])}
<1>. DEFINE O == PreOrders(inputs)
            n == Len(inputs[i])
            f == [l \in 1..n |-> O[inputs[i][l]]]
<1>1. inputs[i] \in Seq(1..i - 1) /\ n \in Nat /\ DOMAIN inputs[i] = 1..n
  BY LenProperties DEF Descends
<1>2. \A l \in 1..n : inputs[i][l] \in 1..i - 1
  BY <1>1, ElementOfSeq
<1>3. ToSet(inputs[i]) = {inputs[i][l] : l \in 1..n}
  BY <1>1 DEF ToSet
<1>4. ASSUME NEW l \in 1..n PROVE f[l] \in Seq(1..top)
  <2>1. inputs[i][l] \in 1..top
    BY <1>2 DEF Descends
  <2>2. f[l] = O[inputs[i][l]]
    OBVIOUS
  <2>3. O[inputs[i][l]] \in Seq(1..top)
    BY ONLY Descends(inputs, top), <2>1, PreOrderType
  <2>. QED
    BY ONLY <2>2, <2>3
<1>5. O[i] = <<i>> \o Flat(f, n)
  BY PreOrderNext DEF Downwards
<1>6. Flat(f, n) \in Seq(1..top) /\ ToSet(Flat(f, n)) = UNION {ToSet(f[l]) : l \in 1..n}
  <2>1. n \in 0..n
    BY <1>1
  <2>. HIDE DEF f, n
  <2>. QED
    BY <1>1, <1>4, <2>1, FlatType, FlatMembers
<1>7. <<i>> \in Seq(1..top) /\ ToSet(<<i>>) = {i}
  BY DEF ToSet
<1>8. ToSet(O[i]) = {i} \cup UNION {ToSet(f[l]) : l \in 1..n}
  <2>. DEFINE a == <<i>>
              b == Flat(f, n)
  <2>1. /\ a \in Seq(1..top) /\ b \in Seq(1..top) /\ O[i] = a \o b
        /\ ToSet(a) = {i} /\ ToSet(b) = UNION {ToSet(f[l]) : l \in 1..n}
    BY <1>5, <1>6, <1>7
  <2>. HIDE DEF f, n, O, a, b
  <2>2. ToSet(a \o b) = ToSet(a) \cup ToSet(b)
    BY ONLY <2>1, ConcatMembers
  <2>. QED
    BY ONLY <2>1, <2>2
<1>9. UNION {ToSet(f[l]) : l \in 1..n} = UNION {ToSet(O[j]) : j \in ToSet(inputs[i])}
  <2>1. \A l \in 1..n : f[l] = O[inputs[i][l]]
    OBVIOUS
  <2>. HIDE DEF f, n, O
  <2>. QED
    BY <1>3, <2>1
<1>10. ToSet(inputs[i]) \subseteq 1..i - 1
  BY <1>2, <1>3
<1>. QED
  BY <1>8, <1>9, <1>10

-----------------------------------------------------------------------------
(* Texts.                                                                  *)

\* The walk goes on from a node to the parts that it does not pass by.
LEMMA NodeParts ==
  ASSUME NEW n \in Nat, NEW node \in Nodes(n)
  PROVE  /\ Visited(node) \in Seq(1..n) /\ Parts(node) \in Seq(1..n)
         /\ ToSet(Parts(node)) = ToSet(Visited(node)) \cup Passed(node)
<1>. DEFINE Number == 1..n
            Numbers == Seq(Number)
<1>1. << >> \in Numbers /\ ToSet(<< >>) = {}
  BY DEF ToSet
<1>2. ASSUME NEW a \in Number
      PROVE  <<a>> \in Numbers /\ ToSet(<<a>>) = {a}
  BY DEF ToSet
<1>3. ASSUME NEW s \in Numbers, NEW t \in Numbers
      PROVE  s \o t \in Numbers /\ ToSet(s \o t) = ToSet(s) \cup ToSet(t)
  BY ConcatMembers, ConcatProperties
<1>4. CASE node \in [op : {"text"}, statements : Numbers]
  <2>1. node.op = "text" /\ node.statements \in Numbers
    BY <1>4
  <2>2. Visited(node) = node.statements /\ Parts(node) = node.statements /\ Passed(node) = {}
    BY <2>1 DEF Visited, Parts, Passed
  <2>. QED
    BY <2>1, <2>2
<1>5. CASE node \in [op : {"statement"}, query : Number]
  <2>1. node.op = "statement" /\ node.query \in Number
    BY <1>5
  <2>2. Visited(node) = << >> /\ Parts(node) = <<node.query>> /\ Passed(node) = {node.query}
    BY <2>1 DEF Visited, Parts, Passed
  <2>. QED
    BY <1>1, <1>2, <2>1, <2>2
<1>6. CASE node \in [op : {"query"}, ctes : Seq([name : DOMAIN Lower, query : Number]),
                     body : Number]
  <2>1. /\ node.op = "query" /\ node.body \in Number
        /\ node.ctes \in Seq([name : DOMAIN Lower, query : Number])
    BY <1>6
  <2>2. Visited(node) = PartsOfQuery(node) /\ Parts(node) = PartsOfQuery(node)
        /\ Passed(node) = {}
    BY <2>1 DEF Visited, Parts, Passed
  <2>3. DOMAIN node.ctes = 1..Len(node.ctes) /\ Len(node.ctes) \in Nat
    BY <2>1, LenProperties
  <2>4. \A k \in 1..Len(node.ctes) : node.ctes[k] \in [name : DOMAIN Lower, query : Number]
    <3>. HIDE DEF Number
    <3>. QED
      BY <2>1, ElementOfSeq
  <2>5. [k \in DOMAIN node.ctes |-> node.ctes[k].query] \in Numbers
    <3>1. \A k \in 1..Len(node.ctes) : node.ctes[k].query \in Number
      BY <2>4
    <3>. HIDE DEF Number
    <3>. QED
      BY <2>3, <3>1
  <2>6. PartsOfQuery(node) \in Numbers
    BY <1>2, <1>3, <2>1, <2>5 DEF PartsOfQuery
  <2>. QED
    BY <2>2, <2>6
<1>7. CASE node \in [op : {"union"}, left : Number, right : Number]
  <2>1. node.op = "union" /\ node.left \in Number /\ node.right \in Number
    BY <1>7
  <2>2. Visited(node) = <<node.left, node.right>> /\ Parts(node) = <<node.left, node.right>>
        /\ Passed(node) = {}
    BY <2>1 DEF Visited, Parts, Passed
  <2>. QED
    BY <2>1, <2>2
<1>8. CASE node \in [op : {"select"}, from : Numbers, projection : Numbers,
                     selection : Numbers, having : Numbers, other : Numbers]
  <2>1. /\ node.op = "select" /\ node.from \in Numbers /\ node.projection \in Numbers
        /\ node.selection \in Numbers /\ node.having \in Numbers /\ node.other \in Numbers
    BY <1>8
  <2>. DEFINE v == node.from \o node.projection \o node.selection \o node.having
  <2>2. Visited(node) = v /\ Parts(node) = v \o node.other /\ Passed(node) = ToSet(node.other)
    BY <2>1 DEF Visited, Parts, Passed
  <2>3. v \in Numbers
    <3>1. node.from \o node.projection \in Numbers
      BY <1>3, <2>1
    <3>2. (node.from \o node.projection) \o node.selection \in Numbers
      BY <1>3, <2>1, <3>1
    <3>. QED
      BY <1>3, <2>1, <3>2
  <2>. HIDE DEF v
  <2>. QED
    BY <1>3, <2>1, <2>2, <2>3
<1>9. CASE node \in [op : {"item"}, relation : Number, joins : Numbers, on : Numbers]
  <2>1. /\ node.op = "item" /\ node.relation \in Number /\ node.joins \in Numbers
        /\ node.on \in Numbers
    BY <1>9
  <2>. DEFINE v == <<node.relation>> \o node.joins
  <2>2. Visited(node) = v /\ Parts(node) = v \o node.on /\ Passed(node) = ToSet(node.on)
    BY <2>1 DEF Visited, Parts, Passed, RelationsOf
  <2>3. v \in Numbers
    BY <1>2, <1>3, <2>1
  <2>. HIDE DEF v
  <2>. QED
    BY <1>3, <2>1, <2>2, <2>3
<1>10. CASE node \in [op : {"table"}, parts : Seq([text : DOMAIN Lower, quoted : BOOLEAN])]
  <2>1. node.op = "table"
    BY <1>10
  <2>2. Visited(node) = << >> /\ Parts(node) = << >> /\ Passed(node) = {}
    BY <2>1 DEF Visited, Parts, Passed
  <2>. QED
    BY <1>1, <2>2
<1>11. CASE node \in [op : {"operator", "opaque"}, args : Numbers]
  <2>1. node.op \in {"operator", "opaque"} /\ node.args \in Numbers
    BY <1>11
  <2>2. Parts(node) = node.args
    BY <2>1 DEF Parts, PartsOfExpr
  <2>3. CASE node.op = "operator"
    <3>1. Visited(node) = node.args /\ Passed(node) = {}
      BY <2>3 DEF Visited, Passed, PartsOfExpr
    <3>. QED
      BY <2>1, <2>2, <3>1
  <2>4. CASE node.op = "opaque"
    <3>1. Visited(node) = << >> /\ Passed(node) = ToSet(node.args)
      BY <2>4 DEF Visited, Passed
    <3>. QED
      BY <1>1, <2>1, <2>2, <3>1
  <2>. QED
    BY <2>1, <2>3, <2>4
<1>12. CASE node \in [op : {"subquery"}, args : Numbers, query : Number]
  <2>1. node.op = "subquery" /\ node.args \in Numbers /\ node.query \in Number
    BY <1>12
  <2>2. /\ Visited(node) = Append(node.args, node.query)
        /\ Parts(node) = Append(node.args, node.query) /\ Passed(node) = {}
    BY <2>1 DEF Visited, Parts, Passed, PartsOfExpr
  <2>3. Append(node.args, node.query) \in Numbers
    BY <2>1, AppendProperties
  <2>. QED
    BY <2>2, <2>3
<1>13. \/ node \in [op : {"text"}, statements : Numbers]
       \/ node \in [op : {"statement"}, query : Number]
       \/ node \in [op : {"query"}, ctes : Seq([name : DOMAIN Lower, query : Number]),
                    body : Number]
       \/ node \in [op : {"union"}, left : Number, right : Number]
       \/ node \in [op : {"select"}, from : Numbers, projection : Numbers, selection : Numbers,
                    having : Numbers, other : Numbers]
       \/ node \in [op : {"item"}, relation : Number, joins : Numbers, on : Numbers]
       \/ node \in [op : {"table"}, parts : Seq([text : DOMAIN Lower, quoted : BOOLEAN])]
       \/ node \in [op : {"operator", "opaque"}, args : Numbers]
       \/ node \in [op : {"subquery"}, args : Numbers, query : Number]
  BY ONLY node \in Nodes(n), Zenon DEF Nodes, Number, Numbers
<1>. QED
  BY ONLY <1>4, <1>5, <1>6, <1>7, <1>8, <1>9, <1>10, <1>11, <1>12, <1>13, Zenon

\* What the walk meets from a node, and all there is below it.
Reached(text, i) == ToSet(Walk(text)[i])
Below(text, i) == ToSet(Whole(text)[i])

LEMMA TextOrders ==
  ASSUME NEW text, IsText(text), NEW i \in 1..Len(text)
  PROVE  /\ Walk(text)[i] \in Seq(1..Len(text)) /\ Whole(text)[i] \in Seq(1..Len(text))
         /\ Reached(text, i) = {i} \cup UNION {Reached(text, j) : j \in ToSet(Visited(text[i]))}
         /\ Below(text, i) = {i} \cup UNION {Below(text, j) : j \in ToSet(Parts(text[i]))}
         /\ ToSet(Visited(text[i])) \subseteq 1..i - 1
         /\ ToSet(Parts(text[i])) \subseteq 1..i - 1
         /\ ToSet(Parts(text[i])) = ToSet(Visited(text[i])) \cup Passed(text[i])
<1>. DEFINE visited == [j \in DOMAIN text |-> Visited(text[j])]
            parts == [j \in DOMAIN text |-> Parts(text[j])]
            top == Len(text)
<1>1. top \in Nat /\ DOMAIN text = 1..top
  BY DEF IsText
<1>2. ASSUME NEW j \in 1..top
      PROVE  /\ Visited(text[j]) \in Seq(1..j - 1) /\ Parts(text[j]) \in Seq(1..j - 1)
             /\ ToSet(Parts(text[j])) = ToSet(Visited(text[j])) \cup Passed(text[j])
  <2>1. j - 1 \in Nat /\ text[j] \in Nodes(j - 1)
    BY <1>1 DEF IsText
  <2>. QED
    BY <2>1, NodeParts
<1>3. Descends(visited, top) /\ Descends(parts, top)
  BY <1>1, <1>2 DEF Descends
<1>4. visited[i] = Visited(text[i]) /\ parts[i] = Parts(text[i])
  BY <1>1
<1>5. Walk(text) = PreOrders(visited) /\ Whole(text) = PreOrders(parts)
  BY DEF Walk, Whole
<1>. HIDE DEF visited, parts
<1>6. Walk(text)[i] \in Seq(1..top) /\ Whole(text)[i] \in Seq(1..top)
  <2>1. PreOrders(visited)[i] \in Seq(1..top) /\ PreOrders(parts)[i] \in Seq(1..top)
    BY ONLY <1>3, i \in 1..top, PreOrderType
  <2>. QED
    BY ONLY <1>5, <2>1
<1>7. /\ ToSet(visited[i]) \subseteq 1..i - 1
      /\ Reached(text, i) = {i} \cup UNION {Reached(text, j) : j \in ToSet(visited[i])}
  <2>1. /\ ToSet(visited[i]) \subseteq 1..i - 1
        /\ ToSet(PreOrders(visited)[i])
             = {i} \cup UNION {ToSet(PreOrders(visited)[j]) : j \in ToSet(visited[i])}
    BY ONLY <1>3, i \in 1..top, PreOrderMembers
  <2>. QED
    BY ONLY <1>5, <2>1 DEF Reached
<1>8. /\ ToSet(parts[i]) \subseteq 1..i - 1
      /\ Below(text, i) = {i} \cup UNION {Below(text, j) : j \in ToSet(parts[i])}
  <2>1. /\ ToSet(parts[i]) \subseteq 1..i - 1
        /\ ToSet(PreOrders(parts)[i])
             = {i} \cup UNION {ToSet(PreOrders(parts)[j]) : j \in ToSet(parts[i])}
    BY ONLY <1>3, i \in 1..top, PreOrderMembers
  <2>. QED
    BY ONLY <1>5, <2>1 DEF Below
<1>. QED
  BY <1>2, <1>4, <1>6, <1>7, <1>8

\* Numbers of nodes: what holds of each if it holds of those before it.
LEMMA NodeInduct ==
  ASSUME NEW top \in Nat, NEW S,
         \A i \in 1..top : (\A j \in 1..i - 1 : j \in S) => i \in S
  PROVE  1..top \subseteq S
<1>. DEFINE T == {k \in Nat : k <= top => 1..k \subseteq S}
<1>1. 0 \in T
  OBVIOUS
<1>2. ASSUME NEW k \in T PROVE k + 1 \in T
  <2>1. k \in Nat
    OBVIOUS
  <2>2. ASSUME k + 1 <= top PROVE 1..k + 1 \subseteq S
    <3>1. 1..k \subseteq S /\ k + 1 \in 1..top /\ (k + 1) - 1 = k
      BY <2>1, <2>2
    <3>2. k + 1 \in S
      BY <3>1
    <3>. QED
      BY <2>1, <3>1, <3>2
  <2>. QED
    BY <2>1, <2>2
<1>3. T = Nat
  <2>. HIDE DEF T
  <2>1. T \in SUBSET Nat
    BY DEF T
  <2>. QED
    BY <1>1, <1>2, <2>1, Induct
<1>4. top \in T
  <2>. HIDE DEF T
  <2>. QED
    BY <1>3
<1>. QED
  BY <1>4

\* The walk stays in the text ...
LEMMA WalkStays ==
  ASSUME NEW text, IsText(text)
  PROVE  \A i \in 1..Len(text) : Reached(text, i) \subseteq Below(text, i)
<1>. DEFINE S == {i \in 1..Len(text) : Reached(text, i) \subseteq Below(text, i)}
<1>1. ASSUME NEW i \in 1..Len(text), \A j \in 1..i - 1 : j \in S PROVE i \in S
  <2>1. /\ Reached(text, i) = {i} \cup UNION {Reached(text, j) : j \in ToSet(Visited(text[i]))}
        /\ Below(text, i) = {i} \cup UNION {Below(text, j) : j \in ToSet(Parts(text[i]))}
        /\ ToSet(Visited(text[i])) \subseteq 1..i - 1
        /\ ToSet(Visited(text[i])) \subseteq ToSet(Parts(text[i]))
    <3>1. ToSet(Parts(text[i])) = ToSet(Visited(text[i])) \cup Passed(text[i])
      BY TextOrders
    <3>. QED
      BY <3>1, TextOrders
  <2>2. \A j \in ToSet(Visited(text[i])) : Reached(text, j) \subseteq Below(text, j)
    BY <1>1, <2>1
  <2>. QED
    BY <2>1, <2>2
<1>2. Len(text) \in Nat
  BY DEF IsText
<1>3. 1..Len(text) \subseteq S
  <2>. HIDE DEF S
  <2>. QED
    BY <1>1, <1>2, NodeInduct
<1>. QED
  BY <1>3

NamesTable(text, i) == text[i].op = "table" /\ NeedsOfName(text[i].parts) # {}

\* ... and misses no name of a table, if there is none in what it passes by.
LEMMA WalkMeets ==
  ASSUME NEW text, IsText(text)
  PROVE  \A i \in 1..Len(text) :
           (\A j \in Below(text, i) : \A c \in Passed(text[j]) : NeedsBelow(text, c) = {})
             => \A j \in Below(text, i) : NamesTable(text, j) => j \in Reached(text, i)
<1>. DEFINE Clear(i) ==
              \A j \in Below(text, i) : \A c \in Passed(text[j]) : NeedsBelow(text, c) = {}
            All(i) == \A j \in Below(text, i) : NamesTable(text, j) => j \in Reached(text, i)
            S == {i \in 1..Len(text) : Clear(i) => All(i)}
<1>1. ASSUME NEW i \in 1..Len(text), \A j \in 1..i - 1 : j \in S PROVE i \in S
  <2>1. /\ Reached(text, i) = {i} \cup UNION {Reached(text, j) : j \in ToSet(Visited(text[i]))}
        /\ Below(text, i) = {i} \cup UNION {Below(text, j) : j \in ToSet(Parts(text[i]))}
        /\ ToSet(Visited(text[i])) \subseteq 1..i - 1
        /\ ToSet(Parts(text[i])) = ToSet(Visited(text[i])) \cup Passed(text[i])
    BY TextOrders
  <2>2. ASSUME Clear(i), NEW j \in Below(text, i), NamesTable(text, j)
        PROVE  j \in Reached(text, i)
    <3>1. CASE j = i
      BY <2>1, <3>1
    <3>2. ASSUME NEW c \in ToSet(Visited(text[i])), j \in Below(text, c)
          PROVE  j \in Reached(text, i)
      <4>1. Below(text, c) \subseteq Below(text, i)
        BY <2>1
      <4>2. Clear(c)
        BY <2>2, <4>1
      <4>3. All(c)
        BY <1>1, <2>1, <4>2
      <4>. QED
        BY <2>1, <2>2, <3>2, <4>3
    <3>3. ASSUME NEW c \in Passed(text[i]), j \in Below(text, c) PROVE FALSE
      <4>1. NeedsBelow(text, c) = {}
        <5>1. i \in Below(text, i)
          BY <2>1
        <5>. QED
          BY <2>2, <5>1
      <4>2. j \in NamedBelow(text, c)
        BY <2>2, <3>3 DEF NamedBelow, Below, NamesTable
      <4>3. NeedsOfName(text[j].parts) \subseteq NeedsBelow(text, c)
        BY <4>2 DEF NeedsBelow
      <4>. QED
        BY <2>2, <4>1, <4>3 DEF NamesTable
    <3>. QED
      BY <2>1, <2>2, <3>1, <3>2, <3>3
  <2>. QED
    BY <2>2
<1>2. Len(text) \in Nat
  BY DEF IsText
<1>3. 1..Len(text) \subseteq S
  <2>. HIDE DEF S
  <2>. QED
    BY <1>1, <1>2, NodeInduct
<1>. QED
  BY <1>3

\* What was seen before is left out, and nothing else that the walk meets.
LEMMA RefsMet ==
  ASSUME NEW text, IsText(text)
  PROVE  LET refs == TableRefs(text)
         IN /\ {refs[k] : k \in DOMAIN refs}
                 = {Written(text[i].parts) :
                      i \in {j \in Reached(text, Len(text)) : IsReference(text, j)}}
            /\ \A j, k \in DOMAIN refs : refs[j] = refs[k] => j = k
<1>. DEFINE order == Walk(text)[Len(text)]
            met == {k \in DOMAIN order : IsReference(text, order[k])}
            Name(k) == Written(text[order[k]].parts)
            new == {n \in met : \A m \in met : m < n => Name(m) # Name(n)}
            refs == [k \in new |-> Name(k)]
<1>1. TableRefs(text) = refs
  BY DEF TableRefs
<1>2. DOMAIN order = 1..Len(order) /\ Len(order) \in Nat
  <2>1. Len(text) \in 1..Len(text)
    BY DEF IsText
  <2>2. order \in Seq(1..Len(text))
    BY <2>1, TextOrders
  <2>. HIDE DEF order
  <2>. QED
    BY <2>2, LenProperties
<1>3. Reached(text, Len(text)) = {order[k] : k \in DOMAIN order}
  BY DEF Reached, ToSet
<1>. HIDE DEF order
<1>4. met \in SUBSET Nat
  BY <1>2
<1>5. ASSUME NEW k \in met PROVE \E n \in new : Name(n) = Name(k)
  <2>. DEFINE alike == {m \in met : Name(m) = Name(k)}
  <2>1. alike \in SUBSET Nat /\ alike # {}
    BY <1>4
  <2>2. PICK n \in alike : \A m \in alike : n <= m
    <3>. HIDE DEF alike
    <3>. QED
      BY <2>1, LeastMember
  <2>3. n \in met /\ Name(n) = Name(k) /\ n \in Nat
    BY <1>4
  <2>4. ASSUME NEW m \in met, m < n PROVE Name(m) # Name(n)
    <3>1. m \in Nat
      BY <1>4
    <3>2. ASSUME Name(m) = Name(n) PROVE FALSE
      <4>1. m \in alike
        BY <2>3, <3>2
      <4>2. n <= m
        BY <2>2, <4>1
      <4>. QED
        BY ONLY <2>3, <2>4, <3>1, <4>2
    <3>. QED
      BY <3>2
  <2>5. n \in new
    BY <2>3, <2>4
  <2>. QED
    BY <2>3, <2>5
<1>6. {refs[k] : k \in DOMAIN refs} = {Name(k) : k \in met}
  <2>1. {refs[k] : k \in DOMAIN refs} = {Name(k) : k \in new}
    OBVIOUS
  <2>2. \A k \in new : k \in met
    OBVIOUS
  <2>. HIDE DEF Name, met, new, refs
  <2>. QED
    BY <1>5, <2>1, <2>2
<1>7. {Name(k) : k \in met}
        = {Written(text[i].parts) : i \in {j \in Reached(text, Len(text)) : IsReference(text, j)}}
  BY <1>3
<1>8. ASSUME NEW j \in DOMAIN refs, NEW k \in DOMAIN refs, refs[j] = refs[k]
      PROVE  j = k
  <2>1. j \in new /\ k \in new /\ Name(j) = Name(k)
    BY <1>8
  <2>2. j \in met /\ k \in met /\ ~(j < k) /\ ~(k < j)
    <3>. HIDE DEF met, Name
    <3>. QED
      BY <2>1
  <2>3. j \in Nat /\ k \in Nat
    <3>. HIDE DEF met
    <3>. QED
      BY <1>4, <2>2
  <2>. QED
    BY ONLY <2>2, <2>3
<1>9. {refs[k] : k \in DOMAIN refs}
        = {Written(text[i].parts) : i \in {j \in Reached(text, Len(text)) : IsReference(text, j)}}
  BY ONLY <1>6, <1>7
<1>. HIDE DEF refs
<1>. QED
  BY ONLY <1>1, <1>8, <1>9

\* In any text that hides no name, the walk finds the tables that the planner looks
\* up, spelled alike, each once, and no others (table_refs.rs:16-258): statements,
\* CTEs, joins, subqueries and unions nested to any depth.
THEOREM WalkFindsNeeds ==
  ASSUME NEW text, IsText(text), ~HidesName(text)
  PROVE  LET refs == TableRefs(text)
         IN /\ {refs[k] : k \in DOMAIN refs} = Needs(text)
            /\ \A j, k \in DOMAIN refs : refs[j] = refs[k] => j = k
<1>. DEFINE top == Len(text)
            found == {j \in Reached(text, top) : IsReference(text, j)}
<1>1. top \in 1..top
  BY DEF IsText
<1>2. \A j \in Below(text, top) : \A c \in Passed(text[j]) : NeedsBelow(text, c) = {}
  BY DEF HidesName, Below
<1>3. \A j \in Below(text, top) : NamesTable(text, j) => ReadAsWritten(text, j)
  BY DEF HidesName, Below, NamedBelow, NamesTable
<1>4. \A j \in Below(text, top) : NamesTable(text, j) => j \in found
  BY <1>1, <1>2, <1>3, WalkMeets DEF ReadAsWritten
<1>5. ASSUME NEW j \in found
      PROVE  /\ j \in Below(text, top) /\ NamesTable(text, j)
             /\ NeedsOfName(text[j].parts) = {Written(text[j].parts)}
  <2>1. j \in Below(text, top)
    BY <1>1, WalkStays
  <2>2. text[j].op = "table" /\ Len(text[j].parts) = 2
    BY DEF IsReference
  <2>3. NeedsOfName(text[j].parts)
          = {<<Resolved(text[j].parts[1]), Resolved(text[j].parts[2])>>}
    BY <2>2 DEF NeedsOfName
  <2>4. NamesTable(text, j)
    BY <2>2, <2>3 DEF NamesTable
  <2>5. /\ Resolved(text[j].parts[1]) = text[j].parts[1].text
        /\ Resolved(text[j].parts[2]) = text[j].parts[2].text
    BY <1>3, <2>1, <2>4 DEF ReadAsWritten
  <2>. QED
    BY <2>1, <2>3, <2>4, <2>5 DEF Written
<1>6. Needs(text) = UNION {NeedsOfName(text[j].parts) : j \in found}
  <2>1. ASSUME NEW need \in Needs(text)
        PROVE  \E j \in found : need \in NeedsOfName(text[j].parts)
    <3>1. PICK j \in NamedBelow(text, top) : need \in NeedsOfName(text[j].parts)
      BY DEF Needs, NeedsBelow
    <3>2. j \in Below(text, top) /\ NamesTable(text, j)
      BY <3>1 DEF NamedBelow, Below, NamesTable
    <3>. QED
      BY <1>4, <3>1, <3>2
  <2>2. \A j \in found : j \in NamedBelow(text, top)
    BY <1>5 DEF NamedBelow, Below, NamesTable
  <2>3. \A j \in found : NeedsOfName(text[j].parts) \subseteq Needs(text)
    BY <2>2 DEF Needs, NeedsBelow
  <2>. HIDE DEF found
  <2>. QED
    BY <2>1, <2>3
<1>7. LET refs == TableRefs(text)
      IN /\ {refs[k] : k \in DOMAIN refs} = {Written(text[j].parts) : j \in found}
         /\ \A j, k \in DOMAIN refs : refs[j] = refs[k] => j = k
  BY RefsMet
<1>. HIDE DEF found
<1>8. UNION {NeedsOfName(text[j].parts) : j \in found} = {Written(text[j].parts) : j \in found}
  <2>. DEFINE needs(j) == NeedsOfName(text[j].parts)
              written(j) == Written(text[j].parts)
  <2>1. \A j \in found : needs(j) = {written(j)}
    BY <1>5
  <2>. HIDE DEF needs, written
  <2>2. UNION {needs(j) : j \in found} = {written(j) : j \in found}
    BY ONLY <2>1
  <2>. QED
    BY ONLY <2>2 DEF needs, written
<1>. QED
  BY <1>6, <1>7, <1>8

-----------------------------------------------------------------------------
(* Places in an order.                                                     *)

Ordered(names) ==
  /\ IsFiniteSet(names)
  /\ \A n \in names : Order[n] \in Nat
  /\ \A m, n \in names : Order[m] = Order[n] => m = n

UpTo(n, names) == {m \in names : Order[m] <= Order[n]}

LEMMA RankOfUpTo == \A n, names : Rank(n, names) = Cardinality(UpTo(n, names))
BY DEF Rank, UpTo

LEMMA OrderedPart ==
  ASSUME NEW names, Ordered(names), NEW part \in SUBSET names
  PROVE  Ordered(part)
<1>1. IsFiniteSet(part)
  BY FS_Subset DEF Ordered
<1> QED
  BY <1>1 DEF Ordered

\* A place is one of 1 to the number of names.
LEMMA RankRange ==
  ASSUME NEW names, Ordered(names), NEW n \in names
  PROVE  Rank(n, names) \in 1..Cardinality(names)
<1>1. IsFiniteSet(names) /\ UpTo(n, names) \in SUBSET names /\ n \in UpTo(n, names)
  BY DEF Ordered, UpTo
<1>2. IsFiniteSet(UpTo(n, names)) /\ Cardinality(UpTo(n, names)) <= Cardinality(names)
  BY <1>1, FS_Subset
<1>3. Cardinality(UpTo(n, names)) # 0
  BY <1>1, <1>2, FS_EmptySet
<1>4. Cardinality(names) \in Nat /\ Cardinality(UpTo(n, names)) \in Nat
  BY <1>1, <1>2, FS_CardinalityType
<1> QED
  BY <1>2, <1>3, <1>4, RankOfUpTo

\* Places are natural numbers, of other names too, and more names do not make a
\* place smaller.
LEMMA RankGrows ==
  ASSUME NEW names, IsFiniteSet(names), NEW part \in SUBSET names, NEW n
  PROVE  /\ Rank(n, part) \in Nat /\ Rank(n, names) \in Nat
         /\ Rank(n, part) <= Rank(n, names)
<1>1. UpTo(n, names) \in SUBSET names /\ UpTo(n, part) \in SUBSET UpTo(n, names)
  BY DEF UpTo
<1>2. IsFiniteSet(UpTo(n, names))
  BY <1>1, FS_Subset
<1>3. IsFiniteSet(UpTo(n, part)) /\ Cardinality(UpTo(n, part)) <= Cardinality(UpTo(n, names))
  BY <1>1, <1>2, FS_Subset
<1> QED
  BY <1>2, <1>3, FS_CardinalityType, RankOfUpTo

LEMMA RankInjective ==
  ASSUME NEW names, Ordered(names), NEW m \in names, NEW n \in names,
         Rank(m, names) = Rank(n, names)
  PROVE  m = n
<1>1. IsFiniteSet(names) /\ Order[m] \in Nat /\ Order[n] \in Nat
  BY DEF Ordered
<1>2. \A a, b \in names : Order[a] <= Order[b] => UpTo(a, names) \in SUBSET UpTo(b, names)
  <2> SUFFICES ASSUME NEW a \in names, NEW b \in names, Order[a] <= Order[b],
                      NEW c \in names, Order[c] <= Order[a]
               PROVE  Order[c] <= Order[b]
    BY DEF UpTo
  <2> QED
    BY DEF Ordered
<1>3. \A a \in names : IsFiniteSet(UpTo(a, names)) /\ a \in UpTo(a, names)
  <2> SUFFICES ASSUME NEW a \in names
               PROVE  IsFiniteSet(UpTo(a, names)) /\ a \in UpTo(a, names)
    OBVIOUS
  <2>1. UpTo(a, names) \in SUBSET names
    BY DEF UpTo
  <2> QED
    BY <1>1, <2>1, FS_Subset DEF UpTo, Ordered
<1>4. UpTo(m, names) = UpTo(n, names)
  <2>1. CASE Order[m] <= Order[n]
    BY <1>2, <1>3, <2>1, FS_Subset, RankOfUpTo
  <2>2. CASE Order[n] <= Order[m]
    BY <1>2, <1>3, <2>2, FS_Subset, RankOfUpTo
  <2> QED
    BY <1>1, <2>1, <2>2
<1>5. Order[m] <= Order[n] /\ Order[n] <= Order[m]
  BY <1>3, <1>4 DEF UpTo
<1> QED
  BY <1>1, <1>5 DEF Ordered

\* Every place is some name's.
LEMMA RankOnto ==
  ASSUME NEW names, Ordered(names), NEW k \in 1..Cardinality(names)
  PROVE  \E n \in names : Rank(n, names) = k
<1> DEFINE places == 1..Cardinality(names)
           f == [n \in names |-> Rank(n, names)]
<1>1. Cardinality(names) \in Nat
  BY FS_CardinalityType DEF Ordered
<1>2. IsFiniteSet(places) /\ Cardinality(places) = Cardinality(names)
  <2>1. 1 \in Int /\ Cardinality(names) \in Int
    BY <1>1
  <2> QED
    BY <1>1, <2>1, FS_Interval
<1>3. f \in [names -> places]
  BY RankRange
<1>4. f \in Injection(names, places)
  BY <1>3, RankInjective DEF Injection, IsInjective
<1>5. f \in Surjection(names, places)
  BY <1>2, <1>4, FS_Injection
<1> QED
  BY <1>5 DEF Surjection

LEMMA FirstPart ==
  ASSUME NEW names, NEW k PROVE First(k, names) \in SUBSET names
BY DEF First

\* There are k names among the first k, if there are as many, and never more.
LEMMA FirstCount ==
  ASSUME NEW names, Ordered(names), NEW k \in Nat
  PROVE  /\ IsFiniteSet(First(k, names)) /\ Cardinality(First(k, names)) \in Nat
         /\ Cardinality(First(k, names)) <= k
         /\ k <= Cardinality(names) => Cardinality(First(k, names)) = k
<1> DEFINE firsts == First(k, names)
           f == [n \in firsts |-> Rank(n, names)]
<1>1. Cardinality(names) \in Nat /\ IsFiniteSet(firsts) /\ Cardinality(firsts) \in Nat
  BY FirstPart, FS_Subset, FS_CardinalityType DEF Ordered
<1>2. IsFiniteSet(1..k) /\ Cardinality(1..k) = k
  <2>1. 1 \in Int /\ k \in Int
    OBVIOUS
  <2> QED
    BY <2>1, FS_Interval
<1>3. \A n \in firsts : n \in names /\ Rank(n, names) \in 1..k
  BY <1>1, RankRange DEF First
<1>4. f \in Injection(firsts, 1..k)
  BY <1>3, RankInjective DEF Injection, IsInjective
<1>5. Cardinality(firsts) <= k
  BY <1>2, <1>4, FS_Injection
<1>6. ASSUME k <= Cardinality(names) PROVE Cardinality(firsts) = k
  <2>1. \A i \in 1..k : \E n \in firsts : f[n] = i
    <3> SUFFICES ASSUME NEW i \in 1..k PROVE \E n \in firsts : f[n] = i
      OBVIOUS
    <3>1. i \in 1..Cardinality(names)
      BY <1>1, <1>6
    <3>2. PICK n \in names : Rank(n, names) = i
      BY <3>1, RankOnto
    <3> QED
      BY <3>2 DEF First
  <2>2. f \in Surjection(firsts, 1..k)
    BY <1>4, <2>1 DEF Surjection, Injection
  <2> QED
    BY <1>2, <1>4, <2>2, FS_Injection
<1> QED
  BY <1>1, <1>5, <1>6

\* What a page of at most `size` names from `offset` on leaves out comes after it,
\* and is given away by one name more.
LEMMA PageRest ==
  ASSUME NEW names, Ordered(names), NEW offset \in Nat, NEW size \in Nat,
         NEW n \in names, Rank(n, names) > offset,
         n \notin First(size, First(offset + size + 1, names) \ First(offset, names))
  PROVE  /\ Rank(n, names) > offset + size
         /\ Cardinality(First(offset + size + 1, names) \ First(offset, names)) > size
<1> DEFINE upto == offset + size + 1
           rows == First(upto, names) \ First(offset, names)
<1>1. /\ Rank(n, names) \in 1..Cardinality(names) /\ Cardinality(names) \in Nat
      /\ upto \in Nat /\ offset <= Cardinality(names)
  BY RankRange, FS_CardinalityType DEF Ordered
<1>2. /\ IsFiniteSet(First(offset, names)) /\ Cardinality(First(offset, names)) = offset
      /\ IsFiniteSet(First(upto, names))
  BY <1>1, FirstCount
<1>3. rows \in SUBSET names /\ IsFiniteSet(rows) /\ Ordered(rows) /\ Cardinality(rows) \in Nat
  <2>1. rows \in SUBSET names
    BY FirstPart
  <2>2. Ordered(rows)
    BY <2>1, OrderedPart
  <2> QED
    BY <2>1, <2>2, FS_CardinalityType DEF Ordered
<1>4. CASE Rank(n, names) > upto
  <2>1. upto <= Cardinality(names)
    BY <1>1, <1>4
  <2>2. Cardinality(First(upto, names)) = upto
    BY <1>1, <2>1, FirstCount
  <2>3. First(upto, names) \cap First(offset, names) = First(offset, names)
    <3> SUFFICES ASSUME NEW m \in names, Rank(m, names) <= offset PROVE Rank(m, names) <= upto
      BY DEF First
    <3>1. Rank(m, names) \in Nat
      BY <1>1, RankRange
    <3> QED
      BY <3>1
  <2>4. Cardinality(rows) = upto - offset
    <3>1. Cardinality(rows)
            = Cardinality(First(upto, names))
                - Cardinality(First(upto, names) \cap First(offset, names))
      BY <1>2, FS_Difference
    <3> QED
      BY <1>2, <2>2, <2>3, <3>1
  <2> QED
    BY <1>1, <1>4, <2>4
<1>5. CASE Rank(n, names) <= upto
  <2>1. n \in rows
    BY <1>1, <1>5 DEF First
  <2>2. Rank(n, rows) > size /\ Rank(n, rows) \in Nat
    <3>1. Rank(n, rows) \in Nat
      BY <1>3, RankGrows
    <3> QED
      BY <2>1, <3>1 DEF First
  <2>3. Cardinality(rows) > size
    BY <1>3, <2>1, <2>2, RankRange
  <2> DEFINE before == First(offset, names)
             within == UpTo(n, rows)
  <2>4. before \cup within \in SUBSET UpTo(n, names)
    <3>1. \A m \in before : m \in names /\ Rank(m, names) <= offset
      BY DEF First
    <3>2. \A m \in names : Order[m] > Order[n] => Rank(m, names) >= Rank(n, names)
      <4> SUFFICES ASSUME NEW m \in names, Order[m] > Order[n]
                   PROVE  Rank(m, names) >= Rank(n, names)
        OBVIOUS
      <4>1. UpTo(n, names) \in SUBSET UpTo(m, names)
        BY DEF UpTo, Ordered
      <4>2. UpTo(m, names) \in SUBSET names
        BY DEF UpTo
      <4>3. IsFiniteSet(UpTo(m, names))
        BY <4>2, FS_Subset DEF Ordered
      <4>4. Cardinality(UpTo(n, names)) <= Cardinality(UpTo(m, names))
        BY <4>1, <4>3, FS_Subset
      <4> QED
        BY <4>4, RankOfUpTo, RankRange
    <3>3. \A m \in before : Order[m] <= Order[n]
      <4> SUFFICES ASSUME NEW m \in before, Order[m] > Order[n] PROVE FALSE
        BY <3>1 DEF Ordered
      <4> QED
        BY <1>1, <3>1, <3>2, RankRange
    <3> QED
      BY <1>3, <3>1, <3>3 DEF UpTo
  <2>5. before \cap within = {}
    BY DEF UpTo
  <2>6. IsFiniteSet(within) /\ Cardinality(within) \in Nat
    <3>1. within \in SUBSET rows
      BY DEF UpTo
    <3> QED
      BY <1>3, <3>1, FS_Subset, FS_CardinalityType
  <2>7. Cardinality(before \cup within) = offset + Cardinality(within)
    <3>1. Cardinality(before \cup within)
            = Cardinality(before) + Cardinality(within) - Cardinality(before \cap within)
      BY <1>2, <2>6, FS_Union
    <3>2. Cardinality(before \cap within) = 0
      BY <2>5, FS_EmptySet
    <3> QED
      BY <1>2, <2>6, <3>1, <3>2
  <2>8. Cardinality(before \cup within) <= Cardinality(UpTo(n, names))
    <3>1. UpTo(n, names) \in SUBSET names
      BY DEF UpTo
    <3>2. IsFiniteSet(UpTo(n, names))
      BY <3>1, FS_Subset DEF Ordered
    <3> QED
      BY <2>4, <3>2, FS_Subset
  <2> QED
    BY <1>1, <2>2, <2>3, <2>6, <2>7, <2>8, RankOfUpTo
<1> QED
  BY <1>1, <1>4, <1>5

-----------------------------------------------------------------------------
(* What the database shows of itself under the registered kind and schema. *)

Names(objects) == {o[2] : o \in objects}

Schema ==
  CASE profile.kind = "sqlite" -> Default
    [] profile.kind = "postgres" -> OrDefault(profile.schema, {None})
    [] OTHER -> OrDefault(profile.schema, {None, Blank})

Visible == {o \in database \ Internal : o[1] = Schema}

Shown == Names(Visible)

LEMMA ProviderIs == \A name : Provider(name) = <<Schema, name>>
BY DEF Provider, Schema, SqliteTable, PostgresTable, MysqlTable

LEMMA ListPageIs ==
  ASSUME NEW offset \in Nat, NEW limit \in Nat \ {0}
  PROVE  /\ ListPage(offset, limit).names = First(offset + limit, Shown) \ First(offset, Shown)
         /\ ListPage(offset, limit).all = Visible
<1> DEFINE page == [names |-> First(offset + limit, Shown) \ First(offset, Shown), all |-> Visible]
<1>1. ListPage(offset, limit) = Page(Schema, offset, limit)
  BY DEF ListPage, Schema, SqlitePage, PostgresPage, MysqlPage
<1>2. Page(Schema, offset, limit) = page
  BY DEF Page, Visible, Shown, Names
<1> QED
  BY <1>1, <1>2

LEMMA NamesFinite ==
  ASSUME NEW objects, IsFiniteSet(objects)
  PROVE  IsFiniteSet(Names(objects))
<1> DEFINE f == [o \in objects |-> o[2]]
<1>1. f \in Surjection(objects, Names(objects))
  BY DEF Surjection, Names
<1> QED
  BY <1>1, FS_Surjection

LEMMA NamesOrdered ==
  ASSUME NEW objects \in SUBSET Objects
  PROVE  Ordered(Names(objects))
<1>1. IsFiniteSet(Names(objects))
  BY DatabaseAssumption, FS_Subset, NamesFinite
<1> QED
  BY <1>1, DatabaseAssumption DEF Ordered, Names

-----------------------------------------------------------------------------
(* Exact names.                                                            *)

DatabaseOK == database \in SUBSET Objects

\* As long as nothing changed, the list is what listing would give again, and what
\* was registered for a name in it is that table.
ExactInv ==
  /\ DatabaseOK /\ changes \in Nat
  /\ changes = 0 =>
       /\ source # None => source = Listing
       /\ \A e \in registered : e[1] \in Listing.tables => e[2] = <<Schema, e[1]>>

LEMMA ListedShown == Listing.had = Visible /\ Listing.tables \in SUBSET Shown
<1>1. ListLimit + 1 \in Nat \ {0}
  BY LimitsAssumption
<1>2. /\ ListPage(0, ListLimit + 1).names \in SUBSET Shown
      /\ ListPage(0, ListLimit + 1).all = Visible
  BY <1>1, ListPageIs, FirstPart
<1> QED
  BY <1>2, FirstPart DEF Listing

LEMMA ListingStays ==
  ASSUME UNCHANGED <<database, profile>>
  PROVE  Listing' = Listing /\ Schema' = Schema
BY DEF Listing, ListPage, Page, SqlitePage, PostgresPage, MysqlPage, Schema

\* What is added for some spellings is their own table where they are listed.
LEMMA EntriesExact ==
  ASSUME source = Listing, NEW spellings, NEW e \in Entries(spellings),
         \A f \in registered : f[1] \in Listing.tables => f[2] = <<Schema, f[1]>>,
         e[1] \in Listing.tables
  PROVE  e[2] = <<Schema, e[1]>>
<1>1. CASE e \in registered
  BY <1>1
<1>2. CASE e \notin registered
  <2>1. PICK s \in spellings : e = <<s, Provider(TableOf(s))>>
    BY <1>2 DEF Entries
  <2>2. TableOf(s) = s
    BY <2>1 DEF TableOf
  <2> QED
    BY <2>1, <2>2, ProviderIs
<1> QED
  BY <1>1, <1>2

LEMMA ExactInit == Init => ExactInv
BY DatabaseAssumption DEF Init, ExactInv, DatabaseOK

LEMMA ExactStep == ExactInv /\ [Next]_vars => ExactInv'
<1> SUFFICES ASSUME ExactInv, [Next]_vars PROVE ExactInv'
  OBVIOUS
<1>1. ASSUME CreateTable \/ DropTable PROVE ExactInv'
  <2>1. database' \in SUBSET Objects /\ changes' = changes + 1
    BY <1>1 DEF CreateTable, DropTable, ExactInv, DatabaseOK
  <2> QED
    BY <2>1 DEF ExactInv, DatabaseOK
<1> SUFFICES ASSUME ~(CreateTable \/ DropTable) PROVE ExactInv'
  BY <1>1
<1>2. ASSUME UNCHANGED <<database, profile, changes>>,
             changes = 0 => /\ source' # None => source' = Listing
                            /\ \A e \in registered' :
                                 e[1] \in Listing.tables => e[2] = <<Schema, e[1]>>
      PROVE  ExactInv'
  <2>1. Listing' = Listing /\ Schema' = Schema
    BY <1>2, ListingStays
  <2> QED
    BY <1>2, <2>1 DEF ExactInv, DatabaseOK
<1>3. ASSUME UNCHANGED <<source, registered, database, profile, changes>> PROVE ExactInv'
  BY <1>2, <1>3 DEF ExactInv
<1>4. ASSUME RegisterSqlite \/ RegisterPostgres \/ RegisterMysql PROVE ExactInv'
  <2>1. source' = Listing /\ UNCHANGED <<registered, database, profile, changes>>
    BY <1>4 DEF RegisterSqlite, RegisterPostgres, RegisterMysql, Register, world
  <2> QED
    BY <1>2, <2>1 DEF ExactInv
<1>5. ASSUME RemoveSource PROVE ExactInv'
  BY <1>2, <1>5 DEF RemoveSource, ExactInv, world
<1>6. ASSUME NEW spelled, Query(spelled) PROVE ExactInv'
  <2>1. /\ source # None /\ UNCHANGED <<source, database, profile, changes>>
        /\ \E spellings : registered' = Entries(spellings)
    BY <1>6 DEF Query, world
  <2>2. PICK spellings : registered' = Entries(spellings)
    BY <2>1
  <2>3. ASSUME changes = 0
        PROVE  \A e \in registered' : e[1] \in Listing.tables => e[2] = <<Schema, e[1]>>
    BY <2>1, <2>2, <2>3, EntriesExact DEF ExactInv
  <2> QED
    BY <1>2, <2>1, <2>3 DEF ExactInv
<1>7. CASE RefreshTree \/ Expand \/ UNCHANGED vars
  BY <1>3, <1>7 DEF RefreshTree, Expand, vars, daemon, world
<1>8. ASSUME NEW c \in Clicks, Click(c) \/ PageListed(c) \/ PageFails(c) \/ PageArrives(c)
      PROVE  ExactInv'
  BY <1>3, <1>8 DEF Click, PageListed, PageFails, PageArrives, daemon, world
<1> QED
  BY <1>4, <1>5, <1>6, <1>7, <1>8 DEF Next

\* A listed name is read from the table of that name that was listed, whatever else
\* is queried (lib.rs:1219-1249): for any database, kind, schema and texts.
THEOREM ExactNameWinsAlways == Spec => []ExactNameWins
<1>1. ExactInv => ExactNameWins
  <2> SUFFICES ASSUME ExactInv, changes = 0, source # None,
                      NEW e \in registered, e[1] \in source.tables
               PROVE  e[2] \in source.had /\ e[2][2] = e[1]
    BY DEF ExactNameWins
  <2>1. source = Listing /\ e[2] = <<Schema, e[1]>> /\ e[1] \in Shown
    BY ListedShown DEF ExactInv
  <2>2. PICK o \in Visible : e[1] = o[2]
    BY <2>1 DEF Shown, Names
  <2>3. o[1] = Schema /\ o = <<o[1], o[2]>>
    BY <2>2, DatabaseAssumption DEF Visible, ExactInv, DatabaseOK
  <2> QED
    BY <2>1, <2>2, <2>3, ListedShown
<1> QED
  BY <1>1, ExactInit, ExactStep, PTL DEF Spec

-----------------------------------------------------------------------------
(* The tree.                                                               *)

\* The tables that a list lacks though their place is not behind as many as it has.
Misses(list, tables, shown) ==
  {n \in tables : n \notin list /\ Rank(n, shown) <= Cardinality(list)}

\* What the daemon listed: a table it left out comes after the limit, and is given
\* away by the list being truncated.
EntryOK(entry, shown) ==
  /\ Names(entry.had) \subseteq shown /\ entry.tables \subseteq Names(entry.had)
  /\ \A n \in Names(entry.had) \ entry.tables :
       entry.truncated /\ Rank(n, shown) > ListLimit

ListOK(list, tables, shown) ==
  /\ IsFiniteSet(list) /\ tables \subseteq shown
  /\ Misses(list, tables, shown) = {}

\* A page that was listed continues its list, or says that there is more.
PageOK(click, shown) ==
  /\ ListOK(click.base \cup click.page.tables, click.promised, shown)
  /\ click.promised \subseteq click.base \cup click.page.tables \/ click.page.truncated

ClickOK(click, shown) ==
  /\ click = [base |-> click.base, promised |-> click.promised, page |-> click.page]
  /\ ListOK(click.base, click.promised, shown)
  /\ click.page # None => PageOK(click, shown)

TreeOK ==
  /\ source # None => EntryOK(source, Shown)
  /\ known # None => EntryOK(known, Shown)
  /\ loaded # None \/ hasMore =>
       ListOK(loaded, promised, Shown) /\ (promised \subseteq loaded \/ hasMore)
  /\ \A c \in Clicks : clicks[c] # None => ClickOK(clicks[c], Shown)

\* As long as no table was dropped, places only grow, and no list, page or entry
\* misses what is behind it.
TreeInv ==
  /\ DatabaseOK
  /\ clicks = [c \in Clicks |-> clicks[c]]
  /\ ~dropped => TreeOK

LEMMA ShownOrdered == ASSUME DatabaseOK PROVE Ordered(Shown)
<1>1. Visible \in SUBSET Objects
  BY DEF DatabaseOK, Visible
<1> QED
  BY <1>1, NamesOrdered DEF Shown

LEMMA ListGrows ==
  ASSUME NEW more, Ordered(more), NEW shown \in SUBSET more,
         NEW list, NEW tables, ListOK(list, tables, shown)
  PROVE  ListOK(list, tables, more)
<1>1. /\ IsFiniteSet(list) /\ Cardinality(list) \in Nat /\ tables \subseteq shown
      /\ \A n \in tables : n \notin list => ~(Rank(n, shown) <= Cardinality(list))
  BY FS_CardinalityType DEF ListOK, Misses
<1>2. \A n : Rank(n, shown) \in Nat /\ Rank(n, more) \in Nat /\ Rank(n, shown) <= Rank(n, more)
  BY RankGrows DEF Ordered
<1>3. \A n \in tables : n \notin list => ~(Rank(n, more) <= Cardinality(list))
  BY <1>1, <1>2
<1> QED
  BY <1>1, <1>3 DEF ListOK, Misses

LEMMA EntryGrows ==
  ASSUME NEW more, Ordered(more), NEW shown \in SUBSET more, NEW entry, EntryOK(entry, shown)
  PROVE  EntryOK(entry, more)
<1>1. \A n : Rank(n, shown) \in Nat /\ Rank(n, more) \in Nat /\ Rank(n, shown) <= Rank(n, more)
  BY RankGrows DEF Ordered
<1> QED
  BY <1>1, LimitsAssumption DEF EntryOK

LEMMA ClickGrows ==
  ASSUME NEW more, Ordered(more), NEW shown \in SUBSET more, NEW click, ClickOK(click, shown)
  PROVE  ClickOK(click, more)
BY ListGrows DEF ClickOK, PageOK

LEMMA ListingOK == ASSUME DatabaseOK PROVE EntryOK(Listing, Shown)
<1> DEFINE names == First(0 + ListLimit + 1, Shown) \ First(0, Shown)
<1>1. ListLimit \in Nat /\ 0 \in Nat /\ ListLimit + 1 \in Nat \ {0} /\ Ordered(Shown)
  BY LimitsAssumption, ShownOrdered
<1>2. ListPage(0, ListLimit + 1).names = names
  BY <1>1, ListPageIs
<1>3. /\ Listing.tables = First(ListLimit, names)
      /\ Listing.truncated = (Cardinality(names) > ListLimit)
      /\ Names(Listing.had) = Shown
  BY <1>2, ListedShown DEF Listing, Shown
<1>4. ASSUME NEW n \in Shown, n \notin First(ListLimit, names)
      PROVE  Rank(n, Shown) > ListLimit /\ Cardinality(names) > ListLimit
  <2>1. Rank(n, Shown) > 0
    BY <1>1, RankRange
  <2>2. Rank(n, Shown) > 0 + ListLimit /\ Cardinality(names) > ListLimit
    BY <1>1, <1>4, <2>1, PageRest
  <2> QED
    BY <1>1, <2>2
<1>5. First(ListLimit, names) \subseteq Shown
  BY FirstPart
<1> QED
  BY <1>3, <1>4, <1>5 DEF EntryOK

\* The first page of what the daemon listed.
LEMMA FirstPageOK ==
  ASSUME NEW shown, Ordered(shown), NEW entry, EntryOK(entry, shown)
  PROVE  /\ ListOK(First(PageSize, entry.tables), Names(entry.had), shown)
         /\ \/ Names(entry.had) \subseteq First(PageSize, entry.tables)
            \/ entry.truncated
            \/ Cardinality(entry.tables) > Cardinality(First(PageSize, entry.tables))
<1> DEFINE first == First(PageSize, entry.tables)
           had == Names(entry.had)
<1>1. PageSize \in Nat /\ ListLimit \in Nat /\ PageSize <= ListLimit
  BY LimitsAssumption
<1>2. had \subseteq shown /\ entry.tables \in SUBSET shown /\ Ordered(entry.tables)
  BY OrderedPart DEF EntryOK
<1>3. IsFiniteSet(first) /\ Cardinality(first) \in Nat /\ Cardinality(first) <= PageSize
  BY <1>1, <1>2, FirstCount
<1>4. ASSUME NEW n \in had, n \notin first PROVE ~(Rank(n, shown) <= Cardinality(first))
  <2>1. Rank(n, entry.tables) \in Nat /\ Rank(n, shown) \in Nat
        /\ Rank(n, entry.tables) <= Rank(n, shown)
    BY <1>2, RankGrows DEF Ordered
  <2>2. CASE n \in entry.tables
    <3>1. ~(Rank(n, entry.tables) <= PageSize)
      BY <1>4, <2>2 DEF First
    <3> QED
      BY <1>1, <1>3, <2>1, <3>1
  <2>3. CASE n \notin entry.tables
    <3>1. Rank(n, shown) > ListLimit
      BY <2>3 DEF EntryOK
    <3> QED
      BY <1>1, <1>3, <2>1, <3>1
  <2> QED
    BY <2>2, <2>3
<1>5. ASSUME ~entry.truncated, ~(Cardinality(entry.tables) > Cardinality(first))
      PROVE  had \subseteq first
  <2>1. had \subseteq entry.tables
    BY <1>5 DEF EntryOK
  <2>2. first \in SUBSET entry.tables /\ IsFiniteSet(entry.tables)
    BY <1>2, FirstPart DEF Ordered
  <2>3. Cardinality(entry.tables) \in Nat /\ Cardinality(first) <= Cardinality(entry.tables)
    BY <2>2, FS_Subset, FS_CardinalityType
  <2>4. Cardinality(entry.tables) = Cardinality(first)
    BY <1>3, <1>5, <2>3
  <2>5. entry.tables = first
    BY <2>2, <2>4, FS_Subset
  <2> QED
    BY <2>1, <2>5
<1>6. ListOK(first, had, shown)
  BY <1>2, <1>3, <1>4 DEF ListOK, Misses
<1> QED
  BY <1>5, <1>6

\* A page continues the list that it was asked for.
LEMMA NextPageOK ==
  ASSUME DatabaseOK, NEW base, NEW tables, ListOK(base, tables, Shown)
  PROVE  LET page == TablesPage(Cardinality(base))
         IN /\ ListOK(base \cup page.tables, tables, Shown)
            /\ tables \subseteq base \cup page.tables \/ page.truncated
<1> DEFINE offset == Cardinality(base)
           names == First(offset + PageSize + 1, Shown) \ First(offset, Shown)
           page == First(PageSize, names)
<1>1. /\ PageSize \in Nat /\ PageSize + 1 \in Nat \ {0} /\ Ordered(Shown)
      /\ IsFiniteSet(base) /\ offset \in Nat
  BY LimitsAssumption, ShownOrdered, FS_CardinalityType DEF ListOK
<1>2. offset + (PageSize + 1) = offset + PageSize + 1
  BY <1>1
<1>3. ListPage(offset, PageSize + 1).names = names
  BY <1>1, <1>2, ListPageIs
<1>4. /\ TablesPage(offset).tables = page
      /\ TablesPage(offset).truncated = (Cardinality(names) > PageSize)
  BY <1>3 DEF TablesPage
<1>5. Ordered(names)
  <2>1. names \in SUBSET Shown
    BY FirstPart
  <2> QED
    BY <1>1, <2>1, OrderedPart
<1>6. IsFiniteSet(page) /\ Cardinality(page) \in Nat /\ Cardinality(page) <= PageSize
  BY <1>1, <1>5, FirstCount
<1>7. /\ IsFiniteSet(base \cup page) /\ Cardinality(base \cup page) \in Nat
      /\ Cardinality(base \cup page) <= offset + PageSize
  <2>1. /\ IsFiniteSet(base \cup page)
        /\ Cardinality(base \cup page) = offset + Cardinality(page) - Cardinality(base \cap page)
    BY <1>1, <1>6, FS_Union
  <2>2. Cardinality(base \cap page) \in Nat
    BY <1>1, FS_Intersection, FS_CardinalityType
  <2>3. Cardinality(base \cup page) \in Nat
    BY <2>1, FS_CardinalityType
  <2> QED
    BY <1>1, <1>6, <2>1, <2>2, <2>3
<1>8. ASSUME NEW n \in tables, n \notin base \cup page
      PROVE  ~(Rank(n, Shown) <= Cardinality(base \cup page)) /\ Cardinality(names) > PageSize
  <2>1. n \in Shown /\ ~(Rank(n, Shown) <= offset)
    BY <1>8 DEF ListOK, Misses
  <2>2. Rank(n, Shown) \in Nat
    BY <1>1, RankGrows DEF Ordered
  <2>3. Rank(n, Shown) > offset /\ n \notin page
    BY <1>1, <1>8, <2>1, <2>2
  <2>4. Rank(n, Shown) > offset + PageSize /\ Cardinality(names) > PageSize
    BY <1>1, <2>1, <2>3, PageRest
  <2> QED
    BY <1>1, <1>7, <2>2, <2>4
<1>9. ListOK(base \cup page, tables, Shown)
  BY <1>7, <1>8 DEF ListOK, Misses
<1> QED
  BY <1>4, <1>8, <1>9

LEMMA TreeInit == Init => TreeInv
<1> SUFFICES ASSUME Init PROVE TreeInv
  OBVIOUS
<1>1. DatabaseOK
  BY DatabaseAssumption DEF Init, DatabaseOK
<1>2. clicks = [c \in Clicks |-> clicks[c]] /\ \A c \in Clicks : clicks[c] = None
  BY DEF Init
<1> QED
  BY <1>1, <1>2 DEF Init, TreeInv, TreeOK

LEMMA ShownStays == ASSUME UNCHANGED <<database, profile>> PROVE Shown' = Shown
BY DEF Shown, Visible, Schema

LEMMA TreeStep == TreeInv /\ [Next]_vars => TreeInv'
<1> SUFFICES ASSUME TreeInv, [Next]_vars PROVE TreeInv'
  OBVIOUS
<1> USE DEF TreeInv
<1>1. CASE CreateTable
  <2>1. PICK o \in Objects : database' = database \cup {o}
    BY <1>1 DEF CreateTable
  <2>2. UNCHANGED <<profile, dropped, source, known, loaded, hasMore, promised, clicks>>
    BY <1>1 DEF CreateTable, daemon, tree
  <2>3. DatabaseOK'
    BY <2>1 DEF DatabaseOK
  <2>4. Shown \in SUBSET Shown' /\ Ordered(Shown')
    <3>1. Schema' = Schema
      BY <2>2 DEF Schema
    <3>2. Visible \subseteq Visible'
      BY <2>1, <3>1 DEF Visible
    <3>3. Visible' \in SUBSET Objects
      BY <2>3 DEF DatabaseOK, Visible
    <3>4. Ordered(Names(Visible'))
      BY <3>3, NamesOrdered
    <3> QED
      BY <3>2, <3>4 DEF Shown, Names
  <2>5. ASSUME ~dropped PROVE TreeOK'
    <3>1. source' # None => EntryOK(source', Shown')
      BY <2>2, <2>4, <2>5, EntryGrows DEF TreeOK
    <3>2. known' # None => EntryOK(known', Shown')
      BY <2>2, <2>4, <2>5, EntryGrows DEF TreeOK
    <3>3. loaded' # None \/ hasMore' => /\ ListOK(loaded', promised', Shown')
                                        /\ promised' \subseteq loaded' \/ hasMore'
      BY <2>2, <2>4, <2>5, ListGrows DEF TreeOK
    <3>4. \A c \in Clicks : clicks'[c] # None => ClickOK(clicks'[c], Shown')
      BY <2>2, <2>4, <2>5, ClickGrows DEF TreeOK
    <3> QED
      BY <3>1, <3>2, <3>3, <3>4 DEF TreeOK
  <2> QED
    BY <2>2, <2>3, <2>5
<1>2. CASE DropTable
  <2>1. database' \in SUBSET Objects /\ dropped' = TRUE /\ UNCHANGED <<hasMore, loaded, clicks>>
    BY <1>2 DEF DropTable, tree, DatabaseOK
  <2> QED
    BY <2>1 DEF DatabaseOK
<1> SUFFICES ASSUME ~CreateTable, ~DropTable PROVE TreeInv'
  BY <1>1, <1>2
<1>3. UNCHANGED <<database, profile, dropped>>
  BY DEF Next, RegisterSqlite, RegisterPostgres, RegisterMysql, Register, RemoveSource, Query,
         RefreshTree, Expand, Click, PageListed, PageFails, PageArrives, vars, world
<1>4. DatabaseOK' /\ Shown' = Shown /\ Ordered(Shown)
  BY <1>3, ShownStays, ShownOrdered DEF DatabaseOK
\* It remains to show what the step makes of the tree, if no table was dropped.
<1>5. ASSUME clicks' = [c \in Clicks |-> clicks'[c]],
             ~dropped => /\ source' # None => EntryOK(source', Shown)
                         /\ known' # None => EntryOK(known', Shown)
                         /\ loaded' # None \/ hasMore' =>
                              /\ ListOK(loaded', promised', Shown)
                              /\ promised' \subseteq loaded' \/ hasMore'
                         /\ \A c \in Clicks : clicks'[c] # None => ClickOK(clicks'[c], Shown)
      PROVE  TreeInv'
  <2>1. ASSUME ~dropped' PROVE TreeOK'
    BY <1>3, <1>4, <1>5, <2>1 DEF TreeOK
  <2> QED
    BY <1>4, <1>5, <2>1
<1>6. ASSUME UNCHANGED <<known, loaded, hasMore, promised, clicks>>,
             ~dropped => (source' # None => EntryOK(source', Shown))
      PROVE  TreeInv'
  BY <1>5, <1>6 DEF TreeOK
<1>7. CASE RegisterSqlite \/ RegisterPostgres \/ RegisterMysql
  <2>1. source' = Listing /\ UNCHANGED tree
    BY <1>7 DEF RegisterSqlite, RegisterPostgres, RegisterMysql, Register
  <2> QED
    BY <1>6, <2>1, ListingOK DEF tree
<1>8. CASE RemoveSource
  BY <1>6, <1>8 DEF RemoveSource, tree
<1>9. ASSUME NEW spelled, Query(spelled) PROVE TreeInv'
  BY <1>6, <1>9 DEF Query, tree, TreeOK
<1>10. CASE RefreshTree
  <2>1. /\ (known' = source /\ source # None) \/ known' = Offline \/ known' = None
        /\ \/ UNCHANGED <<loaded, hasMore>>
           \/ loaded' = None /\ hasMore' = FALSE
        /\ UNCHANGED <<clicks, promised, source>>
    BY <1>10 DEF RefreshTree, daemon
  <2>2. EntryOK(Offline, Shown)
    BY DEF EntryOK, Offline, Names
  <2> QED
    BY <1>5, <2>1, <2>2 DEF TreeOK
<1>11. CASE Expand
  <2>1. /\ known # None /\ loaded = None
        /\ loaded' = First(PageSize, known.tables)
        /\ hasMore' = (known.truncated \/ Cardinality(known.tables) > Cardinality(loaded'))
        /\ promised' = Names(known.had)
        /\ UNCHANGED <<known, clicks, source>>
    BY <1>11 DEF Expand, daemon, Names
  <2>2. ASSUME ~dropped
        PROVE  /\ ListOK(loaded', promised', Shown)
               /\ promised' \subseteq loaded' \/ hasMore'
    BY <1>4, <2>1, <2>2, FirstPageOK DEF TreeOK
  <2> QED
    BY <1>5, <2>1, <2>2 DEF TreeOK
<1>12. ASSUME NEW c \in Clicks, Click(c) PROVE TreeInv'
  <2>1. /\ hasMore /\ clicks'[c] = [base |-> loaded, promised |-> promised, page |-> None]
        /\ \A d \in Clicks \ {c} : clicks'[d] = clicks[d]
        /\ clicks' = [d \in Clicks |-> clicks'[d]]
        /\ UNCHANGED <<known, loaded, hasMore, promised, source>>
    BY <1>12 DEF Click, daemon
  <2>2. ASSUME ~dropped PROVE ClickOK(clicks'[c], Shown)
    BY <2>1, <2>2 DEF TreeOK, ClickOK
  <2> QED
    BY <1>5, <2>1, <2>2 DEF TreeOK
<1>13. ASSUME NEW c \in Clicks, PageListed(c) PROVE TreeInv'
  <2>1. /\ clicks[c] # None
        /\ clicks' = [clicks EXCEPT ![c].page = TablesPage(Cardinality(clicks[c].base))]
        /\ UNCHANGED <<known, loaded, hasMore, promised, source>>
    BY <1>13 DEF PageListed, daemon
  <2>2. /\ clicks'[c] = [clicks[c] EXCEPT !.page = TablesPage(Cardinality(clicks[c].base))]
        /\ \A d \in Clicks \ {c} : clicks'[d] = clicks[d]
        /\ clicks' = [d \in Clicks |-> clicks'[d]]
    BY <2>1
  <2>3. ASSUME ~dropped PROVE ClickOK(clicks'[c], Shown)
    <3>1. ClickOK(clicks[c], Shown)
      BY <2>1, <2>3 DEF TreeOK
    <3>2. PICK page : page = TablesPage(Cardinality(clicks[c].base))
      OBVIOUS
    <3>3. clicks'[c] = [base |-> clicks[c].base, promised |-> clicks[c].promised, page |-> page]
      BY <2>2, <3>1, <3>2 DEF ClickOK
    <3>4. /\ ListOK(clicks[c].base, clicks[c].promised, Shown)
          /\ ListOK(clicks[c].base \cup page.tables, clicks[c].promised, Shown)
          /\ clicks[c].promised \subseteq clicks[c].base \cup page.tables \/ page.truncated
      BY <3>1, <3>2, NextPageOK DEF ClickOK
    <3> QED
      BY <3>3, <3>4 DEF ClickOK, PageOK
  <2> QED
    BY <1>5, <2>1, <2>2, <2>3 DEF TreeOK
<1>14. ASSUME NEW c \in Clicks, PageFails(c) PROVE TreeInv'
  <2>1. /\ clicks'[c] = None /\ \A d \in Clicks \ {c} : clicks'[d] = clicks[d]
        /\ clicks' = [d \in Clicks |-> clicks'[d]]
        /\ UNCHANGED <<known, loaded, hasMore, promised, source>>
    BY <1>14 DEF PageFails, daemon
  <2> QED
    BY <1>5, <2>1 DEF TreeOK
<1>15. ASSUME NEW c \in Clicks, PageArrives(c) PROVE TreeInv'
  <2>1. /\ clicks[c] # None /\ clicks[c].page # None
        /\ loaded' = clicks[c].base \cup clicks[c].page.tables
        /\ clicks[c].page.truncated => hasMore'
        /\ promised' = clicks[c].promised
        /\ clicks'[c] = None /\ \A d \in Clicks \ {c} : clicks'[d] = clicks[d]
        /\ clicks' = [d \in Clicks |-> clicks'[d]]
        /\ UNCHANGED <<known, source>>
    BY <1>15 DEF PageArrives, daemon
  <2>2. ASSUME ~dropped
        PROVE  /\ ListOK(loaded', promised', Shown)
               /\ promised' \subseteq loaded' \/ hasMore'
    <3>1. PageOK(clicks[c], Shown)
      BY <2>1, <2>2 DEF TreeOK, ClickOK
    <3> QED
      BY <2>1, <3>1 DEF PageOK
  <2> QED
    BY <1>5, <2>1, <2>2 DEF TreeOK
<1>16. CASE UNCHANGED vars
  BY <1>6, <1>16 DEF vars, daemon, tree, TreeOK
<1> QED
  BY <1>7, <1>8, <1>9, <1>10, <1>11, <1>12, <1>13, <1>14, <1>15, <1>16 DEF Next

\* A tree that offers no more tables of a source shows every one that there was when
\* its list was begun, if none was dropped since, however clicks overlap and their
\* answers cross (dataSourcesProvider.ts:130-158): for any database, limits and clicks.
THEOREM TreeCompleteAlways == Spec => []TreeComplete
<1>1. TreeInv => TreeComplete
  BY DEF TreeInv, TreeOK, TreeComplete
<1> QED
  BY <1>1, TreeInit, TreeStep, PTL DEF Spec

-----------------------------------------------------------------------------
(* Queries.                                                                *)

\* None is not the name of a table.
NamesInv ==
  DatabaseOK /\ (source # None => source.tables \subseteq Names(Objects))

LEMMA NamesStep == NamesInv /\ [Next]_vars => NamesInv'
<1> SUFFICES ASSUME NamesInv, [Next]_vars PROVE NamesInv'
  OBVIOUS
<1>1. database' \in SUBSET Objects
  BY DEF NamesInv, DatabaseOK, Next, CreateTable, DropTable, RegisterSqlite, RegisterPostgres,
         RegisterMysql, Register, RemoveSource, Query, RefreshTree, Expand, Click, PageListed,
         PageFails, PageArrives, vars, world
<1>2. source' = source \/ source' = None \/ source' = Listing
  BY DEF Next, CreateTable, DropTable, RegisterSqlite, RegisterPostgres, RegisterMysql,
         Register, RemoveSource, Query, RefreshTree, Expand, Click, PageListed, PageFails,
         PageArrives, vars, daemon
<1>3. Listing.tables \subseteq Names(Objects)
  BY ListedShown DEF NamesInv, DatabaseOK, Shown, Visible, Names
<1> QED
  BY <1>1, <1>2, <1>3 DEF NamesInv, DatabaseOK

LEMMA ListedTable ==
  ASSUME NamesInv, source # None, NEW spelling \in source.tables
  PROVE  TableOf(spelling) # None
BY DatabaseAssumption DEF NamesInv, Names, TableOf

\* Spelled as the walk finds them, they are the tables of this database that are needed.
LEMMA SpellingsNeeded ==
  ASSUME NEW q \in DOMAIN Planned,
         NEW ours, ours = {need \in Planned[q] : SameWord(need[1], Alias)}
  PROVE  {Spellings[q][i] : i \in DOMAIN Spellings[q]} = {need[2] : need \in ours}
<1>. DEFINE refs == TableRefs(Texts[q])
            those == {j \in DOMAIN refs : SameWord(refs[j][1], Alias)}
            spelled == [i \in those |-> refs[i][2]]
<1>1. q \in DOMAIN Texts /\ ~HidesName(Texts[q]) /\ Planned[q] = Needs(Texts[q])
  BY DEF Planned
<1>2. {refs[k] : k \in DOMAIN refs} = Planned[q]
  BY <1>1, TextsAssumption, WalkFindsNeeds
<1>3. Spellings[q] = spelled
  BY <1>1 DEF Spellings
<1>. HIDE DEF refs
<1>4. {spelled[i] : i \in DOMAIN spelled} = {refs[i][2] : i \in those}
  OBVIOUS
<1>5. {refs[i] : i \in those} = ours
  BY <1>2
<1>6. {refs[i][2] : i \in those} = {need[2] : need \in {refs[i] : i \in those}}
  OBVIOUS
<1>. HIDE DEF spelled, those
<1>. QED
  BY <1>3, <1>4, <1>5, <1>6

\* For any texts, a query whose tables of the database are listed is planned on all of
\* them, whatever was queried and registered before, unless it hides a name from the
\* walk (lib.rs:1211-1249, table_refs.rs:16-258, engine.rs:934-976).
THEOREM ListedIsQueryableAlways == Spec => []ListedIsQueryable
<1>1. Init => NamesInv
  BY DatabaseAssumption DEF Init, NamesInv, DatabaseOK
<1>2. NamesInv => ListedIsQueryable
  <2> SUFFICES ASSUME NamesInv, source # None, NEW q \in DOMAIN Planned,
                      NEW ours, ours = {need \in Planned[q] : SameWord(need[1], Alias)},
                      \A need \in ours : need[1] = Alias /\ need[2] \in source.tables
               PROVE  /\ Unlisted(Spellings[q]) = {}
                      /\ {need[2] : need \in ours}
                           \subseteq {e[1] : e \in Entries({Spellings[q][i] :
                                                             i \in DOMAIN Spellings[q]})}
    BY DEF ListedIsQueryable
  <2> DEFINE spelled == {Spellings[q][i] : i \in DOMAIN Spellings[q]}
  <2>1. spelled = {need[2] : need \in ours}
    BY SpellingsNeeded
  <2>2. \A i \in DOMAIN Spellings[q] : Spellings[q][i] \in source.tables
    <3>1. spelled \subseteq source.tables
      BY <2>1
    <3> QED
      BY <3>1
  <2>3. Unlisted(Spellings[q]) = {}
    BY <2>2, ListedTable DEF Unlisted
  <2>4. ASSUME NEW s \in spelled
        PROVE  s \in {e[1] : e \in Entries(spelled)}
    <3>1. CASE s \in Taken
      BY <3>1 DEF Entries, Taken
    <3>2. CASE s \notin Taken
      <4>1. <<s, Provider(TableOf(s))>> \in Entries(spelled)
        BY <3>2 DEF Entries
      <4>2. <<s, Provider(TableOf(s))>>[1] = s
        OBVIOUS
      <4> QED
        BY <4>1, <4>2
    <3> QED
      BY <3>1, <3>2
  <2> QED
    BY <2>1, <2>3, <2>4
<1> QED
  BY <1>1, <1>2, NamesStep, PTL DEF Spec
=============================================================================
