---------------------------- MODULE ExplainProofs ----------------------------
(***************************************************************************)
(* The plan graph of an explain, for plans of any size and shape, any      *)
(* limit on nodes, and any registrations and removals meanwhile: it is the *)
(* plan, as far as there is room, and what is shown on a node is that      *)
(* node's.  And the lineage of a query, for plans of any size and shape:   *)
(* what it shows is found where it is looked for.                          *)
(***************************************************************************)
EXTENDS Explain, SequenceTheorems, WellFoundedInduction, TLAPS

-----------------------------------------------------------------------------
(* Induction over the naturals.                                            *)

LessThan == {p \in Nat \X Nat : p[1] < p[2]}

\* A set of naturals that is not empty has a least member.
LEMMA LeastMember ==
  ASSUME NEW S \in SUBSET Nat, S # {}
  PROVE  \E n \in S : \A m \in S : n <= m
<1>1. IsWellFoundedOn(LessThan, Nat)
  <2>1. OpToRel(<, Nat) = LessThan
    BY Zenon DEF OpToRel, LessThan
  <2>. QED
    BY ONLY <2>1, NatLessThanWellFounded, Zenon
<1>2. PICK n \in S : \A m \in S : ~(<<m, n>> \in LessThan)
  BY <1>1, WFMin
<1>3. ASSUME NEW m \in S, ~(n <= m) PROVE FALSE
  <2>1. <<m, n>> \in LessThan
    BY <1>3 DEF LessThan
  <2>. QED
    BY <1>2, <2>1
<1>. QED
  BY <1>3

\* What holds of zero, and of the successor of whatever it holds of, holds of all.
LEMMA Induct ==
  ASSUME NEW S \in SUBSET Nat, 0 \in S, \A n \in S : n + 1 \in S
  PROVE  S = Nat
<1>. SUFFICES ASSUME Nat \ S # {} PROVE FALSE
  OBVIOUS
<1>1. PICK n \in Nat \ S : \A m \in Nat \ S : n <= m
  <2>1. Nat \ S \in SUBSET Nat
    OBVIOUS
  <2>. QED
    BY <2>1, LeastMember
<1>2. n # 0 /\ n - 1 \in Nat
  BY <1>1
<1>3. n - 1 \in S
  BY <1>1, <1>2
<1>. QED
  BY <1>1, <1>2, <1>3

-----------------------------------------------------------------------------
(* FlattenSeq, of the first n values of a function.                        *)

FlatStep(f, g, i) == IF i = 1 THEN f[i] ELSE g[i - 1] \o f[i]

Flat(f, n) == FlattenSeq([j \in 1..n |-> f[j]])

LEMMA FlatExists ==
  ASSUME NEW f, NEW n \in Nat
  PROVE  \E g : g = [i \in 1..n |-> FlatStep(f, g, i)]
<1>. DEFINE T == {k \in Nat : \E g : g = [i \in 1..k |-> FlatStep(f, g, i)]}
<1>1. 0 \in T
  <2>. DEFINE g == [i \in 1..0 |-> {}]
  <2>1. g = [i \in 1..0 |-> FlatStep(f, g, i)]
    OBVIOUS
  <2>2. \E h : h = [i \in 1..0 |-> FlatStep(f, h, i)]
    <3>. HIDE DEF g
    <3>. QED
      BY <2>1
  <2>. QED
    BY <2>2
<1>2. ASSUME NEW k \in T PROVE k + 1 \in T
  <2>0. k \in Nat
    OBVIOUS
  <2>1. PICK g : g = [i \in 1..k |-> FlatStep(f, g, i)]
    OBVIOUS
  <2>. DEFINE h == [i \in 1..k + 1 |-> FlatStep(f, g, i)]
  <2>2. \A i \in 1..k : h[i] = g[i]
    BY <2>0, <2>1
  <2>3. ASSUME NEW i \in 1..k + 1 PROVE h[i] = FlatStep(f, h, i)
    <3>1. h[i] = FlatStep(f, g, i)
      OBVIOUS
    <3>2. i # 1 => i - 1 \in 1..k
      BY <2>0
    <3>. HIDE DEF h
    <3>. QED
      BY <2>2, <3>1, <3>2 DEF FlatStep
  <2>4. h = [i \in 1..k + 1 |-> FlatStep(f, h, i)]
    BY <2>3
  <2>5. \E e : e = [i \in 1..k + 1 |-> FlatStep(f, e, i)]
    <3>. HIDE DEF h
    <3>. QED
      BY <2>4
  <2>. QED
    BY <2>0, <2>5
<1>3. T = Nat
  <2>. HIDE DEF T
  <2>1. T \in SUBSET Nat
    BY DEF T
  <2>. QED
    BY <1>1, <1>2, <2>1, Induct
<1>4. n \in T
  <2>. HIDE DEF T
  <2>. QED
    BY <1>3
<1>. QED
  BY <1>4

\* Flattening some sequences and flattening fewer go the same way.
LEMMA FlatSame ==
  ASSUME NEW f, NEW m \in Nat, NEW n \in Nat, m <= n,
         NEW g, g = [i \in 1..m |-> FlatStep(f, g, i)],
         NEW h, h = [i \in 1..n |-> FlatStep(f, h, i)]
  PROVE  \A i \in 1..m : g[i] = h[i]
<1>. DEFINE T == {k \in Nat : k \in 1..m => g[k] = h[k]}
<1>1. 0 \in T
  OBVIOUS
<1>2. ASSUME NEW k \in T PROVE k + 1 \in T
  <2>1. k \in Nat /\ (k \in 1..m => g[k] = h[k])
    OBVIOUS
  <2>2. ASSUME k + 1 \in 1..m PROVE g[k + 1] = h[k + 1]
    <3>1. k + 1 \in 1..n /\ (k + 1) - 1 = k /\ (k + 1 = 1 \/ k \in 1..m)
      BY <2>1, <2>2
    <3>2. g[k + 1] = FlatStep(f, g, k + 1) /\ h[k + 1] = FlatStep(f, h, k + 1)
      BY <2>2, <3>1
    <3>. QED
      BY <2>1, <3>1, <3>2 DEF FlatStep
  <2>. QED
    BY <2>1, <2>2
<1>3. T = Nat
  <2>. HIDE DEF T
  <2>1. T \in SUBSET Nat
    BY DEF T
  <2>. QED
    BY <1>1, <1>2, <2>1, Induct
<1>4. ASSUME NEW i \in 1..m PROVE g[i] = h[i]
  <2>1. i \in T
    <3>. HIDE DEF T
    <3>. QED
      BY <1>3
  <2>. QED
    BY <2>1
<1>. QED
  BY <1>4

LEMMA FlatNone == ASSUME NEW f PROVE Flat(f, 0) = << >>
<1>1. [j \in 1..0 |-> f[j]] = << >>
  OBVIOUS
<1>. QED
  BY <1>1 DEF Flat, FlattenSeq

LEMMA FlatIs ==
  ASSUME NEW f, NEW n \in Nat \ {0}, NEW g, g = [i \in 1..n |-> FlatStep(f, g, i)]
  PROVE  Flat(f, n) = g[n]
<1>. DEFINE s == [j \in 1..n |-> f[j]]
            IsG(h) == h = [i \in 1..n |-> FlatStep(f, h, i)]
            flatten == CHOOSE h : IsG(h)
<1>1. Len(s) = n /\ Len(s) # 0
  OBVIOUS
<1>2. IsG(flatten)
  OBVIOUS
<1>3. Flat(f, n) = flatten[n]
  <2>1. flatten = CHOOSE h : h = [i \in 1..n |-> IF i = 1 THEN s[i] ELSE h[i - 1] \o s[i]]
    <3>1. \A i \in 1..n : s[i] = f[i]
      OBVIOUS
    <3>2. ASSUME NEW h
          PROVE  [i \in 1..n |-> FlatStep(f, h, i)]
                   = [i \in 1..n |-> IF i = 1 THEN s[i] ELSE h[i - 1] \o s[i]]
      BY <3>1 DEF FlatStep
    <3>. HIDE DEF s
    <3>. QED
      BY <3>2
  <2>. HIDE DEF s, flatten
  <2>2. Flat(f, n) = FlattenSeq(s)
    BY DEF Flat, s
  <2>3. FlattenSeq(s) = flatten[n]
    BY ONLY <1>1, <2>1 DEF FlattenSeq
  <2>. QED
    BY ONLY <2>2, <2>3
<1>4. \A i \in 1..n : flatten[i] = g[i]
  <2>1. n \in Nat /\ n <= n
    OBVIOUS
  <2>2. flatten = [i \in 1..n |-> FlatStep(f, flatten, i)]
    BY ONLY <1>2
  <2>. HIDE DEF flatten
  <2>. QED
    BY ONLY g = [i \in 1..n |-> FlatStep(f, g, i)], <2>1, <2>2, FlatSame, SMTT(30)
<1>. QED
  BY <1>3, <1>4

\* One sequence more is appended.
LEMMA FlatMore ==
  ASSUME NEW S, NEW f, NEW n \in Nat, \A i \in 1..n + 1 : f[i] \in Seq(S),
         Flat(f, n) \in Seq(S)
  PROVE  Flat(f, n + 1) = Flat(f, n) \o f[n + 1]
<1>0. n + 1 \in Nat \ {0} /\ n <= n + 1 /\ n + 1 \in 1..n + 1
  OBVIOUS
<1>1. PICK h : h = [i \in 1..n + 1 |-> FlatStep(f, h, i)]
  BY <1>0, FlatExists
<1>2. Flat(f, n + 1) = h[n + 1]
  BY <1>0, <1>1, FlatIs
<1>3. h[n + 1] = FlatStep(f, h, n + 1)
  BY <1>0, <1>1
<1>4. CASE n = 0
  <2>1. Flat(f, n) = << >>
    BY <1>4, FlatNone
  <2>2. f[n + 1] \in Seq(S)
    BY <1>4
  <2>3. << >> \o f[n + 1] = f[n + 1]
    BY <2>2, ConcatEmptySeq
  <2>. QED
    BY <1>2, <1>3, <1>4, <2>1, <2>3 DEF FlatStep
<1>5. CASE n # 0
  <2>. DEFINE g == [i \in 1..n |-> h[i]]
  <2>1. ASSUME NEW i \in 1..n PROVE g[i] = FlatStep(f, g, i)
    <3>1. i \in 1..n + 1 /\ (i = 1 \/ i - 1 \in 1..n)
      OBVIOUS
    <3>2. g[i] = FlatStep(f, h, i)
      BY <1>1, <3>1
    <3>. QED
      BY <3>1, <3>2 DEF FlatStep
  <2>2. g = [i \in 1..n |-> FlatStep(f, g, i)]
    BY <2>1
  <2>3. Flat(f, n) = h[n]
    <3>1. g[n] = h[n]
      BY <1>5
    <3>. HIDE DEF g
    <3>. QED
      BY <1>5, <2>2, <3>1, FlatIs
  <2>4. n + 1 # 1 /\ (n + 1) - 1 = n
    BY <1>5
  <2>. QED
    BY <1>2, <1>3, <2>3, <2>4 DEF FlatStep
<1>. QED
  BY <1>4, <1>5

\* The sequences that are flattened are over some set, and so is the result.
LEMMA FlatType ==
  ASSUME NEW S, NEW f, NEW n \in Nat, \A i \in 1..n : f[i] \in Seq(S)
  PROVE  \A k \in 0..n : Flat(f, k) \in Seq(S)
<1>. DEFINE T == {k \in Nat : k <= n => Flat(f, k) \in Seq(S)}
<1>1. 0 \in T
  BY FlatNone, EmptySeq
<1>2. ASSUME NEW k \in T PROVE k + 1 \in T
  <2>1. k \in Nat
    OBVIOUS
  <2>2. ASSUME k + 1 <= n PROVE Flat(f, k + 1) \in Seq(S)
    <3>1. Flat(f, k) \in Seq(S)
      BY <2>1, <2>2
    <3>2. \A i \in 1..k + 1 : f[i] \in Seq(S)
      BY <2>1, <2>2
    <3>3. Flat(f, k + 1) = Flat(f, k) \o f[k + 1]
      BY <2>1, <3>1, <3>2, FlatMore
    <3>4. f[k + 1] \in Seq(S)
      BY <2>1, <3>2
    <3>. QED
      BY <3>1, <3>3, <3>4, ConcatProperties
  <2>. QED
    BY <2>1, <2>2
<1>3. T = Nat
  <2>. HIDE DEF T
  <2>1. T \in SUBSET Nat
    BY DEF T
  <2>. QED
    BY <1>1, <1>2, <2>1, Induct
<1>4. ASSUME NEW k \in 0..n PROVE Flat(f, k) \in Seq(S)
  <2>1. k \in T
    <3>. HIDE DEF T
    <3>. QED
      BY <1>3
  <2>. QED
    BY <2>1
<1>. QED
  BY <1>4

-----------------------------------------------------------------------------
(* Preorder, where the inputs of a node have a lower rank.                 *)

Ranked(inputs, rank, top) ==
  /\ top \in Nat /\ rank \in [DOMAIN inputs -> 1..top]
  /\ \A i \in DOMAIN inputs :
       /\ inputs[i] \in Seq(DOMAIN inputs)
       /\ \A k \in 1..Len(inputs[i]) : rank[inputs[i][k]] < rank[i]

\* The nodes from the first k inputs of a node downwards, if order[j] are those
\* from node j.
Under(inputs, order, i, k) == Flat([l \in 1..Len(inputs[i]) |-> order[inputs[i][l]]], k)

Downwards(inputs, order, i) == <<i>> \o Under(inputs, order, i, Len(inputs[i]))

LEMMA DownwardsOf ==
  ASSUME NEW inputs, NEW i \in DOMAIN inputs, NEW S, inputs[i] \in Seq(S), NEW order
  PROVE  Downwards(inputs, order, i)
           = <<i>> \o FlattenSeq([k \in DOMAIN inputs[i] |-> order[inputs[i][k]]])
<1>. DEFINE n == Len(inputs[i])
            f == [l \in 1..n |-> order[inputs[i][l]]]
<1>1. DOMAIN inputs[i] = 1..n /\ n \in Nat
  BY LenProperties
<1>2. [j \in 1..n |-> f[j]] = [k \in 1..n |-> order[inputs[i][k]]]
  OBVIOUS
<1>. QED
  BY <1>1, <1>2 DEF Downwards, Under, Flat

LEMMA SameDownwards ==
  ASSUME NEW inputs, NEW i, NEW S, inputs[i] \in Seq(S), NEW g, NEW h,
         \A k \in 1..Len(inputs[i]) : g[inputs[i][k]] = h[inputs[i][k]]
  PROVE  Downwards(inputs, g, i) = Downwards(inputs, h, i)
<1>1. Len(inputs[i]) \in Nat
  BY LenProperties
<1>2. [l \in 1..Len(inputs[i]) |-> g[inputs[i][l]]] = [l \in 1..Len(inputs[i]) |-> h[inputs[i][l]]]
  OBVIOUS
<1>. QED
  BY <1>1, <1>2 DEF Downwards, Under

\* The nodes up to a rank.
UpTo(inputs, rank, k) == {i \in DOMAIN inputs : rank[i] <= k}

\* There is a function that gives every node the nodes below it.
LEMMA OrderExists ==
  ASSUME NEW inputs, NEW rank, NEW top, Ranked(inputs, rank, top)
  PROVE  \E g : g = [i \in DOMAIN inputs |-> Downwards(inputs, g, i)]
<1>. DEFINE D(k) == UpTo(inputs, rank, k)
            T == {k \in Nat : \E g : g = [i \in D(k) |-> Downwards(inputs, g, i)]}
<1>1. 0 \in T
  <2>1. D(0) = {}
    BY DEF Ranked, UpTo
  <2>. DEFINE g == [i \in D(0) |-> {}]
  <2>2. g = [i \in D(0) |-> Downwards(inputs, g, i)]
    BY <2>1
  <2>3. \E f : f = [i \in D(0) |-> Downwards(inputs, f, i)]
    <3>. HIDE DEF g
    <3>. QED
      BY <2>2
  <2>. QED
    BY <2>3
<1>2. ASSUME NEW k \in T PROVE k + 1 \in T
  <2>0. k \in Nat
    OBVIOUS
  <2>1. PICK g : g = [i \in D(k) |-> Downwards(inputs, g, i)]
    OBVIOUS
  <2>. DEFINE h == [i \in D(k + 1) |-> Downwards(inputs, g, i)]
  <2>2. \A i \in D(k) : i \in D(k + 1) /\ h[i] = g[i]
    <3>1. D(k) \subseteq D(k + 1)
      BY <2>0 DEF Ranked, UpTo
    <3>. QED
      BY <2>1, <3>1
  <2>3. ASSUME NEW i \in D(k + 1) PROVE h[i] = Downwards(inputs, h, i)
    <3>1. i \in DOMAIN inputs /\ inputs[i] \in Seq(DOMAIN inputs)
      BY DEF Ranked, UpTo
    <3>2. \A l \in 1..Len(inputs[i]) : inputs[i][l] \in D(k)
      <4>1. \A l \in 1..Len(inputs[i]) : inputs[i][l] \in DOMAIN inputs
        BY <3>1, ElementOfSeq
      <4>. QED
        BY <2>0, <3>1, <4>1 DEF Ranked, UpTo
    <3>3. \A l \in 1..Len(inputs[i]) : g[inputs[i][l]] = h[inputs[i][l]]
      <4>. HIDE DEF h, D
      <4>. QED
        BY <2>2, <3>2
    <3>4. h[i] = Downwards(inputs, g, i)
      OBVIOUS
    <3>. HIDE DEF h, D
    <3>. QED
      BY <3>1, <3>3, <3>4, SameDownwards
  <2>4. h = [i \in D(k + 1) |-> Downwards(inputs, h, i)]
    BY <2>3
  <2>5. \E f : f = [i \in D(k + 1) |-> Downwards(inputs, f, i)]
    <3>. HIDE DEF h
    <3>. QED
      BY <2>4
  <2>. QED
    BY <2>0, <2>5
<1>3. T = Nat
  <2>. HIDE DEF T
  <2>1. T \in SUBSET Nat
    BY DEF T
  <2>. QED
    BY <1>1, <1>2, <2>1, Induct
<1>4. \E g : g = [i \in D(top) |-> Downwards(inputs, g, i)]
  <2>1. top \in T
    <3>. HIDE DEF T
    <3>. QED
      BY <1>3 DEF Ranked
  <2>. QED
    BY <2>1
<1>5. D(top) = DOMAIN inputs
  <2>1. ASSUME NEW i \in DOMAIN inputs PROVE i \in D(top)
    <3>1. rank[i] \in 1..top /\ top \in Nat
      BY DEF Ranked
    <3>. QED
      BY <3>1 DEF UpTo
  <2>. QED
    BY <2>1 DEF UpTo
<1>. QED
  BY <1>4, <1>5

\* The preorder of every node is itself and the preorders of its inputs.
LEMMA PreOrderNext ==
  ASSUME NEW inputs, NEW rank, NEW top, Ranked(inputs, rank, top)
  PROVE  \A i \in DOMAIN inputs :
           PreOrders(inputs)[i] = Downwards(inputs, PreOrders(inputs), i)
<1>. DEFINE IsG(g) == g = [i \in DOMAIN inputs |-> Downwards(inputs, g, i)]
            order == CHOOSE g : IsG(g)
<1>1. IsG(order)
  BY OrderExists
<1>2. PreOrders(inputs) = order
  <2>1. ASSUME NEW g
        PROVE  [i \in DOMAIN inputs |-> Downwards(inputs, g, i)]
                 = [i \in DOMAIN inputs |->
                      <<i>> \o FlattenSeq([k \in DOMAIN inputs[i] |-> g[inputs[i][k]]])]
    <3>1. ASSUME NEW i \in DOMAIN inputs
          PROVE  Downwards(inputs, g, i)
                   = <<i>> \o FlattenSeq([k \in DOMAIN inputs[i] |-> g[inputs[i][k]]])
      BY DownwardsOf DEF Ranked
    <3>. QED
      BY <3>1
  <2>. QED
    BY <2>1 DEF PreOrders
<1>3. \A i \in DOMAIN inputs : order[i] = Downwards(inputs, order, i)
  BY <1>1
<1>. HIDE DEF order
<1>. QED
  BY <1>2, <1>3

\* Preorders are sequences of nodes.
LEMMA PreOrderType ==
  ASSUME NEW inputs, NEW rank, NEW top, Ranked(inputs, rank, top)
  PROVE  \A i \in DOMAIN inputs : PreOrders(inputs)[i] \in Seq(DOMAIN inputs)
<1>. DEFINE O == PreOrders(inputs)
            V == DOMAIN inputs
            T == {k \in Nat : \A i \in V : rank[i] <= k => O[i] \in Seq(V)}
<1>0. \A i \in V : rank[i] \in 1..top /\ inputs[i] \in Seq(V) /\ top \in Nat
  BY DEF Ranked
<1>1. 0 \in T
  BY <1>0
<1>2. ASSUME NEW k \in T PROVE k + 1 \in T
  <2>0. k \in Nat /\ \A i \in V : rank[i] <= k => O[i] \in Seq(V)
    OBVIOUS
  <2>1. ASSUME NEW i \in V, rank[i] <= k + 1 PROVE O[i] \in Seq(V)
    <3>. DEFINE n == Len(inputs[i])
                f == [l \in 1..n |-> O[inputs[i][l]]]
    <3>1. inputs[i] \in Seq(V) /\ n \in Nat
      BY <1>0, LenProperties
    <3>2. \A l \in 1..n : inputs[i][l] \in V /\ rank[inputs[i][l]] <= k
      <4>1. \A l \in 1..n : inputs[i][l] \in V /\ rank[inputs[i][l]] < rank[i]
        BY <3>1, ElementOfSeq DEF Ranked
      <4>. QED
        BY <1>0, <2>0, <2>1, <4>1
    <3>3. \A l \in 1..n : f[l] \in Seq(V)
      BY <2>0, <3>2
    <3>4. Flat(f, n) \in Seq(V)
      <4>. HIDE DEF f, n, V
      <4>. QED
        BY <3>1, <3>3, FlatType
    <3>5. O[i] = <<i>> \o Flat(f, n)
      BY PreOrderNext DEF Downwards, Under
    <3>6. <<i>> \in Seq(V)
      BY <2>1
    <3>. HIDE DEF f, n, V, O
    <3>. QED
      BY <3>4, <3>5, <3>6, ConcatProperties
  <2>. QED
    BY <2>0, <2>1
<1>3. T = Nat
  <2>. HIDE DEF T
  <2>1. T \in SUBSET Nat
    BY DEF T
  <2>. QED
    BY <1>1, <1>2, <2>1, Induct
<1>4. ASSUME NEW i \in V PROVE O[i] \in Seq(V)
  <2>1. rank[i] \in Nat /\ rank[i] <= rank[i]
    BY <1>0
  <2>2. rank[i] \in T
    <3>. HIDE DEF T
    <3>. QED
      BY <1>3, <2>1
  <2>. QED
    BY <2>1, <2>2
<1>. QED
  BY <1>4

\* The nodes under the inputs of a node, one input after the other.
LEMMA UnderNext ==
  ASSUME NEW inputs, NEW rank, NEW top, Ranked(inputs, rank, top), NEW i \in DOMAIN inputs
  PROVE  LET O == PreOrders(inputs)
             n == Len(inputs[i])
         IN /\ n \in Nat /\ DOMAIN inputs[i] = 1..n
            /\ \A k \in 1..n : inputs[i][k] \in DOMAIN inputs
            /\ Under(inputs, O, i, 0) = << >>
            /\ \A k \in 0..n : Under(inputs, O, i, k) \in Seq(DOMAIN inputs)
            /\ \A k \in 0..n - 1 :
                 Under(inputs, O, i, k + 1) = Under(inputs, O, i, k) \o O[inputs[i][k + 1]]
<1>. DEFINE O == PreOrders(inputs)
            V == DOMAIN inputs
            n == Len(inputs[i])
            f == [l \in 1..n |-> O[inputs[i][l]]]
<1>1. inputs[i] \in Seq(V) /\ n \in Nat /\ DOMAIN inputs[i] = 1..n
  BY LenProperties DEF Ranked
<1>2. \A k \in 1..n : inputs[i][k] \in V
  BY <1>1, ElementOfSeq
<1>3. \A l \in 1..n : f[l] \in Seq(V)
  BY <1>2, PreOrderType
<1>4. \A k \in 0..n : Flat(f, k) \in Seq(V)
  <2>. HIDE DEF f, n, V
  <2>. QED
    BY <1>1, <1>3, FlatType
<1>5. ASSUME NEW k \in 0..n - 1 PROVE Flat(f, k + 1) = Flat(f, k) \o f[k + 1]
  <2>1. k \in Nat /\ k \in 0..n /\ \A l \in 1..k + 1 : l \in 1..n
    BY <1>1
  <2>. HIDE DEF f, n, V
  <2>2. \A l \in 1..k + 1 : f[l] \in Seq(V)
    BY <1>3, <2>1
  <2>3. Flat(f, k) \in Seq(V)
    BY <1>4, <2>1
  <2>. QED
    BY <2>1, <2>2, <2>3, FlatMore
<1>6. Flat(f, 0) = << >>
  BY FlatNone
<1>7. \A k \in 0..n - 1 : f[k + 1] = O[inputs[i][k + 1]]
  BY <1>1
<1>8. \A k : Under(inputs, O, i, k) = Flat(f, k)
  BY DEF Under
<1>. HIDE DEF f, O, n
<1>9. \A k \in 0..n - 1 :
        Under(inputs, O, i, k + 1) = Under(inputs, O, i, k) \o O[inputs[i][k + 1]]
  BY <1>5, <1>7, <1>8
<1>. QED
  BY <1>1, <1>2, <1>4, <1>6, <1>8, <1>9 DEF O, n

\* A node's preorder is the node, and then what is under its inputs.
LEMMA PreOrderParts ==
  ASSUME NEW inputs, NEW rank, NEW top, Ranked(inputs, rank, top), NEW i \in DOMAIN inputs
  PROVE  LET O == PreOrders(inputs)
             under == Under(inputs, O, i, Len(inputs[i]))
         IN /\ O[i] \in Seq(DOMAIN inputs) /\ under \in Seq(DOMAIN inputs)
            /\ Len(O[i]) \in Nat /\ Len(under) \in Nat
            /\ Len(O[i]) = 1 + Len(under) /\ O[i][1] = i
            /\ \A p \in 1..Len(under) : O[i][1 + p] = under[p]
<1>. DEFINE O == PreOrders(inputs)
            V == DOMAIN inputs
            under == Under(inputs, O, i, Len(inputs[i]))
<1>1. O[i] = <<i>> \o under
  BY PreOrderNext DEF Downwards
<1>2. O[i] \in Seq(V) /\ under \in Seq(V)
  <2>1. Len(inputs[i]) \in 0..Len(inputs[i])
    BY UnderNext
  <2>. QED
    BY <2>1, UnderNext, PreOrderType
<1>. HIDE DEF O, V, under
<1>3. <<i>> \in Seq(V) /\ Len(<<i>>) = 1
  BY DEF V
<1>4. Len(O[i]) \in Nat /\ Len(under) \in Nat
  BY <1>2, LenProperties
<1>5. /\ Len(O[i]) = 1 + Len(under)
      /\ \A p \in 1..1 + Len(under) : O[i][p] = IF p <= 1 THEN <<i>>[p] ELSE under[p - 1]
  BY <1>1, <1>2, <1>3, ConcatProperties
<1>6. O[i][1] = i
  BY <1>4, <1>5
<1>7. ASSUME NEW p \in 1..Len(under) PROVE O[i][1 + p] = under[p]
  <2>1. 1 + p \in 1..1 + Len(under) /\ ~(1 + p <= 1) /\ (1 + p) - 1 = p
    BY <1>4
  <2>. QED
    BY <1>5, <2>1
<1>. QED
  BY <1>2, <1>4, <1>5, <1>6, <1>7 DEF O, V, under

-----------------------------------------------------------------------------
(* Trees, and the numbers of their nodes in preorder.                      *)

\* The inputs of a tree's nodes come before them.
LEMMA TreeRanked ==
  ASSUME NEW tree, IsTree(tree)
  PROVE  /\ Ranked(Inputs(tree), [i \in DOMAIN tree |-> i], Len(tree))
         /\ DOMAIN Inputs(tree) = DOMAIN tree /\ DOMAIN tree = 1..Len(tree)
         /\ Len(tree) \in DOMAIN tree /\ Len(tree) \in Nat \ {0}
         /\ \A i \in DOMAIN tree : Inputs(tree)[i] = tree[i].inputs
<1>1. /\ DOMAIN Inputs(tree) = DOMAIN tree /\ DOMAIN tree = 1..Len(tree)
      /\ Len(tree) \in DOMAIN tree /\ Len(tree) \in Nat \ {0}
      /\ \A i \in DOMAIN tree : Inputs(tree)[i] = tree[i].inputs
  BY DEF IsTree, Inputs
<1>2. ASSUME NEW i \in DOMAIN tree
      PROVE  /\ Inputs(tree)[i] \in Seq(DOMAIN tree)
             /\ \A k \in 1..Len(Inputs(tree)[i]) : Inputs(tree)[i][k] \in 1..i - 1
  <2>1. Inputs(tree)[i] \in Seq(1..i - 1) /\ i \in Nat
    BY <1>1 DEF IsTree
  <2>2. \A k \in 1..Len(Inputs(tree)[i]) : Inputs(tree)[i][k] \in 1..i - 1
    BY <2>1, ElementOfSeq
  <2>3. 1..i - 1 \subseteq DOMAIN tree
    BY <1>1
  <2>4. Inputs(tree)[i] \in Seq(DOMAIN tree)
    BY <2>1, <2>3, SeqMonotonic
  <2>. QED
    BY <2>2, <2>4
<1>. QED
  BY <1>1, <1>2 DEF Ranked

\* What is under the first k inputs is the start of what is under more of them.
LEMMA UnderGrows ==
  ASSUME NEW inputs, NEW rank, NEW top, Ranked(inputs, rank, top), NEW i \in DOMAIN inputs,
         NEW k \in Nat, k + 1 <= Len(inputs[i])
  PROVE  LET O == PreOrders(inputs)
             j == inputs[i][k + 1]
             U(l) == Under(inputs, O, i, l)
         IN /\ j \in DOMAIN inputs
            /\ Len(U(k)) \in Nat /\ Len(U(k + 1)) \in Nat /\ Len(O[j]) \in Nat \ {0}
            /\ Len(U(k + 1)) = Len(U(k)) + Len(O[j])
            /\ \A m \in 1..Len(U(k)) : U(k + 1)[m] = U(k)[m]
            /\ \A m \in 1..Len(O[j]) : U(k + 1)[Len(U(k)) + m] = O[j][m]
<1>. DEFINE O == PreOrders(inputs)
            j == inputs[i][k + 1]
            u == Under(inputs, O, i, k)
            v == Under(inputs, O, i, k + 1)
<1>1. Len(inputs[i]) \in Nat /\ k \in 0..Len(inputs[i]) - 1 /\ k \in 0..Len(inputs[i])
      /\ k + 1 \in 0..Len(inputs[i]) /\ k + 1 \in 1..Len(inputs[i])
  <2>1. Len(inputs[i]) \in Nat
    BY UnderNext
  <2>. QED
    BY <2>1
<1>2. j \in DOMAIN inputs
  BY <1>1, UnderNext
<1>3. u \in Seq(DOMAIN inputs) /\ v \in Seq(DOMAIN inputs)
  BY <1>1, UnderNext
<1>4. v = u \o O[j]
  BY <1>1, UnderNext
<1>5. O[j] \in Seq(DOMAIN inputs) /\ Len(O[j]) \in Nat \ {0}
  <2>1. /\ O[j] \in Seq(DOMAIN inputs) /\ Len(O[j]) \in Nat
        /\ Len(O[j]) = 1 + Len(Under(inputs, O, j, Len(inputs[j])))
        /\ Len(Under(inputs, O, j, Len(inputs[j]))) \in Nat
    BY <1>2, PreOrderParts
  <2>. QED
    BY <2>1
<1>. HIDE DEF O, j, u, v
<1>6. Len(u) \in Nat /\ Len(v) \in Nat
  BY <1>3, LenProperties
<1>7. /\ Len(v) = Len(u) + Len(O[j])
      /\ \A p \in 1..Len(u) + Len(O[j]) : v[p] = IF p <= Len(u) THEN u[p] ELSE O[j][p - Len(u)]
  BY <1>3, <1>4, <1>5, ConcatProperties
<1>8. \A m \in 1..Len(u) : v[m] = u[m]
  BY <1>5, <1>6, <1>7
<1>9. ASSUME NEW m \in 1..Len(O[j]) PROVE v[Len(u) + m] = O[j][m]
  <2>1. Len(u) + m \in 1..Len(u) + Len(O[j]) /\ ~(Len(u) + m <= Len(u)) /\ (Len(u) + m) - Len(u) = m
    BY <1>5, <1>6
  <2>. QED
    BY <1>7, <2>1
<1>. QED
  BY <1>2, <1>5, <1>6, <1>7, <1>8, <1>9 DEF O, j, u, v

\* Under fewer inputs are no more nodes.
LEMMA UnderLen ==
  ASSUME NEW inputs, NEW rank, NEW top, Ranked(inputs, rank, top), NEW i \in DOMAIN inputs
  PROVE  LET L(k) == Len(Under(inputs, PreOrders(inputs), i, k))
         IN /\ L(0) = 0
            /\ \A k \in 0..Len(inputs[i]) : /\ L(k) \in Nat
                                            /\ \A l \in 0..k : L(l) \in Nat /\ L(l) <= L(k)
<1>. DEFINE L(k) == Len(Under(inputs, PreOrders(inputs), i, k))
            n == Len(inputs[i])
            T == {k \in Nat : k <= n => L(k) \in Nat /\ \A l \in 0..k : L(l) \in Nat /\ L(l) <= L(k)}
<1>0. n \in Nat /\ L(0) = 0
  BY UnderNext, EmptySeq
<1>1. 0 \in T
  BY <1>0
<1>2. ASSUME NEW k \in T PROVE k + 1 \in T
  <2>1. k \in Nat
    OBVIOUS
  <2>2. ASSUME k + 1 <= n PROVE L(k + 1) \in Nat /\ \A l \in 0..k + 1 : L(l) \in Nat /\ L(l) <= L(k + 1)
    <3>1. L(k) \in Nat /\ \A l \in 0..k : L(l) \in Nat /\ L(l) <= L(k)
      BY <1>0, <2>1, <2>2
    <3>2. L(k + 1) \in Nat /\ L(k) <= L(k + 1)
      <4>1. /\ Len(PreOrders(inputs)[inputs[i][k + 1]]) \in Nat \ {0} /\ L(k + 1) \in Nat
            /\ L(k + 1) = L(k) + Len(PreOrders(inputs)[inputs[i][k + 1]])
        BY <2>1, <2>2, UnderGrows
      <4>. HIDE DEF L
      <4>. QED
        BY <3>1, <4>1
    <3>. HIDE DEF L
    <3>3. ASSUME NEW l \in 0..k + 1 PROVE L(l) \in Nat /\ L(l) <= L(k + 1)
      <4>1. l \in 0..k \/ l = k + 1
        BY <2>1
      <4>2. CASE l \in 0..k
        BY <3>1, <3>2, <4>2
      <4>. QED
        BY <3>2, <4>1, <4>2
    <3>. QED
      BY <3>2, <3>3
  <2>. QED
    BY <2>1, <2>2
<1>3. T = Nat
  <2>. HIDE DEF T
  <2>1. T \in SUBSET Nat
    BY DEF T
  <2>. QED
    BY <1>1, <1>2, <2>1, Induct
<1>4. ASSUME NEW k \in 0..n PROVE L(k) \in Nat /\ \A l \in 0..k : L(l) \in Nat /\ L(l) <= L(k)
  <2>1. k \in T /\ k <= n
    <3>. HIDE DEF T
    <3>. QED
      BY <1>0, <1>3
  <2>. QED
    BY <2>1
<1>. QED
  BY <1>0, <1>4

-----------------------------------------------------------------------------
(* The walk adds to a graph of n nodes what there is room for, of the      *)
(* nodes below a node in preorder.                                         *)

\* The nodes of a tree from node i downwards, and from its first k inputs downwards.
Order(plan, i) == PreOrders(Inputs(plan))[i]

InputsOrder(plan, i, k) == Under(Inputs(plan), PreOrders(Inputs(plan)), i, k)

LEMMA TreeOrders ==
  ASSUME NEW plan, IsTree(plan), NEW i \in DOMAIN plan
  PROVE  LET n == Len(plan[i].inputs)
             u == InputsOrder(plan, i, n)
             L(k) == Len(InputsOrder(plan, i, k))
         IN /\ n \in Nat /\ DOMAIN plan[i].inputs = 1..n
            /\ \A k \in 1..n : plan[i].inputs[k] \in DOMAIN plan
            /\ Order(plan, i) \in Seq(DOMAIN plan) /\ u \in Seq(DOMAIN plan)
            /\ Len(Order(plan, i)) \in Nat /\ Len(u) \in Nat
            /\ Len(Order(plan, i)) = 1 + Len(u) /\ Order(plan, i)[1] = i
            /\ \A p \in 1..Len(u) : Order(plan, i)[1 + p] = u[p]
            /\ InputsOrder(plan, i, 0) = << >> /\ L(0) = 0
            /\ \A k \in 0..n : /\ InputsOrder(plan, i, k) \in Seq(DOMAIN plan) /\ L(k) \in Nat
                               /\ \A l \in 0..k : L(l) \in Nat /\ L(l) <= L(k)
<1>. DEFINE rank == [j \in DOMAIN plan |-> j]
<1>1. /\ Ranked(Inputs(plan), rank, Len(plan)) /\ DOMAIN Inputs(plan) = DOMAIN plan
      /\ Inputs(plan)[i] = plan[i].inputs /\ i \in DOMAIN Inputs(plan)
  BY TreeRanked
<1>. HIDE DEF rank
<1>2. LET n == Len(plan[i].inputs)
      IN /\ n \in Nat /\ DOMAIN plan[i].inputs = 1..n
         /\ \A k \in 1..n : plan[i].inputs[k] \in DOMAIN plan
         /\ InputsOrder(plan, i, 0) = << >>
         /\ \A k \in 0..n : InputsOrder(plan, i, k) \in Seq(DOMAIN plan)
  BY <1>1, UnderNext DEF InputsOrder
<1>3. LET u == InputsOrder(plan, i, Len(plan[i].inputs))
      IN /\ Order(plan, i) \in Seq(DOMAIN plan) /\ u \in Seq(DOMAIN plan)
         /\ Len(Order(plan, i)) \in Nat /\ Len(u) \in Nat
         /\ Len(Order(plan, i)) = 1 + Len(u) /\ Order(plan, i)[1] = i
         /\ \A p \in 1..Len(u) : Order(plan, i)[1 + p] = u[p]
  <2>. DEFINE inputs == Inputs(plan)
              O == PreOrders(inputs)
              under == Under(inputs, O, i, Len(inputs[i]))
  <2>1. /\ O[i] \in Seq(DOMAIN inputs) /\ under \in Seq(DOMAIN inputs)
        /\ Len(O[i]) \in Nat /\ Len(under) \in Nat
        /\ Len(O[i]) = 1 + Len(under) /\ O[i][1] = i
        /\ \A p \in 1..Len(under) : O[i][1 + p] = under[p]
    <3>1. Ranked(inputs, rank, Len(plan)) /\ i \in DOMAIN inputs
      BY <1>1
    <3>. HIDE DEF inputs
    <3>. QED
      BY <3>1, PreOrderParts
  <2>2. O[i] = Order(plan, i) /\ under = InputsOrder(plan, i, Len(plan[i].inputs))
    BY <1>1 DEF Order, InputsOrder
  <2>. HIDE DEF O, under
  <2>. QED
    BY <1>1, <2>1, <2>2
<1>4. LET L(k) == Len(InputsOrder(plan, i, k))
      IN /\ L(0) = 0
         /\ \A k \in 0..Len(plan[i].inputs) : /\ L(k) \in Nat
                                              /\ \A l \in 0..k : L(l) \in Nat /\ L(l) <= L(k)
  BY <1>1, UnderLen DEF InputsOrder
<1>. QED
  BY <1>2, <1>3, <1>4

LEMMA TreeOrdersNext ==
  ASSUME NEW plan, IsTree(plan), NEW i \in DOMAIN plan, NEW k \in Nat, k + 1 <= Len(plan[i].inputs)
  PROVE  LET j == plan[i].inputs[k + 1]
             u == InputsOrder(plan, i, k)
             v == InputsOrder(plan, i, k + 1)
         IN /\ j \in DOMAIN plan
            /\ Len(u) \in Nat /\ Len(v) \in Nat /\ Len(Order(plan, j)) \in Nat \ {0}
            /\ Len(v) = Len(u) + Len(Order(plan, j))
            /\ \A m \in 1..Len(u) : v[m] = u[m]
            /\ \A m \in 1..Len(Order(plan, j)) : v[Len(u) + m] = Order(plan, j)[m]
<1>. DEFINE rank == [j \in DOMAIN plan |-> j]
<1>1. /\ Ranked(Inputs(plan), rank, Len(plan)) /\ DOMAIN Inputs(plan) = DOMAIN plan
      /\ Inputs(plan)[i] = plan[i].inputs /\ i \in DOMAIN Inputs(plan)
  BY TreeRanked
<1>. HIDE DEF rank
<1>. DEFINE inputs == Inputs(plan)
            O == PreOrders(inputs)
            j == inputs[i][k + 1]
            u == Under(inputs, O, i, k)
            v == Under(inputs, O, i, k + 1)
<1>2. /\ j \in DOMAIN inputs
      /\ Len(u) \in Nat /\ Len(v) \in Nat /\ Len(O[j]) \in Nat \ {0}
      /\ Len(v) = Len(u) + Len(O[j])
      /\ \A m \in 1..Len(u) : v[m] = u[m]
      /\ \A m \in 1..Len(O[j]) : v[Len(u) + m] = O[j][m]
  <2>1. Ranked(inputs, rank, Len(plan)) /\ i \in DOMAIN inputs /\ k + 1 <= Len(inputs[i])
    BY <1>1
  <2>. HIDE DEF inputs
  <2>. QED
    BY <2>1, UnderGrows
<1>3. /\ O[j] = Order(plan, j) /\ j = plan[i].inputs[k + 1]
      /\ u = InputsOrder(plan, i, k) /\ v = InputsOrder(plan, i, k + 1)
  BY <1>1 DEF Order, InputsOrder
<1>. HIDE DEF O, j, u, v
<1>. QED
  BY <1>1, <1>2, <1>3

\* The numbers of nodes under the first inputs of a node.
LEMMA TreeOrdersLens ==
  ASSUME NEW plan, IsTree(plan), NEW i \in DOMAIN plan, NEW k \in Nat, k + 1 <= Len(plan[i].inputs)
  PROVE  LET o == Len(Order(plan, plan[i].inputs[k + 1]))
         IN /\ o \in Nat /\ o # 0
            /\ Len(InputsOrder(plan, i, k + 1)) = Len(InputsOrder(plan, i, k)) + o
BY TreeOrdersNext

Lesser(a, b) == IF a < b THEN a ELSE b

\* What there is room for behind the first a of a + b.
LEMMA LesserSplit ==
  ASSUME NEW a \in Nat, NEW b \in Nat, NEW room \in Nat, a <= room
  PROVE  Lesser(b, room - a) \in Nat /\ a + Lesser(b, room - a) = Lesser(a + b, room)
<1>1. CASE b < room - a
  <2>1. a + b < room
    BY ONLY <1>1, a \in Nat, b \in Nat, room \in Nat
  <2>2. Lesser(b, room - a) = b /\ Lesser(a + b, room) = a + b
    BY ONLY <1>1, <2>1 DEF Lesser
  <2>. QED
    BY <2>2
<1>2. CASE ~(b < room - a)
  <2>1. ~(a + b < room)
    BY ONLY <1>2, a \in Nat, b \in Nat, room \in Nat
  <2>2. Lesser(b, room - a) = room - a /\ Lesser(a + b, room) = room
    BY ONLY <1>2, <2>1 DEF Lesser
  <2>. QED
    BY <2>2
<1>. QED
  BY <1>1, <1>2

With(node, children) == [node EXCEPT !.children = children]

\* Node i of a plan and the first k of its inputs, if it has number id.
LinkTo(plan, i, id, k) ==
  id + 1 + Len(InputsOrder(plan, i, k - 1))

Links(plan, i, id, k) ==
  [l \in {m \in 1..k : LinkTo(plan, i, id, m) <= MaxNodes} |-> LinkTo(plan, i, id, l)]

NodeAt(plan, ctx, i, id) ==
  With(NodeOf(plan, i, ctx), Links(plan, i, id, Len(plan[i].inputs)))

\* What the walk adds, for node i and all below ...
Part(plan, ctx, i, n) ==
  LET order == Order(plan, i)
  IN [nodes |-> [m \in 1..Lesser(Len(order), MaxNodes - n) |-> NodeAt(plan, ctx, order[m], n + m)],
      truncated |-> n + Len(order) > MaxNodes]

\* ... and until it has been at the first k inputs of node i.
PartUpTo(plan, ctx, i, n, k) ==
  LET under == InputsOrder(plan, i, k)
  IN [nodes |-> [m \in 1..Lesser(1 + Len(under), MaxNodes - n) |->
                   IF m = 1 THEN With(NodeOf(plan, i, ctx), Links(plan, i, n + 1, k))
                   ELSE NodeAt(plan, ctx, under[m - 1], n + m)],
      truncated |-> n + (1 + Len(under)) > MaxNodes]

NodeFields == {"op", "children", "rows", "badge", "table", "sql", "provider", "sorted", "full",
               "reason"}

\* A node is made without children and counts.
LEMMA NodeParts ==
  ASSUME NEW plan, NEW i, NEW ctx
  PROVE  LET node == NodeOf(plan, i, ctx)
         IN /\ node = [x \in NodeFields |-> node[x]]
            /\ node.children = << >> /\ node.op = plan[i].op /\ node.rows = None
            /\ plan[i].op = "scan" =>
                 /\ node.table = plan[i].table
                 /\ node.sql = IF plan[i].table \in DOMAIN ctx.sqls THEN ctx.sqls[plan[i].table]
                               ELSE None
                 /\ node.provider = ProviderKind(plan[i].table, ctx.sqls, ctx.registrations)
            /\ plan[i].op # "scan" => node.sql = None
<1>. DEFINE node == NodeOf(plan, i, ctx)
            plain == Plain(plan, i, ctx.apps)
<1>1. /\ plain = [x \in NodeFields |-> plain[x]] /\ plain.sql = None
      /\ plain.children = << >> /\ plain.op = plan[i].op /\ plain.rows = None
  <2>1. plain = [x \in NodeFields |-> plain[x]]
    BY SMTT(30) DEF Plain, NodeFields
  <2>. QED
    BY <2>1 DEF Plain
<1>2. CASE plan[i].op = "scan"
  <2>1. node = [plain EXCEPT
               !.table = plan[i].table,
               !.sql = IF plan[i].table \in DOMAIN ctx.sqls THEN ctx.sqls[plan[i].table] ELSE None,
               !.provider = ProviderKind(plan[i].table, ctx.sqls, ctx.registrations),
               !.sorted = IF plan[i].table \in DOMAIN ctx.sqls /\ ctx.sqls[plan[i].table].ordered
                          THEN TRUE ELSE None,
               !.full = FullScan(plan[i], ctx.sqls),
               !.reason = PushdownReason(plan[i], ctx.sqls)]
    BY <1>2 DEF NodeOf
  <2>. HIDE DEF node, plain
  <2>. QED
    BY <1>1, <1>2, <2>1 DEF NodeFields, node
<1>3. CASE plan[i].op = "sort"
  <2>1. node = [plain EXCEPT !.sorted = SortPushed(plan, i, ctx.sqls)]
    BY <1>3 DEF NodeOf
  <2>. HIDE DEF node, plain
  <2>. QED
    BY <1>1, <1>3, <2>1 DEF NodeFields, node
<1>4. CASE plan[i].op # "scan" /\ plan[i].op # "sort"
  <2>1. node = plain
    BY <1>4 DEF NodeOf
  <2>. HIDE DEF node, plain
  <2>. QED
    BY <1>1, <1>4, <2>1 DEF node
<1>. QED
  BY <1>2, <1>3, <1>4

LEMMA WithParts ==
  ASSUME NEW plan, NEW i, NEW ctx, NEW c
  PROVE  LET node == NodeOf(plan, i, ctx)
         IN /\ With(node, c).children = c
            /\ \A x \in NodeFields \ {"children"} : With(node, c)[x] = node[x]
            /\ DOMAIN With(node, c) = NodeFields
            /\ \A d : With(With(node, c), d) = With(node, d)
            /\ With(node, << >>) = node
<1>. DEFINE node == NodeOf(plan, i, ctx)
<1>1. node = [x \in NodeFields |-> node[x]] /\ node.children = << >> /\ "children" \in NodeFields
  BY NodeParts DEF NodeFields
<1>. HIDE DEF node
<1>2. \A e : With(node, e) = [x \in NodeFields |-> IF x = "children" THEN e ELSE node[x]]
  BY <1>1 DEF With
<1>3. ASSUME NEW d PROVE With(With(node, c), d) = With(node, d)
  <2>. DEFINE w == With(node, c)
  <2>1. w = [x \in NodeFields |-> IF x = "children" THEN c ELSE node[x]]
    BY <1>2
  <2>2. With(w, d) = [x \in NodeFields |-> IF x = "children" THEN d ELSE w[x]]
    BY <1>1, <2>1 DEF With
  <2>3. [x \in NodeFields |-> IF x = "children" THEN d ELSE w[x]]
          = [x \in NodeFields |-> IF x = "children" THEN d ELSE node[x]]
    BY <2>1
  <2>. QED
    BY <1>2, <2>2, <2>3
<1>4. With(node, << >>) = node
  <2>1. [x \in NodeFields |-> IF x = "children" THEN << >> ELSE node[x]]
        = [x \in NodeFields |-> node[x]]
    BY <1>1
  <2>. QED
    BY <1>1, <1>2, <2>1
<1>5. \A x \in NodeFields \ {"children"} : With(node, c)[x] = node[x]
  BY <1>2
<1>6. With(node, c).children = c /\ DOMAIN With(node, c) = NodeFields
  BY <1>1, <1>2
<1>. QED
  BY <1>3, <1>4, <1>5, <1>6, Zenon DEF node

\* A link that leaves the graph is followed by links that leave it.
LEMMA LinksFull ==
  ASSUME NEW plan, IsTree(plan), NEW i \in DOMAIN plan, NEW n \in Nat, NEW k \in Nat,
         k + 1 <= Len(plan[i].inputs),
         n + (1 + Len(InputsOrder(plan, i, k))) >= MaxNodes
  PROVE  Links(plan, i, n + 1, k + 1) = Links(plan, i, n + 1, k)
<1>1. LinkTo(plan, i, n + 1, k + 1) > MaxNodes
  <2>1. LinkTo(plan, i, n + 1, k + 1)
          = (n + 1) + 1 + Len(InputsOrder(plan, i, k))
    <3>1. (k + 1) - 1 = k
      OBVIOUS
    <3>. QED
      BY <3>1 DEF LinkTo
  <2>2. Len(InputsOrder(plan, i, k)) \in Nat
    BY TreeOrders, TreeOrdersNext
  <2>. QED
    BY <2>1, <2>2, ExplainAssumption
<1>2. {m \in 1..k + 1 : LinkTo(plan, i, n + 1, m) <= MaxNodes}
        = {m \in 1..k : LinkTo(plan, i, n + 1, m) <= MaxNodes}
  <2>1. \A m \in 1..k + 1 : m \in 1..k \/ m = k + 1
    OBVIOUS
  <2>2. ~(LinkTo(plan, i, n + 1, k + 1) <= MaxNodes)
    <3>1. LinkTo(plan, i, n + 1, k + 1) \in Nat
      <4>1. Len(InputsOrder(plan, i, (k + 1) - 1)) \in Nat
        <5>1. (k + 1) - 1 = k
          OBVIOUS
        <5>. QED
          BY <5>1, TreeOrders, TreeOrdersNext
      <4>. QED
        BY <4>1 DEF LinkTo
    <3>. QED
      BY <1>1, <3>1, ExplainAssumption
  <2>3. 1..k \subseteq 1..k + 1
    OBVIOUS
  <2>. QED
    BY <2>1, <2>2, <2>3
<1>. QED
  BY <1>2 DEF Links

\* While there is room every input has a link.
LEMMA LinksMore ==
  ASSUME NEW plan, IsTree(plan), NEW i \in DOMAIN plan, NEW n \in Nat, NEW k \in Nat,
         k + 1 <= Len(plan[i].inputs),
         n + (1 + Len(InputsOrder(plan, i, k))) < MaxNodes
  PROVE  LET count == n + (1 + Len(InputsOrder(plan, i, k)))
         IN Links(plan, i, n + 1, k + 1) = Append(Links(plan, i, n + 1, k), count + 1)
<1>. DEFINE L(l) == Len(InputsOrder(plan, i, l))
            count == n + (1 + L(k))
            Link(m) == LinkTo(plan, i, n + 1, m)
<1>1. /\ k \in 0..Len(plan[i].inputs) /\ \A m \in 1..k + 1 : m - 1 \in 0..k
      /\ 1..k \subseteq 1..k + 1 /\ k + 1 \in 1..k + 1 /\ ~(k + 1 \in 1..k)
  <2>1. Len(plan[i].inputs) \in Nat
    BY TreeOrders
  <2>. QED
    BY <2>1
<1>2. L(k) \in Nat /\ \A l \in 0..k : L(l) \in Nat /\ L(l) <= L(k)
  BY <1>1, TreeOrders
<1>3. \A m \in 1..k + 1 : Link(m) = n + 1 + 1 + L(m - 1)
  BY DEF LinkTo
<1>4. \A m \in 1..k + 1 : Link(m) \in Nat /\ Link(m) <= MaxNodes
  <2>. HIDE DEF L, Link
  <2>. QED
    BY <1>1, <1>2, <1>3, ExplainAssumption DEF L
<1>5. Link(k + 1) = count + 1
  <2>1. (k + 1) - 1 = k
    OBVIOUS
  <2>. HIDE DEF L, Link
  <2>. QED
    BY <1>1, <1>2, <1>3, <2>1
<1>6. Links(plan, i, n + 1, k) = [l \in 1..k |-> Link(l)]
  BY <1>1, <1>4 DEF Links
<1>7. Links(plan, i, n + 1, k + 1) = [l \in 1..k + 1 |-> Link(l)]
  BY <1>4 DEF Links
<1>8. Append([l \in 1..k |-> Link(l)], count + 1) = [l \in 1..k + 1 |-> Link(l)]
  <2>. HIDE DEF Link, count
  <2>. QED
    BY <1>1, <1>5
<1>. QED
  BY <1>6, <1>7, <1>8

\* A node gets all of its links with its last input.
LEMMA PartUpToAll ==
  ASSUME NEW plan, IsTree(plan), NEW ctx, NEW i \in DOMAIN plan, NEW n \in Nat, n < MaxNodes
  PROVE  PartUpTo(plan, ctx, i, n, Len(plan[i].inputs)) = Part(plan, ctx, i, n)
<1>. DEFINE order == Order(plan, i)
            u == InputsOrder(plan, i, Len(plan[i].inputs))
            room == Lesser(1 + Len(u), MaxNodes - n)
<1>1. /\ Len(order) \in Nat /\ Len(u) \in Nat /\ Len(order) = 1 + Len(u) /\ order[1] = i
      /\ \A p \in 1..Len(u) : order[1 + p] = u[p]
  BY TreeOrders
<1>. HIDE DEF order, u
<1>2. ASSUME NEW m \in 1..room, m # 1 PROVE u[m - 1] = order[m]
  <2>1. m - 1 \in 1..Len(u) /\ 1 + (m - 1) = m
    BY <1>1, <1>2, ExplainAssumption DEF Lesser
  <2>. QED
    BY <1>1, <2>1
<1>3. [m \in 1..room |-> IF m = 1 THEN With(NodeOf(plan, i, ctx), Links(plan, i, n + 1, Len(plan[i].inputs)))
                         ELSE NodeAt(plan, ctx, u[m - 1], n + m)]
        = [m \in 1..room |-> NodeAt(plan, ctx, order[m], n + m)]
  BY <1>1, <1>2 DEF NodeAt
<1>4. PartUpTo(plan, ctx, i, n, Len(plan[i].inputs))
        = [nodes |-> [m \in 1..room |->
                        IF m = 1 THEN With(NodeOf(plan, i, ctx), Links(plan, i, n + 1, Len(plan[i].inputs)))
                        ELSE NodeAt(plan, ctx, u[m - 1], n + m)],
           truncated |-> n + (1 + Len(u)) > MaxNodes]
  BY DEF PartUpTo, u
<1>5. Part(plan, ctx, i, n)
        = [nodes |-> [m \in 1..room |-> NodeAt(plan, ctx, order[m], n + m)],
           truncated |-> n + (1 + Len(u)) > MaxNodes]
  BY <1>1 DEF Part, order
<1>. QED
  BY <1>3, <1>4, <1>5

\* At first there is the node alone.
LEMMA PartUpToNone ==
  ASSUME NEW plan, IsTree(plan), NEW ctx, NEW i \in DOMAIN plan, NEW n \in Nat, n < MaxNodes
  PROVE  PartUpTo(plan, ctx, i, n, 0) = [nodes |-> <<NodeOf(plan, i, ctx)>>, truncated |-> FALSE]
<1>. DEFINE u == InputsOrder(plan, i, 0)
            head == With(NodeOf(plan, i, ctx), Links(plan, i, n + 1, 0))
<1>1. u = << >> /\ Len(u) = 0
  BY TreeOrders
<1>2. Links(plan, i, n + 1, 0) = << >>
  BY DEF Links
<1>3. head = NodeOf(plan, i, ctx)
  BY <1>2, WithParts
<1>. HIDE DEF u, head
<1>4. Lesser(1 + Len(u), MaxNodes - n) = 1 /\ ~(n + (1 + Len(u)) > MaxNodes)
  BY <1>1, ExplainAssumption DEF Lesser
<1>5. [m \in 1..1 |-> IF m = 1 THEN head ELSE NodeAt(plan, ctx, u[m - 1], n + m)] = <<head>>
  OBVIOUS
<1>6. PartUpTo(plan, ctx, i, n, 0)
        = [nodes |-> [m \in 1..Lesser(1 + Len(u), MaxNodes - n) |->
                        IF m = 1 THEN head ELSE NodeAt(plan, ctx, u[m - 1], n + m)],
           truncated |-> n + (1 + Len(u)) > MaxNodes]
  BY DEF PartUpTo, u, head
<1>7. [m \in 1..Lesser(1 + Len(u), MaxNodes - n) |->
         IF m = 1 THEN head ELSE NodeAt(plan, ctx, u[m - 1], n + m)] = <<head>>
  BY ONLY <1>4, <1>5
<1>8. (n + (1 + Len(u)) > MaxNodes) = FALSE
  BY <1>4
<1>. QED
  BY ONLY <1>3, <1>6, <1>7, <1>8, Zenon

\* One input more, as AfterInputs has it.
OneMore(plan, ctx, below, i, n, before, k) ==
  LET count == n + Len(before.nodes)
      added == below[plan[i].inputs[k]][count]
  IN IF count >= MaxNodes THEN [before EXCEPT !.truncated = TRUE]
     ELSE [nodes |-> [before.nodes EXCEPT ![1].children = Append(@, count + 1)] \o added.nodes,
           truncated |-> before.truncated \/ added.truncated]

LEMMA Joined ==
  ASSUME NEW m \in Nat, NEW n \in Nat, NEW s, s = [x \in 1..m |-> s[x]],
         NEW t, t = [x \in 1..n |-> t[x]]
  PROVE  s \o t = [x \in 1..m + n |-> IF x <= m THEN s[x] ELSE t[x - m]]
<1>. DEFINE S == {s[x] : x \in 1..m} \cup {t[x] : x \in 1..n}
<1>1. s \in Seq(S) /\ t \in Seq(S)
  <2>1. s \in [1..m -> S] /\ t \in [1..n -> S]
    OBVIOUS
  <2>. HIDE DEF S
  <2>. QED
    BY <2>1, SeqDef
<1>2. Len(s) = m /\ Len(t) = n
  <2>1. DOMAIN s = 1..m /\ DOMAIN t = 1..n
    OBVIOUS
  <2>. QED
    BY <1>1, <2>1, LenProperties
<1>. HIDE DEF S
<1>3. /\ s \o t \in Seq(S) /\ Len(s \o t) = m + n
      /\ \A x \in 1..m + n : (s \o t)[x] = IF x <= m THEN s[x] ELSE t[x - m]
  <2>1. /\ s \o t \in Seq(S) /\ Len(s \o t) = Len(s) + Len(t)
        /\ \A x \in 1..Len(s) + Len(t) : (s \o t)[x] = IF x <= Len(s) THEN s[x] ELSE t[x - Len(s)]
    BY <1>1, ConcatProperties
  <2>. QED
    BY <1>2, <2>1
<1>4. s \o t = [x \in 1..m + n |-> (s \o t)[x]]
  BY <1>3, LenProperties
<1>. QED
  BY <1>3, <1>4

LEMMA Truncated ==
  ASSUME NEW a, NEW b, NEW c, NEW r, r = [nodes |-> a, truncated |-> b]
  PROVE  [r EXCEPT !.truncated = c] = [nodes |-> a, truncated |-> c]
<1>. DEFINE s == [r EXCEPT !.truncated = c]
<1>1. DOMAIN r = {"nodes", "truncated"}
  OBVIOUS
<1>2. DOMAIN s = DOMAIN r /\ s = [x \in DOMAIN r |-> IF x = "truncated" THEN c ELSE r[x]]
  OBVIOUS
<1>3. s = [x \in {"nodes", "truncated"} |-> IF x = "truncated" THEN c ELSE r[x]]
  BY <1>1, <1>2
<1>4. [nodes |-> a, truncated |-> c]
        = [x \in {"nodes", "truncated"} |-> IF x = "truncated" THEN c ELSE r[x]]
  OBVIOUS
<1>. QED
  BY <1>3, <1>4

\* When there is no room the next input adds nothing.
LEMMA OneMoreFull ==
  ASSUME NEW plan, IsTree(plan), NEW ctx, NEW below, NEW i \in DOMAIN plan,
         NEW n \in Nat, n < MaxNodes,
         NEW k \in Nat, k + 1 <= Len(plan[i].inputs),
         n + (1 + Len(InputsOrder(plan, i, k))) >= MaxNodes
  PROVE  OneMore(plan, ctx, below, i, n, PartUpTo(plan, ctx, i, n, k), k + 1)
           = PartUpTo(plan, ctx, i, n, k + 1)
<1>. DEFINE u == InputsOrder(plan, i, k)
            v == InputsOrder(plan, i, k + 1)
            room == MaxNodes - n
            F(w, l, m) == IF m = 1 THEN With(NodeOf(plan, i, ctx), Links(plan, i, n + 1, l))
                          ELSE NodeAt(plan, ctx, w[m - 1], n + m)
            p == [m \in 1..room |-> F(u, k, m)]
            q == [m \in 1..room |-> F(v, k + 1, m)]
<1>1. /\ Len(u) \in Nat /\ Len(v) \in Nat /\ Len(u) < Len(v)
      /\ \A m \in 1..Len(u) : v[m] = u[m]
  <2>1. /\ Len(u) \in Nat /\ Len(v) \in Nat /\ Len(Order(plan, plan[i].inputs[k + 1])) \in Nat \ {0}
        /\ Len(v) = Len(u) + Len(Order(plan, plan[i].inputs[k + 1]))
        /\ \A m \in 1..Len(u) : v[m] = u[m]
    BY TreeOrdersNext
  <2>. HIDE DEF u, v
  <2>. QED
    BY <2>1
<1>2. Links(plan, i, n + 1, k + 1) = Links(plan, i, n + 1, k)
  BY LinksFull
<1>3. /\ PartUpTo(plan, ctx, i, n, k)
           = [nodes |-> [m \in 1..Lesser(1 + Len(u), MaxNodes - n) |-> F(u, k, m)],
              truncated |-> n + (1 + Len(u)) > MaxNodes]
      /\ PartUpTo(plan, ctx, i, n, k + 1)
           = [nodes |-> [m \in 1..Lesser(1 + Len(v), MaxNodes - n) |-> F(v, k + 1, m)],
              truncated |-> n + (1 + Len(v)) > MaxNodes]
  BY DEF PartUpTo
<1>4. n + (1 + Len(u)) >= MaxNodes
  OBVIOUS
<1>. HIDE DEF u, v
<1>5. /\ Lesser(1 + Len(u), MaxNodes - n) = room /\ Lesser(1 + Len(v), MaxNodes - n) = room
      /\ (n + (1 + Len(v)) > MaxNodes) = TRUE /\ room \in Nat \ {0} /\ n + room = MaxNodes
      /\ \A m \in 1..room : m # 1 => m - 1 \in 1..Len(u)
  BY <1>1, <1>4, ExplainAssumption DEF Lesser
<1>6. q = p
  BY <1>1, <1>2, <1>5
<1>. HIDE DEF F, p, q
<1>. DEFINE some == n + (1 + Len(u)) > MaxNodes
<1>7. /\ PartUpTo(plan, ctx, i, n, k) = [nodes |-> p, truncated |-> some]
      /\ PartUpTo(plan, ctx, i, n, k + 1) = [nodes |-> p, truncated |-> TRUE]
  BY <1>3, <1>5, <1>6 DEF p, q
<1>. HIDE DEF some
<1>8. Len(p) = room
  BY <1>5 DEF p
<1>. DEFINE before == PartUpTo(plan, ctx, i, n, k)
            count == n + Len(before.nodes)
<1>9. count = MaxNodes /\ count >= MaxNodes
  <2>1. before.nodes = p
    BY <1>7
  <2>. HIDE DEF before, room
  <2>. QED
    <3>1. n + Len(before.nodes) = n + room
      BY ONLY <1>8, <2>1
    <3>2. n + room = MaxNodes /\ MaxNodes \in Nat
      BY <1>5, ExplainAssumption
    <3>. QED
      BY ONLY <3>1, <3>2
<1>10. [before EXCEPT !.truncated = TRUE] = [nodes |-> p, truncated |-> TRUE]
  <2>1. before = [nodes |-> p, truncated |-> some]
    BY ONLY <1>7, Zenon
  <2>. HIDE DEF before
  <2>. QED
    <3>1. \A c : [before EXCEPT !.truncated = c] = [nodes |-> p, truncated |-> c]
      BY ONLY <2>1, Truncated
    <3>. QED
      BY ONLY <3>1, Zenon
<1>11. OneMore(plan, ctx, below, i, n, before, k + 1) = [before EXCEPT !.truncated = TRUE]
  <2>. HIDE DEF before
  <2>. QED
    BY ONLY <1>9, Zenon DEF OneMore
<1>. QED
  BY <1>7, <1>10, <1>11

\* When there is room it adds its part, and has a link.
LEMMA OneMoreRoom ==
  ASSUME NEW plan, IsTree(plan), NEW ctx, NEW below, NEW i \in DOMAIN plan,
         NEW n \in Nat, n < MaxNodes,
         NEW k \in Nat, k + 1 <= Len(plan[i].inputs),
         n + (1 + Len(InputsOrder(plan, i, k))) < MaxNodes,
         \A m \in 0..MaxNodes :
           below[plan[i].inputs[k + 1]][m] = Part(plan, ctx, plan[i].inputs[k + 1], m)
  PROVE  OneMore(plan, ctx, below, i, n, PartUpTo(plan, ctx, i, n, k), k + 1)
           = PartUpTo(plan, ctx, i, n, k + 1)
<1>. DEFINE u == InputsOrder(plan, i, k)
            v == InputsOrder(plan, i, k + 1)
            j == plan[i].inputs[k + 1]
            o == Order(plan, j)
            count == n + (1 + Len(u))
            node == NodeOf(plan, i, ctx)
            F(w, l, m) == IF m = 1 THEN With(node, Links(plan, i, n + 1, l))
                          ELSE NodeAt(plan, ctx, w[m - 1], n + m)
            p == [m \in 1..1 + Len(u) |-> F(u, k, m)]
            r == [m \in 1..1 + Len(u) |-> F(v, k + 1, m)]
            a == [m \in 1..Lesser(Len(o), MaxNodes - count) |-> NodeAt(plan, ctx, o[m], count + m)]
            q == [m \in 1..Lesser(1 + Len(v), MaxNodes - n) |-> F(v, k + 1, m)]
<1>1. /\ Len(u) \in Nat /\ Len(v) \in Nat /\ Len(o) \in Nat \ {0} /\ Len(v) = Len(u) + Len(o)
      /\ \A m \in 1..Len(u) : v[m] = u[m]
      /\ \A m \in 1..Len(o) : v[Len(u) + m] = o[m]
  BY ONLY IsTree(plan), i \in DOMAIN plan, k \in Nat, k + 1 <= Len(plan[i].inputs), TreeOrdersNext
<1>2. Links(plan, i, n + 1, k + 1) = Append(Links(plan, i, n + 1, k), count + 1)
  BY LinksMore
<1>3. /\ PartUpTo(plan, ctx, i, n, k)
           = [nodes |-> [m \in 1..Lesser(1 + Len(u), MaxNodes - n) |-> F(u, k, m)],
              truncated |-> n + (1 + Len(u)) > MaxNodes]
      /\ PartUpTo(plan, ctx, i, n, k + 1) = [nodes |-> q, truncated |-> n + (1 + Len(v)) > MaxNodes]
  BY DEF PartUpTo
<1>4. n + (1 + Len(u)) < MaxNodes
  OBVIOUS
<1>5. Part(plan, ctx, j, count) = [nodes |-> a, truncated |-> count + Len(o) > MaxNodes]
  BY DEF Part
<1>. HIDE DEF u, v, j, o, node
<1>6. /\ Lesser(1 + Len(u), MaxNodes - n) = 1 + Len(u) /\ (n + (1 + Len(u)) > MaxNodes) = FALSE
      /\ count \in 0..MaxNodes /\ count < MaxNodes /\ MaxNodes \in Nat /\ count \in Nat
      /\ (n + (1 + Len(v)) > MaxNodes) = (count + Len(o) > MaxNodes)
  BY <1>1, <1>4, ExplainAssumption
  DEF Lesser
<1>7. PartUpTo(plan, ctx, i, n, k) = [nodes |-> p, truncated |-> FALSE]
  <2>. HIDE DEF F
  <2>. QED
    BY <1>3, <1>6
<1>8. Len(p) = 1 + Len(u)
  <2>. HIDE DEF F
  <2>. QED
    BY <1>1
<1>9. below[plan[i].inputs[k + 1]][count] = [nodes |-> a, truncated |-> count + Len(o) > MaxNodes]
  <2>1. below[plan[i].inputs[k + 1]][count] = Part(plan, ctx, j, count)
    <3>. HIDE DEF count
    <3>. QED
      BY <1>6 DEF j
  <2>. QED
    BY <1>5, <2>1
<1>10. [p EXCEPT ![1].children = Append(@, count + 1)] = r
  <2>1. p[1] = With(node, Links(plan, i, n + 1, k)) /\ 1 \in 1..1 + Len(u)
    BY <1>1
  <2>2. p[1].children = Links(plan, i, n + 1, k)
    BY <2>1, WithParts DEF node
  <2>3. [p EXCEPT ![1].children = Append(@, count + 1)]
          = [p EXCEPT ![1] = With(p[1], Append(p[1].children, count + 1))]
    BY DEF With
  <2>4. With(p[1], Append(p[1].children, count + 1)) = With(node, Links(plan, i, n + 1, k + 1))
    <3>1. \A d : With(With(node, Links(plan, i, n + 1, k)), d) = With(node, d)
      BY WithParts DEF node
    <3>. QED
      BY <1>2, <2>1, <2>2, <3>1, Zenon
  <2>5. ASSUME NEW m \in 1..1 + Len(u), m # 1 PROVE v[m - 1] = u[m - 1]
    <3>1. m - 1 \in 1..Len(u)
      BY ONLY <1>1, <2>5
    <3>. QED
      BY ONLY <1>1, <3>1
  <2>6. r = [m \in 1..1 + Len(u) |-> IF m = 1 THEN With(node, Links(plan, i, n + 1, k + 1)) ELSE p[m]]
    BY <2>5
  <2>7. [p EXCEPT ![1] = With(node, Links(plan, i, n + 1, k + 1))]
          = [m \in 1..1 + Len(u) |-> IF m = 1 THEN With(node, Links(plan, i, n + 1, k + 1)) ELSE p[m]]
    <3>. HIDE DEF F
    <3>. QED
      OBVIOUS
  <2>. HIDE DEF p, r
  <2>. QED
    BY <2>3, <2>4, <2>6, <2>7, Zenon
<1>11. r \o a = q
  <2>. DEFINE len == Lesser(Len(o), MaxNodes - count)
  <2>1. len \in Nat /\ 1 + Len(u) \in Nat /\ len <= Len(o)
        /\ Lesser(1 + Len(v), MaxNodes - n) = (1 + Len(u)) + len
    <3>1. n \in Nat
      OBVIOUS
    <3>2. /\ Len(u) \in Nat /\ Len(o) \in Nat /\ MaxNodes \in Nat /\ Len(v) = Len(u) + Len(o)
          /\ n + (1 + Len(u)) < MaxNodes
      BY <1>1, <1>4, <1>6
    <3>3. CASE Len(o) < MaxNodes - count
      <4>1. len = Len(o)
        BY <3>3 DEF Lesser
      <4>2. 1 + Len(v) < MaxNodes - n
        BY ONLY <3>1, <3>2, <3>3
      <4>3. Lesser(1 + Len(v), MaxNodes - n) = 1 + Len(v)
        BY <4>2 DEF Lesser
      <4>. QED
        BY ONLY <3>1, <3>2, <4>1, <4>3
    <3>4. CASE ~(Len(o) < MaxNodes - count)
      <4>1. len = MaxNodes - count
        BY <3>4 DEF Lesser
      <4>2. ~(1 + Len(v) < MaxNodes - n)
        BY ONLY <3>1, <3>2, <3>4
      <4>3. Lesser(1 + Len(v), MaxNodes - n) = MaxNodes - n
        BY <4>2 DEF Lesser
      <4>. QED
        BY ONLY <3>1, <3>2, <3>4, <4>1, <4>3
    <3>. QED
      BY <3>3, <3>4
  <2>. HIDE DEF F, len
  <2>2. r = [m \in 1..1 + Len(u) |-> r[m]] /\ a = [m \in 1..len |-> a[m]]
    BY DEF len
  <2>3. ASSUME NEW m \in 1..(1 + Len(u)) + len, m > 1 + Len(u)
        PROVE a[m - (1 + Len(u))] = q[m]
    <3>. DEFINE x == m - (1 + Len(u))
    <3>1. x \in 1..len /\ x \in 1..Len(o) /\ m # 1 /\ Len(u) + x = m - 1 /\ count + x = n + m
      BY ONLY n \in Nat, <1>1, <2>1, <2>3
    <3>2. a[x] = NodeAt(plan, ctx, o[x], count + x)
      BY <3>1 DEF len
    <3>3. q[m] = NodeAt(plan, ctx, v[m - 1], n + m)
      BY <2>1, <3>1 DEF F
    <3>4. v[m - 1] = o[x]
      BY <1>1, <3>1
    <3>. HIDE DEF a, q, x
    <3>. QED
      BY <3>1, <3>2, <3>3, <3>4 DEF x
  <2>4. ASSUME NEW m \in 1..1 + Len(u) PROVE r[m] = q[m]
    <3>1. m \in 1..Lesser(1 + Len(v), MaxNodes - n)
      BY <1>1, <2>1
    <3>. QED
      BY <3>1
  <2>5. q = [m \in 1..(1 + Len(u)) + len |-> q[m]]
    BY <2>1
  <2>. HIDE DEF r, a, q
  <2>6. r \o a = [m \in 1..(1 + Len(u)) + len |->
                   IF m <= 1 + Len(u) THEN r[m] ELSE a[m - (1 + Len(u))]]
    BY ONLY <2>1, <2>2, Joined
  <2>7. ASSUME NEW m \in 1..(1 + Len(u)) + len
        PROVE  (IF m <= 1 + Len(u) THEN r[m] ELSE a[m - (1 + Len(u))]) = q[m]
    <3>1. CASE m <= 1 + Len(u)
      <4>1. m \in 1..1 + Len(u)
        BY <2>1, <3>1
      <4>. QED
        BY <2>4, <3>1, <4>1
    <3>2. CASE ~(m <= 1 + Len(u))
      <4>1. m > 1 + Len(u)
        BY <2>1, <3>2
      <4>. QED
        BY <2>3, <3>2, <4>1
    <3>. QED
      BY <3>1, <3>2
  <2>. QED
    BY <2>5, <2>6, <2>7
<1>. HIDE DEF p, q, r, a, F
<1>. DEFINE before == PartUpTo(plan, ctx, i, n, k)
            added == below[plan[i].inputs[k + 1]][count]
<1>12. before.nodes = p /\ before.truncated = FALSE
  BY <1>7
<1>13. added.nodes = a /\ added.truncated = (count + Len(o) > MaxNodes)
  BY <1>9
<1>. HIDE DEF before, added
<1>14. n + Len(before.nodes) = count /\ ~(count >= MaxNodes)
  <2>1. Len(before.nodes) = 1 + Len(u)
    BY ONLY <1>8, <1>12
  <2>2. count \in Nat /\ count < MaxNodes /\ MaxNodes \in Nat
    BY ONLY <1>6
  <2>3. ~(count >= MaxNodes)
    <3>. HIDE DEF count
    <3>. QED
      BY ONLY <2>2
  <2>. QED
    BY ONLY <2>1, <2>3
<1>15. OneMore(plan, ctx, below, i, n, before, k + 1)
         = [nodes |-> [before.nodes EXCEPT ![1].children = Append(@, count + 1)] \o added.nodes,
            truncated |-> before.truncated \/ added.truncated]
  <2>. HIDE DEF count
  <2>. QED
    BY ONLY <1>14, Zenon DEF OneMore, added
<1>16. OneMore(plan, ctx, below, i, n, before, k + 1)
         = [nodes |-> r \o a, truncated |-> count + Len(o) > MaxNodes]
  <2>. HIDE DEF count
  <2>1. [before.nodes EXCEPT ![1].children = Append(@, count + 1)] = r
    BY ONLY <1>10, <1>12, Zenon
  <2>2. (before.truncated \/ added.truncated) = (count + Len(o) > MaxNodes)
    <3>. DEFINE some == count + Len(o) > MaxNodes
    <3>1. some \in BOOLEAN
      OBVIOUS
    <3>. HIDE DEF some
    <3>2. (before.truncated \/ added.truncated) = some
      BY <1>12, <1>13, <3>1 DEF some
    <3>. QED
      BY <3>2 DEF some
  <2>. QED
    BY ONLY <1>13, <1>15, <2>1, <2>2
<1>. QED
  BY <1>3, <1>6, <1>11, <1>16 DEF before

LEMMA AfterInputsIs ==
  ASSUME NEW plan, IsTree(plan), NEW ctx, NEW below, NEW i \in DOMAIN plan,
         NEW n \in Nat, n < MaxNodes,
         \A k \in 1..Len(plan[i].inputs), m \in 0..MaxNodes :
           below[plan[i].inputs[k]][m] = Part(plan, ctx, plan[i].inputs[k], m)
  PROVE  AfterInputs(plan, ctx, below, i, n)[Len(plan[i].inputs)] = Part(plan, ctx, i, n)
<1>. DEFINE top == Len(plan[i].inputs)
            first == [nodes |-> <<NodeOf(plan, i, ctx)>>, truncated |-> FALSE]
            More(before, k) == OneMore(plan, ctx, below, i, n, before, k)
            IsA(g) == g = [k \in 0..top |-> IF k = 0 THEN first ELSE More(g[k - 1], k)]
            after == CHOOSE g : IsA(g)
            P(k) == PartUpTo(plan, ctx, i, n, k)
            parts == [k \in 0..top |-> P(k)]
            T == {k \in Nat : k <= top => after[k] = P(k)}
<1>1. top \in Nat
  BY TreeOrders
<1>2. P(0) = first
  BY PartUpToNone
<1>3. ASSUME NEW k \in Nat, k + 1 <= top PROVE More(P(k), k + 1) = P(k + 1)
  <2>1. k + 1 \in 1..top
    BY <1>1, <1>3
  <2>2. \A m \in 0..MaxNodes :
          below[plan[i].inputs[k + 1]][m] = Part(plan, ctx, plan[i].inputs[k + 1], m)
    BY <2>1
  <2>3. Len(InputsOrder(plan, i, k)) \in Nat
    BY <1>3, TreeOrdersNext
  <2>4. CASE n + (1 + Len(InputsOrder(plan, i, k))) >= MaxNodes
    BY <1>3, <2>4, OneMoreFull
  <2>5. CASE n + (1 + Len(InputsOrder(plan, i, k))) < MaxNodes
    BY <1>3, <2>2, <2>5, OneMoreRoom
  <2>. QED
    BY <2>3, <2>4, <2>5, ExplainAssumption
<1>. HIDE DEF P, More, first, top
<1>4. IsA(parts)
  <2>1. ASSUME NEW k \in 0..top PROVE P(k) = IF k = 0 THEN first ELSE More(parts[k - 1], k)
    <3>1. CASE k = 0
      BY <1>2, <3>1
    <3>2. CASE k # 0
      <4>1. k - 1 \in Nat /\ k - 1 \in 0..top /\ (k - 1) + 1 = k /\ (k - 1) + 1 <= top
        BY <1>1, <3>2
      <4>2. More(P(k - 1), (k - 1) + 1) = P((k - 1) + 1)
        BY <1>3, <4>1
      <4>. QED
        BY <3>2, <4>1, <4>2
    <3>. QED
      BY <3>1, <3>2
  <2>. QED
    BY <2>1
<1>5. IsA(after)
  <2>. HIDE DEF parts, IsA
  <2>. QED
    BY <1>4, Zenon
<1>6. AfterInputs(plan, ctx, below, i, n) = after
  BY DEF AfterInputs, OneMore, More, first, top
<1>. HIDE DEF after
<1>7. 0 \in T
  BY <1>1, <1>2, <1>5
<1>8. ASSUME NEW k \in T PROVE k + 1 \in T
  <2>1. k \in Nat
    OBVIOUS
  <2>2. ASSUME k + 1 <= top PROVE after[k + 1] = P(k + 1)
    <3>1. k + 1 \in 0..top /\ k + 1 # 0 /\ (k + 1) - 1 = k /\ k <= top
      BY <1>1, <2>1, <2>2
    <3>2. after[k + 1] = More(after[(k + 1) - 1], k + 1)
      BY <1>5, <3>1
    <3>3. after[k] = P(k)
      BY <3>1
    <3>. QED
      BY <1>3, <2>1, <2>2, <3>1, <3>2, <3>3
  <2>. QED
    BY <2>1, <2>2
<1>9. T = Nat
  <2>. HIDE DEF T
  <2>1. T \in SUBSET Nat
    BY DEF T
  <2>. QED
    BY <1>7, <1>8, <2>1, Induct
<1>10. after[top] = P(top)
  <2>1. top \in T
    <3>. HIDE DEF T
    <3>. QED
      BY <1>1, <1>9
  <2>. QED
    BY <1>1, <2>1
<1>. QED
  BY <1>6, <1>10, PartUpToAll DEF P, top

LEMMA AddedIs ==
  ASSUME NEW plan, IsTree(plan), NEW ctx, NEW below, NEW i \in DOMAIN plan, NEW n \in 0..MaxNodes,
         \A k \in 1..Len(plan[i].inputs), m \in 0..MaxNodes :
           below[plan[i].inputs[k]][m] = Part(plan, ctx, plan[i].inputs[k], m)
  PROVE  Added(plan, ctx, below, i, n) = Part(plan, ctx, i, n)
<1>0. n \in Nat /\ (n < MaxNodes \/ n = MaxNodes) /\ MaxNodes \in Nat
  BY ExplainAssumption
<1>1. CASE n < MaxNodes
  <2>1. ~(n >= MaxNodes)
    BY <1>0, <1>1
  <2>. QED
    BY <1>0, <1>1, <2>1, AfterInputsIs DEF Added
<1>2. CASE n = MaxNodes
  <2>. DEFINE o == Order(plan, i)
  <2>1. Len(o) \in Nat /\ Len(o) # 0
    <3>1. Len(InputsOrder(plan, i, Len(plan[i].inputs))) \in Nat
          /\ Len(o) = 1 + Len(InputsOrder(plan, i, Len(plan[i].inputs)))
      BY TreeOrders
    <3>. QED
      BY <3>1
  <2>2. Part(plan, ctx, i, n)
          = [nodes |-> [m \in 1..Lesser(Len(o), MaxNodes - n) |-> NodeAt(plan, ctx, o[m], n + m)],
             truncated |-> n + Len(o) > MaxNodes]
    BY DEF Part
  <2>. HIDE DEF o
  <2>3. Lesser(Len(o), MaxNodes - n) = 0 /\ (n + Len(o) > MaxNodes) = TRUE
    BY <1>0, <1>2, <2>1 DEF Lesser
  <2>4. [m \in 1..Lesser(Len(o), MaxNodes - n) |-> NodeAt(plan, ctx, o[m], n + m)] = << >>
    BY <2>3
  <2>5. Part(plan, ctx, i, n) = [nodes |-> << >>, truncated |-> TRUE]
    BY ONLY <2>2, <2>3, <2>4, Zenon
  <2>6. n >= MaxNodes
    BY <1>0, <1>2
  <2>7. Added(plan, ctx, below, i, n) = [nodes |-> << >>, truncated |-> TRUE]
    BY <2>6, Zenon DEF Added
  <2>. QED
    BY <2>5, <2>7
<1>. QED
  BY <1>0, <1>1, <1>2

LEMMA TreeInputs ==
  ASSUME NEW plan, IsTree(plan)
  PROVE  /\ DOMAIN plan = 1..Len(plan) /\ Len(plan) \in Nat
         /\ \A i \in DOMAIN plan : \A k \in 1..Len(plan[i].inputs) :
              plan[i].inputs[k] \in DOMAIN plan /\ plan[i].inputs[k] < i
<1>1. DOMAIN plan = 1..Len(plan) /\ Len(plan) \in Nat
  BY TreeRanked
<1>2. ASSUME NEW i \in DOMAIN plan, NEW k \in 1..Len(plan[i].inputs)
      PROVE  plan[i].inputs[k] \in 1..i - 1
  <2>1. plan[i].inputs \in Seq(1..i - 1)
    BY DEF IsTree
  <2>. QED
    BY <2>1, ElementOfSeq
<1>. QED
  BY <1>1, <1>2

\* From every node, to a graph of any size, the walk adds that node's part.
LEMMA TraverseIs ==
  ASSUME NEW plan, IsTree(plan), NEW ctx
  PROVE  \A i \in DOMAIN plan, n \in 0..MaxNodes : Traverse(plan, ctx)[i][n] = Part(plan, ctx, i, n)
<1>. DEFINE V == DOMAIN plan
            IsW(w) == w = [i \in V |-> [n \in 0..MaxNodes |-> Added(plan, ctx, w, i, n)]]
            walk == CHOOSE w : IsW(w)
            parts == [i \in V |-> [n \in 0..MaxNodes |-> Part(plan, ctx, i, n)]]
            T == {k \in Nat : \A i \in V : i <= k => \A n \in 0..MaxNodes : walk[i][n] = Part(plan, ctx, i, n)}
<1>1. /\ V = 1..Len(plan) /\ Len(plan) \in Nat
      /\ \A i \in V : \A k \in 1..Len(plan[i].inputs) : plan[i].inputs[k] \in V /\ plan[i].inputs[k] < i
  BY TreeInputs
<1>2. IsW(parts)
  <2>1. ASSUME NEW i \in V, NEW n \in 0..MaxNodes
        PROVE  Part(plan, ctx, i, n) = Added(plan, ctx, parts, i, n)
    <3>1. \A k \in 1..Len(plan[i].inputs), m \in 0..MaxNodes :
            parts[plan[i].inputs[k]][m] = Part(plan, ctx, plan[i].inputs[k], m)
      BY <1>1
    <3>. HIDE DEF parts
    <3>. QED
      BY <3>1, AddedIs
  <2>2. parts = [i \in V |-> [n \in 0..MaxNodes |-> Added(plan, ctx, parts, i, n)]]
    BY <2>1
  <2>. HIDE DEF parts
  <2>. QED
    BY <2>2
<1>3. IsW(walk)
  <2>. HIDE DEF parts, IsW
  <2>. QED
    BY <1>2, Zenon
<1>4. Traverse(plan, ctx) = walk
  BY DEF Traverse
<1>. HIDE DEF walk
<1>5. 0 \in T
  BY <1>1
<1>6. ASSUME NEW k \in T PROVE k + 1 \in T
  <2>1. k \in Nat /\ \A i \in V : i <= k => \A n \in 0..MaxNodes : walk[i][n] = Part(plan, ctx, i, n)
    OBVIOUS
  <2>2. ASSUME NEW i \in V, i <= k + 1, NEW n \in 0..MaxNodes
        PROVE  walk[i][n] = Part(plan, ctx, i, n)
    <3>1. \A l \in 1..Len(plan[i].inputs) : plan[i].inputs[l] \in V /\ plan[i].inputs[l] <= k
      <4>1. \A l \in 1..Len(plan[i].inputs) : plan[i].inputs[l] \in V /\ plan[i].inputs[l] < i
        BY <1>1
      <4>. QED
        BY <1>1, <2>1, <2>2, <4>1
    <3>2. \A l \in 1..Len(plan[i].inputs), m \in 0..MaxNodes :
            walk[plan[i].inputs[l]][m] = Part(plan, ctx, plan[i].inputs[l], m)
      BY <2>1, <3>1
    <3>3. Added(plan, ctx, walk, i, n) = Part(plan, ctx, i, n)
      BY <3>2, AddedIs
    <3>4. walk[i][n] = Added(plan, ctx, walk, i, n)
      <4>1. walk[i] = [m \in 0..MaxNodes |-> Added(plan, ctx, walk, i, m)]
        BY ONLY <1>3, i \in V, Zenon
      <4>. QED
        BY ONLY <4>1, n \in 0..MaxNodes, Zenon
    <3>. QED
      BY <3>3, <3>4
  <2>. QED
    BY <2>1, <2>2
<1>7. T = Nat
  <2>. HIDE DEF T
  <2>1. T \in SUBSET Nat
    BY DEF T
  <2>. QED
    BY <1>5, <1>6, <2>1, Induct
<1>8. ASSUME NEW i \in V, NEW n \in 0..MaxNodes PROVE walk[i][n] = Part(plan, ctx, i, n)
  <2>1. i \in T /\ i <= i
    <3>. HIDE DEF T
    <3>. QED
      BY <1>1, <1>7
  <2>. QED
    BY <2>1
<1>. QED
  BY <1>4, <1>8

\* The graph is the part of the root.
LEMMA GraphIs ==
  ASSUME NEW plan, IsTree(plan), NEW ctx
  PROVE  LET order == PreOrder(plan)
             len == Lesser(Len(order), MaxNodes)
             graph == Graph(plan, ctx)
         IN /\ order \in Seq(DOMAIN plan) /\ len \in Nat /\ len <= Len(order) /\ Len(order) \in Nat \ {0}
            /\ order = Order(plan, Len(plan))
            /\ graph.nodes = [m \in 1..len |-> NodeAt(plan, ctx, order[m], m)]
            /\ graph.truncated = (Len(order) > MaxNodes)
            /\ graph = [nodes |-> graph.nodes, truncated |-> graph.truncated]
            /\ Len(graph.nodes) = len /\ DOMAIN graph.nodes = 1..len
<1>. DEFINE order == PreOrder(plan)
            len == Lesser(Len(order), MaxNodes)
            nodes == [m \in 1..len |-> NodeAt(plan, ctx, order[m], m)]
<1>1. Len(plan) \in DOMAIN plan /\ 0 \in 0..MaxNodes /\ MaxNodes \in Nat
  <2>1. Len(plan) \in DOMAIN plan
    BY ONLY IsTree(plan), TreeRanked, Zenon
  <2>. QED
    BY <2>1, ExplainAssumption
<1>2. Graph(plan, ctx) = Part(plan, ctx, Len(plan), 0)
  BY <1>1, TraverseIs DEF Graph
<1>3. order = Order(plan, Len(plan))
  BY DEF PreOrder, Order
<1>4. order \in Seq(DOMAIN plan) /\ Len(order) \in Nat \ {0}
  <2>1. /\ order \in Seq(DOMAIN plan)
        /\ Len(order) = 1 + Len(InputsOrder(plan, Len(plan), Len(plan[Len(plan)].inputs)))
        /\ Len(InputsOrder(plan, Len(plan), Len(plan[Len(plan)].inputs))) \in Nat
    BY <1>1, <1>3, TreeOrders
  <2>. QED
    BY <2>1
<1>. HIDE DEF order
<1>5. len \in Nat /\ len <= Len(order)
  BY <1>1, <1>4 DEF Lesser
<1>6. /\ Lesser(Len(order), MaxNodes - 0) = len
      /\ \A m \in 1..len : 0 + m = m
      /\ (0 + Len(order) > MaxNodes) = (Len(order) > MaxNodes)
  <2>1. MaxNodes - 0 = MaxNodes /\ 0 + Len(order) = Len(order)
    BY <1>1, <1>4
  <2>2. \A m \in 1..len : 0 + m = m
    BY <1>5
  <2>. QED
    BY ONLY <2>1, <2>2, Zenon
<1>7. Part(plan, ctx, Len(plan), 0)
        = [nodes |-> [m \in 1..Lesser(Len(order), MaxNodes - 0) |-> NodeAt(plan, ctx, order[m], 0 + m)],
           truncated |-> 0 + Len(order) > MaxNodes]
  BY <1>3, Zenon DEF Part
<1>8. [m \in 1..Lesser(Len(order), MaxNodes - 0) |-> NodeAt(plan, ctx, order[m], 0 + m)] = nodes
  BY <1>6
<1>9. Graph(plan, ctx) = [nodes |-> nodes, truncated |-> Len(order) > MaxNodes]
  BY ONLY <1>2, <1>6, <1>7, <1>8, Zenon
<1>10. Len(nodes) = len /\ DOMAIN nodes = 1..len
  BY <1>5
<1>. HIDE DEF nodes
<1>11. Graph(plan, ctx).nodes = nodes /\ Graph(plan, ctx).truncated = (Len(order) > MaxNodes)
  BY <1>9
<1>12. Graph(plan, ctx)
      = [nodes |-> Graph(plan, ctx).nodes, truncated |-> Graph(plan, ctx).truncated]
  <2>. DEFINE some == Len(order) > MaxNodes
  <2>1. Graph(plan, ctx) = [nodes |-> nodes, truncated |-> some]
    BY <1>9
  <2>. HIDE DEF some
  <2>. QED
    BY ONLY <2>1
<1>. QED
  BY <1>3, <1>4, <1>5, <1>10, <1>11, <1>12 DEF order, nodes

-----------------------------------------------------------------------------
(* What is kept of an explain.                                             *)

\* What is known of the cards that there are when an answer is about query q.
CardsOf(q, registrations, cards) ==
  \A table \in DOMAIN cards :
    /\ table \in TablesRead[q] /\ table[1] \in DOMAIN registrations
    /\ cards[table].provider = registrations[table[1]].kind

RequestFields == {"step", "q", "analyze", "physical", "registrations", "cards"}

RequestInv ==
  request # None =>
    /\ request = [x \in RequestFields |-> request[x]]
    /\ request.q \in DOMAIN Queries
    /\ request.step = "cards" => CardsOf(request.q, request.registrations, request.cards)

\* A graph is shown with the cards of all the tables that can have one.
AnswerInv ==
  HasGraph =>
    /\ answer.q \in DOMAIN Queries
    /\ CardsOf(answer.q, answer.registrations, answer.cards)
    /\ \A table \in TablesRead[answer.q] :
         table[1] \in DOMAIN answer.registrations => table \in DOMAIN answer.cards

ExplainInv == RequestInv /\ AnswerInv

LEMMA ExplainInvInit == Init => ExplainInv
BY DEF Init, ExplainInv, RequestInv, AnswerInv, HasGraph

LEMMA ErrorIsNoGraph ==
  ASSUME NEW code, Answer(NoAnswer(code)) PROVE ExplainInv'
BY DEF Answer, NoAnswer, ExplainInv, RequestInv, AnswerInv, HasGraph

\* A step of the handler that comes before the cards, or keeps them.
LEMMA StepKeeps ==
  ASSUME ExplainInv, request # None, NEW step, step # "cards", NEW physical,
         request' = [[request EXCEPT !.step = step] EXCEPT !.physical = physical],
         UNCHANGED answer
  PROVE  ExplainInv'
<1>1. request = [x \in RequestFields |-> request[x]] /\ request.q \in DOMAIN Queries
  BY DEF ExplainInv, RequestInv
<1>2. /\ request' = [x \in RequestFields |-> request'[x]]
      /\ request'.q = request.q /\ request'.step = step
  BY <1>1 DEF RequestFields
<1>3. RequestInv'
  BY <1>1, <1>2 DEF RequestInv
<1>4. AnswerInv'
  BY DEF ExplainInv, AnswerInv, HasGraph
<1>. QED
  BY <1>3, <1>4 DEF ExplainInv

LEMMA CardKeeps ==
  ASSUME ExplainInv, request # None, request.step = "cards", NEW table \in Pending, NEW explain,
         request' = WithCard(table, explain), UNCHANGED answer
  PROVE  ExplainInv'
<1>. DEFINE card == [provider |-> Registrations[table[1]].kind, explain |-> explain]
<1>1. /\ request = [x \in RequestFields |-> request[x]] /\ request.q \in DOMAIN Queries
      /\ CardsOf(request.q, request.registrations, request.cards)
  BY DEF ExplainInv, RequestInv
<1>2. /\ request' = [x \in RequestFields |-> request'[x]]
      /\ request'.q = request.q /\ request'.registrations = request.registrations
      /\ request'.cards = Updated(request.cards, table, card)
  BY <1>1 DEF WithCard, RequestFields
<1>3. /\ table \in TablesRead[request.q] /\ table[1] \in DOMAIN request.registrations
      /\ card.provider = request.registrations[table[1]].kind
  BY DEF Pending, CardTables, Registrations
<1>. HIDE DEF card
<1>4. CardsOf(request.q, request.registrations, Updated(request.cards, table, card))
  BY <1>1, <1>3 DEF CardsOf, Updated
<1>5. RequestInv'
  BY <1>1, <1>2, <1>4 DEF RequestInv, TablesRead, CardsOf
<1>6. AnswerInv'
  BY DEF ExplainInv, AnswerInv, HasGraph
<1>. QED
  BY <1>5, <1>6 DEF ExplainInv

LEMMA ResultKeeps ==
  ASSUME ExplainInv, request # None, request.step = "cards", Pending = {}, NEW measured,
         Answer(Result(measured))
  PROVE  ExplainInv'
<1>1. /\ request.q \in DOMAIN Queries
      /\ CardsOf(request.q, request.registrations, request.cards)
  BY DEF ExplainInv, RequestInv
<1>2. /\ answer'.q = request.q /\ answer'.registrations = request.registrations
      /\ answer'.cards = request.cards
  BY DEF Answer, Result, NoAnswer
<1>3. \A table \in TablesRead[request.q] :
        table[1] \in DOMAIN request.registrations => table \in DOMAIN request.cards
  BY DEF Pending, CardTables, Registrations
<1>4. AnswerInv'
  BY <1>1, <1>2, <1>3 DEF AnswerInv, CardsOf, TablesRead
<1>5. RequestInv'
  BY DEF Answer, RequestInv
<1>. QED
  BY <1>4, <1>5 DEF ExplainInv

LEMMA ExplainInvNext == ASSUME ExplainInv, [Next]_vars PROVE ExplainInv'
<1>1. ASSUME UNCHANGED <<request, answer>> PROVE ExplainInv'
  BY <1>1 DEF ExplainInv, RequestInv, AnswerInv, HasGraph, CardsOf
<1>2. ASSUME NEW alias \in DOMAIN Databases, RegisterSource(alias) \/ RemoveSource(alias)
      PROVE  ExplainInv'
  BY <1>1, <1>2 DEF RegisterSource, RemoveSource
<1>3. ASSUME NEW q \in DOMAIN Queries, Refused(q) PROVE ExplainInv'
  BY <1>3, ErrorIsNoGraph DEF Refused
<1>4. ASSUME NEW q \in DOMAIN Queries, GetLineage(q) PROVE ExplainInv'
  <2>1. CASE answer' = [NoAnswer(None) EXCEPT !.kind = "lineage", !.q = q]
    <3>1. answer'.kind = "lineage"
      BY <2>1 DEF NoAnswer
    <3>. QED
      BY <1>4, <3>1 DEF GetLineage, ExplainInv, RequestInv, AnswerInv, HasGraph
  <2>2. CASE answer' = NoAnswer("-32001")
    BY <1>4, <2>2, ErrorIsNoGraph DEF GetLineage, Answer
  <2>. QED
    BY <1>4, <2>1, <2>2 DEF GetLineage
<1>5. ASSUME NEW q \in DOMAIN Queries, NEW analyze \in BOOLEAN, Start(q, analyze) PROVE ExplainInv'
  <2>1. /\ request' = [x \in RequestFields |-> request'[x]]
        /\ request'.q = q /\ request'.step = "ensure"
    BY <1>5 DEF Start, RequestFields
  <2>2. RequestInv'
    BY <2>1 DEF RequestInv
  <2>3. AnswerInv'
    BY <1>5 DEF Start, AnswerInv, HasGraph
  <2>. QED
    BY <2>2, <2>3 DEF ExplainInv
<1>6. ASSUME Ensure PROVE ExplainInv'
  <2>1. CASE request' = [request EXCEPT !.step = "plan"] /\ UNCHANGED answer
    <3>1. request = [x \in RequestFields |-> request[x]]
      BY <1>6 DEF Ensure, ExplainInv, RequestInv
    <3>2. request' = [[request EXCEPT !.step = "plan"] EXCEPT !.physical = request.physical]
      BY <2>1, <3>1 DEF RequestFields
    <3>. QED
      BY <1>6, <2>1, <3>2, StepKeeps DEF Ensure
  <2>2. CASE Answer(NoAnswer("-32001"))
    BY <2>2, ErrorIsNoGraph
  <2>. QED
    BY <1>6, <2>1, <2>2 DEF Ensure
<1>7. ASSUME Plan PROVE ExplainInv'
  <2>1. CASE request' = [request EXCEPT !.step = "physical"] /\ UNCHANGED answer
    <3>1. request = [x \in RequestFields |-> request[x]]
      BY <1>7 DEF Plan, ExplainInv, RequestInv
    <3>2. request' = [[request EXCEPT !.step = "physical"] EXCEPT !.physical = request.physical]
      BY <2>1, <3>1 DEF RequestFields
    <3>. QED
      BY <1>7, <2>1, <3>2, StepKeeps DEF Plan
  <2>2. CASE Answer(NoAnswer("-32603"))
    BY <2>2, ErrorIsNoGraph
  <2>. QED
    BY <1>7, <2>1, <2>2 DEF Plan
<1>8. ASSUME PhysicalPlan PROVE ExplainInv'
  <2>1. PICK made \in BOOLEAN : request' = [request EXCEPT !.step = "graph", !.physical = made]
    BY <1>8 DEF PhysicalPlan
  <2>. QED
    BY <1>8, <2>1, StepKeeps DEF PhysicalPlan
<1>9. ASSUME BuildGraph PROVE ExplainInv'
  <2>1. request = [x \in RequestFields |-> request[x]] /\ request.q \in DOMAIN Queries
    BY <1>9 DEF BuildGraph, ExplainInv, RequestInv
  <2>2. /\ request' = [x \in RequestFields |-> request'[x]]
        /\ request'.q = request.q /\ request'.cards = << >>
    BY <1>9, <2>1 DEF BuildGraph, RequestFields
  <2>3. RequestInv'
    BY <2>1, <2>2 DEF RequestInv, CardsOf
  <2>4. AnswerInv'
    BY <1>9 DEF BuildGraph, ExplainInv, AnswerInv, HasGraph
  <2>. QED
    BY <2>3, <2>4 DEF ExplainInv
<1>10. ASSUME CardExplained \/ FileExplained PROVE ExplainInv'
  BY <1>10, CardKeeps DEF CardExplained, FileExplained
<1>11. ASSUME CardTimesOut PROVE ExplainInv'
  BY <1>11, CardKeeps DEF CardTimesOut
<1>12. ASSUME Explained PROVE ExplainInv'
  BY <1>12, ResultKeeps DEF Explained
<1>13. ASSUME Analyzed PROVE ExplainInv'
  BY <1>13, ResultKeeps DEF Analyzed
<1>14. ASSUME AnalyzeFails PROVE ExplainInv'
  <2>1. Answer(NoAnswer("-32100")) \/ Answer(Result(FALSE))
    BY <1>14 DEF AnalyzeFails
  <2>. QED
    BY <1>14, <2>1, ErrorIsNoGraph, ResultKeeps DEF AnalyzeFails
<1>15. ASSUME UNCHANGED vars PROVE ExplainInv'
  BY <1>1, <1>15 DEF vars
<1>. QED
  BY <1>2, <1>3, <1>4, <1>5, <1>6, <1>7, <1>8, <1>9, <1>10, <1>11, <1>12, <1>13, <1>14, <1>15
  DEF Next

LEMMA ExplainInvAlways == Spec => []ExplainInv
BY ExplainInvInit, ExplainInvNext, PTL DEF Spec

-----------------------------------------------------------------------------
(* What the graph of an answer is.                                         *)

Context ==
  [apps |-> Queries[answer.q].applied,
   sqls |-> IF answer.physical
            THEN RemoteSql(Optimized, Physical, answer.registrations) ELSE << >>,
   registrations |-> answer.registrations]

\* The count that a node is given.
RowsOf(graph, metrics, id) ==
  LET order == VisitOrder(graph)
      n == CHOOSE n \in DOMAIN order : order[n] = id
  IN IF n <= Len(metrics) THEN metrics[n] ELSE None

\* The counts change nothing else.
LEMMA MeasuredParts ==
  ASSUME NEW graph, NEW nodes, NEW truncated, graph = [nodes |-> nodes, truncated |-> truncated],
         NEW metrics, \A id \in DOMAIN nodes : DOMAIN nodes[id] = NodeFields
  PROVE  LET after == Measured(graph, metrics)
         IN /\ after.truncated = truncated /\ DOMAIN after.nodes = DOMAIN nodes
            /\ \A id \in DOMAIN nodes :
                 \A x \in NodeFields \ {"rows"} : after.nodes[id][x] = nodes[id][x]
            /\ \A id \in DOMAIN nodes : after.nodes[id].rows = RowsOf(graph, metrics, id)
<1>. DEFINE Rows(id) == RowsOf(graph, metrics, id)
            new == [id \in DOMAIN graph.nodes |-> [graph.nodes[id] EXCEPT !.rows = Rows(id)]]
            after == Measured(graph, metrics)
<1>1. after = [graph EXCEPT !.nodes = new]
  BY Zenon DEF Measured, RowsOf
<1>2. /\ DOMAIN new = DOMAIN nodes
      /\ \A id \in DOMAIN nodes : new[id] = [nodes[id] EXCEPT !.rows = Rows(id)]
  OBVIOUS
<1>3. after.nodes = new /\ after.truncated = truncated
  <2>. HIDE DEF new, after
  <2>. QED
    BY <1>1
<1>4. \A id \in DOMAIN nodes : /\ new[id].rows = Rows(id)
                               /\ \A x \in NodeFields \ {"rows"} : new[id][x] = nodes[id][x]
  <2>. HIDE DEF new
  <2>. QED
    BY <1>2 DEF NodeFields
<1>. HIDE DEF new, after
<1>. QED
  BY <1>2, <1>3, <1>4 DEF after

\* The node with number id is made from the id-th node of the plan.
LEMMA AnsweredParts ==
  ASSUME ExplainInv, HasGraph
  PROVE  LET order == PreOrder(Optimized)
             len == Lesser(Len(order), MaxNodes)
             nodes == AnsweredGraph.nodes
         IN /\ IsTree(Optimized) /\ order = Order(Optimized, Len(Optimized))
            /\ order \in Seq(DOMAIN Optimized) /\ len \in Nat /\ len <= Len(order)
            /\ DOMAIN nodes = 1..len /\ Len(nodes) = len
            /\ AnsweredGraph.truncated = (Len(order) > MaxNodes)
            /\ \A id \in 1..len :
                 /\ order[id] \in DOMAIN Optimized
                 /\ \A x \in NodeFields \ {"rows"} :
                      nodes[id][x] = NodeAt(Optimized, Context, order[id], id)[x]
<1>. DEFINE order == PreOrder(Optimized)
            len == Lesser(Len(order), MaxNodes)
            shown == [m \in 1..len |-> NodeAt(Optimized, Context, order[m], m)]
            some == Len(order) > MaxNodes
            graph == Graph(Optimized, Context)
            answered == AnsweredGraph
<1>1. /\ IsTree(Optimized)
      /\ answered = IF answer.measured THEN Measured(graph, Metrics(Physical)) ELSE graph
  BY QueriesAssumption DEF IsPlan, ExplainInv, AnswerInv, Optimized, AnsweredGraph, Context
<1>2. /\ order \in Seq(DOMAIN Optimized) /\ len \in Nat /\ len <= Len(order)
      /\ order = Order(Optimized, Len(Optimized)) /\ Len(order) \in Nat
      /\ graph.nodes = shown /\ graph.truncated = some
      /\ graph = [nodes |-> shown, truncated |-> some]
  BY <1>1, GraphIs
<1>3. \A id \in 1..len : order[id] \in DOMAIN Optimized
  <2>. HIDE DEF order
  <2>1. \A id \in 1..len : id \in 1..Len(order)
    BY <1>2
  <2>. QED
    BY <1>2, <2>1, ElementOfSeq
<1>4. DOMAIN shown = 1..len /\ \A id \in 1..len : DOMAIN shown[id] = NodeFields
  BY WithParts DEF NodeAt
<1>5. /\ answered.truncated = some /\ DOMAIN answered.nodes = 1..len
      /\ \A id \in 1..len : \A x \in NodeFields \ {"rows"} : answered.nodes[id][x] = shown[id][x]
  <2>. HIDE DEF graph, shown, answered, some, len
  <2>1. CASE answer.measured
    <3>1. answered = Measured(graph, Metrics(Physical))
      BY <1>1, <2>1
    <3>2. LET after == Measured(graph, Metrics(Physical))
          IN /\ after.truncated = some /\ DOMAIN after.nodes = DOMAIN shown
             /\ \A id \in DOMAIN shown :
                  \A x \in NodeFields \ {"rows"} : after.nodes[id][x] = shown[id][x]
      <4>. DEFINE metrics == Metrics(Physical)
      <4>1. graph = [nodes |-> shown, truncated |-> some]
            /\ \A id \in DOMAIN shown : DOMAIN shown[id] = NodeFields
        BY <1>2, <1>4
      <4>. HIDE DEF metrics
      <4>. QED
        BY ONLY <4>1, MeasuredParts
    <3>. QED
      BY <1>4, <3>1, <3>2
  <2>2. CASE ~answer.measured
    <3>1. answered = graph
      BY <1>1, <2>2
    <3>. QED
      BY <1>2, <1>4, <3>1
  <2>. QED
    BY <2>1, <2>2
<1>6. Len(answered.nodes) = len
  <2>. HIDE DEF answered, len
  <2>. QED
    BY <1>2, <1>5
<1>7. \A id \in 1..len : shown[id] = NodeAt(Optimized, Context, order[id], id)
  OBVIOUS
<1>. HIDE DEF shown
<1>. QED
  BY <1>1, <1>2, <1>3, <1>5, <1>6, <1>7

\* The links of the graph are those of the plan.
LEMMA ChildrenAre ==
  ASSUME NEW plan, IsTree(plan), NEW i \in DOMAIN plan, NEW id
  PROVE  /\ DOMAIN ChildrenOf(plan, i, id) = 1..Len(plan[i].inputs)
         /\ \A k \in 1..Len(plan[i].inputs) : ChildrenOf(plan, i, id)[k] = LinkTo(plan, i, id, k)
<1>. DEFINE O == PreOrders(Inputs(plan))
            n == Len(plan[i].inputs)
            Before(k) == FlattenSeq([l \in 1..k - 1 |-> O[plan[i].inputs[l]]])
<1>1. n \in Nat /\ DOMAIN plan[i].inputs = 1..n /\ Inputs(plan)[i] = plan[i].inputs
  BY TreeRanked, TreeOrders, ZenonT(30)
<1>2. ChildrenOf(plan, i, id) = [k \in 1..n |-> id + 1 + Len(Before(k))]
  BY <1>1 DEF ChildrenOf
<1>3. ASSUME NEW k \in 1..n PROVE Before(k) = InputsOrder(plan, i, k - 1)
  <2>1. \A l \in 1..k - 1 : l \in 1..n
    BY <1>1
  <2>2. [l \in 1..k - 1 |-> O[plan[i].inputs[l]]]
        = [j \in 1..k - 1 |-> [l \in 1..n |-> O[plan[i].inputs[l]]][j]]
    BY <2>1
  <2>. QED
    BY <1>1, <2>2, Zenon DEF InputsOrder, Under, Flat
<1>. HIDE DEF Before
<1>. QED
  BY <1>2, <1>3 DEF LinkTo

\* The graph of a plan of any size and shape, for any limit on nodes, is the plan
\* as far as there is room, and says whether there was (explain.rs:55-83, 484-700).
THEOREM GraphIsPlanAlways == Spec => []GraphIsPlan
<1>1. ASSUME ExplainInv, HasGraph
      PROVE  LET order == PreOrder(Optimized)
                 graph == AnsweredGraph
             IN /\ Len(graph.nodes) = (IF Len(order) < MaxNodes THEN Len(order) ELSE MaxNodes)
                /\ graph.truncated <=> Len(order) > MaxNodes
                /\ \A id \in DOMAIN graph.nodes :
                     LET links == ChildrenOf(Optimized, order[id], id)
                     IN /\ graph.nodes[id].op = Optimized[order[id]].op
                        /\ graph.nodes[id].children =
                             [k \in {l \in DOMAIN links : links[l] <= MaxNodes} |-> links[k]]
  <2>. DEFINE order == PreOrder(Optimized)
              len == Lesser(Len(order), MaxNodes)
              graph == AnsweredGraph
  <2>1. /\ IsTree(Optimized) /\ DOMAIN graph.nodes = 1..len /\ Len(graph.nodes) = len
        /\ graph.truncated = (Len(order) > MaxNodes)
        /\ \A id \in 1..len :
             /\ order[id] \in DOMAIN Optimized
             /\ \A x \in NodeFields \ {"rows"} :
                  graph.nodes[id][x] = NodeAt(Optimized, Context, order[id], id)[x]
    BY <1>1, AnsweredParts
  <2>. HIDE DEF order, graph
  <2>2. Len(graph.nodes) = (IF Len(order) < MaxNodes THEN Len(order) ELSE MaxNodes)
    BY <2>1 DEF Lesser
  <2>3. graph.truncated <=> Len(order) > MaxNodes
    BY <2>1
  <2>4. ASSUME NEW id \in 1..len
        PROVE  LET links == ChildrenOf(Optimized, order[id], id)
               IN /\ graph.nodes[id].op = Optimized[order[id]].op
                  /\ graph.nodes[id].children =
                       [k \in {l \in DOMAIN links : links[l] <= MaxNodes} |-> links[k]]
    <3>. DEFINE i == order[id]
                top == Len(Optimized[i].inputs)
                links == ChildrenOf(Optimized, i, id)
                node == NodeOf(Optimized, i, Context)
                shown == With(node, Links(Optimized, i, id, top))
    <3>1. /\ i \in DOMAIN Optimized
          /\ "op" \in NodeFields \ {"rows"} /\ "children" \in NodeFields \ {"rows"}
      BY <2>1 DEF NodeFields
    <3>2. graph.nodes[id].op = shown.op /\ graph.nodes[id].children = shown.children
      BY <2>1, <3>1 DEF NodeAt
    <3>3. shown.op = node.op /\ shown.children = Links(Optimized, i, id, top)
      BY WithParts DEF NodeFields
    <3>4. node.op = Optimized[i].op
      BY NodeParts
    <3>5. DOMAIN links = 1..top /\ \A k \in 1..top : links[k] = LinkTo(Optimized, i, id, k)
      BY <2>1, <3>1, ChildrenAre
    <3>6. [k \in {l \in DOMAIN links : links[l] <= MaxNodes} |-> links[k]] = Links(Optimized, i, id, top)
      <4>. HIDE DEF links, top
      <4>. QED
        BY <3>5 DEF Links
    <3>. QED
      BY <3>2, <3>3, <3>4, <3>6
  <2>. QED
    BY <2>1, <2>2, <2>3, <2>4 DEF order, graph
<1>2. ExplainInv => GraphIsPlan
  BY <1>1 DEF GraphIsPlan
<1>. QED
  BY <1>2, ExplainInvAlways, PTL

LEMMA LeastChosen ==
  ASSUME NEW S \in SUBSET Nat, S # {}
  PROVE  Min(S) \in S
BY LeastMember DEF Min

\* The SQL of a table is one that an operator sends, and references the table; there
\* is one if any references it.
LEMMA SqlSent ==
  ASSUME NEW plan, NEW physical, IsTree(physical), NEW registrations
  PROVE  LET sqls == RemoteSql(plan, physical, registrations)
         IN /\ \A table \in DOMAIN sqls :
                 /\ table \in TablesOf(plan) /\ sqls[table] # None
                 /\ References(sqls[table], SchemaOf(table, registrations), table[2])
                 /\ \E i \in ToSet(PreOrder(physical)) :
                      i \in DOMAIN physical /\ sqls[table] = physical[i].sql
            /\ \A table \in TablesOf(plan), i \in ToSet(PreOrder(physical)) :
                 physical[i].sql # None
                 /\ References(physical[i].sql, SchemaOf(table, registrations), table[2])
                 => table \in DOMAIN sqls
<1>. DEFINE order == PreOrder(physical)
            sqls == RemoteSql(plan, physical, registrations)
            Sent(k) == physical[order[k]].sql
            Matching(t) ==
              {k \in DOMAIN order :
                 Sent(k) # None /\ References(Sent(k), SchemaOf(t, registrations), t[2])}
<1>1. sqls = [t \in {s \in TablesOf(plan) : Matching(s) # {}} |-> Sent(Min(Matching(t)))]
  BY DEF RemoteSql
<1>2. order \in Seq(DOMAIN physical) /\ DOMAIN order = 1..Len(order) /\ Len(order) \in Nat
  <2>1. Len(physical) \in DOMAIN physical
    BY ONLY IsTree(physical), TreeRanked, Zenon
  <2>2. order \in Seq(DOMAIN physical)
    BY <2>1, TreeOrders DEF PreOrder, Order
  <2>. QED
    BY <2>2, LenProperties
<1>. HIDE DEF order, sqls
<1>3. ASSUME NEW table \in DOMAIN sqls
      PROVE  /\ table \in TablesOf(plan) /\ sqls[table] # None
             /\ References(sqls[table], SchemaOf(table, registrations), table[2])
             /\ \E i \in ToSet(order) : i \in DOMAIN physical /\ sqls[table] = physical[i].sql
  <2>. DEFINE first == Min(Matching(table))
  <2>1. table \in TablesOf(plan) /\ Matching(table) # {} /\ sqls[table] = Sent(first)
    <3>. HIDE DEF Sent, Matching
    <3>. QED
      BY <1>1
  <2>2. first \in Matching(table)
    <3>1. Matching(table) \in SUBSET Nat
      <4>1. DOMAIN order \subseteq Nat
        BY ONLY <1>2, SMTT(30)
      <4>. HIDE DEF Sent
      <4>. QED
        BY ONLY <4>1, Zenon
    <3>. HIDE DEF Matching
    <3>. QED
      BY ONLY <2>1, <3>1, LeastChosen, Zenon
  <2>3. /\ first \in DOMAIN order /\ Sent(first) # None
        /\ References(Sent(first), SchemaOf(table, registrations), table[2])
    BY <2>2
  <2>4. order[first] \in DOMAIN physical /\ order[first] \in ToSet(order)
    <3>. HIDE DEF first
    <3>. QED
      BY <1>2, <2>3, ElementOfSeq DEF ToSet
  <2>. HIDE DEF first
  <2>. QED
    BY <2>1, <2>3, <2>4
<1>4. ASSUME NEW table \in TablesOf(plan), NEW i \in ToSet(order), physical[i].sql # None,
             References(physical[i].sql, SchemaOf(table, registrations), table[2])
      PROVE  table \in DOMAIN sqls
  <2>1. PICK k \in DOMAIN order : order[k] = i
    BY DEF ToSet
  <2>2. k \in Matching(table)
    BY <1>4, <2>1
  <2>. HIDE DEF Sent, Matching
  <2>. QED
    BY <1>1, <2>2
<1>. QED
  BY <1>3, <1>4 DEF sqls, order

\* What a node of an answer's graph shows of its table and its SQL.
LEMMA ShownScan ==
  ASSUME ExplainInv, HasGraph, NEW id \in DOMAIN AnsweredGraph.nodes
  PROVE  LET node == AnsweredGraph.nodes[id]
         IN /\ node.op = "scan" =>
                 /\ node.table \in TablesOf(Optimized)
                 /\ node.sql = IF node.table \in DOMAIN Context.sqls THEN Context.sqls[node.table]
                               ELSE None
                 /\ node.provider = ProviderKind(node.table, Context.sqls, Context.registrations)
            /\ node.op # "scan" => node.sql = None
<1>. DEFINE order == PreOrder(Optimized)
            len == Lesser(Len(order), MaxNodes)
            i == order[id]
            nodes == AnsweredGraph.nodes
            made == NodeOf(Optimized, i, Context)
            links == Links(Optimized, i, id, Len(Optimized[i].inputs))
<1>1. /\ IsTree(Optimized) /\ order \in Seq(DOMAIN Optimized) /\ len \in Nat /\ len <= Len(order)
      /\ order = Order(Optimized, Len(Optimized))
      /\ DOMAIN nodes = 1..len
      /\ \A m \in 1..len : \A x \in NodeFields \ {"rows"} :
           nodes[m][x] = NodeAt(Optimized, Context, order[m], m)[x]
  BY AnsweredParts
<1>2. id \in 1..len /\ id \in DOMAIN order
  <2>1. id \in 1..len
    BY <1>1
  <2>. HIDE DEF order, len
  <2>. QED
    BY <1>1, <2>1, LenProperties
<1>3. \A x \in NodeFields \ {"rows"} : nodes[id][x] = With(made, links)[x]
  <2>. HIDE DEF order, len, nodes, made
  <2>. QED
    BY <1>1, <1>2 DEF NodeAt, made
<1>4. \A x \in NodeFields \ {"children"} : With(made, links)[x] = made[x]
  <2>. HIDE DEF links, i
  <2>. QED
    BY WithParts
<1>5. {"op", "table", "sql", "provider"} \subseteq NodeFields \ {"rows", "children"}
  BY DEF NodeFields
<1>6. /\ nodes[id].op = made.op /\ nodes[id].table = made.table
      /\ nodes[id].sql = made.sql /\ nodes[id].provider = made.provider
  <2>. HIDE DEF nodes, made, links
  <2>. QED
    BY <1>3, <1>4, <1>5
<1>7. Optimized[i].op = "scan" => Optimized[i].table \in TablesOf(Optimized)
  BY <1>1, <1>2 DEF TablesOf, TablesBelow, ScansOf, Order, ToSet
<1>8. /\ made.op = Optimized[i].op
      /\ Optimized[i].op = "scan" =>
           /\ made.table = Optimized[i].table
           /\ made.sql = IF Optimized[i].table \in DOMAIN Context.sqls
                         THEN Context.sqls[Optimized[i].table] ELSE None
           /\ made.provider
                = ProviderKind(Optimized[i].table, Context.sqls, Context.registrations)
      /\ Optimized[i].op # "scan" => made.sql = None
  <2>. HIDE DEF i
  <2>. QED
    BY NodeParts
<1>. HIDE DEF made, i, nodes
<1>. QED
  BY <1>6, <1>7, <1>8 DEF nodes

\* The SQLs of a context are the physical plan's, or none.
LEMMA ContextSqls ==
  ASSUME ExplainInv, HasGraph
  PROVE  LET SchemaNow(table) == SchemaOf(table, answer.registrations)
         IN /\ \A table \in DOMAIN Context.sqls :
                 /\ Context.sqls[table] # None
                 /\ References(Context.sqls[table], SchemaNow(table), table[2])
                 /\ \E i \in ToSet(PreOrder(Physical)) :
                      i \in DOMAIN Physical /\ Context.sqls[table] = Physical[i].sql
            /\ answer.physical =>
                 \A table \in TablesOf(Optimized), i \in ToSet(PreOrder(Physical)) :
                   Physical[i].sql # None
                   /\ References(Physical[i].sql, SchemaNow(table), table[2])
                   => table \in DOMAIN Context.sqls
<1>. DEFINE captured == RemoteSql(Optimized, Physical, answer.registrations)
<1>1. IsTree(Physical)
  BY QueriesAssumption DEF ExplainInv, AnswerInv, Physical
<1>2. Context.sqls = IF answer.physical THEN captured ELSE << >>
  BY DEF Context
<1>3. CASE answer.physical
  <2>1. Context.sqls = captured
    BY <1>2, <1>3
  <2>. QED
    BY <1>1, <2>1, SqlSent
<1>4. CASE ~answer.physical
  <2>1. DOMAIN Context.sqls = {}
    BY <1>2, <1>4
  <2>. QED
    BY <1>4, <2>1
<1>. QED
  BY <1>3, <1>4

\* Whatever is registered and removed while an explain waits, a table's node and its
\* card are of the same database (lib.rs:722-746, explain.rs:702-716, 914-945).
THEOREM CardsAgreeAlways == Spec => []CardsAgree
<1>1. ASSUME ExplainInv, HasGraph, NEW id \in DOMAIN AnsweredGraph.nodes,
             AnsweredGraph.nodes[id].op = "scan"
      PROVE  LET node == AnsweredGraph.nodes[id]
             IN node.provider =
                  IF node.table \in DOMAIN answer.cards THEN answer.cards[node.table].provider
                  ELSE IF node.sql # None THEN node.sql.executor ELSE None
  <2>. DEFINE node == AnsweredGraph.nodes[id]
              table == node.table
  <2>1. /\ table \in TablesOf(Optimized)
        /\ node.sql = IF table \in DOMAIN Context.sqls THEN Context.sqls[table] ELSE None
        /\ node.provider = ProviderKind(table, Context.sqls, Context.registrations)
    BY <1>1, ShownScan
  <2>2. table \in TablesRead[answer.q]
    BY <1>1, <2>1 DEF TablesRead, Optimized, ExplainInv, AnswerInv
  <2>3. table \in DOMAIN answer.cards <=> table[1] \in DOMAIN answer.registrations
    BY <1>1, <2>2 DEF ExplainInv, AnswerInv, CardsOf
  <2>4. table \in DOMAIN answer.cards =>
          answer.cards[table].provider = answer.registrations[table[1]].kind
    BY <1>1 DEF ExplainInv, AnswerInv, CardsOf
  <2>5. table \in DOMAIN Context.sqls => Context.sqls[table] # None
    BY <1>1, ContextSqls
  <2>6. Context.registrations = answer.registrations
    BY DEF Context
  <2>. HIDE DEF node, table
  <2>7. node.provider = IF table \in DOMAIN answer.cards THEN answer.cards[table].provider
                        ELSE IF node.sql # None THEN node.sql.executor ELSE None
    BY <2>1, <2>3, <2>4, <2>5, <2>6 DEF ProviderKind
  <2>. QED
    BY <2>7 DEF node, table
<1>2. ExplainInv => CardsAgree
  BY <1>1 DEF CardsAgree
<1>. QED
  BY <1>2, ExplainInvAlways, PTL

\* Where a SQL mentions no table of the query that it does not read, the SQL that is
\* shown for a table reads it, and a table that is quoted in one is shown with one
\* (explain.rs:206-316, 365-387).
THEOREM SqlOfItsScanAlways == Spec => []SqlOfItsScan
<1>1. ASSUME ExplainInv, HasGraph,
             \A s, t \in TablesOf(Optimized) : s[2] = t[2] => s = t,
             \A sql \in SqlsSent :
               Mentioned(sql) \cap {table[2] : table \in TablesOf(Optimized)}
                 \subseteq {table[2] : table \in sql.reads},
             NEW id \in DOMAIN AnsweredGraph.nodes, AnsweredGraph.nodes[id].sql # None
      PROVE  AnsweredGraph.nodes[id].table \in AnsweredGraph.nodes[id].sql.reads
  <2>. DEFINE node == AnsweredGraph.nodes[id]
              table == node.table
              sql == node.sql
              schema == SchemaOf(table, answer.registrations)
  <2>1. node.op = "scan" /\ table \in TablesOf(Optimized) /\ table \in DOMAIN Context.sqls
        /\ sql = Context.sqls[table]
    <3>1. /\ node.op = "scan" =>
               /\ table \in TablesOf(Optimized)
               /\ sql = IF table \in DOMAIN Context.sqls THEN Context.sqls[table] ELSE None
          /\ node.op # "scan" => sql = None
      BY <1>1, ShownScan
    <3>2. sql # None
      BY <1>1
    <3>. HIDE DEF node, table, sql
    <3>. QED
      BY <3>1, <3>2
  <2>2. /\ sql # None /\ References(sql, schema, table[2])
        /\ \E i \in ToSet(PreOrder(Physical)) : i \in DOMAIN Physical /\ sql = Physical[i].sql
    <3>. HIDE DEF table, sql
    <3>. QED
      BY <1>1, <2>1, ContextSqls
  <2>. HIDE DEF node, table, sql, schema
  <2>3. sql.reads \subseteq TablesOf(Optimized)
    BY <1>1, <2>2, QueriesAssumption DEF Optimized, Physical, ExplainInv, AnswerInv
  <2>4. table[2] \in {r[2] : r \in sql.reads}
    <3>1. sql \in SqlsSent
      BY <2>2 DEF SqlsSent
    <3>2. table[2] \in Mentioned(sql)
      <4>1. schema # None /\ <<schema, table[2]>> \in sql.dotted
              => table[2] \in {pair[2] : pair \in sql.dotted}
        <5>1. <<schema, table[2]>>[2] = table[2]
          OBVIOUS
        <5>. QED
          BY <5>1, Zenon
      <4>. QED
        BY <2>2, <4>1, Zenon DEF References, Mentioned
    <3>. QED
      BY <1>1, <2>1, <3>1, <3>2
  <2>5. PICK r \in sql.reads : r[2] = table[2]
    BY <2>4
  <2>6. r = table
    BY <1>1, <2>1, <2>3, <2>5
  <2>. QED
    BY <2>5, <2>6 DEF node, table, sql
<1>2. ASSUME ExplainInv, HasGraph, NEW id \in DOMAIN AnsweredGraph.nodes,
             AnsweredGraph.nodes[id].op = "scan", answer.physical,
             NEW sql \in SqlsSent,
             AnsweredGraph.nodes[id].table[2] \in sql.quoted
      PROVE  AnsweredGraph.nodes[id].sql # None
  <2>. DEFINE node == AnsweredGraph.nodes[id]
              table == node.table
  <2>1. /\ table \in TablesOf(Optimized)
        /\ node.sql = IF table \in DOMAIN Context.sqls THEN Context.sqls[table] ELSE None
    BY <1>2, ShownScan
  <2>2. PICK i \in ToSet(PreOrder(Physical)) : Physical[i].sql = sql /\ sql # None
    BY <1>2 DEF SqlsSent
  <2>3. References(sql, SchemaOf(table, answer.registrations), table[2])
    BY <1>2 DEF References
  <2>. HIDE DEF node, table
  <2>4. table \in DOMAIN Context.sqls
    BY <1>2, <2>1, <2>2, <2>3, ContextSqls
  <2>5. Context.sqls[table] # None
    BY <1>2, <2>4, ContextSqls
  <2>. QED
    BY <2>1, <2>4, <2>5 DEF node, table
<1>3. ExplainInv => SqlOfItsScan
  <2>. SUFFICES ASSUME ExplainInv, HasGraph,
                       \A s, t \in TablesOf(Optimized) : s[2] = t[2] => s = t,
                       \A sql \in SqlsSent :
                         Mentioned(sql) \cap {table[2] : table \in TablesOf(Optimized)}
                           \subseteq {table[2] : table \in sql.reads},
                       NEW node \in ToSet(AnsweredGraph.nodes)
                PROVE  /\ node.sql # None => node.table \in node.sql.reads
                       /\ (/\ node.op = "scan" /\ answer.physical
                           /\ \E sql \in SqlsSent : node.table \in sql.reads
                                                 /\ node.table[2] \in sql.quoted)
                          => node.sql # None
    BY DEF SqlOfItsScan
  <2>1. PICK id \in DOMAIN AnsweredGraph.nodes : node = AnsweredGraph.nodes[id]
    BY DEF ToSet
  <2>. QED
    BY <1>1, <1>2, <2>1
<1>. QED
  BY <1>3, ExplainInvAlways, PTL

-----------------------------------------------------------------------------
(* In preorder the nodes below a node follow it.                           *)

Contiguous(plan, s) ==
  \A p \in 1..Len(s) :
    /\ p - 1 + Len(Order(plan, s[p])) <= Len(s)
    /\ \A m \in 1..Len(Order(plan, s[p])) : s[p - 1 + m] = Order(plan, s[p])[m]

LEMMA ContiguousMore ==
  ASSUME NEW plan, NEW u, NEW v, NEW o, Contiguous(plan, u), Contiguous(plan, o),
         Len(u) \in Nat, Len(o) \in Nat, Len(v) = Len(u) + Len(o),
         \A m \in 1..Len(u) : v[m] = u[m], \A m \in 1..Len(o) : v[Len(u) + m] = o[m],
         \A p \in 1..Len(v) : Len(Order(plan, v[p])) \in Nat
  PROVE  Contiguous(plan, v)
<1>1. ASSUME NEW p \in 1..Len(v)
      PROVE  /\ p - 1 + Len(Order(plan, v[p])) <= Len(v)
             /\ \A m \in 1..Len(Order(plan, v[p])) : v[p - 1 + m] = Order(plan, v[p])[m]
  <2>. DEFINE l == Len(Order(plan, v[p]))
  <2>0. l \in Nat /\ p \in Nat
    OBVIOUS
  <2>1. CASE p <= Len(u)
    <3>1. p \in 1..Len(u) /\ v[p] = u[p]
      BY <2>1
    <3>2. /\ p - 1 + l <= Len(u)
          /\ \A m \in 1..l : u[p - 1 + m] = Order(plan, v[p])[m]
      BY <3>1 DEF Contiguous
    <3>. HIDE DEF l
    <3>3. \A m \in 1..l : p - 1 + m \in 1..Len(u)
      BY <2>0, <3>1, <3>2
    <3>4. \A m \in 1..l : v[p - 1 + m] = Order(plan, v[p])[m]
      BY <3>2, <3>3
    <3>. QED
      BY <2>0, <3>2, <3>4 DEF l
  <2>2. CASE ~(p <= Len(u))
    <3>1. PICK x \in 1..Len(o) : Len(u) + x = p
      <4>1. p - Len(u) \in 1..Len(o) /\ Len(u) + (p - Len(u)) = p
        BY <2>0, <2>2
      <4>. QED
        BY <4>1
    <3>2. v[p] = o[x]
      BY <3>1
    <3>3. /\ x - 1 + l <= Len(o)
          /\ \A m \in 1..l : o[x - 1 + m] = Order(plan, v[p])[m]
      BY <3>1, <3>2 DEF Contiguous
    <3>. HIDE DEF l
    <3>4. \A m \in 1..l : x - 1 + m \in 1..Len(o) /\ p - 1 + m = Len(u) + (x - 1 + m)
      BY <2>0, <3>1, <3>3
    <3>5. \A m \in 1..l : v[p - 1 + m] = Order(plan, v[p])[m]
      BY <3>3, <3>4
    <3>6. p - 1 + l <= Len(v)
      BY <2>0, <3>1, <3>3
    <3>. QED
      BY <3>5, <3>6 DEF l
  <2>. QED
    BY <2>1, <2>2
<1>. QED
  BY <1>1 DEF Contiguous

\* The elements of a sequence of nodes have preorders with a length.
LEMMA OrderLens ==
  ASSUME NEW plan, IsTree(plan), NEW s \in Seq(DOMAIN plan)
  PROVE  \A p \in 1..Len(s) : s[p] \in DOMAIN plan /\ Len(Order(plan, s[p])) \in Nat
<1>1. \A p \in 1..Len(s) : s[p] \in DOMAIN plan
  BY ElementOfSeq
<1>. QED
  BY <1>1, TreeOrders

LEMMA ContiguousInputs ==
  ASSUME NEW plan, IsTree(plan), NEW i \in DOMAIN plan,
         \A k \in 1..Len(plan[i].inputs) : Contiguous(plan, Order(plan, plan[i].inputs[k]))
  PROVE  Contiguous(plan, InputsOrder(plan, i, Len(plan[i].inputs)))
<1>. DEFINE top == Len(plan[i].inputs)
            U(k) == InputsOrder(plan, i, k)
            T == {k \in Nat : k <= top => Contiguous(plan, U(k))}
<1>1. top \in Nat /\ Len(U(0)) = 0 /\ \A k \in 0..top : U(k) \in Seq(DOMAIN plan)
  BY TreeOrders
<1>2. 0 \in T
  <2>1. Contiguous(plan, U(0))
    BY <1>1 DEF Contiguous
  <2>. QED
    BY <2>1
<1>3. ASSUME NEW k \in T PROVE k + 1 \in T
  <2>1. k \in Nat
    OBVIOUS
  <2>2. ASSUME k + 1 <= top PROVE Contiguous(plan, U(k + 1))
    <3>. DEFINE o == Order(plan, plan[i].inputs[k + 1])
                u == U(k)
                v == U(k + 1)
    <3>1. /\ Len(u) \in Nat /\ Len(o) \in Nat /\ Len(v) = Len(u) + Len(o)
          /\ \A m \in 1..Len(u) : v[m] = u[m]
          /\ \A m \in 1..Len(o) : v[Len(u) + m] = o[m]
      BY <2>1, <2>2, TreeOrdersNext
    <3>2. k + 1 \in 1..top /\ k + 1 \in 0..top
      BY <1>1, <2>1, <2>2
    <3>3. v \in Seq(DOMAIN plan)
      BY <1>1, <3>2
    <3>4. Contiguous(plan, u) /\ Contiguous(plan, o)
      BY <1>1, <2>1, <2>2, <3>2
    <3>. HIDE DEF u, v, o
    <3>5. \A p \in 1..Len(v) : Len(Order(plan, v[p])) \in Nat
      BY <3>3, OrderLens
    <3>6. Contiguous(plan, v)
      BY <3>1, <3>4, <3>5, ContiguousMore
    <3>. QED
      BY <3>6 DEF v
  <2>. QED
    BY <2>1, <2>2
<1>4. T = Nat
  <2>. HIDE DEF T
  <2>1. T \in SUBSET Nat
    BY DEF T
  <2>. QED
    BY <1>2, <1>3, <2>1, Induct
<1>5. top \in T
  <2>. HIDE DEF T
  <2>. QED
    BY <1>1, <1>4
<1>. QED
  BY <1>1, <1>5

LEMMA ContiguousOrder ==
  ASSUME NEW plan, IsTree(plan), NEW i \in DOMAIN plan,
         Contiguous(plan, InputsOrder(plan, i, Len(plan[i].inputs)))
  PROVE  Contiguous(plan, Order(plan, i))
<1>. DEFINE o == Order(plan, i)
            u == InputsOrder(plan, i, Len(plan[i].inputs))
<1>1. /\ Len(o) = 1 + Len(u) /\ Len(u) \in Nat /\ o[1] = i /\ o \in Seq(DOMAIN plan)
      /\ \A p \in 1..Len(u) : o[1 + p] = u[p]
  BY TreeOrders
<1>2. Contiguous(plan, u) /\ Order(plan, i) = o
  OBVIOUS
<1>. HIDE DEF o, u
<1>3. ASSUME NEW q \in 1..Len(o)
      PROVE  /\ q - 1 + Len(Order(plan, o[q])) <= Len(o)
             /\ \A m \in 1..Len(Order(plan, o[q])) : o[q - 1 + m] = Order(plan, o[q])[m]
  <2>. DEFINE l == Len(Order(plan, o[q]))
  <2>0. l \in Nat /\ q \in Nat
    <3>1. l \in Nat
      BY <1>1, OrderLens
    <3>. QED
      BY <3>1
  <2>1. CASE q = 1
    <3>1. Order(plan, o[q]) = o
      BY <1>1, <1>2, <2>1
    <3>2. \A m \in 1..Len(o) : 1 - 1 + m = m
      BY <1>1
    <3>. QED
      BY <1>1, <2>1, <3>1, <3>2
  <2>2. CASE q # 1
    <3>. DEFINE p == q - 1
    <3>1. p \in 1..Len(u) /\ 1 + p = q
      BY <1>1, <2>0, <2>2
    <3>2. o[q] = u[p]
      BY <1>1, <3>1
    <3>3. p - 1 + l <= Len(u) /\ \A m \in 1..l : u[p - 1 + m] = Order(plan, o[q])[m]
      BY <1>2, <3>1, <3>2 DEF Contiguous
    <3>. HIDE DEF l
    <3>4. \A m \in 1..l : p - 1 + m \in 1..Len(u) /\ q - 1 + m = 1 + (p - 1 + m)
      BY ONLY <1>1, <2>0, <3>1, <3>3
    <3>5. \A m \in 1..l : o[q - 1 + m] = Order(plan, o[q])[m]
      <4>. HIDE DEF p
      <4>. QED
        BY <1>1, <3>3, <3>4
    <3>6. q - 1 + l <= Len(o)
      BY <1>1, <2>0, <3>1, <3>3
    <3>. QED
      BY <3>5, <3>6 DEF l
  <2>. QED
    BY <2>1, <2>2
<1>. QED
  BY <1>3 DEF Contiguous, o

LEMMA AllContiguous ==
  ASSUME NEW plan, IsTree(plan)
  PROVE  \A i \in DOMAIN plan : Contiguous(plan, Order(plan, i))
<1>. DEFINE V == DOMAIN plan
            T == {k \in Nat : \A i \in V : i <= k => Contiguous(plan, Order(plan, i))}
<1>1. /\ V = 1..Len(plan) /\ Len(plan) \in Nat
      /\ \A i \in V : \A k \in 1..Len(plan[i].inputs) : plan[i].inputs[k] \in V /\ plan[i].inputs[k] < i
  BY TreeInputs
<1>2. 0 \in T
  BY <1>1
<1>3. ASSUME NEW k \in T PROVE k + 1 \in T
  <2>1. k \in Nat /\ \A i \in V : i <= k => Contiguous(plan, Order(plan, i))
    OBVIOUS
  <2>2. ASSUME NEW i \in V, i <= k + 1 PROVE Contiguous(plan, Order(plan, i))
    <3>1. \A l \in 1..Len(plan[i].inputs) : plan[i].inputs[l] \in V /\ plan[i].inputs[l] <= k
      <4>1. \A l \in 1..Len(plan[i].inputs) : plan[i].inputs[l] \in V /\ plan[i].inputs[l] < i
        BY <1>1
      <4>. QED
        BY <1>1, <2>1, <2>2, <4>1
    <3>2. \A l \in 1..Len(plan[i].inputs) : Contiguous(plan, Order(plan, plan[i].inputs[l]))
      BY <2>1, <3>1
    <3>. QED
      BY <3>2, ContiguousInputs, ContiguousOrder
  <2>. QED
    BY <2>1, <2>2
<1>4. T = Nat
  <2>. HIDE DEF T
  <2>1. T \in SUBSET Nat
    BY DEF T
  <2>. QED
    BY <1>2, <1>3, <2>1, Induct
<1>5. ASSUME NEW i \in V PROVE Contiguous(plan, Order(plan, i))
  <2>1. i \in T /\ i <= i
    <3>. HIDE DEF T
    <3>. QED
      BY <1>1, <1>4
  <2>. QED
    BY <2>1
<1>. QED
  BY <1>5

LEMMA InputsLens ==
  ASSUME NEW plan, IsTree(plan), NEW i \in DOMAIN plan
  PROVE  LET L(k) == Len(InputsOrder(plan, i, k))
             top == Len(plan[i].inputs)
         IN top \in Nat /\ \A k \in 0..top : /\ L(k) \in Nat
                                             /\ \A l \in 0..k : L(l) \in Nat /\ L(l) <= L(k)
BY TreeOrders

\* What is under the first k inputs comes first of what is under all of them.
LEMMA InputsPrefix ==
  ASSUME NEW plan, IsTree(plan), NEW i \in DOMAIN plan, NEW k \in 0..Len(plan[i].inputs)
  PROVE  LET U(l) == InputsOrder(plan, i, l)
             top == Len(plan[i].inputs)
         IN \A m \in 1..Len(U(k)) : U(top)[m] = U(k)[m]
<1>. DEFINE U(l) == InputsOrder(plan, i, l)
            top == Len(plan[i].inputs)
            T == {x \in Nat : k + x <= top => \A m \in 1..Len(U(k)) : U(k + x)[m] = U(k)[m]}
<1>1. /\ top \in Nat /\ k \in Nat
      /\ \A l \in 0..top : Len(U(l)) \in Nat /\ \A m \in 0..l : Len(U(m)) \in Nat /\ Len(U(m)) <= Len(U(l))
  BY InputsLens
<1>2. 0 \in T
  BY <1>1
<1>3. ASSUME NEW x \in T PROVE x + 1 \in T
  <2>1. x \in Nat
    OBVIOUS
  <2>2. ASSUME k + (x + 1) <= top PROVE \A m \in 1..Len(U(k)) : U(k + (x + 1))[m] = U(k)[m]
    <3>1. /\ k + x \in Nat /\ k + x <= top /\ (k + x) + 1 = k + (x + 1) /\ k + x \in 0..top
          /\ k \in 0..k + x
      BY <1>1, <2>1, <2>2
    <3>2. \A m \in 1..Len(U(k)) : U(k + x)[m] = U(k)[m]
      BY <3>1
    <3>3. \A m \in 1..Len(U(k + x)) : U((k + x) + 1)[m] = U(k + x)[m]
      BY <2>2, <3>1, TreeOrdersNext
    <3>4. Len(U(k)) <= Len(U(k + x)) /\ Len(U(k)) \in Nat /\ Len(U(k + x)) \in Nat
      BY <1>1, <3>1
    <3>. HIDE DEF U
    <3>5. \A m \in 1..Len(U(k)) : m \in 1..Len(U(k + x))
      BY ONLY <3>4
    <3>. QED
      BY <3>1, <3>2, <3>3, <3>5
  <2>. QED
    BY <2>1, <2>2
<1>4. T = Nat
  <2>. HIDE DEF T
  <2>1. T \in SUBSET Nat
    BY DEF T
  <2>. QED
    BY <1>2, <1>3, <2>1, Induct
<1>5. top - k \in Nat /\ k + (top - k) = top
  BY <1>1
<1>6. top - k \in T
  <2>. HIDE DEF T
  <2>. QED
    BY <1>4, <1>5
<1>. QED
  BY <1>5, <1>6

\* A link is to the place in preorder of the input that it is for.
LEMMA LinkIsInput ==
  ASSUME NEW plan, IsTree(plan), NEW order \in Seq(DOMAIN plan), Contiguous(plan, order),
         NEW id \in 1..Len(order), NEW l \in 1..Len(plan[order[id]].inputs)
  PROVE  LET link == LinkTo(plan, order[id], id, l)
         IN link \in Nat /\ id < link /\ link <= Len(order) /\ order[link] = plan[order[id]].inputs[l]
<1>. DEFINE i == order[id]
            top == Len(plan[i].inputs)
            U(k) == InputsOrder(plan, i, k)
            j == plan[i].inputs[l]
            k == l - 1
            len == Len(U(k))
<1>1. i \in DOMAIN plan /\ Len(order) \in Nat /\ id \in Nat
  BY ElementOfSeq, LenProperties
<1>0. l \in 1..top
  OBVIOUS
<1>. HIDE DEF i
<1>2. top \in Nat /\ k \in Nat /\ k + 1 = l /\ k + 1 <= top /\ l \in 0..top /\ top \in 0..top
  <2>1. top \in Nat
    BY <1>1, TreeOrders
  <2>. HIDE DEF top
  <2>. QED
    BY <1>0, <2>1
<1>3. /\ j \in DOMAIN plan /\ len \in Nat /\ Len(U(l)) \in Nat /\ Len(Order(plan, j)) \in Nat \ {0}
      /\ Len(U(l)) = len + Len(Order(plan, j))
      /\ \A m \in 1..Len(Order(plan, j)) : U(l)[len + m] = Order(plan, j)[m]
  <2>1. /\ plan[i].inputs[k + 1] \in DOMAIN plan
        /\ Len(U(k)) \in Nat /\ Len(U(k + 1)) \in Nat
        /\ Len(Order(plan, plan[i].inputs[k + 1])) \in Nat \ {0}
        /\ Len(U(k + 1)) = Len(U(k)) + Len(Order(plan, plan[i].inputs[k + 1]))
        /\ \A m \in 1..Len(Order(plan, plan[i].inputs[k + 1])) :
             U(k + 1)[Len(U(k)) + m] = Order(plan, plan[i].inputs[k + 1])[m]
    <3>. HIDE DEF k
    <3>. QED
      BY <1>1, <1>2, TreeOrdersNext
  <2>. HIDE DEF k
  <2>. QED
    BY <1>2, <2>1
<1>4. Len(U(l)) <= Len(U(top)) /\ Len(U(top)) \in Nat
  BY <1>1, <1>2, InputsLens
<1>5. \A m \in 1..Len(U(l)) : U(top)[m] = U(l)[m]
  BY <1>1, <1>2, InputsPrefix
<1>6. /\ Len(Order(plan, i)) = 1 + Len(U(top))
      /\ \A p \in 1..Len(U(top)) : Order(plan, i)[1 + p] = U(top)[p]
  BY ONLY IsTree(plan), <1>1, TreeOrders, SMTT(30)
<1>7. Order(plan, j)[1] = j
  BY ONLY IsTree(plan), <1>3, TreeOrders, ZenonT(30)
<1>8. /\ id - 1 + Len(Order(plan, i)) <= Len(order)
      /\ \A m \in 1..Len(Order(plan, i)) : order[id - 1 + m] = Order(plan, i)[m]
  BY <1>1 DEF Contiguous, i
<1>9. LinkTo(plan, i, id, l) = id + 1 + len
  BY DEF LinkTo
<1>. HIDE DEF U, i, j, len, top, k
<1>10. U(l)[len + 1] = j
  BY <1>3, <1>7
<1>11. len + 1 \in 1..Len(U(l)) /\ len + 1 \in 1..Len(U(top))
  BY <1>3, <1>4
<1>12. Order(plan, i)[1 + (len + 1)] = j
  BY <1>5, <1>6, <1>10, <1>11
<1>13. 1 + (len + 1) \in 1..Len(Order(plan, i)) /\ id - 1 + (1 + (len + 1)) = id + 1 + len
  BY <1>1, <1>3, <1>4, <1>6, <1>11
<1>14. order[id + 1 + len] = j
  <2>1. order[id - 1 + (1 + (len + 1))] = Order(plan, i)[1 + (len + 1)]
    BY <1>8, <1>13
  <2>. QED
    BY <1>12, <1>13, <2>1
<1>15. id + 1 + len \in Nat /\ id < id + 1 + len /\ id + 1 + len <= Len(order)
  BY <1>1, <1>3, <1>4, <1>6, <1>8
<1>. QED
  BY <1>9, <1>14, <1>15 DEF i, j

\* The links that a node has are those of its first inputs.
LEMMA LinksAre ==
  ASSUME NEW plan, IsTree(plan), NEW i \in DOMAIN plan, NEW id \in Nat
  PROVE  LET top == Len(plan[i].inputs)
             Link(l) == LinkTo(plan, i, id, l)
         IN \E k \in 0..top :
              /\ Links(plan, i, id, top) = [l \in 1..k |-> Link(l)]
              /\ \A l \in 1..k : Link(l) <= MaxNodes
              /\ k < top => Link(k + 1) > MaxNodes
<1>. DEFINE top == Len(plan[i].inputs)
            Link(l) == LinkTo(plan, i, id, l)
            L(l) == Len(InputsOrder(plan, i, l))
            Out == {l \in 1..top : Link(l) > MaxNodes}
<1>1. top \in Nat /\ \A k \in 0..top : L(k) \in Nat /\ \A l \in 0..k : L(l) \in Nat /\ L(l) <= L(k)
  BY InputsLens
<1>2. ASSUME NEW l \in 1..top PROVE Link(l) \in Nat
  <2>1. Link(l) = id + 1 + L(l - 1)
    BY DEF LinkTo
  <2>2. l - 1 \in 0..top
    BY <1>1
  <2>. HIDE DEF L, Link
  <2>3. L(l - 1) \in Nat
    BY <1>1, <2>2
  <2>. QED
    BY <2>1, <2>3
<1>3. ASSUME NEW k \in 1..top, NEW l \in 1..k PROVE Link(l) <= Link(k) /\ l \in 1..top
  <2>1. Link(l) = id + 1 + L(l - 1) /\ Link(k) = id + 1 + L(k - 1)
    BY DEF LinkTo
  <2>2. k - 1 \in 0..top /\ l - 1 \in 0..k - 1 /\ l - 1 \in 0..top
    BY <1>1
  <2>. HIDE DEF L, Link
  <2>3. L(l - 1) \in Nat /\ L(k - 1) \in Nat /\ L(l - 1) <= L(k - 1)
    BY <1>1, <2>2
  <2>. QED
    BY <1>1, <2>1, <2>3
<1>4. ASSUME NEW k \in 0..top, \A l \in 1..k : Link(l) <= MaxNodes,
             \A l \in 1..top : l > k => Link(l) > MaxNodes
      PROVE  Links(plan, i, id, top) = [l \in 1..k |-> Link(l)]
  <2>1. {m \in 1..top : Link(m) <= MaxNodes} = 1..k
    <3>1. ASSUME NEW m \in 1..top, Link(m) <= MaxNodes PROVE m \in 1..k
      <4>. HIDE DEF Link
      <4>. QED
        BY <1>1, <1>2, <1>4, <3>1, ExplainAssumption
    <3>2. ASSUME NEW m \in 1..k PROVE m \in 1..top /\ Link(m) <= MaxNodes
      BY <1>1, <1>4
    <3>. QED
      BY <3>1, <3>2
  <2>. QED
    BY <2>1 DEF Links
<1>. HIDE DEF Link, L
<1>5. CASE Out = {}
  <2>1. \A l \in 1..top : Link(l) <= MaxNodes
    BY <1>2, <1>5, ExplainAssumption
  <2>2. top \in 0..top /\ ~(top < top) /\ \A l \in 1..top : ~(l > top)
    BY <1>1
  <2>3. Links(plan, i, id, top) = [l \in 1..top |-> Link(l)]
    BY <1>4, <2>1, <2>2
  <2>. QED
    BY <2>1, <2>2, <2>3 DEF Link
<1>6. CASE Out # {}
  <2>1. PICK first \in Out : \A l \in Out : first <= l
    <3>1. Out \in SUBSET Nat
      OBVIOUS
    <3>. QED
      BY <1>6, <3>1, LeastMember
  <2>. DEFINE k == first - 1
  <2>2. first \in 1..top /\ Link(first) > MaxNodes /\ k \in 0..top /\ k + 1 = first
    BY <1>1, <2>1
  <2>3. ASSUME NEW l \in 1..k PROVE Link(l) <= MaxNodes
    <3>1. l \in 1..top /\ ~(first <= l)
      BY <1>1, <2>2
    <3>2. l \notin Out
      BY <2>1, <3>1
    <3>. QED
      BY <1>2, <3>1, <3>2, ExplainAssumption
  <2>4. ASSUME NEW l \in 1..top, l > k PROVE Link(l) > MaxNodes
    <3>1. first \in 1..l
      BY <2>2, <2>4
    <3>2. Link(first) <= Link(l) /\ Link(first) \in Nat /\ Link(l) \in Nat
      BY <1>2, <1>3, <2>2, <3>1
    <3>. QED
      BY <2>2, <3>2, ExplainAssumption
  <2>5. Links(plan, i, id, top) = [l \in 1..k |-> Link(l)]
    <3>. HIDE DEF k
    <3>. QED
      BY <1>4, <2>2, <2>3, <2>4
  <2>6. k < top => Link(k + 1) > MaxNodes
    BY <2>2
  <2>. HIDE DEF k
  <2>. QED
    BY <2>2, <2>3, <2>5, <2>6 DEF Link
<1>. QED
  BY <1>5, <1>6

-----------------------------------------------------------------------------
(* The second walk meets the nodes in the order of their numbers.          *)

\* The numbers that follow a number.
Run(from, len) == [m \in 1..len |-> from + m]

LEMMA RunJoined ==
  ASSUME NEW from \in Nat, NEW a \in Nat, NEW b \in Nat
  PROVE  Run(from, a) \o Run(from + a, b) = Run(from, a + b)
<1>1. /\ Run(from, a) = [x \in 1..a |-> Run(from, a)[x]]
      /\ Run(from + a, b) = [x \in 1..b |-> Run(from + a, b)[x]]
  BY DEF Run
<1>2. Run(from, a) \o Run(from + a, b)
        = [x \in 1..a + b |-> IF x <= a THEN Run(from, a)[x] ELSE Run(from + a, b)[x - a]]
  BY <1>1, Joined
<1>3. ASSUME NEW x \in 1..a + b
      PROVE  (IF x <= a THEN Run(from, a)[x] ELSE Run(from + a, b)[x - a]) = from + x
  <2>1. CASE x <= a
    <3>1. x \in 1..a
      BY <2>1
    <3>. QED
      BY <2>1, <3>1 DEF Run
  <2>2. CASE ~(x <= a)
    <3>1. x - a \in 1..b /\ (from + a) + (x - a) = from + x
      BY <2>2
    <3>2. Run(from + a, b)[x - a] = (from + a) + (x - a)
      BY <3>1 DEF Run
    <3>. QED
      BY <2>2, <3>1, <3>2
  <2>. QED
    BY <2>1, <2>2
<1>. QED
  BY <1>2, <1>3 DEF Run

\* The links of the first nodes of a tree that is laid out in preorder.
ShownLinks(plan, order, len) ==
  [id \in 1..len |-> Links(plan, order[id], id, Len(plan[order[id]].inputs))]

LEMMA ShownLinksRanked ==
  ASSUME NEW plan, IsTree(plan), NEW order \in Seq(DOMAIN plan), Contiguous(plan, order),
         NEW len, len = Lesser(Len(order), MaxNodes)
  PROVE  /\ len \in Nat /\ len <= Len(order) /\ DOMAIN ShownLinks(plan, order, len) = 1..len
         /\ Ranked(ShownLinks(plan, order, len), [id \in 1..len |-> len + 1 - id], len)
<1>. DEFINE C == ShownLinks(plan, order, len)
            rank == [id \in 1..len |-> len + 1 - id]
<1>1. len \in Nat /\ len <= Len(order) /\ Len(order) \in Nat /\ DOMAIN C = 1..len
  <2>1. Len(order) \in Nat
    BY LenProperties
  <2>. QED
    BY <2>1, ExplainAssumption DEF Lesser, ShownLinks
<1>2. ASSUME NEW id \in 1..len
      PROVE  /\ C[id] \in Seq(1..len)
             /\ \A k \in 1..Len(C[id]) : id < C[id][k] /\ C[id][k] \in 1..len
  <2>. DEFINE i == order[id]
              top == Len(plan[i].inputs)
              Link(l) == LinkTo(plan, i, id, l)
  <2>1. id \in 1..Len(order) /\ id \in Nat
    BY <1>1
  <2>2. i \in DOMAIN plan
    BY <2>1, ElementOfSeq
  <2>3. C[id] = Links(plan, i, id, top)
    BY DEF ShownLinks
  <2>4. PICK k \in 0..top : /\ Links(plan, i, id, top) = [l \in 1..k |-> Link(l)]
                            /\ \A l \in 1..k : Link(l) <= MaxNodes
    <3>. HIDE DEF i
    <3>. QED
      BY <2>1, <2>2, LinksAre
  <2>5. top \in Nat
    <3>. HIDE DEF i
    <3>. QED
      BY <2>2, TreeOrders
  <2>6. ASSUME NEW l \in 1..k PROVE Link(l) \in 1..len /\ id < Link(l)
    <3>1. l \in 1..top
      <4>. HIDE DEF top
      <4>. QED
        BY <2>5
    <3>2. Link(l) \in Nat /\ id < Link(l) /\ Link(l) <= Len(order)
      BY <2>1, <3>1, LinkIsInput
    <3>3. Link(l) <= MaxNodes
      BY <2>4
    <3>. HIDE DEF Link
    <3>. QED
      BY <1>1, <2>1, <3>2, <3>3, ExplainAssumption DEF Lesser
  <2>7. C[id] = [l \in 1..k |-> Link(l)] /\ k \in Nat
    <3>. HIDE DEF top, C
    <3>. QED
      BY <2>3, <2>4, <2>5
  <2>. HIDE DEF Link, C, top
  <2>8. C[id] \in [1..k -> 1..len]
    BY <2>6, <2>7
  <2>9. C[id] \in Seq(1..len)
    BY <2>7, <2>8, SeqDef
  <2>10. Len(C[id]) = k
    BY <2>7
  <2>. QED
    BY <2>6, <2>7, <2>9, <2>10
<1>3. rank \in [DOMAIN C -> 1..len]
  <2>1. \A id \in 1..len : len + 1 - id \in 1..len
    BY <1>1
  <2>. HIDE DEF C
  <2>. QED
    BY <1>1, <2>1
<1>4. \A id \in 1..len : \A k \in 1..Len(C[id]) : rank[C[id][k]] < rank[id]
  <2>1. ASSUME NEW id \in 1..len, NEW c \in 1..len, id < c PROVE rank[c] < rank[id]
    BY <1>1, <2>1
  <2>. HIDE DEF rank, C
  <2>. QED
    BY <1>2, <2>1
<1>. HIDE DEF C, rank
<1>5. Ranked(C, rank, len)
  BY <1>1, <1>2, <1>3, <1>4 DEF Ranked
<1>. QED
  BY <1>1, <1>5 DEF C, rank

\* As many numbers as there are nodes of the plan from here downwards, or room.
Visited(plan, order, id) ==
  Run(id - 1, Lesser(Len(Order(plan, order[id])), MaxNodes - (id - 1)))

LEMMA VisitOne ==
  ASSUME NEW plan, IsTree(plan), NEW order \in Seq(DOMAIN plan), Contiguous(plan, order),
         NEW len, len = Lesser(Len(order), MaxNodes), NEW id \in 1..len,
         \A c \in 1..len : id < c =>
           PreOrders(ShownLinks(plan, order, len))[c] = Visited(plan, order, c)
  PROVE  PreOrders(ShownLinks(plan, order, len))[id] = Visited(plan, order, id)
<1>. DEFINE C == ShownLinks(plan, order, len)
            W == PreOrders(C)
            i == order[id]
            top == Len(plan[i].inputs)
            Link(l) == LinkTo(plan, i, id, l)
            L(l) == Len(InputsOrder(plan, i, l))
            Below(l) == Under(C, W, id, l)
            R(l) == Run(id, Lesser(L(l), MaxNodes - id))
<1>1. /\ len \in Nat /\ len <= Len(order) /\ DOMAIN C = 1..len /\ Len(order) \in Nat
      /\ Ranked(C, [m \in 1..len |-> len + 1 - m], len)
  BY ShownLinksRanked, LenProperties
<1>2. /\ id \in Nat /\ id # 0 /\ id \in 1..Len(order) /\ id \in DOMAIN C
      /\ id <= MaxNodes /\ MaxNodes \in Nat
  BY <1>1, ExplainAssumption DEF Lesser
<1>3. i \in DOMAIN plan
  BY <1>2, ElementOfSeq
<1>4. C[id] = Links(plan, i, id, top)
  BY DEF ShownLinks
<1>5. /\ top \in Nat
      /\ \A l \in 0..top : L(l) \in Nat /\ \A m \in 0..l : L(m) \in Nat /\ L(m) <= L(l)
      /\ L(0) = 0 /\ Len(Order(plan, i)) = 1 + L(top)
  <2>. HIDE DEF i
  <2>. QED
    BY <1>3, InputsLens, TreeOrders
<1>6. PICK k \in 0..top : /\ Links(plan, i, id, top) = [l \in 1..k |-> Link(l)]
                          /\ \A l \in 1..k : Link(l) <= MaxNodes
                          /\ k < top => Link(k + 1) > MaxNodes
  <2>. HIDE DEF i
  <2>. QED
    BY <1>2, <1>3, LinksAre
<1>7. k \in Nat /\ k <= top /\ Len(C[id]) = k /\ \A l \in 1..k : C[id][l] = Link(l)
  <2>. HIDE DEF Link, C, top
  <2>. QED
    BY <1>4, <1>5, <1>6
<1>8. /\ Below(0) = << >>
      /\ \A l \in 0..k - 1 : Below(l + 1) = Below(l) \o W[C[id][l + 1]]
  <2>1. LET O == PreOrders(C)
            n == Len(C[id])
        IN /\ Under(C, O, id, 0) = << >>
           /\ \A l \in 0..n - 1 : Under(C, O, id, l + 1) = Under(C, O, id, l) \o O[C[id][l + 1]]
    <3>. HIDE DEF C
    <3>. QED
      BY <1>1, <1>2, UnderNext
  <2>. QED
    BY <1>7, <2>1
<1>9. W[id] = <<id>> \o Below(k)
  <2>1. W[id] = Downwards(C, W, id)
    <3>. HIDE DEF C
    <3>. QED
      BY <1>1, <1>2, PreOrderNext
  <2>. HIDE DEF C, W
  <2>. QED
    BY <1>7, <2>1 DEF Downwards
<1>10. \A l \in 0..top : Link(l + 1) = id + 1 + L(l)
  <2>1. \A l \in 0..top : (l + 1) - 1 = l
    BY <1>5
  <2>. QED
    BY <2>1 DEF LinkTo
<1>11. ASSUME NEW l \in Nat, l + 1 <= k, Below(l) = R(l) PROVE Below(l + 1) = R(l + 1)
  <2>. DEFINE c == Link(l + 1)
              j == plan[i].inputs[l + 1]
              o == Len(Order(plan, j))
  <2>1. /\ l + 1 \in 1..k /\ l + 1 \in 1..top /\ l \in 0..k - 1 /\ l \in 0..top /\ l + 1 \in 0..top
        /\ l + 1 <= top
    <3>. HIDE DEF top
    <3>. QED
      BY <1>5, <1>7, <1>11
  <2>2. c = id + 1 + L(l) /\ c <= MaxNodes /\ L(l) \in Nat /\ L(l + 1) \in Nat
    <3>. HIDE DEF L, Link, top
    <3>. QED
      BY <1>5, <1>6, <1>10, <2>1
  <2>3. c \in Nat /\ id < c /\ c <= Len(order) /\ order[c] = j
    BY <1>2, <2>1, LinkIsInput
  <2>4. o \in Nat /\ o # 0 /\ L(l + 1) = L(l) + o
    <3>1. l + 1 <= Len(plan[i].inputs)
      BY ONLY <2>1
    <3>. HIDE DEF i
    <3>. QED
      BY ONLY IsTree(plan), <1>3, l \in Nat, <3>1, TreeOrdersLens, Zenon
  <2>5. W[c] = Run(c - 1, Lesser(o, MaxNodes - (c - 1)))
    <3>1. c \in 1..len
      <4>. HIDE DEF c
      <4>. QED
        BY <1>1, <1>2, <2>2, <2>3 DEF Lesser
    <3>2. W[c] = Visited(plan, order, c)
      <4>. HIDE DEF c, W
      <4>. QED
        BY <2>3, <3>1 DEF W
    <3>. HIDE DEF c, W, j
    <3>. QED
      BY <2>3, <3>2 DEF Visited
  <2>6. Below(l + 1) = R(l) \o W[c]
    <3>. HIDE DEF Below, W, C, Link, R
    <3>. QED
      BY <1>7, <1>8, <1>11, <2>1
  <2>. HIDE DEF L, Link, c, o, W, Below
  <2>7. Lesser(L(l), MaxNodes - id) = L(l) /\ c - 1 = id + L(l)
    BY <1>2, <2>2 DEF Lesser
  <2>8. /\ Lesser(o, MaxNodes - (c - 1)) \in Nat
        /\ L(l) + Lesser(o, MaxNodes - (c - 1)) = Lesser(L(l + 1), MaxNodes - id)
    <3>. DEFINE room == MaxNodes - id
    <3>1. id \in Nat /\ MaxNodes \in Nat /\ L(l) \in Nat /\ c <= MaxNodes /\ c = id + 1 + L(l)
      BY <1>2, <2>2
    <3>2. room \in Nat /\ L(l) <= room /\ MaxNodes - (c - 1) = room - L(l)
      BY ONLY <3>1
    <3>. HIDE DEF room
    <3>3. Lesser(o, room - L(l)) \in Nat /\ L(l) + Lesser(o, room - L(l)) = Lesser(L(l) + o, room)
      <4>1. o \in Nat /\ L(l) \in Nat /\ room \in Nat /\ L(l) <= room
        BY ONLY <2>4, <3>1, <3>2, Zenon
      <4>. QED
        BY ONLY <4>1, LesserSplit, Zenon
    <3>4. Lesser(L(l + 1), MaxNodes - id) = Lesser(L(l) + o, room)
      BY ONLY <2>4, Zenon DEF room
    <3>. QED
      BY ONLY <3>2, <3>3, <3>4, Zenon
  <2>9. R(l) \o W[c] = Run(id, L(l)) \o Run(id + L(l), Lesser(o, MaxNodes - (c - 1)))
    BY <2>5, <2>7
  <2>10. R(l) \o W[c] = Run(id, L(l) + Lesser(o, MaxNodes - (c - 1)))
    <3>1. id \in Nat /\ L(l) \in Nat
      BY <1>2, <2>2
    <3>2. Run(id, L(l)) \o Run(id + L(l), Lesser(o, MaxNodes - (c - 1)))
            = Run(id, L(l) + Lesser(o, MaxNodes - (c - 1)))
      BY ONLY <2>8, <3>1, RunJoined
    <3>. QED
      BY ONLY <2>9, <3>2
  <2>. QED
    BY <2>6, <2>8, <2>10
<1>12. Below(0) = R(0)
  <2>1. Lesser(L(0), MaxNodes - id) = 0
    <3>. HIDE DEF L
    <3>. QED
      BY <1>2, <1>5 DEF Lesser
  <2>2. Run(id, 0) = << >>
    BY DEF Run
  <2>. QED
    BY <1>8, <2>1, <2>2
<1>13. Below(k) = R(k)
  <2>. DEFINE T == {l \in Nat : l <= k => Below(l) = R(l)}
  <2>1. 0 \in T
    BY <1>12
  <2>2. ASSUME NEW l \in T PROVE l + 1 \in T
    <3>1. l \in Nat /\ (l <= k => Below(l) = R(l))
      OBVIOUS
    <3>. HIDE DEF Below, R
    <3>. QED
      BY <1>7, <1>11, <3>1
  <2>3. T = Nat
    <3>. HIDE DEF T
    <3>1. T \in SUBSET Nat
      BY DEF T
    <3>. QED
      BY <2>1, <2>2, <3>1, Induct
  <2>4. k \in T
    <3>. HIDE DEF T
    <3>. QED
      BY <1>7, <2>3
  <2>. HIDE DEF Below, R
  <2>. QED
    BY <1>7, <2>4
<1>14. Lesser(L(k), MaxNodes - id) = Lesser(L(top), MaxNodes - id)
  <2>1. CASE k = top
    BY <2>1
  <2>2. CASE k # top
    <3>1. id + 1 + L(k) > MaxNodes
      <4>. HIDE DEF L, Link, top
      <4>. QED
        BY <1>5, <1>6, <1>7, <1>10, <2>2
    <3>2. L(k) \in Nat /\ L(top) \in Nat /\ L(k) <= L(top)
      <4>. HIDE DEF L, top
      <4>. QED
        BY <1>5
    <3>3. ~(L(k) < MaxNodes - id) /\ ~(L(top) < MaxNodes - id)
      <4>. HIDE DEF L, top
      <4>. QED
        BY <1>2, <3>1, <3>2
    <3>. QED
      BY <3>3 DEF Lesser
  <2>. QED
    BY <2>1, <2>2
<1>15. <<id>> = Run(id - 1, 1)
  <2>1. (id - 1) + 1 = id
    BY <1>2
  <2>. QED
    BY <2>1 DEF Run
<1>16. W[id] = Run(id - 1, 1 + Lesser(L(top), MaxNodes - id))
  <2>. HIDE DEF L, W, Below, top
  <2>1. Lesser(L(top), MaxNodes - id) \in Nat
    <3>1. L(top) \in Nat
      BY <1>5
    <3>. QED
      BY <1>2, <3>1 DEF Lesser
  <2>2. W[id] = Run(id - 1, 1) \o Run(id, Lesser(L(top), MaxNodes - id))
    BY <1>9, <1>13, <1>14, <1>15
  <2>3. (id - 1) + 1 = id /\ id - 1 \in Nat
    BY <1>2
  <2>. DEFINE x == Lesser(L(top), MaxNodes - id)
  <2>4. Run(id - 1, 1) \o Run((id - 1) + 1, x) = Run(id - 1, 1 + x)
    <3>. HIDE DEF x
    <3>. QED
      BY ONLY <2>1, <2>3, RunJoined DEF x
  <2>. HIDE DEF x
  <2>. QED
    BY ONLY <2>2, <2>3, <2>4, Zenon DEF x
<1>17. 1 + Lesser(L(top), MaxNodes - id) = Lesser(Len(Order(plan, i)), MaxNodes - (id - 1))
  <2>. HIDE DEF L, top
  <2>1. L(top) \in Nat
    BY <1>5
  <2>2. CASE L(top) < MaxNodes - id
    <3>1. 1 + L(top) < MaxNodes - (id - 1)
      BY <1>2, <2>1, <2>2
    <3>. QED
      BY <1>5, <2>2, <3>1 DEF Lesser
  <2>3. CASE ~(L(top) < MaxNodes - id)
    <3>1. ~(1 + L(top) < MaxNodes - (id - 1))
      BY <1>2, <2>1, <2>3
    <3>2. 1 + (MaxNodes - id) = MaxNodes - (id - 1)
      BY <1>2
    <3>. QED
      BY <1>5, <2>3, <3>1, <3>2 DEF Lesser
  <2>. QED
    BY <2>2, <2>3
<1>. QED
  BY <1>16, <1>17 DEF Visited

LEMMA VisitAll ==
  ASSUME NEW plan, IsTree(plan), NEW order \in Seq(DOMAIN plan), Contiguous(plan, order),
         NEW len, len = Lesser(Len(order), MaxNodes)
  PROVE  \A id \in 1..len : PreOrders(ShownLinks(plan, order, len))[id] = Visited(plan, order, id)
<1>. DEFINE Met(id) == PreOrders(ShownLinks(plan, order, len))[id] = Visited(plan, order, id)
            T == {k \in Nat : \A id \in 1..len : len + 1 - id <= k => Met(id)}
<1>1. len \in Nat
  BY ShownLinksRanked
<1>2. 0 \in T
  BY <1>1
<1>3. ASSUME NEW k \in T PROVE k + 1 \in T
  <2>1. k \in Nat /\ \A id \in 1..len : len + 1 - id <= k => Met(id)
    OBVIOUS
  <2>2. ASSUME NEW id \in 1..len, len + 1 - id <= k + 1 PROVE Met(id)
    <3>1. \A c \in 1..len : id < c => len + 1 - c <= k
      BY <1>1, <2>1, <2>2
    <3>2. \A c \in 1..len : id < c => Met(c)
      BY <2>1, <3>1
    <3>. QED
      BY <3>2, VisitOne
  <2>. QED
    BY <2>1, <2>2
<1>4. T = Nat
  <2>. HIDE DEF T
  <2>1. T \in SUBSET Nat
    BY DEF T
  <2>. QED
    BY <1>2, <1>3, <2>1, Induct
<1>5. ASSUME NEW id \in 1..len PROVE Met(id)
  <2>1. len + 1 - id \in Nat /\ len + 1 - id <= len + 1 - id
    BY <1>1
  <2>2. len + 1 - id \in T
    <3>. HIDE DEF T
    <3>. QED
      BY <1>4, <2>1
  <2>. HIDE DEF Met
  <2>. QED
    BY <2>1, <2>2
<1>. QED
  BY <1>5

LEMMA VisitOrderIs ==
  ASSUME NEW plan, IsTree(plan), NEW ctx, Graph(plan, ctx).nodes # << >>
  PROVE  VisitOrder(Graph(plan, ctx)) = Run(0, Len(Graph(plan, ctx).nodes))
<1>. DEFINE order == PreOrder(plan)
            len == Lesser(Len(order), MaxNodes)
            nodes == Graph(plan, ctx).nodes
            C == ShownLinks(plan, order, len)
<1>1. /\ order \in Seq(DOMAIN plan) /\ order = Order(plan, Len(plan)) /\ len \in Nat
      /\ nodes = [m \in 1..len |-> NodeAt(plan, ctx, order[m], m)]
      /\ DOMAIN nodes = 1..len /\ Len(nodes) = len
  BY GraphIs
<1>2. Len(plan) \in DOMAIN plan
  BY ONLY IsTree(plan), TreeRanked, Zenon
<1>3. Contiguous(plan, order) /\ order[1] = Len(plan)
  <2>1. Contiguous(plan, Order(plan, Len(plan)))
    BY ONLY IsTree(plan), <1>2, AllContiguous
  <2>2. Order(plan, Len(plan))[1] = Len(plan)
    BY ONLY IsTree(plan), <1>2, TreeOrders
  <2>3. order = Order(plan, Len(plan))
    BY <1>1
  <2>. QED
    BY ONLY <2>1, <2>2, <2>3, Zenon
<1>4. len # 0
  <2>1. nodes # << >>
    OBVIOUS
  <2>. HIDE DEF nodes, len
  <2>. QED
    BY <1>1, <2>1
<1>. HIDE DEF order
<1>5. [id \in DOMAIN nodes |-> nodes[id].children] = C
  <2>. HIDE DEF nodes, len
  <2>1. \A id \in 1..len :
          nodes[id].children = Links(plan, order[id], id, Len(plan[order[id]].inputs))
    BY <1>1, WithParts DEF NodeAt
  <2>. QED
    BY <1>1, <2>1 DEF ShownLinks
<1>6. VisitOrder(Graph(plan, ctx)) = PreOrders(C)[1]
  <2>. HIDE DEF C
  <2>. QED
    BY <1>5 DEF VisitOrder
<1>7. 1 \in 1..len
  <2>. HIDE DEF len
  <2>. QED
    BY <1>1, <1>4
<1>8. PreOrders(C)[1] = Visited(plan, order, 1)
  BY <1>1, <1>3, <1>7, VisitAll
<1>9. Visited(plan, order, 1) = Run(0, len)
  <2>1. /\ 1 - 1 = 0 /\ MaxNodes - 0 = MaxNodes
        /\ order[1] = Len(plan) /\ order = Order(plan, Len(plan))
    BY <1>1, <1>3, ExplainAssumption
  <2>. QED
    BY ONLY <2>1, Zenon DEF Visited
<1>. QED
  BY <1>1, <1>6, <1>8, <1>9

\* What ANALYZE counts is shown on the node it was counted for, in a truncated graph
\* too, if the physical plan has the shape of the logical one (explain.rs:815-841,
\* engine.rs:1484-1507).
THEOREM MetricsOnOwnNodeAlways == Spec => []MetricsOnOwnNode
<1>1. ASSUME ExplainInv, HasGraph, answer.measured, SameShape(Optimized, Physical),
             NEW id \in DOMAIN AnsweredGraph.nodes
      PROVE  AnsweredGraph.nodes[id].rows = Physical[PreOrder(Physical)[id]].rows
  <2>. DEFINE graph == Graph(Optimized, Context)
              metrics == Metrics(Physical)
              order == PreOrder(Optimized)
              operators == PreOrder(Physical)
              len == Lesser(Len(order), MaxNodes)
              visited == VisitOrder(graph)
              shown == [m \in 1..len |-> NodeAt(Optimized, Context, order[m], m)]
              some == Len(order) > MaxNodes
  <2>1. IsTree(Optimized) /\ IsTree(Physical) /\ AnsweredGraph = Measured(graph, metrics)
    BY <1>1, QueriesAssumption
       DEF IsPlan, ExplainInv, AnswerInv, Optimized, Physical, AnsweredGraph, Context
  <2>2. /\ graph.nodes = shown /\ graph = [nodes |-> shown, truncated |-> some]
        /\ Len(graph.nodes) = len /\ len \in Nat /\ len <= Len(order) /\ Len(order) \in Nat
    BY <2>1, GraphIs
  <2>3. DOMAIN shown = 1..len /\ \A m \in 1..len : DOMAIN shown[m] = NodeFields
    BY WithParts DEF NodeAt
  <2>4. id \in 1..len
    BY <1>1, AnsweredParts
  <2>5. visited = Run(0, len)
    <3>1. graph.nodes # << >>
      <4>. HIDE DEF graph, shown, len
      <4>. QED
        BY <2>2, <2>3, <2>4
    <3>. QED
      BY <2>1, <2>2, <3>1, VisitOrderIs
  <2>6. Len(operators) = Len(order) /\ DOMAIN operators = 1..Len(operators)
    <3>1. Len(Physical) \in DOMAIN Physical
      BY ONLY <2>1, TreeRanked, Zenon
    <3>2. operators \in Seq(DOMAIN Physical)
      BY <2>1, <3>1, TreeOrders DEF PreOrder, Order
    <3>. QED
      BY <1>1, <3>2, LenProperties DEF SameShape
  <2>7. /\ id <= Len(metrics) /\ metrics[id] = Physical[operators[id]].rows
    <3>1. metrics = [n \in DOMAIN operators |-> Physical[operators[n]].rows]
      BY DEF Metrics
    <3>. HIDE DEF operators, order, len, metrics
    <3>2. id \in 1..Len(order)
      BY <2>2, <2>4
    <3>3. metrics = [n \in 1..Len(order) |-> Physical[operators[n]].rows]
      BY <2>6, <3>1
    <3>4. Len(metrics) = Len(order)
      BY <2>2, <3>3
    <3>. QED
      BY <2>2, <3>2, <3>3, <3>4
  <2>. HIDE DEF graph, metrics, order, operators, len, shown, some
  <2>8. (CHOOSE n \in DOMAIN visited : visited[n] = id) = id
    <3>. HIDE DEF visited
    <3>1. DOMAIN visited = 1..len /\ \A n \in 1..len : visited[n] = n
      BY <2>2, <2>5 DEF Run
    <3>. QED
      BY <2>4, <3>1
  <2>9. AnsweredGraph.nodes[id].rows = RowsOf(graph, metrics, id)
    <3>1. \A m \in DOMAIN shown : Measured(graph, metrics).nodes[m].rows = RowsOf(graph, metrics, m)
      <4>1. \A m \in DOMAIN shown : DOMAIN shown[m] = NodeFields
        BY <2>3
      <4>. QED
        BY ONLY <2>2, <4>1, MeasuredParts
    <3>. QED
      BY <2>1, <2>3, <2>4, <3>1
  <2>10. RowsOf(graph, metrics, id)
           = LET n == CHOOSE n \in DOMAIN visited : visited[n] = id
             IN IF n <= Len(metrics) THEN metrics[n] ELSE None
    BY Zenon DEF RowsOf
  <2>. HIDE DEF visited
  <2>. QED
    BY <2>7, <2>8, <2>9, <2>10 DEF operators
<1>2. ExplainInv => MetricsOnOwnNode
  BY <1>1 DEF MetricsOnOwnNode
<1>. QED
  BY <1>2, ExplainInvAlways, PTL

-----------------------------------------------------------------------------
(* The nodes of a tree from a node downwards.                              *)

Below(plan, i) == ToSet(PreOrders(Inputs(plan))[i])

\* Under a node are the nodes from its inputs downwards.
LEMMA UnderInputs ==
  ASSUME NEW plan, IsTree(plan), NEW i \in DOMAIN plan, NEW k \in 0..Len(plan[i].inputs)
  PROVE  ToSet(InputsOrder(plan, i, k)) = UNION {Below(plan, plan[i].inputs[l]) : l \in 1..k}
<1>. DEFINE top == Len(plan[i].inputs)
            u(m) == InputsOrder(plan, i, m)
            B(m) == UNION {Below(plan, plan[i].inputs[l]) : l \in 1..m}
            T == {m \in Nat : m <= top => ToSet(u(m)) = B(m)}
<1>1. top \in Nat
  BY TreeOrders
<1>2. 0 \in T
  <2>1. u(0) = << >>
    BY TreeOrders
  <2>2. B(0) = {} /\ ToSet(<< >>) = {}
    BY DEF ToSet
  <2>. QED
    BY <2>1, <2>2
<1>3. ASSUME NEW m \in T PROVE m + 1 \in T
  <2>0. m \in Nat
    OBVIOUS
  <2>1. ASSUME m + 1 <= top PROVE ToSet(u(m + 1)) = B(m + 1)
    <3>. DEFINE j == plan[i].inputs[m + 1]
                o == Order(plan, j)
    <3>1. m <= top /\ m \in 0..top /\ m + 1 \in 0..top /\ ToSet(u(m)) = B(m)
      BY <1>1, <2>0, <2>1
    <3>2. /\ j \in DOMAIN plan /\ Len(u(m)) \in Nat /\ Len(u(m + 1)) = Len(u(m)) + Len(o)
          /\ \A n \in 1..Len(u(m)) : u(m + 1)[n] = u(m)[n]
          /\ \A n \in 1..Len(o) : u(m + 1)[Len(u(m)) + n] = o[n]
      BY <2>0, <2>1, TreeOrdersNext
    <3>3. u(m) \in Seq(DOMAIN plan) /\ u(m + 1) \in Seq(DOMAIN plan)
      BY <3>1, TreeOrders
    <3>4. o \in Seq(DOMAIN plan)
      BY <3>2, TreeOrders
    <3>5. /\ DOMAIN u(m) = 1..Len(u(m)) /\ DOMAIN u(m + 1) = 1..Len(u(m + 1))
          /\ DOMAIN o = 1..Len(o) /\ Len(o) \in Nat
      BY <3>3, <3>4, LenProperties
    <3>6. ToSet(o) = Below(plan, j)
      BY DEF Below, Order
    <3>7. B(m + 1) = B(m) \cup Below(plan, j)
      <4>1. 1..m + 1 = 1..m \cup {m + 1}
        BY <2>0
      <4>. HIDE DEF j
      <4>. QED
        BY <4>1 DEF j
    <3>. HIDE DEF u, o, j, B
    <3>8. ToSet(u(m + 1)) = ToSet(u(m)) \cup ToSet(o)
      <4>1. ASSUME NEW n \in 1..Len(u(m + 1)) PROVE u(m + 1)[n] \in ToSet(u(m)) \cup ToSet(o)
        <5>1. CASE n <= Len(u(m))
          BY <3>2, <3>5, <5>1 DEF ToSet
        <5>2. CASE ~(n <= Len(u(m)))
          <6>1. n - Len(u(m)) \in 1..Len(o) /\ Len(u(m)) + (n - Len(u(m))) = n
            BY <3>2, <3>5, <5>2
          <6>. QED
            BY <3>2, <3>5, <6>1 DEF ToSet
        <5>. QED
          BY <5>1, <5>2
      <4>2. ASSUME NEW n \in 1..Len(u(m)) PROVE u(m)[n] \in ToSet(u(m + 1))
        <5>1. n \in 1..Len(u(m + 1))
          BY <3>2, <3>5
        <5>. QED
          BY <3>2, <3>5, <5>1 DEF ToSet
      <4>3. ASSUME NEW n \in 1..Len(o) PROVE o[n] \in ToSet(u(m + 1))
        <5>1. Len(u(m)) + n \in 1..Len(u(m + 1))
          BY <3>2, <3>5
        <5>. QED
          BY <3>2, <3>5, <5>1 DEF ToSet
      <4>. QED
        BY <3>5, <4>1, <4>2, <4>3 DEF ToSet
    <3>. QED
      BY <3>1, <3>6, <3>7, <3>8
  <2>. QED
    BY <2>0, <2>1
<1>4. T = Nat
  <2>. HIDE DEF T
  <2>1. T \in SUBSET Nat
    BY DEF T
  <2>. QED
    BY <1>2, <1>3, <2>1, Induct
<1>5. k \in T
  <2>. HIDE DEF T
  <2>. QED
    BY <1>1, <1>4
<1>. QED
  BY <1>1, <1>5

\* From a node downwards are the node, and the nodes from its inputs downwards.
LEMMA BelowNode ==
  ASSUME NEW plan, IsTree(plan), NEW i \in DOMAIN plan
  PROVE  /\ Below(plan, i) \subseteq DOMAIN plan
         /\ Below(plan, i)
              = {i} \cup UNION {Below(plan, plan[i].inputs[k]) : k \in 1..Len(plan[i].inputs)}
<1>. DEFINE n == Len(plan[i].inputs)
            u == InputsOrder(plan, i, n)
            o == Order(plan, i)
<1>1. /\ n \in Nat /\ o \in Seq(DOMAIN plan) /\ u \in Seq(DOMAIN plan)
      /\ Len(o) = 1 + Len(u) /\ o[1] = i /\ \A p \in 1..Len(u) : o[1 + p] = u[p]
  BY TreeOrders
<1>2. ToSet(u) = UNION {Below(plan, plan[i].inputs[k]) : k \in 1..n}
  <2>1. n \in 0..n
    BY <1>1
  <2>. QED
    BY <2>1, UnderInputs
<1>3. DOMAIN u = 1..Len(u) /\ DOMAIN o = 1..Len(o) /\ Len(u) \in Nat
  BY <1>1, LenProperties
<1>4. ToSet(o) = Below(plan, i)
  BY DEF Below, Order
<1>. HIDE DEF u, o, n
<1>5. ToSet(o) = {i} \cup ToSet(u)
  <2>1. ASSUME NEW p \in 1..Len(o) PROVE o[p] \in {i} \cup ToSet(u)
    <3>1. CASE p = 1
      BY <1>1, <3>1
    <3>2. CASE p # 1
      <4>1. p - 1 \in 1..Len(u) /\ 1 + (p - 1) = p
        BY <1>1, <1>3, <3>2
      <4>. QED
        BY <1>1, <1>3, <4>1 DEF ToSet
    <3>. QED
      BY <3>1, <3>2
  <2>2. ASSUME NEW p \in 1..Len(u) PROVE u[p] \in ToSet(o)
    <3>1. 1 + p \in 1..Len(o)
      BY <1>1, <1>3
    <3>. QED
      BY <1>1, <1>3, <3>1 DEF ToSet
  <2>3. i \in ToSet(o)
    <3>1. 1 \in 1..Len(o)
      BY <1>1, <1>3
    <3>. QED
      BY <1>1, <1>3, <3>1 DEF ToSet
  <2>. QED
    BY <1>3, <2>1, <2>2, <2>3 DEF ToSet
<1>6. ToSet(o) \subseteq DOMAIN plan
  BY <1>1, <1>3, ElementOfSeq DEF ToSet
<1>. QED
  BY <1>2, <1>4, <1>5, <1>6 DEF n

-----------------------------------------------------------------------------
(* The names of nodes.                                                     *)

\* Only the names of a node's inputs matter.
LEMMA SameNamed ==
  ASSUME NEW plan, IsTree(plan), NEW i \in DOMAIN plan, NEW g, NEW h,
         \A k \in 1..Len(plan[i].inputs) : g[plan[i].inputs[k]] = h[plan[i].inputs[k]]
  PROVE  Named(plan, g, i) = Named(plan, h, i)
<1>. DEFINE inputs == plan[i].inputs
            names(f) == {k \in DOMAIN inputs : f[inputs[k]] # None}
<1>1. DOMAIN inputs = 1..Len(inputs) /\ Len(inputs) \in Nat
  BY TreeOrders
<1>2. names(g) = names(h)
  BY <1>1
<1>3. names(g) # {} => Min(names(g)) \in names(g)
  <2>1. names(g) \in SUBSET Nat
    BY <1>1
  <2>. HIDE DEF names
  <2>. QED
    BY <2>1, LeastChosen
<1>4. names(g) # {} => g[inputs[Min(names(g))]] = h[inputs[Min(names(g))]]
  BY <1>1, <1>3
<1>5. \A f : Named(plan, f, i) = IF plan[i].op = "scan" THEN plan[i].table[2]
                                  ELSE IF names(f) # {} THEN f[inputs[Min(names(f))]]
                                  ELSE IF plan[i].op = "alias" THEN plan[i].name ELSE None
  BY DEF Named
<1>. HIDE DEF names, inputs
<1>. QED
  BY <1>2, <1>4, <1>5

\* A node that is no scan is called like one of its inputs, if one has a name.
LEMMA NamedInput ==
  ASSUME NEW plan, IsTree(plan), NEW i \in DOMAIN plan, plan[i].op # "scan", NEW below
  PROVE  \/ \E k \in 1..Len(plan[i].inputs) :
              /\ below[plan[i].inputs[k]] # None
              /\ Named(plan, below, i) = below[plan[i].inputs[k]]
         \/ /\ \A k \in 1..Len(plan[i].inputs) : below[plan[i].inputs[k]] = None
            /\ Named(plan, below, i) = IF plan[i].op = "alias" THEN plan[i].name ELSE None
<1>. DEFINE inputs == plan[i].inputs
            names == {k \in DOMAIN inputs : below[inputs[k]] # None}
<1>1. DOMAIN inputs = 1..Len(inputs) /\ Len(inputs) \in Nat
  BY TreeOrders
<1>2. Named(plan, below, i) = IF names # {} THEN below[inputs[Min(names)]]
                              ELSE IF plan[i].op = "alias" THEN plan[i].name ELSE None
  BY DEF Named
<1>3. CASE names # {}
  <2>1. Min(names) \in names
    <3>1. names \in SUBSET Nat
      BY <1>1
    <3>. HIDE DEF names
    <3>. QED
      BY <1>3, <3>1, LeastChosen
  <2>2. PICK k \in names : k = Min(names)
    BY <2>1
  <2>3. k \in 1..Len(inputs) /\ below[inputs[k]] # None
    BY <1>1
  <2>. HIDE DEF names
  <2>. QED
    BY <1>2, <1>3, <2>2, <2>3
<1>4. CASE names = {}
  <2>1. \A k \in 1..Len(inputs) : below[inputs[k]] = None
    BY <1>1, <1>4
  <2>. HIDE DEF names
  <2>. QED
    BY <1>2, <1>4, <2>1
<1>. QED
  BY <1>3, <1>4

\* There is a name for every node.
LEMMA PrimaryTablesAre ==
  ASSUME NEW plan, IsTree(plan)
  PROVE  \A i \in DOMAIN plan : PrimaryTables(plan)[i] = Named(plan, PrimaryTables(plan), i)
<1>. DEFINE V == DOMAIN plan
            IsN(g) == g = [i \in V |-> Named(plan, g, i)]
            names == CHOOSE g : IsN(g)
            D(k) == {i \in V : i <= k}
            T == {k \in Nat : \E g : g = [i \in D(k) |-> Named(plan, g, i)]}
<1>1. /\ V = 1..Len(plan) /\ Len(plan) \in Nat
      /\ \A i \in V : \A k \in 1..Len(plan[i].inputs) : plan[i].inputs[k] \in V /\ plan[i].inputs[k] < i
  BY TreeInputs
<1>2. 0 \in T
  <2>1. D(0) = {}
    BY <1>1
  <2>. DEFINE g == [i \in D(0) |-> {}]
  <2>2. g = [i \in D(0) |-> Named(plan, g, i)]
    BY <2>1
  <2>3. \E f : f = [i \in D(0) |-> Named(plan, f, i)]
    <3>. HIDE DEF g
    <3>. QED
      BY <2>2
  <2>. QED
    BY <2>3
<1>3. ASSUME NEW k \in T PROVE k + 1 \in T
  <2>0. k \in Nat
    OBVIOUS
  <2>1. PICK g : g = [i \in D(k) |-> Named(plan, g, i)]
    OBVIOUS
  <2>. DEFINE h == [i \in D(k + 1) |-> Named(plan, g, i)]
  <2>2. \A i \in D(k) : i \in D(k + 1) /\ h[i] = g[i]
    <3>1. D(k) \subseteq D(k + 1)
      BY <1>1, <2>0
    <3>. QED
      BY <2>1, <3>1
  <2>3. ASSUME NEW i \in D(k + 1) PROVE h[i] = Named(plan, h, i)
    <3>1. \A l \in 1..Len(plan[i].inputs) : plan[i].inputs[l] \in D(k)
      BY <1>1, <2>0
    <3>2. \A l \in 1..Len(plan[i].inputs) : g[plan[i].inputs[l]] = h[plan[i].inputs[l]]
      <4>. HIDE DEF h, D
      <4>. QED
        BY <2>2, <3>1
    <3>3. h[i] = Named(plan, g, i) /\ i \in V
      OBVIOUS
    <3>. HIDE DEF h, D
    <3>. QED
      BY <3>2, <3>3, SameNamed
  <2>4. h = [i \in D(k + 1) |-> Named(plan, h, i)]
    BY <2>3
  <2>5. \E f : f = [i \in D(k + 1) |-> Named(plan, f, i)]
    <3>. HIDE DEF h
    <3>. QED
      BY <2>4
  <2>. HIDE DEF h, D
  <2>. QED
    BY <2>0, <2>5
<1>4. T = Nat
  <2>. HIDE DEF T
  <2>1. T \in SUBSET Nat
    BY DEF T
  <2>. QED
    BY <1>2, <1>3, <2>1, Induct
<1>5. \E g : IsN(g)
  <2>1. Len(plan) \in T
    <3>. HIDE DEF T
    <3>. QED
      BY <1>1, <1>4
  <2>2. D(Len(plan)) = V
    BY <1>1
  <2>. QED
    BY <2>1, <2>2
<1>6. IsN(names)
  <2>. HIDE DEF IsN
  <2>. QED
    BY <1>5, Zenon
<1>7. PrimaryTables(plan) = names
  BY DEF PrimaryTables
<1>. HIDE DEF names
<1>. QED
  BY <1>6, <1>7
\* What the nodes from a node downwards can give it a name from.
ScannedBelow(plan, i) == {j \in Below(plan, i) : plan[j].op = "scan"}

BareBelow(plan, i) ==
  {j \in Below(plan, i) : plan[j].op = "alias" /\ ScannedBelow(plan, j) = {}}

NameFrom(plan, i, name) ==
  \/ \E j \in ScannedBelow(plan, i) : name = plan[j].table[2]
  \/ \E j \in BareBelow(plan, i) : name = plan[j].name

\* A node has no name only if nothing could give it one.
NameIsRight(plan, i) ==
  IF PrimaryTables(plan)[i] = None THEN ScannedBelow(plan, i) = {} /\ BareBelow(plan, i) = {}
  ELSE NameFrom(plan, i, PrimaryTables(plan)[i])

LEMMA NameOfNode ==
  ASSUME NEW plan, IsPlan(plan), NEW i \in DOMAIN plan,
         \A k \in 1..Len(plan[i].inputs) : NameIsRight(plan, plan[i].inputs[k])
  PROVE  NameIsRight(plan, i)
<1>. DEFINE node == plan[i]
            N == PrimaryTables(plan)
            In(k) == node.inputs[k]
<1>1. /\ IsTree(plan)
      /\ node.op = "scan" => node.table[2] # None
      /\ node.op = "alias" => node.name # None
  BY DEF IsPlan
<1>2. N[i] = Named(plan, N, i)
  BY <1>1, PrimaryTablesAre
<1>3. Below(plan, i) = {i} \cup UNION {Below(plan, In(k)) : k \in 1..Len(node.inputs)}
  BY <1>1, BelowNode
<1>4. \A k \in 1..Len(node.inputs) : /\ ScannedBelow(plan, In(k)) \subseteq ScannedBelow(plan, i)
                                     /\ BareBelow(plan, In(k)) \subseteq BareBelow(plan, i)
  BY <1>3 DEF ScannedBelow, BareBelow
<1>5. CASE node.op = "scan"
  <2>1. N[i] = node.table[2]
    BY <1>2, <1>5 DEF Named
  <2>2. i \in ScannedBelow(plan, i)
    BY <1>3, <1>5 DEF ScannedBelow
  <2>. QED
    BY <1>1, <1>5, <2>1, <2>2 DEF NameIsRight, NameFrom
<1>6. ASSUME node.op # "scan", NEW k \in 1..Len(node.inputs), N[In(k)] # None, N[i] = N[In(k)]
      PROVE  NameIsRight(plan, i)
  <2>1. NameFrom(plan, In(k), N[In(k)])
    BY <1>6 DEF NameIsRight
  <2>2. NameFrom(plan, i, N[i])
    <3>. HIDE DEF In, N
    <3>. QED
      BY <1>4, <1>6, <2>1 DEF NameFrom
  <2>. QED
    BY <1>6, <2>2 DEF NameIsRight
<1>7. ASSUME node.op # "scan", \A k \in 1..Len(node.inputs) : N[In(k)] = None,
             N[i] = IF node.op = "alias" THEN node.name ELSE None
      PROVE  NameIsRight(plan, i)
  <2>1. \A k \in 1..Len(node.inputs) : /\ ScannedBelow(plan, In(k)) = {}
                                       /\ BareBelow(plan, In(k)) = {}
    BY <1>7 DEF NameIsRight
  <2>. HIDE DEF In, N, node
  <2>2. ScannedBelow(plan, i) = {}
    BY <1>3, <1>7, <2>1 DEF ScannedBelow, node
  <2>3. CASE node.op = "alias"
    <3>1. i \in BareBelow(plan, i)
      BY <1>3, <2>2, <2>3 DEF BareBelow, node
    <3>. QED
      BY <1>1, <1>7, <2>3, <3>1 DEF NameIsRight, NameFrom, node, N
  <2>4. CASE node.op # "alias"
    <3>1. BareBelow(plan, i) = {}
      BY <1>3, <2>1, <2>4 DEF BareBelow, node
    <3>. QED
      BY <1>7, <2>2, <2>4, <3>1 DEF NameIsRight, N
  <2>. QED
    BY <2>3, <2>4
<1>8. CASE node.op # "scan"
  <2>1. \/ \E k \in 1..Len(node.inputs) : N[In(k)] # None /\ N[i] = N[In(k)]
        \/ /\ \A k \in 1..Len(node.inputs) : N[In(k)] = None
           /\ N[i] = IF node.op = "alias" THEN node.name ELSE None
    BY <1>1, <1>2, <1>8, NamedInput
  <2>. HIDE DEF N, In, node
  <2>. QED
    BY <1>6, <1>7, <1>8, <2>1
<1>. QED
  BY <1>5, <1>8

LEMMA NamesAreRight ==
  ASSUME NEW plan, IsPlan(plan)
  PROVE  \A i \in DOMAIN plan : NameIsRight(plan, i)
<1>. DEFINE V == DOMAIN plan
            T == {k \in Nat : \A i \in V : i <= k => NameIsRight(plan, i)}
<1>1. /\ V = 1..Len(plan) /\ Len(plan) \in Nat
      /\ \A i \in V : \A k \in 1..Len(plan[i].inputs) : plan[i].inputs[k] \in V /\ plan[i].inputs[k] < i
  BY TreeInputs DEF IsPlan
<1>2. 0 \in T
  BY <1>1
<1>3. ASSUME NEW k \in T PROVE k + 1 \in T
  <2>1. k \in Nat /\ \A i \in V : i <= k => NameIsRight(plan, i)
    OBVIOUS
  <2>2. ASSUME NEW i \in V, i <= k + 1 PROVE NameIsRight(plan, i)
    <3>1. \A l \in 1..Len(plan[i].inputs) : plan[i].inputs[l] \in V /\ plan[i].inputs[l] <= k
      <4>1. \A l \in 1..Len(plan[i].inputs) : plan[i].inputs[l] \in V /\ plan[i].inputs[l] < i
        BY <1>1
      <4>. QED
        BY <1>1, <2>1, <2>2, <4>1
    <3>. QED
      BY <2>1, <3>1, NameOfNode
  <2>. QED
    BY <2>1, <2>2
<1>4. T = Nat
  <2>. HIDE DEF T
  <2>1. T \in SUBSET Nat
    BY DEF T
  <2>. QED
    BY <1>2, <1>3, <2>1, Induct
<1>5. ASSUME NEW i \in V PROVE NameIsRight(plan, i)
  <2>1. i \in T /\ i <= i
    <3>. HIDE DEF T
    <3>. QED
      BY <1>1, <1>4
  <2>. QED
    BY <2>1
<1>. QED
  BY <1>5

\* A join is shown with names that its sides can be called.
LEMMA PrimaryIsRight ==
  ASSUME NEW plan, IsPlan(plan), NEW i \in DOMAIN plan
  PROVE  Primary(plan, i) \in CanBeCalled(plan, i)
<1>1. NameIsRight(plan, i)
  BY NamesAreRight
<1>2. \A j : /\ TablesBelow(plan, j) = {plan[k].table : k \in ScannedBelow(plan, j)}
             /\ TablesBelow(plan, j) = {} <=> ScannedBelow(plan, j) = {}
  BY DEF TablesBelow, ScansOf, ScannedBelow, Below
<1>. DEFINE names == {table[2] : table \in TablesBelow(plan, i)}
            bare == {plan[j].name : j \in BareBelow(plan, i)}
<1>3. CanBeCalled(plan, i) = IF names \cup bare = {} THEN {"<subquery>"} ELSE names \cup bare
  <2>1. {k \in ToSet(PreOrders(Inputs(plan))[i]) : plan[k].op = "alias" /\ TablesBelow(plan, k) = {}}
          = BareBelow(plan, i)
    BY <1>2 DEF BareBelow, Below
  <2>. QED
    BY <2>1 DEF CanBeCalled
<1>4. names = {plan[j].table[2] : j \in ScannedBelow(plan, i)}
  BY <1>2
<1>. HIDE DEF names
<1>5. CASE PrimaryTables(plan)[i] = None
  BY <1>1, <1>3, <1>4, <1>5 DEF NameIsRight, Primary
<1>6. CASE PrimaryTables(plan)[i] # None
  BY <1>1, <1>3, <1>4, <1>6 DEF NameIsRight, NameFrom, Primary
<1>. QED
  BY <1>5, <1>6
-----------------------------------------------------------------------------
(* What the walk of the lineage has built after some nodes.                *)

\* The builder after n + 1 nodes is that after n nodes, with what the next one adds.
LEMMA BuildersAre ==
  ASSUME NEW plan, NEW unoptimized, Len(PreOrder(plan)) \in Nat
  PROVE  LET B == Builders(plan, unoptimized)
             order == PreOrder(plan)
         IN /\ B[0] = NoLineage
            /\ \A n \in Nat : n + 1 <= Len(order) =>
                 B[n + 1] = Noted(B[n], plan, order[n + 1], unoptimized)
<1>. DEFINE order == PreOrder(plan)
            top == Len(order)
            More(b, n) == Noted(b, plan, order[n], unoptimized)
            IsB(g) == g = [n \in 0..top |-> IF n = 0 THEN NoLineage ELSE More(g[n - 1], n)]
            built == CHOOSE g : IsB(g)
            Has(k) == \E g : g = [n \in 0..k |-> IF n = 0 THEN NoLineage ELSE More(g[n - 1], n)]
            T == {k \in Nat : Has(k)}
<1>1. Builders(plan, unoptimized) = built
  BY DEF Builders
<1>. HIDE DEF More
<1>2. 0 \in T
  <2>. DEFINE g == [n \in 0..0 |-> NoLineage]
  <2>1. g = [n \in 0..0 |-> IF n = 0 THEN NoLineage ELSE More(g[n - 1], n)]
    OBVIOUS
  <2>2. Has(0)
    <3>. HIDE DEF g
    <3>. QED
      BY <2>1
  <2>. QED
    BY <2>2
<1>3. ASSUME NEW k \in T PROVE k + 1 \in T
  <2>0. k \in Nat
    OBVIOUS
  <2>1. PICK g : g = [n \in 0..k |-> IF n = 0 THEN NoLineage ELSE More(g[n - 1], n)]
    <3>1. Has(k)
      OBVIOUS
    <3>. QED
      BY <3>1
  <2>. DEFINE h == [n \in 0..k + 1 |-> IF n = 0 THEN NoLineage ELSE More(g[n - 1], n)]
  <2>2. \A n \in 0..k : h[n] = g[n]
    <3>1. \A n \in 0..k : n \in 0..k + 1
      BY <2>0
    <3>. QED
      BY <2>1, <3>1
  <2>3. ASSUME NEW n \in 0..k + 1, n # 0 PROVE h[n] = More(h[n - 1], n)
    <3>1. n - 1 \in 0..k
      BY <2>0, <2>3
    <3>2. h[n - 1] = g[n - 1]
      BY <2>2, <3>1
    <3>3. h[n] = More(g[n - 1], n)
      BY <2>3
    <3>. QED
      BY <3>2, <3>3
  <2>4. h = [n \in 0..k + 1 |-> IF n = 0 THEN NoLineage ELSE More(h[n - 1], n)]
    <3>1. \A n \in 0..k + 1 : h[n] = IF n = 0 THEN NoLineage ELSE More(h[n - 1], n)
      BY <2>3
    <3>. QED
      BY <3>1
  <2>5. Has(k + 1)
    <3>. HIDE DEF h
    <3>. QED
      BY <2>4
  <2>. HIDE DEF h, Has
  <2>. QED
    BY <2>0, <2>5
<1>4. T = Nat
  <2>. HIDE DEF T
  <2>1. T \in SUBSET Nat
    BY DEF T
  <2>. QED
    BY <1>2, <1>3, <2>1, Induct
<1>5. \E g : IsB(g)
  <2>1. top \in T
    <3>. HIDE DEF T
    <3>. QED
      BY <1>4
  <2>. QED
    BY <2>1
<1>6. IsB(built)
  <2>. HIDE DEF IsB
  <2>. QED
    BY <1>5, Zenon
<1>. HIDE DEF built
<1>7. built[0] = NoLineage
  BY <1>6
<1>8. ASSUME NEW n \in Nat, n + 1 <= top PROVE built[n + 1] = More(built[n], n + 1)
  <2>1. n + 1 \in 0..top /\ n + 1 # 0 /\ (n + 1) - 1 = n
    BY <1>8
  <2>2. built[n + 1] = More(built[(n + 1) - 1], n + 1)
    BY <1>6, <2>1
  <2>. QED
    BY <2>1, <2>2
<1>. QED
  BY <1>1, <1>7, <1>8 DEF More

BuilderFields == {"relations", "output", "seen", "joins", "aggregates", "aliases"}

IsBuilder(builder) == builder = [x \in BuilderFields |-> builder[x]]

\* The columns known of a table.
KnownOf(relations, name) == IF name \in DOMAIN relations THEN relations[name] ELSE {}

\* The relations, joins and aliases that a node adds.
Adds(builder, plan, i, after) ==
  LET node == plan[i]
  IN /\ IsBuilder(after)
     /\ after.relations =
          IF node.op = "scan"
          THEN Updated(builder.relations, node.table[2],
                       KnownOf(builder.relations, node.table[2]) \cup node.columns)
          ELSE builder.relations
     /\ after.joins = IF node.op = "join" THEN Append(builder.joins, JoinOf(plan, i))
                      ELSE builder.joins
     /\ after.aliases =
          IF node.op = "alias"
          THEN Updated(builder.aliases, node.name, Primary(plan, node.inputs[1]))
          ELSE builder.aliases

LEMMA NotedParts ==
  ASSUME NEW builder, NEW plan, NEW i, NEW unoptimized, IsBuilder(builder)
  PROVE  Adds(builder, plan, i, Noted(builder, plan, i, unoptimized))
<1>. DEFINE node == plan[i]
            after == Noted(builder, plan, i, unoptimized)
            name == node.table[2]
            columns == KnownOf(builder.relations, name) \cup node.columns
<1>1. CASE node.op = "scan"
  <2>1. after = [builder EXCEPT !.relations = Updated(builder.relations, name, columns)]
    BY <1>1 DEF Noted, KnownOf
  <2>. HIDE DEF after, name, columns
  <2>. QED
    BY <1>1, <2>1 DEF Adds, IsBuilder, BuilderFields, after, name, columns
<1>2. CASE node.op = "projection"
  <2>1. \/ after = builder
        \/ after = [builder EXCEPT !.output = OutputOf(node.exprs), !.seen = TRUE,
                                   !.aggregates = @ \o AggregatesOf(node.exprs, unoptimized)]
    BY <1>2 DEF Noted
  <2>. HIDE DEF after
  <2>. QED
    BY <1>2, <2>1 DEF Adds, IsBuilder, BuilderFields, after
<1>3. CASE node.op = "join"
  <2>1. after = [builder EXCEPT !.joins = Append(builder.joins, JoinOf(plan, i))]
    BY <1>3 DEF Noted
  <2>. HIDE DEF after
  <2>. QED
    BY <1>3, <2>1 DEF Adds, IsBuilder, BuilderFields, after
<1>4. CASE node.op = "aggregate"
  <2>1. PICK output, aggregates :
          after = [builder EXCEPT !.output = output, !.seen = TRUE, !.aggregates = aggregates]
    BY <1>4 DEF Noted
  <2>. HIDE DEF after
  <2>. QED
    BY <1>4, <2>1 DEF Adds, IsBuilder, BuilderFields, after
<1>5. CASE node.op = "alias"
  <2>1. after = [builder EXCEPT
                   !.aliases = Updated(builder.aliases, node.name, Primary(plan, node.inputs[1]))]
    BY <1>5 DEF Noted
  <2>. HIDE DEF after
  <2>. QED
    BY <1>5, <2>1 DEF Adds, IsBuilder, BuilderFields, after
<1>6. CASE node.op \notin {"scan", "projection", "join", "aggregate", "alias"}
  <2>1. after = builder
    BY <1>6 DEF Noted
  <2>. HIDE DEF after
  <2>. QED
    BY <1>6, <2>1 DEF Adds, after
<1>. QED
  BY <1>1, <1>2, <1>3, <1>4, <1>5, <1>6

\* What a builder has of some nodes of a plan.
RelationsOf(plan, nodes, relations) ==
  /\ \A name : name \in DOMAIN relations <=>
                 \E j \in nodes : plan[j].op = "scan" /\ plan[j].table[2] = name
  /\ \A name \in DOMAIN relations : \A column :
       column \in relations[name] <=>
         \E j \in nodes : /\ plan[j].op = "scan" /\ plan[j].table[2] = name
                          /\ column \in plan[j].columns

JoinsOf(plan, nodes, joins) ==
  joins \in Seq({JoinOf(plan, j) : j \in {k \in nodes : plan[k].op = "join"}})

AliasesOf(plan, nodes, aliases) ==
  /\ \A name : name \in DOMAIN aliases <=>
                 \E j \in nodes : plan[j].op = "alias" /\ plan[j].name = name
  /\ \A name \in DOMAIN aliases :
       \E j \in nodes : /\ plan[j].op = "alias" /\ plan[j].name = name
                        /\ aliases[name] = Primary(plan, plan[j].inputs[1])

HasNoted(plan, nodes, builder) ==
  /\ IsBuilder(builder) /\ RelationsOf(plan, nodes, builder.relations)
  /\ JoinsOf(plan, nodes, builder.joins) /\ AliasesOf(plan, nodes, builder.aliases)

LEMMA NothingNoted == ASSUME NEW plan PROVE HasNoted(plan, {}, NoLineage)
<1>1. IsBuilder(NoLineage)
  BY DEF IsBuilder, BuilderFields, NoLineage
<1>2. /\ NoLineage.relations = << >> /\ NoLineage.joins = << >> /\ NoLineage.aliases = << >>
      /\ DOMAIN << >> = {}
  BY DEF NoLineage
<1>3. JoinsOf(plan, {}, << >>)
  BY DEF JoinsOf
<1>. QED
  BY <1>1, <1>2, <1>3 DEF HasNoted, RelationsOf, AliasesOf

LEMMA OneMoreNoted ==
  ASSUME NEW plan, NEW nodes, NEW builder, HasNoted(plan, nodes, builder), NEW i, NEW unoptimized
  PROVE  HasNoted(plan, nodes \cup {i}, Noted(builder, plan, i, unoptimized))
<1>. DEFINE node == plan[i]
            after == Noted(builder, plan, i, unoptimized)
            all == nodes \cup {i}
            name == node.table[2]
            known == KnownOf(builder.relations, name) \cup node.columns
<1>1. /\ IsBuilder(after)
      /\ after.relations = IF node.op = "scan" THEN Updated(builder.relations, name, known)
                           ELSE builder.relations
      /\ after.joins = IF node.op = "join" THEN Append(builder.joins, JoinOf(plan, i))
                       ELSE builder.joins
      /\ after.aliases =
           IF node.op = "alias"
           THEN Updated(builder.aliases, node.name, Primary(plan, node.inputs[1]))
           ELSE builder.aliases
  <2>1. Adds(builder, plan, i, after)
    BY NotedParts DEF HasNoted
  <2>. HIDE DEF after
  <2>. QED
    BY <2>1 DEF Adds
<1>2. /\ RelationsOf(plan, nodes, builder.relations) /\ JoinsOf(plan, nodes, builder.joins)
      /\ AliasesOf(plan, nodes, builder.aliases)
  BY DEF HasNoted
<1>. HIDE DEF after
<1>3. RelationsOf(plan, all, after.relations)
  <2>1. CASE node.op = "scan"
    <3>1. /\ DOMAIN after.relations = DOMAIN builder.relations \cup {name}
          /\ \A k \in DOMAIN after.relations :
               after.relations[k] = IF k = name THEN known ELSE builder.relations[k]
      BY <1>1, <2>1 DEF Updated
    <3>2. \A k : k \in DOMAIN after.relations <=>
                   \E j \in all : plan[j].op = "scan" /\ plan[j].table[2] = k
      BY <1>2, <2>1, <3>1 DEF RelationsOf
    <3>3. ASSUME NEW k \in DOMAIN after.relations, NEW column
          PROVE  column \in after.relations[k] <=>
                   \E j \in all : /\ plan[j].op = "scan" /\ plan[j].table[2] = k
                                  /\ column \in plan[j].columns
      <4>1. CASE k = name
        <5>1. column \in KnownOf(builder.relations, name) <=>
                \E j \in nodes : /\ plan[j].op = "scan" /\ plan[j].table[2] = k
                                 /\ column \in plan[j].columns
          BY <1>2, <4>1 DEF RelationsOf, KnownOf
        <5>2. after.relations[k] = KnownOf(builder.relations, name) \cup node.columns
          BY <3>1, <4>1
        <5>. QED
          BY <2>1, <4>1, <5>1, <5>2
      <4>2. CASE k # name
        BY <1>2, <3>1, <4>2 DEF RelationsOf
      <4>. QED
        BY <4>1, <4>2
    <3>. QED
      BY <3>2, <3>3 DEF RelationsOf
  <2>2. CASE node.op # "scan"
    BY <1>1, <1>2, <2>2 DEF RelationsOf
  <2>. QED
    BY <2>1, <2>2
<1>4. JoinsOf(plan, all, after.joins)
  <2>. DEFINE S(set) == {JoinOf(plan, j) : j \in {k \in set : plan[k].op = "join"}}
  <2>1. builder.joins \in Seq(S(all))
    <3>1. S(nodes) \subseteq S(all) /\ builder.joins \in Seq(S(nodes))
      BY <1>2 DEF JoinsOf
    <3>. HIDE DEF S
    <3>. QED
      BY <3>1, SeqMonotonic
  <2>2. node.op = "join" => JoinOf(plan, i) \in S(all)
    OBVIOUS
  <2>. HIDE DEF S
  <2>3. after.joins \in Seq(S(all))
    BY <1>1, <2>1, <2>2, AppendProperties
  <2>. QED
    BY <2>3 DEF JoinsOf, S
<1>5. AliasesOf(plan, all, after.aliases)
  <2>1. CASE node.op = "alias"
    <3>1. /\ DOMAIN after.aliases = DOMAIN builder.aliases \cup {node.name}
          /\ \A k \in DOMAIN after.aliases :
               after.aliases[k] = IF k = node.name THEN Primary(plan, node.inputs[1])
                                  ELSE builder.aliases[k]
      BY <1>1, <2>1 DEF Updated
    <3>. QED
      BY <1>2, <2>1, <3>1 DEF AliasesOf
  <2>2. CASE node.op # "alias"
    BY <1>1, <1>2, <2>2 DEF AliasesOf
  <2>. QED
    BY <2>1, <2>2
<1>. QED
  BY <1>1, <1>3, <1>4, <1>5 DEF HasNoted, after

\* In the end, the builder has every node of the plan.
LEMMA BuilderIs ==
  ASSUME NEW plan, IsTree(plan), NEW unoptimized
  PROVE  HasNoted(plan, Below(plan, Len(plan)), Builder(plan, unoptimized))
<1>. DEFINE order == PreOrder(plan)
            top == Len(order)
            B == Builders(plan, unoptimized)
            Seen(n) == {order[m] : m \in 1..n}
            T == {n \in Nat : n <= top => HasNoted(plan, Seen(n), B[n])}
<1>1. order \in Seq(DOMAIN plan) /\ top \in Nat /\ DOMAIN order = 1..top
  <2>1. Len(plan) \in DOMAIN plan
    BY TreeRanked
  <2>2. order \in Seq(DOMAIN plan)
    BY <2>1, TreeOrders DEF PreOrder, Order
  <2>. QED
    BY <2>2, LenProperties
<1>2. /\ B[0] = NoLineage
      /\ \A n \in Nat : n + 1 <= top => B[n + 1] = Noted(B[n], plan, order[n + 1], unoptimized)
  BY <1>1, BuildersAre
<1>. HIDE DEF B, order
<1>3. 0 \in T
  <2>1. Seen(0) = {}
    OBVIOUS
  <2>. QED
    BY <1>2, <2>1, NothingNoted
<1>4. ASSUME NEW n \in T PROVE n + 1 \in T
  <2>1. n \in Nat
    OBVIOUS
  <2>2. ASSUME n + 1 <= top PROVE HasNoted(plan, Seen(n + 1), B[n + 1])
    <3>1. HasNoted(plan, Seen(n), B[n])
      <4>1. n <= top
        BY <1>1, <2>1, <2>2
      <4>. HIDE DEF Seen
      <4>. QED
        BY <4>1
    <3>2. 1..n + 1 = 1..n \cup {n + 1}
      BY <2>1
    <3>3. Seen(n + 1) = Seen(n) \cup {order[n + 1]}
      BY <3>2
    <3>. HIDE DEF Seen
    <3>4. HasNoted(plan, Seen(n) \cup {order[n + 1]}, Noted(B[n], plan, order[n + 1], unoptimized))
      BY <3>1, OneMoreNoted
    <3>. QED
      BY <1>2, <2>1, <2>2, <3>3, <3>4
  <2>. HIDE DEF Seen
  <2>. QED
    BY <2>1, <2>2
<1>5. T = Nat
  <2>. HIDE DEF T
  <2>1. T \in SUBSET Nat
    BY DEF T
  <2>. QED
    BY <1>3, <1>4, <2>1, Induct
<1>6. HasNoted(plan, Seen(top), B[top])
  <2>1. top \in T
    <3>. HIDE DEF T
    <3>. QED
      BY <1>1, <1>5
  <2>. QED
    BY <1>1, <2>1
<1>7. Seen(top) = Below(plan, Len(plan))
  BY <1>1 DEF ToSet, Below, order, PreOrder
<1>8. B[top] = Builder(plan, unoptimized)
  BY DEF Builder, B, order
<1>. HIDE DEF Seen
<1>. QED
  BY <1>6, <1>7, <1>8
-----------------------------------------------------------------------------
(* The lineage of an answer.                                               *)

LineageInv == answer # None /\ answer.kind = "lineage" => answer.q \in DOMAIN Queries

LEMMA LineageInvNext == ASSUME LineageInv, [Next]_vars PROVE LineageInv'
<1>1. ASSUME NEW code, Answer(NoAnswer(code)) PROVE LineageInv'
  BY <1>1 DEF Answer, NoAnswer, LineageInv
<1>2. ASSUME NEW measured, Answer(Result(measured)) PROVE LineageInv'
  BY <1>2 DEF Answer, Result, NoAnswer, LineageInv
<1>3. ASSUME UNCHANGED answer PROVE LineageInv'
  BY <1>3 DEF LineageInv
<1>4. ASSUME NEW q \in DOMAIN Queries, GetLineage(q) PROVE LineageInv'
  <2>1. CASE answer' = [NoAnswer(None) EXCEPT !.kind = "lineage", !.q = q]
    <3>1. answer'.q = q
      BY <2>1 DEF NoAnswer
    <3>. QED
      BY <3>1 DEF LineageInv
  <2>2. CASE answer' = NoAnswer("-32001")
    <3>1. answer'.kind # "lineage"
      BY <2>2 DEF NoAnswer
    <3>. QED
      BY <3>1 DEF LineageInv
  <2>. QED
    BY <1>4, <2>1, <2>2 DEF GetLineage
<1>5. ASSUME NEW q \in DOMAIN Queries, NEW analyze \in BOOLEAN, Start(q, analyze)
      PROVE  LineageInv'
  BY <1>5 DEF Start, LineageInv
<1>6. ASSUME AnalyzeFails PROVE LineageInv'
  <2>1. Answer(NoAnswer("-32100")) \/ Answer(Result(FALSE))
    BY <1>6 DEF AnalyzeFails
  <2>. QED
    BY <1>1, <1>2, <2>1
<1>7. \/ UNCHANGED answer \/ AnalyzeFails
      \/ \E code : Answer(NoAnswer(code))
      \/ \E measured : Answer(Result(measured))
      \/ \E q \in DOMAIN Queries : GetLineage(q) \/ \E analyze \in BOOLEAN : Start(q, analyze)
  BY DEF Next, vars, RegisterSource, RemoveSource, Refused, Ensure, Plan, PhysicalPlan, BuildGraph,
         CardExplained, FileExplained, CardTimesOut, Explained, Analyzed
<1>. QED
  BY <1>1, <1>2, <1>3, <1>4, <1>5, <1>6, <1>7

\* The table that a column's relation stands for in the written plan is the one that
\* the aliases of that plan give.
LEMMA AliasStands ==
  ASSUME NEW plan, IsPlan(plan), NEW aliases, AliasesOf(plan, Below(plan, Len(plan)), aliases),
         NEW relation, NEW name, StandsFor(plan, relation, name)
  PROVE  name = IF relation \in DOMAIN aliases THEN aliases[relation] ELSE relation
<1>. DEFINE all == Below(plan, Len(plan))
            named == {i \in all : plan[i].op = "alias" /\ plan[i].name = relation}
            OnTable(i) == plan[i].op = "scan" /\ plan[i].table[2] = name
<1>1. IF named = {} THEN relation = name ELSE \A i \in named : OnTable(plan[i].inputs[1])
  BY DEF StandsFor, Below, PreOrder
<1>2. relation \in DOMAIN aliases <=> named # {}
  BY DEF AliasesOf
<1>3. CASE named = {}
  BY <1>1, <1>2, <1>3
<1>4. CASE named # {}
  <2>1. PICK j \in named : aliases[relation] = Primary(plan, plan[j].inputs[1])
    BY <1>2, <1>4 DEF AliasesOf
  <2>. DEFINE i == plan[j].inputs[1]
  <2>2. plan[i].op = "scan" /\ plan[i].table[2] = name
    BY <1>1, <2>1
  <2>3. i \in DOMAIN plan /\ IsTree(plan)
    <3>1. IsTree(plan) /\ Len(plan) \in DOMAIN plan
      BY TreeRanked DEF IsPlan
    <3>2. j \in DOMAIN plan
      BY <3>1, BelowNode
    <3>3. Len(plan[j].inputs) = 1
      BY <3>2 DEF IsPlan
    <3>. QED
      BY <3>1, <3>2, <3>3, TreeInputs
  <2>. HIDE DEF i
  <2>4. PrimaryTables(plan)[i] = name /\ name # None
    <3>1. PrimaryTables(plan)[i] = Named(plan, PrimaryTables(plan), i)
      BY <2>3, PrimaryTablesAre
    <3>2. name # None
      BY <2>2, <2>3 DEF IsPlan
    <3>. QED
      BY <2>2, <3>1, <3>2 DEF Named
  <2>5. Primary(plan, i) = name
    BY <2>4 DEF Primary
  <2>. QED
    BY <1>2, <1>4, <2>1, <2>5 DEF i
<1>. QED
  BY <1>3, <1>4

\* What the lineage of a query shows is found where it is looked for, whatever the two
\* plans of the query are (engine.rs:1109-1172, 1546-1670, 1755-1770).
THEOREM LineageResolvesAlways == Spec => []LineageResolves
<1>1. ASSUME LineageInv, answer # None, answer.kind = "lineage"
      PROVE  LineageResolves
  <2>. DEFINE written == Queries[answer.q].unoptimized
              plan == Optimized
              all == Below(plan, Len(plan))
              built == Builder(plan, written)
              first == Builder(written, written)
              lineage == QueryLineage(written, plan)
              Read(name) == UNION {plan[i].columns : i \in
                                     {j \in ScansOf(plan, Len(plan)) : plan[j].table[2] = name}}
              Table(name) == IF name \in DOMAIN first.aliases THEN first.aliases[name] ELSE name
  <2>1. IsPlan(written) /\ IsPlan(plan) /\ IsTree(written) /\ IsTree(plan)
    BY <1>1, QueriesAssumption DEF LineageInv, Optimized, IsPlan
  <2>2. HasNoted(plan, all, built) /\ HasNoted(written, Below(written, Len(written)), first)
    BY <2>1, BuilderIs
  <2>3. /\ lineage.relations = built.relations /\ lineage.joins = built.joins
        /\ lineage.output = first.output /\ lineage.aliases = first.aliases
    BY DEF QueryLineage
  <2>4. ScansOf(plan, Len(plan)) = {j \in all : plan[j].op = "scan"}
    BY DEF ScansOf, Below
  <2>. HIDE DEF written, plan, built, first, lineage, all
  <2>5. DOMAIN built.relations = {table[2] : table \in TablesOf(plan)}
    <3>1. TablesOf(plan) = {plan[j].table : j \in {k \in all : plan[k].op = "scan"}}
      BY <2>4 DEF TablesOf, TablesBelow
    <3>2. \A name : name \in DOMAIN built.relations <=>
                      \E j \in all : plan[j].op = "scan" /\ plan[j].table[2] = name
      BY <2>2 DEF HasNoted, RelationsOf
    <3>. QED
      BY <3>1, <3>2
  <2>6. ASSUME NEW name \in DOMAIN built.relations PROVE built.relations[name] = Read(name)
    <3>1. \A column : column \in built.relations[name] <=>
                        \E j \in all : /\ plan[j].op = "scan" /\ plan[j].table[2] = name
                                       /\ column \in plan[j].columns
      BY <2>2 DEF HasNoted, RelationsOf
    <3>2. \A column : column \in Read(name) <=>
                        \E j \in all : /\ plan[j].op = "scan" /\ plan[j].table[2] = name
                                       /\ column \in plan[j].columns
      BY <2>4
    <3>. QED
      BY <3>1, <3>2
  <2>. HIDE DEF Read
  <2>7. ASSUME NEW relation, NEW name \in DOMAIN built.relations, NEW column \in Read(name),
               StandsFor(written, relation, name)
        PROVE  /\ Table(relation) \in DOMAIN built.relations
               /\ column \in built.relations[Table(relation)]
    <3>1. name = Table(relation)
      BY <2>1, <2>2, <2>7, AliasStands DEF HasNoted
    <3>. QED
      BY <2>6, <2>7, <3>1
  <2>8. ASSUME NEW i \in DOMAIN built.joins
        PROVE  \E j \in ToSet(PreOrder(plan)) :
                 /\ plan[j].op = "join" /\ plan[j].kind = built.joins[i].kind
                 /\ built.joins[i].left \in CanBeCalled(plan, plan[j].inputs[1])
                 /\ built.joins[i].right \in CanBeCalled(plan, plan[j].inputs[2])
    <3>. DEFINE S == {JoinOf(plan, j) : j \in {k \in all : plan[k].op = "join"}}
    <3>1. built.joins \in Seq(S)
      BY <2>2 DEF HasNoted, JoinsOf
    <3>2. built.joins[i] \in S
      <4>1. i \in 1..Len(built.joins)
        BY <3>1, LenProperties
      <4>. HIDE DEF S
      <4>. QED
        BY <3>1, <4>1, ElementOfSeq
    <3>3. PICK j \in all : plan[j].op = "join" /\ built.joins[i] = JoinOf(plan, j)
      BY <3>2
    <3>4. all = ToSet(PreOrder(plan))
      BY DEF all, Below, PreOrder
    <3>5. plan[j].inputs[1] \in DOMAIN plan /\ plan[j].inputs[2] \in DOMAIN plan
      <4>1. j \in DOMAIN plan
        BY <2>1, TreeRanked, BelowNode DEF all
      <4>2. Len(plan[j].inputs) = 2
        BY <2>1, <3>3, <4>1 DEF IsPlan
      <4>. QED
        BY <2>1, <4>1, <4>2, TreeInputs
    <3>6. /\ built.joins[i].kind = plan[j].kind
          /\ built.joins[i].left = Primary(plan, plan[j].inputs[1])
          /\ built.joins[i].right = Primary(plan, plan[j].inputs[2])
      BY <3>3 DEF JoinOf
    <3>. HIDE DEF S
    <3>. QED
      BY <2>1, <3>3, <3>4, <3>5, <3>6, PrimaryIsRight
  <2>. QED
    BY <2>3, <2>5, <2>6, <2>7, <2>8 DEF LineageResolves, written, plan, lineage, Read
<1>2. LineageInv => LineageResolves
  BY <1>1 DEF LineageResolves
<1>3. Init => LineageInv
  BY DEF Init, LineageInv
<1>. QED
  BY <1>2, <1>3, LineageInvNext, PTL DEF Spec
=============================================================================
