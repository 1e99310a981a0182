------------------------ MODULE BroadcastRewriteProofs ------------------------
(***************************************************************************)
(* The broadcast join rewrite, for plans of any size and tables of any     *)
(* contents.  First the account that it gives of itself: every join passed *)
(* is counted, the plan differs from the query at the joins applied only,  *)
(* and no list of keys that is sent to a remote side is empty, holds NULL  *)
(* or exceeds the limit.  Then what it does to the result: a rewritten     *)
(* plan has the rows of its query, or, where casts and NULLs match in      *)
(* their own way or local files change, never a row more.                  *)
(***************************************************************************)
EXTENDS BroadcastRewrite, FiniteSetTheorems, WellFoundedInduction, TLAPS

-----------------------------------------------------------------------------
(* Sequences of anything.                                                  *)

LEMMA SequenceOf ==
  ASSUME NEW T, NEW s \in Seq(T)
  PROVE  IsSequence(s) /\ Len(s) \in Nat /\ DOMAIN s = 1..Len(s)
<1>1. Len(s) \in Nat /\ DOMAIN s = 1..Len(s) /\ s = [i \in 1..Len(s) |-> s[i]]
  OBVIOUS
<1>2. s \in [1..Len(s) -> {s[i] : i \in DOMAIN s}]
  BY <1>1
<1>3. s \in Seq({s[i] : i \in DOMAIN s})
  BY <1>1, <1>2
<1>. QED
  BY <1>1, <1>3 DEF IsSequence

LEMMA Appended ==
  ASSUME NEW s, IsSequence(s), NEW x
  PROVE  LET t == Append(s, x)
         IN /\ IsSequence(t)
            /\ Len(s) \in Nat /\ DOMAIN s = 1..Len(s)
            /\ Len(t) = Len(s) + 1 /\ DOMAIN t = 1..Len(s) + 1
            /\ t[Len(s) + 1] = x
            /\ \A i \in DOMAIN s : t[i] = s[i]
<1>. DEFINE S == {s[i] : i \in DOMAIN s}
            T == S \cup {x}
            t == Append(s, x)
<1>1. s \in Seq(S)
  BY DEF IsSequence
<1>2. s \in Seq(T) /\ x \in T /\ Len(s) \in Nat /\ DOMAIN s = 1..Len(s)
  <2>. HIDE DEF S
  <2>. QED
    BY <1>1
<1>3. t \in Seq(T) /\ Len(t) = Len(s) + 1 /\ t[Len(s) + 1] = x
      /\ \A i \in 1..Len(s) : t[i] = s[i]
  <2>. HIDE DEF T
  <2>. QED
    BY <1>2
<1>4. IsSequence(t) /\ DOMAIN t = 1..Len(t)
  <2>. HIDE DEF T, t
  <2>. QED
    BY <1>3, SequenceOf
<1>. QED
  BY <1>2, <1>3, <1>4

LEMMA Replaced ==
  ASSUME NEW s, IsSequence(s), NEW i \in DOMAIN s, NEW x
  PROVE  LET t == [s EXCEPT ![i] = x]
         IN /\ IsSequence(t) /\ Len(t) = Len(s) /\ DOMAIN t = DOMAIN s
            /\ t[i] = x /\ \A j \in DOMAIN s \ {i} : t[j] = s[j]
<1>. DEFINE S == {s[j] : j \in DOMAIN s}
            T == S \cup {x}
            t == [s EXCEPT ![i] = x]
<1>1. s \in Seq(S)
  BY DEF IsSequence
<1>2. s \in Seq(T) /\ x \in T
  <2>. HIDE DEF S
  <2>. QED
    BY <1>1
<1>3. t \in Seq(T) /\ Len(t) = Len(s) /\ DOMAIN t = DOMAIN s
      /\ t[i] = x /\ \A j \in DOMAIN s \ {i} : t[j] = s[j]
  <2>. HIDE DEF T
  <2>. QED
    BY <1>2
<1>4. IsSequence(t)
  <2>. HIDE DEF T, t
  <2>. QED
    BY <1>3, SequenceOf
<1>. QED
  BY <1>3, <1>4

-----------------------------------------------------------------------------
(* The invariant.                                                          *)

AppliedNodes == {info.applied[k].node : k \in DOMAIN info.applied}

Current == IF pc \in {"collect", "abandoned"} THEN 1 ELSE 0

Passed == {i \in Joins(query) : i < node}

\* The list of a filter that the rewrite adds.
Admissible(list) == Null \notin list /\ Cardinality(list) \in 1..MaxLocalRows

InfoOK ==
  /\ info = [considered |-> info.considered, applied |-> info.applied,
             skipped |-> info.skipped]
  /\ info.considered \in Nat
  /\ IsSequence(info.applied) /\ IsSequence(info.skipped)

PlanOK ==
  /\ query \in Plans /\ IsSequence(plan)
  /\ DOMAIN query \subseteq DOMAIN plan
  /\ node \in Nat \ {0}
  /\ pc \in {"collect", "abandoned"} => node \in Joins(query)
  /\ \A i \in DOMAIN query : i >= node => plan[i] = query[i]

Account ==
  /\ info.considered = Cardinality(Passed) + Current
  /\ info.considered = Len(info.applied) + Len(info.skipped) + Current
  /\ \A i \in DOMAIN query : plan[i] # query[i] => i \in AppliedNodes
  /\ \A i \in DOMAIN plan : plan[i].kind = "filter" => Admissible(plan[i].list)

IInv == InfoOK /\ PlanOK /\ Account

\* The nodes of a query.
LEMMA QueryNodes ==
  ASSUME NEW q \in Plans
  PROVE  /\ Len(q) \in Nat \ {0} /\ DOMAIN q = 1..Len(q)
         /\ \A i \in DOMAIN q : q[i].kind = "scan" \/ (q[i].kind = "join" /\ IsJoin(q[i], i))
         /\ \A i \in DOMAIN q : q[i].kind = "join" => q[i].left \in 1..(i - 1) /\ q[i].right \in 1..(i - 1)
<1>1. IsSequence(q) /\ q # << >>
  BY PlansAssumption
<1>2. Len(q) \in Nat \ {0} /\ DOMAIN q = 1..Len(q)
  BY <1>1 DEF IsSequence
<1>3. \A i \in DOMAIN q : q[i].kind = "scan" \/ IsJoin(q[i], i)
  BY PlansAssumption
<1>4. ASSUME NEW i \in DOMAIN q, IsJoin(q[i], i) PROVE q[i].kind = "join"
  BY <1>4 DEF IsJoin
<1>5. ASSUME NEW i \in DOMAIN q, IsJoin(q[i], i)
      PROVE  q[i].left \in 1..(i - 1) /\ q[i].right \in 1..(i - 1)
  BY <1>5 DEF IsJoin
<1>6. ASSUME NEW i \in DOMAIN q, q[i].kind = "join" PROVE IsJoin(q[i], i)
  BY <1>3, <1>6
<1>. QED
  BY <1>2, <1>3, <1>4, <1>5, <1>6

\* A plan of the instance is a sequence of scans and joins.
LEMMA QueryFacts ==
  ASSUME query \in Plans
  PROVE  /\ Len(query) \in Nat /\ DOMAIN query = 1..Len(query)
         /\ IsSequence(query)
         /\ \A i \in DOMAIN query : query[i].kind \in {"scan", "join"}
BY PlansAssumption, QueryNodes

LEMMA InitInv == Init => IInv
<1>. SUFFICES ASSUME Init PROVE IInv
  OBVIOUS
<1>1. query \in Plans /\ plan = query /\ node = 1 /\ pc = "walk"
      /\ info = [considered |-> 0, applied |-> <<>>, skipped |-> <<>>]
  BY DEF Init
<1>2. IsSequence(<<>>) /\ Len(<<>>) = 0
  <2>1. <<>> \in Seq({})
    OBVIOUS
  <2>. QED
    BY <2>1, SequenceOf
<1>3. InfoOK /\ PlanOK
  BY <1>1, <1>2, QueryFacts DEF InfoOK, PlanOK
<1>4. Passed = {} /\ Current = 0
  BY <1>1, QueryFacts DEF Passed, Joins, Current
<1>5. Account
  BY <1>1, <1>2, <1>4, QueryFacts, FS_EmptySet DEF Account
<1>. QED
  BY <1>3, <1>5 DEF IInv

\* The joins that the walk has passed when it goes on to the next node.
LEMMA PassedNext ==
  ASSUME PlanOK, query' = query, node' = node + 1
  PROVE  /\ IsFiniteSet(Passed) /\ Cardinality(Passed) \in Nat
         /\ Cardinality(Passed') =
              Cardinality(Passed) + (IF node \in Joins(query) THEN 1 ELSE 0)
<1>1. query \in Plans /\ node \in Nat \ {0}
  BY DEF PlanOK
<1>2. DOMAIN query = 1..Len(query) /\ Len(query) \in Nat
  BY <1>1, QueryFacts
<1>3. IsFiniteSet(Passed)
  <2>1. Passed \subseteq 1..Len(query)
    BY <1>2 DEF Passed, Joins
  <2>2. IsFiniteSet(1..Len(query))
    <3>1. 1 \in Int /\ Len(query) \in Int
      BY <1>2
    <3>. QED
      BY <3>1, FS_Interval
  <2>. QED
    BY <2>1, <2>2, FS_Subset
<1>4. CASE node \in Joins(query)
  <2>1. Passed' = Passed \cup {node} /\ node \notin Passed
    BY <1>1, <1>2, <1>4 DEF Passed, Joins
  <2>. QED
    BY <1>3, <1>4, <2>1, FS_AddElement, FS_CardinalityType
<1>5. CASE node \notin Joins(query)
  <2>1. Passed' = Passed
    BY <1>1, <1>2, <1>5 DEF Passed, Joins
  <2>. QED
    BY <1>3, <1>5, <2>1, FS_CardinalityType
<1>. QED
  BY <1>4, <1>5

\* A join is left with a reason for it.
LEMMA SkippedInv ==
  ASSUME IInv, pc = "collect", NEW reason, Return(plan, Skipped(reason))
  PROVE  IInv'
<1>. DEFINE old == Append(info.skipped, reason)
<1>1. /\ plan' = plan /\ query' = query /\ pc' = "walk" /\ node' = node + 1
      /\ info' = [info EXCEPT !.skipped = old]
  BY DEF Return, Skipped
<1>2. /\ info'.considered = info.considered /\ info'.applied = info.applied
      /\ info'.skipped = old
      /\ info' = [considered |-> info'.considered, applied |-> info'.applied,
                  skipped |-> info'.skipped]
  BY <1>1 DEF IInv, InfoOK
<1>3. IsSequence(old) /\ Len(info.skipped) \in Nat /\ Len(old) = Len(info.skipped) + 1
  BY Appended DEF IInv, InfoOK
<1>. HIDE DEF old
<1>4. InfoOK'
  BY <1>2, <1>3 DEF IInv, InfoOK
<1>5. PlanOK'
  <2>1. ASSUME NEW i \in DOMAIN query, i >= node + 1 PROVE plan[i] = query[i]
    <3>1. i \in Nat /\ node \in Nat
      BY QueryFacts DEF IInv, PlanOK
    <3>2. i >= node
      BY <2>1, <3>1
    <3>. QED
      BY <3>2 DEF IInv, PlanOK
  <2>. QED
    BY <1>1, <2>1 DEF IInv, PlanOK
<1>6. Cardinality(Passed') = Cardinality(Passed) + 1 /\ Cardinality(Passed) \in Nat
  BY <1>1, PassedNext DEF IInv, PlanOK
<1>7. Len(info.applied) \in Nat
  BY Appended DEF IInv, InfoOK
<1>8. AppliedNodes' = AppliedNodes
  BY <1>2 DEF AppliedNodes
<1>9. Account'
  BY <1>1, <1>2, <1>3, <1>6, <1>7, <1>8 DEF IInv, InfoOK, Account, Current
<1>. QED
  BY <1>4, <1>5, <1>9 DEF IInv

\* A join is replaced, and perhaps a filter added to the plan.
LEMMA AppliedInv ==
  ASSUME IInv, pc = "collect", NEW keys, NEW p, Return(p, Applied(keys)),
         IsSequence(p), DOMAIN plan \subseteq DOMAIN p,
         \A i \in DOMAIN plan \ {node} : p[i] = plan[i],
         \A i \in DOMAIN p : p[i].kind = "filter" => Admissible(p[i].list)
  PROVE  IInv'
<1>. DEFINE entry == [node |-> node, values |-> keys]
            new == Append(info.applied, entry)
<1>1. /\ plan' = p /\ query' = query /\ pc' = "walk" /\ node' = node + 1
      /\ info' = [info EXCEPT !.applied = new]
  BY DEF Return, Applied
<1>2. /\ info'.considered = info.considered /\ info'.skipped = info.skipped
      /\ info'.applied = new
      /\ info' = [considered |-> info'.considered, applied |-> info'.applied,
                  skipped |-> info'.skipped]
  BY <1>1 DEF IInv, InfoOK
<1>3. /\ IsSequence(new) /\ Len(info.applied) \in Nat /\ Len(new) = Len(info.applied) + 1
      /\ DOMAIN info.applied = 1..Len(info.applied) /\ DOMAIN new = 1..Len(info.applied) + 1
      /\ new[Len(info.applied) + 1] = entry
      /\ \A k \in DOMAIN info.applied : new[k] = info.applied[k]
  BY Appended DEF IInv, InfoOK
<1>4. entry.node = node
  OBVIOUS
<1>. HIDE DEF new, entry
<1>5. InfoOK'
  BY <1>2, <1>3 DEF IInv, InfoOK
<1>6. PlanOK'
  <2>1. DOMAIN query \subseteq DOMAIN p
    BY DEF IInv, PlanOK
  <2>2. ASSUME NEW i \in DOMAIN query, i >= node + 1 PROVE p[i] = query[i]
    <3>1. i \in Nat /\ node \in Nat
      BY QueryFacts DEF IInv, PlanOK
    <3>2. i >= node /\ i # node
      BY <2>2, <3>1
    <3>. QED
      BY <3>2 DEF IInv, PlanOK
  <2>. QED
    BY <1>1, <2>1, <2>2 DEF IInv, PlanOK
<1>7. Cardinality(Passed') = Cardinality(Passed) + 1 /\ Cardinality(Passed) \in Nat
  BY <1>1, PassedNext DEF IInv, PlanOK
<1>8. Len(info.skipped) \in Nat
  BY Appended DEF IInv, InfoOK
<1>9. AppliedNodes \cup {node} \subseteq AppliedNodes'
  <2>1. \A k \in DOMAIN info.applied : k \in DOMAIN new /\ new[k].node = info.applied[k].node
    BY <1>3
  <2>2. Len(info.applied) + 1 \in DOMAIN new /\ new[Len(info.applied) + 1].node = node
    BY <1>3, <1>4
  <2>. QED
    BY <1>2, <2>1, <2>2 DEF AppliedNodes
<1>10. \A i \in DOMAIN query : p[i] # query[i] => i \in AppliedNodes'
  BY <1>9 DEF IInv, Account, PlanOK
<1>11. Account'
  BY <1>1, <1>2, <1>3, <1>7, <1>8, <1>10 DEF IInv, InfoOK, Account, Current
<1>. QED
  BY <1>5, <1>6, <1>11 DEF IInv

\* The join gives way to nothing.
LEMMA EmptyInv ==
  ASSUME IInv, pc = "collect", NEW schema, NEW keys,
         Return([plan EXCEPT ![node] = EmptyRelation(schema)], Applied(keys))
  PROVE  IInv'
<1>. DEFINE x == EmptyRelation(schema)
            p == [plan EXCEPT ![node] = x]
<1>1. x.kind = "empty"
  BY DEF EmptyRelation
<1>. HIDE DEF x
<1>2. node \in DOMAIN plan /\ IsSequence(plan)
  BY DEF IInv, PlanOK, Joins
<1>3. /\ IsSequence(p) /\ DOMAIN p = DOMAIN plan /\ p[node] = x
      /\ \A i \in DOMAIN plan \ {node} : p[i] = plan[i]
  BY <1>2, Replaced
<1>. HIDE DEF p
<1>4. \A i \in DOMAIN p : p[i].kind = "filter" => Admissible(p[i].list)
  BY <1>1, <1>3 DEF IInv, Account
<1>. QED
  BY <1>3, <1>4, AppliedInv DEF p, x

LEMMA RewriteInv ==
  ASSUME IInv, RewriteJoin
  PROVE  IInv'
<1>. DEFINE side == Sides(plan[node])
            rest(keys) == keys \ {Null}
            x == Rebuilt(plan[node], side, Len(plan) + 1)
            q == [plan EXCEPT ![node] = x]
            y(keys) == InList(side.remote, side.remoteKey, rest(keys))
<1>1. PICK keys \in DistinctKeys(side) :
        /\ rest(keys) # {} /\ Cardinality(keys) <= MaxLocalRows
        /\ Return(Append([plan EXCEPT ![node] = Rebuilt(@, side, Len(plan) + 1)], y(keys)),
                  Applied(rest(keys)))
  BY DEF RewriteJoin
<1>2. pc = "collect" /\ node \in DOMAIN plan /\ IsSequence(plan)
      /\ node \in Joins(query) /\ plan[node] = query[node]
  BY DEF RewriteJoin, IInv, PlanOK, Joins
<1>3. Admissible(rest(keys))
  <2>1. IsFiniteSet(keys)
    BY DEF DistinctKeys
  <2>2. rest(keys) \subseteq keys
    OBVIOUS
  <2>3. IsFiniteSet(rest(keys)) /\ Cardinality(rest(keys)) <= Cardinality(keys)
    BY <2>1, <2>2, FS_Subset
  <2>4. Cardinality(rest(keys)) \in Nat /\ Cardinality(keys) \in Nat
    BY <2>1, <2>3, FS_CardinalityType
  <2>5. Cardinality(rest(keys)) # 0
    BY <1>1, <2>3, FS_EmptySet
  <2>6. Cardinality(rest(keys)) \in 1..MaxLocalRows
    <3>. HIDE DEF rest
    <3>. QED
      BY <1>1, <2>3, <2>4, <2>5, BoundsAssumption
  <2>. QED
    BY <2>6 DEF Admissible
<1>4. x.kind = "join"
  <2>1. plan[node].kind = "join"
    BY <1>2 DEF Joins
  <2>. QED
    BY <2>1 DEF Rebuilt
<1>5. y(keys).kind = "filter" /\ y(keys).list = rest(keys)
  BY DEF InList
<1>6. [plan EXCEPT ![node] = Rebuilt(@, side, Len(plan) + 1)] = q
  OBVIOUS
<1>. HIDE DEF x, y, side, rest
<1>7. /\ IsSequence(q) /\ Len(q) = Len(plan) /\ DOMAIN q = DOMAIN plan /\ q[node] = x
      /\ \A i \in DOMAIN plan \ {node} : q[i] = plan[i]
  BY <1>2, Replaced
<1>. DEFINE p == Append(q, y(keys))
<1>. HIDE DEF q
<1>8. /\ IsSequence(p) /\ Len(q) \in Nat /\ DOMAIN q = 1..Len(q) /\ DOMAIN p = 1..Len(q) + 1
      /\ p[Len(q) + 1] = y(keys) /\ \A i \in DOMAIN q : p[i] = q[i]
  BY <1>7, Appended
<1>9. Return(p, Applied(rest(keys)))
  BY <1>1, <1>6
<1>. HIDE DEF p
<1>10. DOMAIN plan \subseteq DOMAIN p /\ \A i \in DOMAIN plan \ {node} : p[i] = plan[i]
  BY <1>7, <1>8
<1>11. ASSUME NEW i \in DOMAIN p, p[i].kind = "filter" PROVE Admissible(p[i].list)
  <2>1. CASE i \in DOMAIN plan
    BY <1>4, <1>7, <1>8, <1>11, <2>1 DEF IInv, Account
  <2>2. CASE i = Len(q) + 1
    BY <1>3, <1>5, <1>8, <2>2
  <2>3. i \in DOMAIN plan \/ i = Len(q) + 1
    BY <1>7, <1>8
  <2>. QED
    BY <2>1, <2>2, <2>3
<1>. QED
  BY <1>2, <1>8, <1>9, <1>10, <1>11, AppliedInv

\* The walk goes on: no plan is changed.
LEMMA WalkInv ==
  ASSUME IInv, PassNode \/ ConsiderJoin
  PROVE  IInv'
<1>1. /\ pc = "walk" /\ node <= Len(query) /\ node \in DOMAIN query
      /\ UNCHANGED <<query, plan>> /\ plan[node] = query[node]
  BY QueryFacts DEF PassNode, ConsiderJoin, IInv, PlanOK
<1>2. /\ Cardinality(Passed) \in Nat
      /\ node' = node + 1 => Cardinality(Passed') =
           Cardinality(Passed) + (IF plan[node].kind = "join" THEN 1 ELSE 0)
  <2>1. PlanOK /\ query' = query /\ (node \in Joins(query) <=> plan[node].kind = "join")
    BY <1>1 DEF IInv, Joins
  <2>2. Cardinality(Passed) \in Nat
    <3>1. query \in Plans /\ Passed \subseteq 1..Len(query)
      BY <2>1, QueryFacts DEF PlanOK, Passed, Joins
    <3>2. IsFiniteSet(1..Len(query))
      <4>1. 1 \in Int /\ Len(query) \in Int
        BY <3>1, QueryFacts
      <4>. QED
        BY <4>1, FS_Interval
    <3>. QED
      BY <3>1, <3>2, FS_Subset, FS_CardinalityType
  <2>. QED
    BY <2>1, <2>2, PassedNext
<1>3. ASSUME NEW i \in DOMAIN query, i >= node + 1 PROVE plan[i] = query[i]
  <2>1. i \in Nat /\ node \in Nat
    BY QueryFacts DEF IInv, PlanOK
  <2>2. i >= node
    BY <1>3, <2>1
  <2>. QED
    BY <2>2 DEF IInv, PlanOK
<1>4. Len(info.applied) \in Nat /\ Len(info.skipped) \in Nat
  BY Appended DEF IInv, InfoOK
<1>5. CASE PassNode
  <2>1. pc' = pc /\ node' = node + 1 /\ info' = info /\ plan[node].kind # "join"
    BY <1>5 DEF PassNode
  <2>2. InfoOK' /\ AppliedNodes' = AppliedNodes
    BY <2>1 DEF IInv, InfoOK, AppliedNodes
  <2>3. PlanOK'
    <3>1. pc' = "walk" /\ query' = query /\ plan' = plan /\ node' = node + 1
      BY <1>1, <2>1
    <3>. QED
      BY <1>3, <3>1 DEF IInv, PlanOK
  <2>4. Account'
    <3>1. Current = 0 /\ Current' = 0 /\ Cardinality(Passed') = Cardinality(Passed)
      BY <1>1, <1>2, <2>1 DEF Current
    <3>. QED
      BY <1>1, <2>1, <2>2, <3>1 DEF IInv, Account
  <2>. QED
    BY <2>2, <2>3, <2>4 DEF IInv
<1>6. CASE ConsiderJoin /\ SkipReason(plan[node]) = "none"
  <2>1. /\ pc' = "collect" /\ node' = node /\ plan[node].kind = "join"
        /\ info' = [info EXCEPT !.considered = @ + 1]
    BY <1>6 DEF ConsiderJoin
  <2>2. /\ info'.considered = info.considered + 1 /\ info'.applied = info.applied
        /\ info'.skipped = info.skipped
        /\ info' = [considered |-> info'.considered, applied |-> info'.applied,
                    skipped |-> info'.skipped]
    BY <2>1 DEF IInv, InfoOK
  <2>3. InfoOK' /\ AppliedNodes' = AppliedNodes
    BY <2>2 DEF IInv, InfoOK, AppliedNodes
  <2>4. PlanOK'
    <3>1. node' \in Joins(query)'
      BY <1>1, <2>1 DEF Joins
    <3>. QED
      BY <1>1, <2>1, <3>1 DEF IInv, PlanOK
  <2>5. Passed' = Passed
    BY <1>1, <2>1 DEF Passed, Joins
  <2>6. Account'
    BY <1>1, <1>2, <1>4, <2>1, <2>2, <2>3, <2>5 DEF IInv, InfoOK, Account, Current
  <2>. QED
    BY <2>3, <2>4, <2>6 DEF IInv
<1>7. CASE ConsiderJoin /\ SkipReason(plan[node]) # "none"
  <2>1. /\ pc' = pc /\ node' = node + 1 /\ plan[node].kind = "join"
        /\ info' = [Skipped(SkipReason(plan[node])) EXCEPT !.considered = @ + 1]
    BY <1>7 DEF ConsiderJoin
  <2>2. PICK reason : reason = SkipReason(plan[node])
    OBVIOUS
  <2>. DEFINE old == Append(info.skipped, reason)
  <2>3. info' = [[info EXCEPT !.skipped = old] EXCEPT !.considered = @ + 1]
    BY <2>1, <2>2 DEF Skipped
  <2>4. IsSequence(old) /\ Len(old) = Len(info.skipped) + 1
    BY Appended DEF IInv, InfoOK
  <2>. HIDE DEF old
  <2>5. /\ info'.considered = info.considered + 1 /\ info'.applied = info.applied
        /\ info'.skipped = old
        /\ info' = [considered |-> info'.considered, applied |-> info'.applied,
                    skipped |-> info'.skipped]
    BY <2>3 DEF IInv, InfoOK
  <2>6. InfoOK' /\ AppliedNodes' = AppliedNodes
    BY <2>4, <2>5 DEF IInv, InfoOK, AppliedNodes
  <2>7. PlanOK'
    <3>1. pc' = "walk" /\ query' = query /\ plan' = plan /\ node' = node + 1
      BY <1>1, <2>1
    <3>. QED
      BY <1>3, <3>1 DEF IInv, PlanOK
  <2>8. Account'
    <3>1. /\ Current = 0 /\ Current' = 0
          /\ Cardinality(Passed') = Cardinality(Passed) + 1
      BY <1>1, <1>2, <2>1 DEF Current
    <3>2. /\ info.considered \in Nat /\ info.considered = Cardinality(Passed)
          /\ info.considered = Len(info.applied) + Len(info.skipped)
      BY <1>2, <1>4, <3>1 DEF IInv, InfoOK, Account
    <3>3. info'.considered = Cardinality(Passed') + Current'
      BY <1>2, <2>5, <3>1, <3>2
    <3>4. /\ Len(info'.applied) = Len(info.applied)
          /\ Len(info'.skipped) = Len(info.skipped) + 1
      BY <2>4, <2>5
    <3>5. info'.considered = info.considered + 1 /\ Current' = 0
      BY <2>5, <3>1
    <3>6. info'.considered = Len(info'.applied) + Len(info'.skipped) + Current'
      <4>1. info.considered = Len(info.applied) + Len(info.skipped)
        BY <3>2
      <4>2. \A a, b, n \in Nat : n = a + b => n + 1 = a + (b + 1) + 0
        OBVIOUS
      <4>3. info.considered \in Nat
        BY <3>2
      <4>4. info.considered + 1 = Len(info.applied) + (Len(info.skipped) + 1) + 0
        BY <1>4, <4>1, <4>2, <4>3
      <4>. QED
        BY <3>4, <3>5, <4>4
    <3>. QED
      BY <1>1, <2>6, <3>3, <3>6 DEF IInv, Account
  <2>. QED
    BY <2>6, <2>7, <2>8 DEF IInv
<1>. QED
  BY <1>5, <1>6, <1>7

\* Steps that leave walk, plan and account as they are.
LEMMA IdleInv ==
  ASSUME IInv, UNCHANGED <<query, plan, node, info>>,
         \/ pc' = pc
         \/ pc = "collect" /\ pc' = "abandoned"
         \/ pc = "walk" /\ pc' \in {"done", "failed"}
  PROVE  IInv'
<1>1. Current' = Current /\ Passed' = Passed /\ AppliedNodes' = AppliedNodes
  BY DEF Current, Passed, Joins, AppliedNodes
<1>2. InfoOK' /\ Account'
  BY <1>1 DEF IInv, InfoOK, Account
<1>3. PlanOK'
  BY DEF IInv, PlanOK, Joins
<1>. QED
  BY <1>2, <1>3 DEF IInv

LEMMA StepInv == IInv /\ [Next]_vars => IInv'
<1>. SUFFICES ASSUME IInv, [Next]_vars PROVE IInv'
  OBVIOUS
<1>1. CASE PassNode \/ ConsiderJoin
  BY <1>1, WalkInv
<1>2. CASE KeysCancelled \/ KeysFail \/ KeysExceedCap \/ KeysUnsupported
  <2>1. pc = "collect" /\ \E reason : Return(plan, Skipped(reason))
    BY <1>2 DEF KeysCancelled, KeysFail, KeysExceedCap, KeysUnsupported
  <2>. QED
    BY <2>1, SkippedInv
<1>3. CASE NoKeys \/ OnlyNullKeys
  <2>1. /\ pc = "collect"
        /\ Return([plan EXCEPT ![node] = EmptyRelation(SchemaOf(plan)[node])], Applied({}))
    BY <1>3 DEF NoKeys, OnlyNullKeys
  <2>. QED
    BY <2>1, EmptyInv
<1>4. CASE RewriteJoin
  BY <1>4, RewriteInv
<1>5. CASE \/ Disabled \/ Cancel \/ Abandon \/ RebuildFails \/ LocalChange \/ Finish
           \/ UNCHANGED vars
  BY <1>5, IdleInv DEF Disabled, Cancel, Abandon, RebuildFails, LocalChange, Finish, vars
<1>. QED
  BY <1>1, <1>2, <1>3, <1>4, <1>5 DEF Next

\* Every join passed is counted once, a plan that differs from its query is
\* accounted for, and the keys that leave the machine are few, and never NULL:
\* whatever the plans and the tables, and whenever the walk is cancelled, refused,
\* given up or overtaken by a change of a local file.
THEOREM JoinsAccountedFor == Spec => []AccountsForJoins
<1>1. IInv => AccountsForJoins
  BY DEF IInv, InfoOK, PlanOK, Account, Admissible, AccountsForJoins, Passed, Current,
         AppliedNodes
<1>. QED
  BY <1>1, InitInv, StepInv, PTL DEF Spec

-----------------------------------------------------------------------------
(* Induction over the naturals, for what is defined by recursion.          *)

Below == {p \in Nat \X Nat : p[1] < p[2]}

\* A set of naturals that is not empty has a least member.
LEMMA LeastMember ==
  ASSUME NEW S \in SUBSET Nat, S # {}
  PROVE  \E n \in S : \A m \in S : n <= m
<1>1. IsWellFoundedOn(Below, Nat)
  <2>1. OpToRel(<, Nat) = Below
    BY Zenon DEF OpToRel, Below
  <2>. QED
    BY ONLY <2>1, NatLessThanWellFounded, Zenon
<1>2. PICK n \in S : \A m \in S : ~(<<m, n>> \in Below)
  BY <1>1, WFMin
<1>3. ASSUME NEW m \in S, ~(n <= m) PROVE FALSE
  <2>1. <<m, n>> \in Below
    BY <1>3 DEF Below
  <2>. QED
    BY <1>2, <2>1
<1>. QED
  BY <1>3

\* What holds of zero, and of the successor of whatever it holds of, holds of all.
LEMMA Induct ==
  ASSUME NEW S \in SUBSET Nat, 0 \in S, \A n \in S : n + 1 \in S
  PROVE  S = Nat
<1>. SUFFICES ASSUME Nat \ S # {} PROVE FALSE
  OBVIOUS
<1>1. PICK n \in Nat \ S : \A m \in Nat \ S : n <= m
  <2>1. Nat \ S \in SUBSET Nat
    OBVIOUS
  <2>. QED
    BY <2>1, LeastMember
<1>2. n # 0 /\ n - 1 \in Nat
  BY <1>1
<1>3. n - 1 \in S
  BY <1>1, <1>2
<1>. QED
  BY <1>1, <1>2, <1>3

-----------------------------------------------------------------------------
(* The schema and the rows of a plan whose nodes are built from nodes of a *)
(* lower rank.                                                             *)

Layered(p, rank, top) ==
  /\ top \in Nat /\ rank \in [DOMAIN p -> 1..top]
  /\ \A i \in DOMAIN p :
       /\ p[i].kind = "join" =>
            /\ p[i].left \in DOMAIN p /\ rank[p[i].left] < rank[i]
            /\ p[i].right \in DOMAIN p /\ rank[p[i].right] < rank[i]
       /\ p[i].kind = "filter" =>
            p[i].input \in DOMAIN p /\ rank[p[i].input] < rank[i]

\* The nodes up to a rank.
UpTo(p, rank, k) == {i \in DOMAIN p : rank[i] <= k}

\* The columns of a node, given those of the nodes it is built from.
SchemaStep(p, G, i) ==
  CASE p[i].kind = "join" -> G[p[i].left] \cup G[p[i].right]
    [] p[i].kind = "filter" -> G[p[i].input]
    [] OTHER -> IF p[i].kind = "scan" THEN {p[i].table} ELSE p[i].schema

\* There is a function that gives every node its columns.
LEMMA SchemaExists ==
  ASSUME NEW p, NEW rank, NEW top, Layered(p, rank, top)
  PROVE  \E g : g = [i \in DOMAIN p |-> SchemaStep(p, g, i)]
<1>. DEFINE D(k) == UpTo(p, rank, k)
            T == {k \in Nat : \E g : g = [i \in D(k) |-> SchemaStep(p, g, i)]}
<1>1. 0 \in T
  <2>1. D(0) = {}
    BY DEF Layered, UpTo
  <2>. DEFINE g == [i \in D(0) |-> {}]
  <2>2. g = [i \in D(0) |-> SchemaStep(p, g, i)]
    BY <2>1
  <2>3. \E f : f = [i \in D(0) |-> SchemaStep(p, f, i)]
    <3>. HIDE DEF g
    <3>. QED
      BY <2>2
  <2>. QED
    BY <2>3
<1>2. ASSUME NEW k \in T PROVE k + 1 \in T
  <2>0. k \in Nat
    OBVIOUS
  <2>1. PICK g : g = [i \in D(k) |-> SchemaStep(p, g, i)]
    OBVIOUS
  <2>. DEFINE h == [i \in D(k + 1) |-> IF i \in D(k) THEN g[i] ELSE SchemaStep(p, g, i)]
  <2>2. ASSUME NEW i \in D(k + 1) PROVE h[i] = SchemaStep(p, h, i)
    <3>1. /\ i \in DOMAIN p
          /\ p[i].kind = "join" => p[i].left \in D(k) /\ p[i].right \in D(k)
          /\ p[i].kind = "filter" => p[i].input \in D(k)
      BY <2>0 DEF Layered, UpTo
    <3>2. D(k) \subseteq D(k + 1)
      BY <2>0 DEF Layered, UpTo
    <3>3. \A j \in D(k) : h[j] = g[j]
      BY <3>2
    <3>4. SchemaStep(p, h, i) = SchemaStep(p, g, i)
      <4>. HIDE DEF h, D
      <4>. QED
        BY <3>1, <3>3 DEF SchemaStep
    <3>5. i \in D(k) => g[i] = SchemaStep(p, g, i)
      BY <2>1
    <3>. QED
      BY <3>4, <3>5
  <2>3. h = [i \in D(k + 1) |-> SchemaStep(p, h, i)]
    BY <2>2
  <2>4. \E f : f = [i \in D(k + 1) |-> SchemaStep(p, f, i)]
    <3>. HIDE DEF h
    <3>. QED
      BY <2>3
  <2>. QED
    BY <2>0, <2>4
<1>3. T = Nat
  <2>. HIDE DEF T
  <2>1. T \in SUBSET Nat
    BY DEF T
  <2>. QED
    BY <1>1, <1>2, <2>1, Induct
<1>4. \E g : g = [i \in D(top) |-> SchemaStep(p, g, i)]
  <2>1. top \in T
    <3>. HIDE DEF T
    <3>. QED
      BY <1>3 DEF Layered
  <2>. QED
    BY <2>1
<1>5. D(top) = DOMAIN p
  BY DEF Layered, UpTo
<1>. QED
  BY <1>4, <1>5

\* The columns of every node are those its children give it.
LEMMA SchemaNext ==
  ASSUME NEW p, NEW rank, NEW top, Layered(p, rank, top)
  PROVE  \A i \in DOMAIN p : SchemaOf(p)[i] = SchemaStep(p, SchemaOf(p), i)
<1>. DEFINE IsG(g) == g = [i \in DOMAIN p |-> SchemaStep(p, g, i)]
            columns == CHOOSE g : IsG(g)
<1>1. IsG(columns)
  BY SchemaExists
<1>2. SchemaOf(p) = columns
  BY DEF SchemaOf, Gathered, SchemaStep
<1>3. \A i \in DOMAIN p : columns[i] = SchemaStep(p, columns, i)
  BY <1>1
<1>. HIDE DEF columns
<1>. QED
  BY <1>2, <1>3

\* There is a function that gives every node its rows.
LEMMA RowsExists ==
  ASSUME NEW p, NEW d, NEW rank, NEW top, Layered(p, rank, top)
  PROVE  \E g : g = [i \in DOMAIN p |-> RowsAt(p, d, g, i)]
<1>. DEFINE D(k) == UpTo(p, rank, k)
            T == {k \in Nat : \E g : g = [i \in D(k) |-> RowsAt(p, d, g, i)]}
<1>1. 0 \in T
  <2>1. D(0) = {}
    BY DEF Layered, UpTo
  <2>. DEFINE g == [i \in D(0) |-> {}]
  <2>2. g = [i \in D(0) |-> RowsAt(p, d, g, i)]
    BY <2>1
  <2>3. \E f : f = [i \in D(0) |-> RowsAt(p, d, f, i)]
    <3>. HIDE DEF g
    <3>. QED
      BY <2>2
  <2>. QED
    BY <2>3
<1>2. ASSUME NEW k \in T PROVE k + 1 \in T
  <2>0. k \in Nat
    OBVIOUS
  <2>1. PICK g : g = [i \in D(k) |-> RowsAt(p, d, g, i)]
    OBVIOUS
  <2>. DEFINE h == [i \in D(k + 1) |-> IF i \in D(k) THEN g[i] ELSE RowsAt(p, d, g, i)]
  <2>2. ASSUME NEW i \in D(k + 1) PROVE h[i] = RowsAt(p, d, h, i)
    <3>1. /\ i \in DOMAIN p
          /\ p[i].kind = "join" => p[i].left \in D(k) /\ p[i].right \in D(k)
          /\ p[i].kind = "filter" => p[i].input \in D(k)
      BY <2>0 DEF Layered, UpTo
    <3>2. D(k) \subseteq D(k + 1)
      BY <2>0 DEF Layered, UpTo
    <3>3. \A j \in D(k) : h[j] = g[j]
      BY <3>2
    <3>4. RowsAt(p, d, h, i) = RowsAt(p, d, g, i)
      <4>. HIDE DEF h, D
      <4>. QED
        BY <3>1, <3>3 DEF RowsAt
    <3>5. i \in D(k) => g[i] = RowsAt(p, d, g, i)
      BY <2>1
    <3>. QED
      BY <3>4, <3>5
  <2>3. h = [i \in D(k + 1) |-> RowsAt(p, d, h, i)]
    BY <2>2
  <2>4. \E f : f = [i \in D(k + 1) |-> RowsAt(p, d, f, i)]
    <3>. HIDE DEF h
    <3>. QED
      BY <2>3
  <2>. QED
    BY <2>0, <2>4
<1>3. T = Nat
  <2>. HIDE DEF T
  <2>1. T \in SUBSET Nat
    BY DEF T
  <2>. QED
    BY <1>1, <1>2, <2>1, Induct
<1>4. \E g : g = [i \in D(top) |-> RowsAt(p, d, g, i)]
  <2>1. top \in T
    <3>. HIDE DEF T
    <3>. QED
      BY <1>3 DEF Layered
  <2>. QED
    BY <2>1
<1>5. D(top) = DOMAIN p
  BY DEF Layered, UpTo
<1>. QED
  BY <1>4, <1>5

\* The rows of every node are those its children give it.
LEMMA RowsNext ==
  ASSUME NEW p, NEW d, NEW rank, NEW top, Layered(p, rank, top)
  PROVE  \A i \in DOMAIN p : RowsOf(p, d)[i] = RowsAt(p, d, RowsOf(p, d), i)
<1>. DEFINE IsR(g) == g = [i \in DOMAIN p |-> RowsAt(p, d, g, i)]
            rows == CHOOSE g : IsR(g)
<1>1. IsR(rows)
  BY RowsExists
<1>2. RowsOf(p, d) = rows
  BY DEF RowsOf
<1>3. \A i \in DOMAIN p : rows[i] = RowsAt(p, d, rows, i)
  BY <1>1
<1>. HIDE DEF rows
<1>. QED
  BY <1>2, <1>3

-----------------------------------------------------------------------------
(* What the rewrite makes of a plan.                                       *)

IsInner(x) == x.kind = "join" /\ x.type = "Inner"

\* Node i of query q is, in plan p, taken as empty, or one of its sides is
\* filtered by node c.
Emptied(p, q, i) == IsInner(q[i]) /\ p[i].kind = "empty"

FiltersLeft(p, q, i, c) ==
  IsInner(q[i]) /\ p[i] = [q[i] EXCEPT !.left = c] /\ p[c].input = q[i].left

FiltersRight(p, q, i, c) ==
  IsInner(q[i]) /\ p[i] = [q[i] EXCEPT !.right = c] /\ p[c].input = q[i].right

\* The nodes that were added.
Added(p, q) == DOMAIN p \ DOMAIN q

\* Plan p is query q, but for inner joins that were emptied or filtered.
Rewritten(p, q) ==
  /\ DOMAIN q \subseteq DOMAIN p
  /\ \A c \in Added(p, q) : p[c].kind = "filter" /\ p[c].input \in DOMAIN q
  /\ \A i \in DOMAIN q :
       \/ p[i] = q[i]
       \/ Emptied(p, q, i)
       \/ \E c \in Added(p, q) : FiltersLeft(p, q, i, c) \/ FiltersRight(p, q, i, c)

\* The filter c keeps the rows of one side of a join that match one of the other.
KeepsLeft(x, c, R) ==
  \A l \in R[x.left], r \in R[x.right] : Matches(x, l, r) => l[c.column] \in c.list

KeepsRight(x, c, R) ==
  \A l \in R[x.left], r \in R[x.right] : Matches(x, l, r) => r[c.column] \in c.list

\* What was emptied has no rows in q, and no filter takes away a row that matches.
Exact(p, q, d) ==
  \A i \in DOMAIN q :
    \/ p[i] = q[i]
    \/ /\ Emptied(p, q, i) /\ p[i].schema = SchemaOf(q)[i]
       /\ RowsOf(q, d)[i] = {}
    \/ \E c \in Added(p, q) :
         \/ FiltersLeft(p, q, i, c) /\ KeepsLeft(q[i], p[c], RowsOf(q, d))
         \/ FiltersRight(p, q, i, c) /\ KeepsRight(q[i], p[c], RowsOf(q, d))

\* A join with a filtered side is the join of the query otherwise.
LEMMA FilteredLeft ==
  ASSUME NEW p, NEW q \in Plans, NEW i \in DOMAIN q, NEW c, FiltersLeft(p, q, i, c)
  PROVE  /\ p[i].kind = "join" /\ p[i].type = "Inner" /\ p[i].left = c
         /\ p[i].right = q[i].right /\ p[i].on = q[i].on /\ p[i].nulls = q[i].nulls
<1>1. IsJoin(q[i], i) /\ q[i].type = "Inner" /\ p[i] = [q[i] EXCEPT !.left = c]
  BY QueryNodes DEF FiltersLeft, IsInner
<1>. QED
  BY <1>1 DEF IsJoin

LEMMA FilteredRight ==
  ASSUME NEW p, NEW q \in Plans, NEW i \in DOMAIN q, NEW c, FiltersRight(p, q, i, c)
  PROVE  /\ p[i].kind = "join" /\ p[i].type = "Inner" /\ p[i].right = c
         /\ p[i].left = q[i].left /\ p[i].on = q[i].on /\ p[i].nulls = q[i].nulls
<1>1. IsJoin(q[i], i) /\ q[i].type = "Inner" /\ p[i] = [q[i] EXCEPT !.right = c]
  BY QueryNodes DEF FiltersRight, IsInner
<1>. QED
  BY <1>1 DEF IsJoin

\* A query, and what is made of it, can be evaluated from the leaves.
LEMMA RewrittenLayered ==
  ASSUME NEW p, NEW q \in Plans, Rewritten(p, q)
  PROVE  \E rank, top : Layered(p, rank, top)
<1>. DEFINE n == Len(q)
            rank == [i \in DOMAIN p |-> IF i \in DOMAIN q THEN 2 * i ELSE 2 * p[i].input + 1]
            top == 2 * n + 1
<1>1. n \in Nat /\ DOMAIN q = 1..n /\ DOMAIN q \subseteq DOMAIN p
  BY QueryNodes DEF Rewritten
<1>2. \A c \in Added(p, q) : p[c].kind = "filter" /\ p[c].input \in 1..n
  BY <1>1 DEF Rewritten
<1>3. /\ \A i \in 1..n : rank[i] = 2 * i
      /\ \A c \in Added(p, q) : rank[c] = 2 * p[c].input + 1
  BY <1>1 DEF Added
<1>4. rank \in [DOMAIN p -> 1..top] /\ top \in Nat
  <2>1. ASSUME NEW i \in DOMAIN p PROVE rank[i] \in 1..top
    <3>1. CASE i \in 1..n
      <4>1. 2 * i \in 1..2 * n + 1
        BY <1>1, <3>1
      <4>. QED
        BY <1>3, <3>1, <4>1
    <3>2. CASE i \in Added(p, q)
      <4>1. \A m \in 1..n : 2 * m + 1 \in 1..2 * n + 1
        BY <1>1
      <4>. QED
        BY <1>2, <1>3, <3>2, <4>1
    <3>. QED
      BY <1>1, <3>1, <3>2 DEF Added
  <2>2. top \in Nat
    BY <1>1
  <2>. QED
    BY <2>1, <2>2
<1>. HIDE DEF rank
<1>5. ASSUME NEW i \in 1..n, NEW m \in 1..(i - 1)
      PROVE  /\ m \in DOMAIN p /\ rank[m] < rank[i]
             /\ \A c \in Added(p, q) : p[c].input = m => c \in DOMAIN p /\ rank[c] < rank[i]
  <2>1. m \in 1..n /\ 2 * m < 2 * i /\ 2 * m + 1 < 2 * i
    BY <1>1
  <2>. QED
    BY <1>1, <1>3, <2>1 DEF Added
<1>6. ASSUME NEW i \in DOMAIN p
      PROVE  /\ p[i].kind = "join" =>
                  /\ p[i].left \in DOMAIN p /\ rank[p[i].left] < rank[i]
                  /\ p[i].right \in DOMAIN p /\ rank[p[i].right] < rank[i]
             /\ p[i].kind = "filter" =>
                  p[i].input \in DOMAIN p /\ rank[p[i].input] < rank[i]
  <2>1. CASE i \in Added(p, q)
    <3>1. p[i].kind = "filter" /\ p[i].input \in 1..n /\ rank[i] = 2 * p[i].input + 1
          /\ rank[p[i].input] = 2 * p[i].input
      BY <1>2, <1>3, <2>1
    <3>. QED
      BY <1>1, <3>1
  <2>2. CASE i \in 1..n
    <3>0. i \in DOMAIN q
      BY <1>1, <2>2
    <3>1. CASE p[i] = q[i]
      BY <1>5, <2>2, <3>0, <3>1, QueryNodes
    <3>2. CASE Emptied(p, q, i)
      BY <3>2 DEF Emptied
    <3>3. CASE \E c \in Added(p, q) : FiltersLeft(p, q, i, c)
      <4>1. PICK c \in Added(p, q) : FiltersLeft(p, q, i, c)
        BY <3>3
      <4>2. /\ p[i].kind = "join" /\ p[i].left = c /\ p[i].right = q[i].right
            /\ p[c].input = q[i].left
            /\ q[i].left \in 1..(i - 1) /\ q[i].right \in 1..(i - 1)
        BY <3>0, <4>1, FilteredLeft, QueryNodes DEF FiltersLeft, IsInner
      <4>. QED
        BY <1>5, <2>2, <4>2
    <3>4. CASE \E c \in Added(p, q) : FiltersRight(p, q, i, c)
      <4>1. PICK c \in Added(p, q) : FiltersRight(p, q, i, c)
        BY <3>4
      <4>2. /\ p[i].kind = "join" /\ p[i].right = c /\ p[i].left = q[i].left
            /\ p[c].input = q[i].right
            /\ q[i].left \in 1..(i - 1) /\ q[i].right \in 1..(i - 1)
        BY <3>0, <4>1, FilteredRight, QueryNodes DEF FiltersRight, IsInner
      <4>. QED
        BY <1>5, <2>2, <4>2
    <3>. QED
      BY <3>0, <3>1, <3>2, <3>3, <3>4 DEF Rewritten
  <2>. QED
    BY <1>1, <2>1, <2>2 DEF Added
<1>7. Layered(p, rank, top)
  BY <1>4, <1>6 DEF Layered
<1>. QED
  BY <1>7

\* So its rows and columns are those that the recursion says.
LEMMA PlanNext ==
  ASSUME NEW p, NEW q \in Plans, Rewritten(p, q), NEW d
  PROVE  /\ \A i \in DOMAIN p : RowsOf(p, d)[i] = RowsAt(p, d, RowsOf(p, d), i)
         /\ \A i \in DOMAIN p : SchemaOf(p)[i] = SchemaStep(p, SchemaOf(p), i)
         /\ \A i \in DOMAIN q : RowsOf(q, d)[i] = RowsAt(q, d, RowsOf(q, d), i)
         /\ \A i \in DOMAIN q : SchemaOf(q)[i] = SchemaStep(q, SchemaOf(q), i)
<1>1. \E rank, top : Layered(p, rank, top)
  BY RewrittenLayered
<1>2. \E rank, top : Layered(q, rank, top)
  <2>1. Rewritten(q, q)
    BY DEF Rewritten, Added
  <2>. QED
    BY <2>1, RewrittenLayered
<1>. QED
  BY <1>1, <1>2, RowsNext, SchemaNext

-----------------------------------------------------------------------------
(* The rows of a plan that was rewritten.                                  *)

\* The rows of an inner join are its matching pairs, whatever its columns are.
LEMMA InnerRows ==
  ASSUME NEW x, x.type = "Inner", NEW ls, NEW rs, NEW columns
  PROVE  JoinRows(x, ls, rs, columns) =
           {Joined(lr[1], lr[2]) : lr \in {lr \in ls \X rs : Matches(x, lr[1], lr[2])}}
<1>1. x.type # "Left"
  OBVIOUS
<1>. QED
  BY <1>1 DEF JoinRows

\* Fewer rows on the sides of inner joins make fewer rows.
LEMMA FewerRows ==
  ASSUME NEW x, NEW y, x.type = "Inner", y.type = "Inner", x.on = y.on, x.nulls = y.nulls,
         NEW ls, NEW rs, NEW ls2, NEW rs2, ls \subseteq ls2, rs \subseteq rs2,
         NEW columns, NEW columns2
  PROVE  JoinRows(x, ls, rs, columns) \subseteq JoinRows(y, ls2, rs2, columns2)
<1>1. \A a, b : Matches(x, a, b) <=> Matches(y, a, b)
  BY DEF Matches
<1>. DEFINE A == {lr \in ls \X rs : Matches(x, lr[1], lr[2])}
            B == {lr \in ls2 \X rs2 : Matches(y, lr[1], lr[2])}
<1>2. A \subseteq B
  BY <1>1
<1>3. JoinRows(x, ls, rs, columns) = {Joined(lr[1], lr[2]) : lr \in A}
  BY InnerRows
<1>4. JoinRows(y, ls2, rs2, columns2) = {Joined(lr[1], lr[2]) : lr \in B}
  BY InnerRows
<1>. HIDE DEF A, B
<1>. QED
  BY <1>2, <1>3, <1>4

\* A side without rows that match nothing makes the same rows.
LEMMA SameRows ==
  ASSUME NEW x, NEW y, x.type = "Inner", y.type = "Inner", x.on = y.on, x.nulls = y.nulls,
         NEW ls, NEW rs, NEW ls2, NEW rs2, ls \subseteq ls2, rs \subseteq rs2,
         \A a \in ls2, b \in rs2 : Matches(y, a, b) => a \in ls /\ b \in rs,
         NEW columns, NEW columns2
  PROVE  JoinRows(x, ls, rs, columns) = JoinRows(y, ls2, rs2, columns2)
<1>1. \A a, b : Matches(x, a, b) <=> Matches(y, a, b)
  BY DEF Matches
<1>. DEFINE A == {lr \in ls \X rs : Matches(x, lr[1], lr[2])}
            B == {lr \in ls2 \X rs2 : Matches(y, lr[1], lr[2])}
<1>2. A = B
  BY <1>1
<1>3. JoinRows(x, ls, rs, columns) = {Joined(lr[1], lr[2]) : lr \in A}
  BY InnerRows
<1>4. JoinRows(y, ls2, rs2, columns2) = {Joined(lr[1], lr[2]) : lr \in B}
  BY InnerRows
<1>. HIDE DEF A, B
<1>. QED
  BY <1>2, <1>3, <1>4

\* Whatever lists the filters have, a query of inner joins has every row of the plan.
LEMMA RowsNarrow ==
  ASSUME NEW p, NEW q \in Plans, Rewritten(p, q), NEW d,
         \A i \in Joins(q) : q[i].type = "Inner"
  PROVE  \A i \in DOMAIN q : RowsOf(p, d)[i] \subseteq RowsOf(q, d)[i]
<1>. DEFINE P == RowsOf(p, d)
            Q == RowsOf(q, d)
            T == {k \in Nat : \A i \in DOMAIN q : i <= k => P[i] \subseteq Q[i]}
<1>1. /\ \A i \in DOMAIN p : P[i] = RowsAt(p, d, P, i)
      /\ \A i \in DOMAIN q : Q[i] = RowsAt(q, d, Q, i)
  BY PlanNext
<1>. HIDE DEF P, Q
<1>2. Len(q) \in Nat /\ DOMAIN q = 1..Len(q)
  BY QueryNodes
<1>3. 0 \in T
  BY <1>2
<1>4. ASSUME NEW k \in T PROVE k + 1 \in T
  <2>0. k \in Nat
    OBVIOUS
  <2>1. SUFFICES ASSUME k + 1 \in DOMAIN q PROVE P[k + 1] \subseteq Q[k + 1]
    <3>1. \A i \in DOMAIN q : i <= k + 1 => i <= k \/ i = k + 1
      BY <1>2, <2>0
    <3>. QED
      BY <2>0, <3>1
  <2>. DEFINE i == k + 1
  <2>2. \A m \in 1..(i - 1) : m \in DOMAIN q /\ P[m] \subseteq Q[m]
    BY <1>2, <2>0, <2>1
  <2>3. /\ i \in DOMAIN q /\ i \in DOMAIN p
        /\ P[i] = RowsAt(p, d, P, i) /\ Q[i] = RowsAt(q, d, Q, i)
    BY <1>1, <2>1 DEF Rewritten
  <2>. SUFFICES P[i] \subseteq Q[i]
    OBVIOUS
  <2>. HIDE DEF i, T
  <2>4. q[i].kind = "join" => /\ q[i].left \in 1..(i - 1) /\ q[i].right \in 1..(i - 1)
                              /\ q[i].type = "Inner"
                              /\ Q[i] = JoinRows(q[i], Q[q[i].left], Q[q[i].right],
                                                 SchemaOf(q)[q[i].right])
    <3>. HAVE q[i].kind = "join"
    <3>. QED
      BY <2>3, QueryNodes DEF Joins, RowsAt
  <2>5. \A c \in Added(p, q) : P[c] \subseteq P[p[c].input]
    <3>1. \A c \in Added(p, q) : P[c] = FilterRows(p[c], P[p[c].input])
      BY <1>1 DEF RowsAt, Rewritten, Added
    <3>. QED
      BY <3>1 DEF FilterRows
  <2>50. q[i].kind = "scan" \/ q[i].kind = "join"
    BY <2>3, QueryNodes
  <2>6. CASE p[i] = q[i]
    <3>1. CASE q[i].kind = "scan"
      <4>1. P[i] = ScanRows(q[i], d) /\ Q[i] = ScanRows(q[i], d)
        BY <2>3, <2>6, <3>1 DEF RowsAt
      <4>. QED
        BY <4>1
    <3>2. CASE q[i].kind = "join"
      <4>1. P[i] = JoinRows(q[i], P[q[i].left], P[q[i].right], SchemaOf(p)[q[i].right])
        BY <2>3, <2>6, <3>2 DEF RowsAt
      <4>2. P[q[i].left] \subseteq Q[q[i].left] /\ P[q[i].right] \subseteq Q[q[i].right]
        BY <2>2, <2>4, <3>2
      <4>3. JoinRows(q[i], P[q[i].left], P[q[i].right], SchemaOf(p)[q[i].right])
              \subseteq JoinRows(q[i], Q[q[i].left], Q[q[i].right], SchemaOf(q)[q[i].right])
        BY <2>4, <3>2, <4>2, FewerRows
      <4>. QED
        BY <2>4, <3>2, <4>1, <4>3
    <3>. QED
      BY <2>50, <3>1, <3>2
  <2>7. CASE Emptied(p, q, i)
    BY <2>3, <2>7 DEF Emptied, RowsAt
  <2>8. CASE \E c \in Added(p, q) : FiltersLeft(p, q, i, c)
    <3>1. PICK c \in Added(p, q) : FiltersLeft(p, q, i, c)
      BY <2>8
    <3>2. /\ p[i].kind = "join" /\ p[i].type = "Inner" /\ p[i].left = c
          /\ p[i].right = q[i].right /\ p[i].on = q[i].on /\ p[i].nulls = q[i].nulls
          /\ p[c].input = q[i].left /\ q[i].kind = "join"
      BY <2>3, <3>1, FilteredLeft DEF FiltersLeft, IsInner
    <3>3. P[i] = JoinRows(p[i], P[c], P[q[i].right], SchemaOf(p)[q[i].right])
      BY <2>3, <3>2 DEF RowsAt
    <3>4. P[c] \subseteq Q[q[i].left] /\ P[q[i].right] \subseteq Q[q[i].right]
      BY <2>2, <2>4, <2>5, <3>2
    <3>5. JoinRows(p[i], P[c], P[q[i].right], SchemaOf(p)[q[i].right])
            \subseteq JoinRows(q[i], Q[q[i].left], Q[q[i].right], SchemaOf(q)[q[i].right])
      BY <2>4, <3>2, <3>4, FewerRows
    <3>. QED
      BY <2>4, <3>2, <3>3, <3>5
  <2>9. CASE \E c \in Added(p, q) : FiltersRight(p, q, i, c)
    <3>1. PICK c \in Added(p, q) : FiltersRight(p, q, i, c)
      BY <2>9
    <3>2. /\ p[i].kind = "join" /\ p[i].type = "Inner" /\ p[i].right = c
          /\ p[i].left = q[i].left /\ p[i].on = q[i].on /\ p[i].nulls = q[i].nulls
          /\ p[c].input = q[i].right /\ q[i].kind = "join"
      BY <2>3, <3>1, FilteredRight DEF FiltersRight, IsInner
    <3>3. P[i] = JoinRows(p[i], P[q[i].left], P[c], SchemaOf(p)[c])
      BY <2>3, <3>2 DEF RowsAt
    <3>4. P[q[i].left] \subseteq Q[q[i].left] /\ P[c] \subseteq Q[q[i].right]
      BY <2>2, <2>4, <2>5, <3>2
    <3>5. JoinRows(p[i], P[q[i].left], P[c], SchemaOf(p)[c])
            \subseteq JoinRows(q[i], Q[q[i].left], Q[q[i].right], SchemaOf(q)[q[i].right])
      BY <2>4, <3>2, <3>4, FewerRows
    <3>. QED
      BY <2>4, <3>2, <3>3, <3>5
  <2>10. \/ p[i] = q[i]
         \/ Emptied(p, q, i)
         \/ \E c \in Added(p, q) : FiltersLeft(p, q, i, c)
         \/ \E c \in Added(p, q) : FiltersRight(p, q, i, c)
    BY <2>3 DEF Rewritten
  <2>. QED
    BY <2>6, <2>7, <2>8, <2>9, <2>10
<1>5. T = Nat
  <2>. HIDE DEF T
  <2>1. T \in SUBSET Nat
    BY DEF T
  <2>. QED
    BY <1>3, <1>4, <2>1, Induct
<1>6. Len(q) \in T
  <2>. HIDE DEF T
  <2>. QED
    BY <1>2, <1>5
<1>. QED
  BY <1>2, <1>6 DEF P, Q

\* If what was emptied had no rows, and the filters take away no row that matches,
\* every node of the query has the columns and the rows that it had.
LEMMA RowsExact ==
  ASSUME NEW p, NEW q \in Plans, Rewritten(p, q), NEW d, Exact(p, q, d)
  PROVE  \A i \in DOMAIN q : /\ SchemaOf(p)[i] = SchemaOf(q)[i]
                             /\ RowsOf(p, d)[i] = RowsOf(q, d)[i]
<1>. DEFINE P == RowsOf(p, d)
            Q == RowsOf(q, d)
            S == SchemaOf(p)
            U == SchemaOf(q)
            T == {k \in Nat : \A i \in DOMAIN q : i <= k => S[i] = U[i] /\ P[i] = Q[i]}
<1>1. /\ \A i \in DOMAIN p : P[i] = RowsAt(p, d, P, i) /\ S[i] = SchemaStep(p, S, i)
      /\ \A i \in DOMAIN q : Q[i] = RowsAt(q, d, Q, i) /\ U[i] = SchemaStep(q, U, i)
  BY PlanNext
<1>2. Len(q) \in Nat /\ DOMAIN q = 1..Len(q)
  BY QueryNodes
<1>. USE DEF P, Q
<1>3. 0 \in T
  BY <1>2
<1>4. ASSUME NEW k \in T PROVE k + 1 \in T
  <2>0. k \in Nat
    OBVIOUS
  <2>1. SUFFICES ASSUME k + 1 \in DOMAIN q
                 PROVE  S[k + 1] = U[k + 1] /\ P[k + 1] = Q[k + 1]
    <3>. HIDE DEF P, Q, S, U
    <3>1. \A i \in DOMAIN q : i <= k + 1 => i <= k \/ i = k + 1
      BY <1>2, <2>0
    <3>. QED
      BY <2>0, <3>1
  <2>. DEFINE i == k + 1
  <2>. HIDE DEF P, Q, S, U
  <2>2. \A m \in 1..(i - 1) : m \in DOMAIN q /\ S[m] = U[m] /\ P[m] = Q[m]
    BY <1>2, <2>0, <2>1
  <2>3. /\ i \in DOMAIN q /\ i \in DOMAIN p
        /\ P[i] = RowsAt(p, d, P, i) /\ S[i] = SchemaStep(p, S, i)
        /\ Q[i] = RowsAt(q, d, Q, i) /\ U[i] = SchemaStep(q, U, i)
    BY <1>1, <2>1 DEF Rewritten
  <2>. SUFFICES S[i] = U[i] /\ P[i] = Q[i]
    OBVIOUS
  <2>. HIDE DEF i, T
  <2>4. q[i].kind = "scan" \/ q[i].kind = "join"
    BY <2>3, QueryNodes
  <2>5. q[i].kind = "join" =>
          /\ q[i].left \in 1..(i - 1) /\ q[i].right \in 1..(i - 1)
          /\ Q[i] = JoinRows(q[i], Q[q[i].left], Q[q[i].right], U[q[i].right])
          /\ U[i] = U[q[i].left] \cup U[q[i].right]
          /\ S[q[i].left] = U[q[i].left] /\ S[q[i].right] = U[q[i].right]
          /\ P[q[i].left] = Q[q[i].left] /\ P[q[i].right] = Q[q[i].right]
    <3>. SUFFICES ASSUME q[i].kind = "join"
                  PROVE  /\ q[i].left \in 1..(i - 1) /\ q[i].right \in 1..(i - 1)
                         /\ Q[i] = JoinRows(q[i], Q[q[i].left], Q[q[i].right], U[q[i].right])
                         /\ U[i] = U[q[i].left] \cup U[q[i].right]
                         /\ S[q[i].left] = U[q[i].left] /\ S[q[i].right] = U[q[i].right]
                         /\ P[q[i].left] = Q[q[i].left] /\ P[q[i].right] = Q[q[i].right]
      OBVIOUS
    <3>1. q[i].left \in 1..(i - 1) /\ q[i].right \in 1..(i - 1)
      BY <2>3, QueryNodes
    <3>2. Q[i] = JoinRows(q[i], Q[q[i].left], Q[q[i].right], U[q[i].right])
      BY <2>3 DEF RowsAt, U
    <3>3. U[i] = U[q[i].left] \cup U[q[i].right]
      BY <2>3 DEF SchemaStep
    <3>. QED
      BY <2>2, <3>1, <3>2, <3>3
  <2>6. \A c \in Added(p, q) : P[c] = FilterRows(p[c], P[p[c].input]) /\ S[c] = S[p[c].input]
    BY <1>1 DEF RowsAt, SchemaStep, Rewritten, Added
  <2>7. CASE p[i] = q[i] /\ q[i].kind = "scan"
    <3>1. P[i] = ScanRows(q[i], d) /\ Q[i] = ScanRows(q[i], d)
      BY <2>3, <2>7 DEF RowsAt
    <3>2. S[i] = {q[i].table} /\ U[i] = {q[i].table}
      BY <2>3, <2>7 DEF SchemaStep
    <3>. QED
      BY <3>1, <3>2
  <2>8. CASE p[i] = q[i] /\ q[i].kind = "join"
    <3>1. P[i] = JoinRows(q[i], P[q[i].left], P[q[i].right], S[q[i].right])
      BY <2>3, <2>8 DEF RowsAt, S
    <3>2. S[i] = S[q[i].left] \cup S[q[i].right]
      BY <2>3, <2>8 DEF SchemaStep
    <3>. QED
      BY <2>5, <2>8, <3>1, <3>2
  <2>9. CASE Emptied(p, q, i) /\ p[i].schema = U[i] /\ Q[i] = {}
    <3>1. P[i] = {} /\ S[i] = p[i].schema
      BY <2>3, <2>9 DEF Emptied, RowsAt, SchemaStep
    <3>. QED
      BY <2>9, <3>1
  <2>10. CASE \E c \in Added(p, q) : FiltersLeft(p, q, i, c) /\ KeepsLeft(q[i], p[c], Q)
    <3>1. PICK c \in Added(p, q) : FiltersLeft(p, q, i, c) /\ KeepsLeft(q[i], p[c], Q)
      BY <2>10
    <3>2. /\ p[i].kind = "join" /\ p[i].type = "Inner" /\ p[i].left = c
          /\ p[i].right = q[i].right /\ p[i].on = q[i].on /\ p[i].nulls = q[i].nulls
          /\ p[c].input = q[i].left /\ q[i].kind = "join" /\ q[i].type = "Inner"
      BY <2>3, <3>1, FilteredLeft DEF FiltersLeft, IsInner
    <3>3. P[i] = JoinRows(p[i], P[c], P[q[i].right], S[q[i].right])
      BY <2>3, <3>2 DEF RowsAt, S
    <3>4. S[i] = S[c] \cup S[q[i].right]
      BY <2>3, <3>2 DEF SchemaStep
    <3>5. P[c] = FilterRows(p[c], Q[q[i].left]) /\ S[c] = U[q[i].left]
      BY <2>5, <2>6, <3>2
    <3>6. /\ P[c] \subseteq Q[q[i].left]
          /\ \A a \in Q[q[i].left], b \in Q[q[i].right] :
               Matches(q[i], a, b) => a \in P[c] /\ b \in Q[q[i].right]
      BY <3>1, <3>5 DEF KeepsLeft, FilterRows
    <3>7. JoinRows(p[i], P[c], Q[q[i].right], S[q[i].right])
            = JoinRows(q[i], Q[q[i].left], Q[q[i].right], U[q[i].right])
      BY <3>2, <3>6, SameRows
    <3>. QED
      BY <2>5, <3>2, <3>3, <3>4, <3>5, <3>7
  <2>11. CASE \E c \in Added(p, q) : FiltersRight(p, q, i, c) /\ KeepsRight(q[i], p[c], Q)
    <3>1. PICK c \in Added(p, q) : FiltersRight(p, q, i, c) /\ KeepsRight(q[i], p[c], Q)
      BY <2>11
    <3>2. /\ p[i].kind = "join" /\ p[i].type = "Inner" /\ p[i].right = c
          /\ p[i].left = q[i].left /\ p[i].on = q[i].on /\ p[i].nulls = q[i].nulls
          /\ p[c].input = q[i].right /\ q[i].kind = "join" /\ q[i].type = "Inner"
      BY <2>3, <3>1, FilteredRight DEF FiltersRight, IsInner
    <3>3. P[i] = JoinRows(p[i], P[q[i].left], P[c], S[c])
      BY <2>3, <3>2 DEF RowsAt, S
    <3>4. S[i] = S[q[i].left] \cup S[c]
      BY <2>3, <3>2 DEF SchemaStep
    <3>5. P[c] = FilterRows(p[c], Q[q[i].right]) /\ S[c] = U[q[i].right]
      BY <2>5, <2>6, <3>2
    <3>6. /\ P[c] \subseteq Q[q[i].right]
          /\ \A a \in Q[q[i].left], b \in Q[q[i].right] :
               Matches(q[i], a, b) => a \in Q[q[i].left] /\ b \in P[c]
      BY <3>1, <3>5 DEF KeepsRight, FilterRows
    <3>7. JoinRows(p[i], Q[q[i].left], P[c], S[c])
            = JoinRows(q[i], Q[q[i].left], Q[q[i].right], U[q[i].right])
      BY <3>2, <3>6, SameRows
    <3>. QED
      BY <2>5, <3>2, <3>3, <3>4, <3>5, <3>7
  <2>12. \/ p[i] = q[i]
         \/ Emptied(p, q, i) /\ p[i].schema = U[i] /\ Q[i] = {}
         \/ \E c \in Added(p, q) : FiltersLeft(p, q, i, c) /\ KeepsLeft(q[i], p[c], Q)
         \/ \E c \in Added(p, q) : FiltersRight(p, q, i, c) /\ KeepsRight(q[i], p[c], Q)
    BY <2>3 DEF Exact, Q, U
  <2>. QED
    BY <2>4, <2>7, <2>8, <2>9, <2>10, <2>11, <2>12
<1>5. T = Nat
  <2>. HIDE DEF T
  <2>1. T \in SUBSET Nat
    BY DEF T
  <2>. QED
    BY <1>3, <1>4, <2>1, Induct
<1>6. Len(q) \in T
  <2>. HIDE DEF T
  <2>. QED
    BY <1>2, <1>5
<1>. QED
  BY <1>2, <1>6 DEF P, Q

-----------------------------------------------------------------------------
(* What a step of the rewrite does to the rows.                            *)

\* A join whose local side is read is an inner join of two columns.
Eligible(x) ==
  /\ x.type = "Inner" /\ Len(x.on) = 1
  /\ IsColumn(x.on[1].left) /\ IsColumn(x.on[1].right)

\* Unless a local file changed, a query on plain columns has kept its rows.
RowsInv ==
  /\ Rewritten(plan, query)
  /\ pc = "collect" => Eligible(query[node])
  /\ changes \in Nat
  /\ changes = 0 /\ PlainKeys => Exact(plan, query, data)

\* One node is rewritten, and perhaps a filter added for it.
LEMMA OneRewritten ==
  ASSUME NEW q, NEW p, Rewritten(p, q), NEW n \in DOMAIN q, NEW p2,
         DOMAIN p \subseteq DOMAIN p2, \A i \in DOMAIN p \ {n} : p2[i] = p[i],
         \A c \in DOMAIN p2 \ DOMAIN p : p2[c].kind = "filter" /\ p2[c].input \in DOMAIN q,
         \/ Emptied(p2, q, n)
         \/ \E c \in Added(p2, q) : FiltersLeft(p2, q, n, c) \/ FiltersRight(p2, q, n, c)
  PROVE  Rewritten(p2, q)
<1>1. \A c \in Added(p, q) : c \in Added(p2, q) /\ p2[c] = p[c]
  BY DEF Rewritten, Added
<1>2. \A c \in Added(p2, q) : p2[c].kind = "filter" /\ p2[c].input \in DOMAIN q
  BY <1>1 DEF Rewritten, Added
<1>3. ASSUME NEW i \in DOMAIN q, i # n
      PROVE  \/ p2[i] = q[i]
             \/ Emptied(p2, q, i)
             \/ \E c \in Added(p2, q) : FiltersLeft(p2, q, i, c) \/ FiltersRight(p2, q, i, c)
  <2>1. p2[i] = p[i]
    BY <1>3 DEF Rewritten
  <2>. QED
    BY <1>1, <2>1 DEF Rewritten, Emptied, FiltersLeft, FiltersRight
<1>. QED
  BY <1>2, <1>3 DEF Rewritten

LEMMA OneExact ==
  ASSUME NEW q, NEW p, NEW d, Rewritten(p, q), Exact(p, q, d), NEW n \in DOMAIN q, NEW p2,
         DOMAIN p \subseteq DOMAIN p2, \A i \in DOMAIN p \ {n} : p2[i] = p[i],
         \/ /\ Emptied(p2, q, n) /\ p2[n].schema = SchemaOf(q)[n]
            /\ RowsOf(q, d)[n] = {}
         \/ \E c \in Added(p2, q) :
              \/ FiltersLeft(p2, q, n, c) /\ KeepsLeft(q[n], p2[c], RowsOf(q, d))
              \/ FiltersRight(p2, q, n, c) /\ KeepsRight(q[n], p2[c], RowsOf(q, d))
  PROVE  Exact(p2, q, d)
<1>1. \A c \in Added(p, q) : c \in Added(p2, q) /\ p2[c] = p[c]
  BY DEF Rewritten, Added
<1>2. ASSUME NEW i \in DOMAIN q, i # n
      PROVE  \/ p2[i] = q[i]
             \/ /\ Emptied(p2, q, i) /\ p2[i].schema = SchemaOf(q)[i]
                /\ RowsOf(q, d)[i] = {}
             \/ \E c \in Added(p2, q) :
                  \/ FiltersLeft(p2, q, i, c) /\ KeepsLeft(q[i], p2[c], RowsOf(q, d))
                  \/ FiltersRight(p2, q, i, c) /\ KeepsRight(q[i], p2[c], RowsOf(q, d))
  <2>1. p2[i] = p[i]
    BY <1>2 DEF Rewritten
  <2>2. \/ p[i] = q[i]
        \/ Emptied(p, q, i) /\ p[i].schema = SchemaOf(q)[i] /\ RowsOf(q, d)[i] = {}
        \/ \E c \in Added(p, q) :
             \/ FiltersLeft(p, q, i, c) /\ KeepsLeft(q[i], p[c], RowsOf(q, d))
             \/ FiltersRight(p, q, i, c) /\ KeepsRight(q[i], p[c], RowsOf(q, d))
    BY <1>2 DEF Exact
  <2>. QED
    BY <1>1, <2>1, <2>2 DEF Emptied, FiltersLeft, FiltersRight
<1>. QED
  BY <1>2 DEF Exact

\* Plain columns match where they have the same value, which is not NULL.
LEMMA PlainMatch ==
  ASSUME query \in Plans, PlainKeys, NEW n \in Joins(query), Eligible(query[n]),
         NEW a, NEW b, Matches(query[n], a, b)
  PROVE  LET on == query[n].on[1]
         IN a[on.left.column] = b[on.right.column] /\ a[on.left.column] # Null
<1>. DEFINE x == query[n]
<1>1. IsJoin(x, n) /\ Len(x.on) = 1 /\ ~x.nulls
  BY QueryNodes DEF Joins, Eligible, PlainKeys
<1>2. 1 \in DOMAIN x.on
  <2>1. x.on \in Seq({x.on[k] : k \in DOMAIN x.on})
    BY <1>1 DEF IsJoin, IsSequence
  <2>. HIDE DEF x
  <2>2. DOMAIN x.on = 1..Len(x.on)
    BY <2>1
  <2>. QED
    BY <1>1, <2>2
<1>3. x.on[1].left.form = "column" /\ x.on[1].right.form = "column"
  BY <1>2 DEF Eligible, IsColumn, PlainKeys
<1>4. /\ KeyValue(x.on[1].left, a) = a[x.on[1].left.column]
      /\ KeyValue(x.on[1].right, b) = b[x.on[1].right.column]
  BY <1>3 DEF KeyValue
<1>. QED
  BY <1>1, <1>2, <1>4 DEF Matches

\* A join at which the walk stands is still the query's own.
LEMMA CurrentJoin ==
  ASSUME IInv, RowsInv, pc = "collect"
  PROVE  /\ query \in Plans /\ node \in Joins(query) /\ node \in DOMAIN query
         /\ node \in DOMAIN plan /\ plan[node] = query[node]
         /\ IsJoin(query[node], node) /\ Eligible(query[node]) /\ IsInner(query[node])
         /\ query[node].left \in DOMAIN query /\ query[node].right \in DOMAIN query
<1>1. /\ query \in Plans /\ node \in Joins(query) /\ Eligible(query[node])
      /\ node \in Nat /\ \A i \in DOMAIN query : i >= node => plan[i] = query[i]
  BY DEF IInv, PlanOK, RowsInv
<1>2. node \in DOMAIN query /\ query[node].kind = "join"
  BY <1>1 DEF Joins
<1>3. IsJoin(query[node], node) /\ plan[node] = query[node]
  BY <1>1, <1>2, QueryNodes
<1>4. /\ query[node].left \in 1..(node - 1) /\ query[node].right \in 1..(node - 1)
      /\ DOMAIN query = 1..Len(query) /\ Len(query) \in Nat
  BY <1>1, <1>2, QueryNodes
<1>5. query[node].left \in DOMAIN query /\ query[node].right \in DOMAIN query
  BY <1>1, <1>2, <1>4
<1>6. node \in DOMAIN plan
  BY <1>2 DEF RowsInv, Rewritten
<1>. QED
  BY <1>1, <1>2, <1>3, <1>5, <1>6 DEF IsInner, Eligible

\* The two sides of a join, whichever is local.
LEMMA TwoSides ==
  ASSUME NEW x
  PROVE  \/ /\ Sides(x).isLeft
            /\ Sides(x).local = x.left /\ Sides(x).localKey = x.on[1].left.column
            /\ Sides(x).remote = x.right /\ Sides(x).remoteKey = x.on[1].right.column
         \/ /\ ~Sides(x).isLeft
            /\ Sides(x).local = x.right /\ Sides(x).localKey = x.on[1].right.column
            /\ Sides(x).remote = x.left /\ Sides(x).remoteKey = x.on[1].left.column
BY DEF Sides

\* Keys that are not more than the limit are all the keys.
LEMMA AllKeys ==
  ASSUME NEW side, NEW keys \in DistinctKeys(side), Cardinality(keys) <= MaxLocalRows
  PROVE  keys = {row[side.localKey] : row \in RowsOf(plan, data)[side.local]}
<1>1. /\ IsFiniteSet(keys)
      /\ Cardinality(keys) < MaxLocalRows + 1 =>
           keys = {row[side.localKey] : row \in RowsOf(plan, data)[side.local]}
  BY DEF DistinctKeys, KeyLimit
<1>2. Cardinality(keys) \in Nat
  BY <1>1, FS_CardinalityType
<1>. QED
  BY <1>1, <1>2, BoundsAssumption

\* A join is taken as empty only if its local side has no key, or none but NULL.
LEMMA EmptyRows ==
  ASSUME IInv, RowsInv, pc = "collect", NEW keys \in DistinctKeys(Sides(plan[node])),
         keys \subseteq {Null}, Cardinality(keys) <= MaxLocalRows,
         Return([plan EXCEPT ![node] = EmptyRelation(SchemaOf(plan)[node])], Applied({}))
  PROVE  RowsInv'
<1>. DEFINE q == query
            x == query[node]
            side == Sides(x)
            new == EmptyRelation(SchemaOf(plan)[node])
            p2 == [plan EXCEPT ![node] = new]
            Q == RowsOf(query, data)
<1>1. /\ q \in Plans /\ node \in Joins(q) /\ node \in DOMAIN q /\ node \in DOMAIN plan
      /\ plan[node] = x /\ Eligible(x) /\ IsInner(x)
      /\ x.left \in DOMAIN q /\ x.right \in DOMAIN q
  BY CurrentJoin
<1>2. plan' = p2 /\ query' = q /\ data' = data /\ changes' = changes /\ pc' = "walk"
  BY DEF Return
<1>3. Rewritten(plan, q) /\ changes \in Nat
  BY DEF RowsInv
<1>4. new.kind = "empty" /\ new.schema = SchemaOf(plan)[node]
  BY DEF EmptyRelation
<1>. HIDE DEF new
<1>5. /\ DOMAIN p2 = DOMAIN plan /\ p2[node] = new
      /\ \A i \in DOMAIN plan \ {node} : p2[i] = plan[i]
  BY <1>1
<1>. HIDE DEF p2
<1>6. Emptied(p2, q, node)
  BY <1>1, <1>4, <1>5 DEF Emptied
<1>7. Rewritten(p2, q)
  BY <1>1, <1>3, <1>5, <1>6, OneRewritten
<1>8. ASSUME changes = 0, PlainKeys PROVE Exact(p2, q, data)
  <2>1. Exact(plan, q, data)
    BY <1>8 DEF RowsInv
  <2>2. \A i \in DOMAIN q : /\ SchemaOf(plan)[i] = SchemaOf(q)[i]
                            /\ RowsOf(plan, data)[i] = Q[i]
    BY <1>1, <1>3, <2>1, RowsExact
  <2>3. \A row \in RowsOf(plan, data)[side.local] : row[side.localKey] = Null
    BY <1>1, AllKeys
  <2>4. ASSUME NEW a \in Q[x.left], NEW b \in Q[x.right] PROVE ~Matches(x, a, b)
    <3>. SUFFICES ASSUME Matches(x, a, b) PROVE FALSE
      OBVIOUS
    <3>1. /\ a[x.on[1].left.column] = b[x.on[1].right.column]
          /\ a[x.on[1].left.column] # Null
      BY <1>1, <1>8, PlainMatch
    <3>2. \/ side.local = x.left /\ side.localKey = x.on[1].left.column
          \/ side.local = x.right /\ side.localKey = x.on[1].right.column
      BY TwoSides
    <3>. QED
      BY <1>1, <2>2, <2>3, <3>1, <3>2
  <2>5. Q[node] = {}
    <3>1. Q[node] = RowsAt(q, data, Q, node)
      BY <1>1, <1>3, PlanNext
    <3>2. Q[node] = JoinRows(x, Q[x.left], Q[x.right], SchemaOf(q)[x.right])
      BY <1>1, <3>1 DEF RowsAt, IsInner
    <3>3. {lr \in Q[x.left] \X Q[x.right] : Matches(x, lr[1], lr[2])} = {}
      BY <2>4
    <3>4. JoinRows(x, Q[x.left], Q[x.right], SchemaOf(q)[x.right]) = {}
      BY <1>1, <3>3, InnerRows DEF IsInner
    <3>. QED
      BY <3>2, <3>4
  <2>6. p2[node].schema = SchemaOf(q)[node]
    BY <1>1, <1>4, <1>5, <2>2
  <2>. QED
    BY <1>1, <1>3, <1>5, <1>6, <2>1, <2>5, <2>6, OneExact
<1>9. PlainKeys' <=> PlainKeys
  BY <1>2 DEF PlainKeys, Joins
<1>. QED
  BY <1>2, <1>3, <1>7, <1>8, <1>9 DEF RowsInv

\* The filter that is added keeps the rows whose keys the local side has.
LEMMA FilteredRows ==
  ASSUME IInv, RowsInv, RewriteJoin
  PROVE  RowsInv'
<1>. DEFINE q == query
            x == query[node]
            side == Sides(x)
            c == Len(plan) + 1
            Q == RowsOf(query, data)
            list(keys) == keys \ {Null}
            y(keys) == InList(side.remote, side.remoteKey, list(keys))
<1>0. pc = "collect"
  BY DEF RewriteJoin
<1>1. /\ q \in Plans /\ node \in Joins(q) /\ node \in DOMAIN q /\ node \in DOMAIN plan
      /\ plan[node] = x /\ Eligible(x) /\ IsInner(x) /\ IsJoin(x, node)
      /\ x.left \in DOMAIN q /\ x.right \in DOMAIN q
  BY <1>0, CurrentJoin
<1>2. PICK keys \in DistinctKeys(side) :
        /\ Cardinality(keys) <= MaxLocalRows
        /\ Return(Append([plan EXCEPT ![node] = Rebuilt(@, side, c)], y(keys)),
                  Applied(list(keys)))
  BY <1>1 DEF RewriteJoin
<1>3. Rewritten(plan, q) /\ changes \in Nat /\ IsSequence(plan)
  BY DEF RowsInv, IInv, PlanOK
<1>4. /\ y(keys).kind = "filter" /\ y(keys).input = side.remote
      /\ y(keys).column = side.remoteKey /\ y(keys).list = list(keys)
  BY DEF InList
<1>. DEFINE new == Rebuilt(x, side, c)
            p1 == [plan EXCEPT ![node] = new]
            p2 == Append(p1, y(keys))
<1>5. plan' = p2 /\ query' = q /\ data' = data /\ changes' = changes /\ pc' = "walk"
  BY <1>1, <1>2 DEF Return
<1>6. /\ side.isLeft => new = [x EXCEPT !.right = c]
      /\ ~side.isLeft => new = [x EXCEPT !.left = c]
  BY DEF Rebuilt
<1>. HIDE DEF new, y
<1>7. /\ IsSequence(p1) /\ Len(p1) = Len(plan) /\ DOMAIN p1 = DOMAIN plan /\ p1[node] = new
      /\ \A i \in DOMAIN plan \ {node} : p1[i] = plan[i]
  BY <1>1, <1>3, Replaced
<1>. HIDE DEF p1
<1>8. /\ Len(p1) \in Nat /\ DOMAIN p1 = 1..Len(p1) /\ DOMAIN p2 = 1..Len(p1) + 1
      /\ p2[Len(p1) + 1] = y(keys) /\ \A i \in DOMAIN p1 : p2[i] = p1[i]
  BY <1>7, Appended
<1>. HIDE DEF p2
<1>9. /\ DOMAIN plan \subseteq DOMAIN p2 /\ DOMAIN p2 \ DOMAIN plan = {c}
      /\ \A i \in DOMAIN plan \ {node} : p2[i] = plan[i]
      /\ p2[node] = new /\ p2[c] = y(keys)
  BY <1>1, <1>7, <1>8
<1>10. c \in Added(p2, q)
  BY <1>3, <1>9 DEF Added, Rewritten
<1>. HIDE DEF c
<1>11. \/ /\ FiltersRight(p2, q, node, c)
          /\ side.local = x.left /\ side.localKey = x.on[1].left.column
          /\ side.remote = x.right /\ side.remoteKey = x.on[1].right.column
       \/ /\ FiltersLeft(p2, q, node, c)
          /\ side.local = x.right /\ side.localKey = x.on[1].right.column
          /\ side.remote = x.left /\ side.remoteKey = x.on[1].left.column
  <2>1. CASE side.isLeft
    <3>1. /\ side.local = x.left /\ side.localKey = x.on[1].left.column
          /\ side.remote = x.right /\ side.remoteKey = x.on[1].right.column
      BY <2>1, TwoSides
    <3>2. FiltersRight(p2, q, node, c)
      BY <1>1, <1>4, <1>6, <1>9, <2>1, <3>1 DEF FiltersRight
    <3>. QED
      BY <3>1, <3>2
  <2>2. CASE ~side.isLeft
    <3>1. /\ side.local = x.right /\ side.localKey = x.on[1].right.column
          /\ side.remote = x.left /\ side.remoteKey = x.on[1].left.column
      BY <2>2, TwoSides
    <3>2. FiltersLeft(p2, q, node, c)
      BY <1>1, <1>4, <1>6, <1>9, <2>2, <3>1 DEF FiltersLeft
    <3>. QED
      BY <3>1, <3>2
  <2>. QED
    BY <2>1, <2>2
<1>12. p2[c].kind = "filter" /\ p2[c].input \in DOMAIN q
  BY <1>1, <1>4, <1>9, <1>11
<1>13. Rewritten(p2, q)
  <2>1. \A m \in DOMAIN p2 \ DOMAIN plan : p2[m].kind = "filter" /\ p2[m].input \in DOMAIN q
    BY <1>9, <1>12
  <2>2. \E m \in Added(p2, q) : FiltersLeft(p2, q, node, m) \/ FiltersRight(p2, q, node, m)
    BY <1>10, <1>11
  <2>. HIDE DEF q
  <2>. QED
    BY <1>1, <1>3, <1>9, <2>1, <2>2, OneRewritten
<1>14. ASSUME changes = 0, PlainKeys PROVE Exact(p2, q, data)
  <2>1. Exact(plan, q, data)
    BY <1>14 DEF RowsInv
  <2>2. \A i \in DOMAIN q : RowsOf(plan, data)[i] = Q[i]
    BY <1>1, <1>3, <2>1, RowsExact
  <2>3. keys = {row[side.localKey] : row \in RowsOf(plan, data)[side.local]}
    BY <1>1, <1>2, AllKeys
  <2>4. p2[c].column = side.remoteKey /\ p2[c].list = keys \ {Null}
    BY <1>4, <1>9
  <2>5. ASSUME NEW a \in Q[x.left], NEW b \in Q[x.right], Matches(x, a, b)
        PROVE  /\ a[x.on[1].left.column] = b[x.on[1].right.column]
               /\ a[x.on[1].left.column] # Null
    BY <1>1, <1>14, <2>5, PlainMatch
  <2>6. CASE /\ FiltersRight(p2, q, node, c)
             /\ side.local = x.left /\ side.localKey = x.on[1].left.column
             /\ side.remoteKey = x.on[1].right.column
    <3>1. keys = {row[x.on[1].left.column] : row \in Q[x.left]}
      BY <1>1, <2>2, <2>3, <2>6
    <3>2. KeepsRight(x, p2[c], Q)
      BY <2>4, <2>5, <2>6, <3>1 DEF KeepsRight
    <3>. QED
      BY <1>1, <1>3, <1>9, <1>10, <2>1, <2>6, <3>2, OneExact
  <2>7. CASE /\ FiltersLeft(p2, q, node, c)
             /\ side.local = x.right /\ side.localKey = x.on[1].right.column
             /\ side.remoteKey = x.on[1].left.column
    <3>1. keys = {row[x.on[1].right.column] : row \in Q[x.right]}
      BY <1>1, <2>2, <2>3, <2>7
    <3>2. KeepsLeft(x, p2[c], Q)
      BY <2>4, <2>5, <2>7, <3>1 DEF KeepsLeft
    <3>. QED
      BY <1>1, <1>3, <1>9, <1>10, <2>1, <2>7, <3>2, OneExact
  <2>. QED
    BY <1>11, <2>6, <2>7
<1>15. PlainKeys' <=> PlainKeys
  BY <1>5 DEF PlainKeys, Joins
<1>. QED
  BY <1>3, <1>5, <1>13, <1>14, <1>15 DEF RowsInv

\* The other steps leave the plan as it is, and data once changed is not used.
LEMMA SameRowsInv ==
  ASSUME RowsInv, UNCHANGED <<query, plan>>,
         pc' = "collect" => Eligible(query[node'])
  PROVE  /\ UNCHANGED <<data, changes>> => RowsInv'
         /\ changes' = changes + 1 => RowsInv'
<1>1. PlainKeys' <=> PlainKeys
  BY DEF PlainKeys, Joins
<1>2. changes \in Nat /\ Rewritten(plan, query)
  BY DEF RowsInv
<1>3. ASSUME UNCHANGED <<data, changes>> PROVE RowsInv'
  BY <1>1, <1>3 DEF RowsInv
<1>4. ASSUME changes' = changes + 1 PROVE RowsInv'
  <2>1. changes' \in Nat /\ changes' # 0
    BY <1>2, <1>4
  <2>. QED
    BY <1>2, <2>1 DEF RowsInv
<1>. QED
  BY <1>3, <1>4

LEMMA RowsInvInductive ==
  /\ Init => RowsInv
  /\ IInv /\ RowsInv /\ [Next]_vars => RowsInv'
<1>1. ASSUME Init PROVE RowsInv
  <2>1. plan = query /\ pc = "walk" /\ changes = 0
    BY <1>1 DEF Init
  <2>2. Rewritten(query, query) /\ Exact(query, query, data)
    BY DEF Rewritten, Exact, Added
  <2>. QED
    BY <2>1, <2>2 DEF RowsInv
<1>2. ASSUME IInv, RowsInv, [Next]_vars PROVE RowsInv'
  <2>1. CASE \/ PassNode \/ Disabled \/ Cancel \/ Abandon \/ RebuildFails \/ Finish
             \/ LocalChange \/ UNCHANGED vars
    <3>1. UNCHANGED <<query, plan>> /\ (pc' = "collect" => pc = "collect" /\ node' = node)
      BY <2>1 DEF PassNode, Disabled, Cancel, Abandon, RebuildFails, Finish, LocalChange, vars
    <3>2. UNCHANGED <<data, changes>> \/ changes' = changes + 1
      BY <2>1 DEF PassNode, Disabled, Cancel, Abandon, RebuildFails, Finish, LocalChange, vars
    <3>3. pc' = "collect" => Eligible(query[node'])
      BY <1>2, <3>1 DEF RowsInv
    <3>. QED
      BY <1>2, <3>1, <3>2, <3>3, SameRowsInv
  <2>2. CASE ConsiderJoin
    <3>1. UNCHANGED <<query, plan, data, changes>> /\ pc = "walk"
      BY <2>2 DEF ConsiderJoin
    <3>2. pc' = "collect" => Eligible(query[node'])
      <4>. SUFFICES ASSUME pc' = "collect" PROVE Eligible(query[node'])
        OBVIOUS
      <4>1. SkipReason(plan[node]) = "none" /\ node' = node /\ node <= Len(query)
        BY <2>2, <3>1 DEF ConsiderJoin
      <4>2. plan[node] = query[node]
        <5>1. query \in Plans /\ node \in Nat \ {0}
          BY <1>2 DEF IInv, PlanOK
        <5>2. node \in DOMAIN query
          BY <4>1, <5>1, QueryNodes
        <5>. QED
          BY <1>2, <5>1, <5>2 DEF IInv, PlanOK
      <4>3. Eligible(plan[node])
        BY <4>1 DEF SkipReason, Eligible
      <4>. QED
        BY <4>1, <4>2, <4>3
    <3>. QED
      BY <1>2, <3>1, <3>2, SameRowsInv
  <2>3. CASE KeysCancelled \/ KeysFail \/ KeysExceedCap \/ KeysUnsupported
    <3>1. UNCHANGED <<query, plan, data, changes>> /\ pc' = "walk"
      BY <2>3 DEF KeysCancelled, KeysFail, KeysExceedCap, KeysUnsupported, Return
    <3>. QED
      BY <1>2, <3>1, SameRowsInv
  <2>4. CASE NoKeys
    <3>1. {} \in DistinctKeys(Sides(plan[node])) /\ pc = "collect"
          /\ Return([plan EXCEPT ![node] = EmptyRelation(SchemaOf(plan)[node])], Applied({}))
      BY <2>4 DEF NoKeys
    <3>2. Cardinality({}) <= MaxLocalRows
      BY FS_EmptySet, BoundsAssumption
    <3>. QED
      BY <1>2, <3>1, <3>2, EmptyRows
  <2>5. CASE OnlyNullKeys
    <3>1. {Null} \in DistinctKeys(Sides(plan[node])) /\ pc = "collect" /\ MaxLocalRows > 0
          /\ Return([plan EXCEPT ![node] = EmptyRelation(SchemaOf(plan)[node])], Applied({}))
      BY <2>5 DEF OnlyNullKeys
    <3>2. Cardinality({Null}) <= MaxLocalRows
      <4>1. Cardinality({Null}) = 1
        BY FS_Singleton, Zenon
      <4>. QED
        BY <3>1, <4>1, BoundsAssumption
    <3>. QED
      BY <1>2, <3>1, <3>2, EmptyRows
  <2>6. CASE RewriteJoin
    BY <1>2, <2>6, FilteredRows
  <2>. QED
    BY <1>2, <2>1, <2>2, <2>3, <2>4, <2>5, <2>6 DEF Next
<1>. QED
  BY <1>1, <1>2

\* A query whose joins compare plain columns keeps its rows: whatever plan it is,
\* and whatever joins of it are rewritten, emptied, skipped or refused, unless a
\* local file changes while it is rewritten.
THEOREM ResultKept == Spec => []RewriteKeepsResult
<1>1. IInv /\ RowsInv => RewriteKeepsResult
  <2>. SUFFICES ASSUME IInv, RowsInv, changes = 0, PlainKeys
                PROVE  Result(plan) = Result(query)
    BY DEF RewriteKeepsResult
  <2>1. query \in Plans /\ Rewritten(plan, query) /\ Exact(plan, query, data)
    BY DEF IInv, PlanOK, RowsInv
  <2>2. Len(query) \in DOMAIN query
    BY <2>1, QueryNodes
  <2>. QED
    BY <2>1, <2>2, RowsExact DEF Result
<1>. QED
  BY <1>1, InitInv, StepInv, RowsInvInductive, PTL DEF Spec

\* A query of inner joins never gets a row that it does not have by itself,
\* whatever is cast, whatever NULL matches, and whatever changes meanwhile.
THEOREM ResultNarrowed == Spec => []RewriteNarrows
<1>1. IInv /\ RowsInv => RewriteNarrows
  <2>. SUFFICES ASSUME IInv, RowsInv, \A i \in Joins(query) : query[i].type = "Inner"
                PROVE  Result(plan) \subseteq Result(query)
    BY DEF RewriteNarrows
  <2>1. query \in Plans /\ Rewritten(plan, query)
    BY DEF IInv, PlanOK, RowsInv
  <2>2. Len(query) \in DOMAIN query
    BY <2>1, QueryNodes
  <2>. QED
    BY <2>1, <2>2, RowsNarrow DEF Result
<1>. QED
  BY <1>1, InitInv, StepInv, RowsInvInductive, PTL DEF Spec
=============================================================================
