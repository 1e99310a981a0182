-------------------------- MODULE BroadcastRewrite --------------------------
(***************************************************************************)
(* The broadcast join rewrite of qsql-core.  It walks an optimized logical *)
(* plan bottom-up and, at an inner join with one equality between a local  *)
(* and a federated side, reads the distinct keys of the local side and     *)
(* filters the federated side by them.  The walk awaits the local side, so *)
(* a cancellation, or a change of a local file, may come at every join.    *)
(*                                                                         *)
(* A plan is a sequence of nodes; the children of a node come before it,   *)
(* so the numbers are the order of the walk.  Nodes that are neither scans *)
(* nor joins pass their rows on and are left out, as are the residual      *)
(* filter of a join, which the rewrite keeps, and rows that occur twice.   *)
(***************************************************************************)
EXTENDS Naturals, Sequences, FiniteSets

CONSTANTS
  Tables,        \* the tables that plans scan, each of one column
  Remote,        \* those behind a GuardedTableProvider
  Unsupported,   \* those whose column is of an unsupported key type
  Values,        \* values of columns
  Null,          \* NULL
  Cast,          \* external: what a CAST in a join key makes of a value
  Plans,         \* optimized plans
  Contents,      \* contents of the tables
  MaxLocalRows,  \* config.max_local_rows
  MaxChanges     \* bound: changes of local tables

ASSUME TablesAssumption == Remote \subseteq Tables /\ Unsupported \subseteq Tables

ASSUME ValuesAssumption == Null \notin Values /\ Cast \in [Values -> Values]

\* A sequence, of whatever kinds of things.
IsSequence(s) == s \in Seq({s[i] : i \in DOMAIN s})

\* A join of two nodes that come before node i.
IsJoin(x, i) ==
  /\ x = [kind |-> "join", left |-> x.left, right |-> x.right, type |-> x.type,
          on |-> x.on, nulls |-> x.nulls]
  /\ {x.left, x.right} \subseteq 1..(i - 1)
  /\ IsSequence(x.on)

\* Every plan has a root, its last node.
ASSUME PlansAssumption ==
  \A p \in Plans :
    /\ IsSequence(p) /\ p # << >>
    /\ \A i \in DOMAIN p : p[i].kind = "scan" \/ IsJoin(p[i], i)

ASSUME BoundsAssumption == MaxLocalRows \in Nat /\ MaxChanges \in Nat

VARIABLES
  pc,         \* "walk", "collect" the keys of a join, "done", "abandoned" or "failed"
  query,      \* the optimized plan
  plan,       \* the plan as rewritten so far
  node,       \* the next node of the walk
  info,       \* BroadcastRewriteInfo
  cancelled,  \* the cancellation token
  data,       \* external: contents of the tables
  changes     \* history: changes of local tables since the walk began

vars == <<pc, query, plan, node, info, cancelled, data, changes>>

-----------------------------------------------------------------------------
(* Plans and what they mean (external: DataFusion).                        *)

Scan(t) == [kind |-> "scan", table |-> t]

\* A join key: a column as it is, under a cast, or within another expression.
Key(t, form) == [column |-> t, form |-> form]

\* `nulls` is null_equality: whether NULL matches NULL.
Join(l, r, type, on, nulls) ==
  [kind |-> "join", left |-> l, right |-> r, type |-> type, on |-> on,
   nulls |-> nulls]

InList(i, column, list) ==
  [kind |-> "filter", input |-> i, column |-> column, list |-> list]

EmptyRelation(schema) == [kind |-> "empty", schema |-> schema]

\* The union, at every node, of what f gives for the leaves below it.
Gathered(p, f(_)) ==
  LET G[i \in DOMAIN p] ==
        CASE p[i].kind = "join" -> G[p[i].left] \cup G[p[i].right]
          [] p[i].kind = "filter" -> G[p[i].input]
          [] OTHER -> f(p[i])
  IN G

ScansOf(p) ==
  LET Scanned(leaf) == IF leaf.kind = "scan" THEN {leaf.table} ELSE {}
  IN Gathered(p, Scanned)

SchemaOf(p) ==
  LET Columns(leaf) == IF leaf.kind = "scan" THEN {leaf.table} ELSE leaf.schema
  IN Gathered(p, Columns)

KeyValue(key, row) ==
  LET v == row[key.column]
  IN IF v = Null \/ key.form = "column" THEN v ELSE Cast[v]

Matches(join, l, r) ==
  \A k \in DOMAIN join.on :
    LET a == KeyValue(join.on[k].left, l)
        b == KeyValue(join.on[k].right, r)
    IN a = b /\ (a # Null \/ join.nulls)

Joined(l, r) == [t \in DOMAIN l \cup DOMAIN r |-> IF t \in DOMAIN l THEN l[t] ELSE r[t]]

ScanRows(x, d) == {[t \in {x.table} |-> v] : v \in d[x.table]}

FilterRows(x, rows) == {row \in rows : row[x.column] \in x.list}

\* The rows of a join, from those of its sides and the columns of the right one.
JoinRows(x, lefts, rights, columns) ==
  LET pairs == {lr \in lefts \X rights : Matches(x, lr[1], lr[2])}
      alone == {row \in lefts : \A lr \in pairs : lr[1] # row}
      noRow == [t \in columns |-> Null]
  IN {Joined(lr[1], lr[2]) : lr \in pairs}
     \cup {Joined(row, noRow) : row \in IF x.type = "Left" THEN alone ELSE {}}

\* The rows of a node, given those (R) of the nodes below it.
RowsAt(p, d, R, i) ==
  CASE p[i].kind = "scan" -> ScanRows(p[i], d)
    [] p[i].kind = "empty" -> {}
    [] p[i].kind = "filter" -> FilterRows(p[i], R[p[i].input])
    [] p[i].kind = "join" ->
         JoinRows(p[i], R[p[i].left], R[p[i].right], SchemaOf(p)[p[i].right])

\* The rows of every node; a row is a function from tables to values.
RowsOf(p, d) ==
  LET R[i \in DOMAIN p] == RowsAt(p, d, R, i)
  IN R

Result(p) == RowsOf(p, data)[Len(query)]

-----------------------------------------------------------------------------
(* The sides of a join.                                                    *)

Federated(i) == ScansOf(plan)[i] \cap Remote # {}

IsColumn(key) == key.form \in {"column", "cast"}

\* The early returns before the local side is read, in the order of the code.
SkipReason(join) ==
  CASE join.type # "Inner" \/ Len(join.on) # 1 -> "NotInnerEquiJoin"
    [] ~IsColumn(join.on[1].left) \/ ~IsColumn(join.on[1].right) -> "NonColumnJoinKey"
    [] ~Federated(join.left) /\ ~Federated(join.right) -> "NoFederatedSide"
    [] Federated(join.left) /\ Federated(join.right) -> "BothSidesFederated"
    [] OTHER -> "none"

Sides(join) ==
  IF Federated(join.right)
  THEN [local |-> join.left, localKey |-> join.on[1].left.column,
        remote |-> join.right, remoteKey |-> join.on[1].right.column, isLeft |-> TRUE]
  ELSE [local |-> join.right, localKey |-> join.on[1].right.column,
        remote |-> join.left, remoteKey |-> join.on[1].left.column, isLeft |-> FALSE]

ExactKeyLimit(max) == max \* a faulty form of KeyLimit

\* SELECT DISTINCT key LIMIT max_local_rows + 1: some of the keys if there are more.
KeyLimit(max) == max + 1

DistinctKeys(side) ==
  LET all == {row[side.localKey] : row \in RowsOf(plan, data)[side.local]}
      limit == KeyLimit(MaxLocalRows)
  IN {keys \in SUBSET all :
        /\ IsFiniteSet(keys) /\ Cardinality(keys) <= limit
        /\ Cardinality(keys) < limit => keys = all}

\* A faulty form of Rebuilt.
RebuiltWithoutOn(join, side, i) ==
  IF side.isLeft THEN [join EXCEPT !.right = i, !.on = <<>>]
  ELSE [join EXCEPT !.left = i, !.on = <<>>]

\* The join over a remote side that is node i now.
Rebuilt(join, side, i) ==
  IF side.isLeft THEN [join EXCEPT !.right = i] ELSE [join EXCEPT !.left = i]

-----------------------------------------------------------------------------
Init ==
  /\ pc = "walk" /\ node = 1
  /\ query \in Plans /\ plan = query
  /\ data \in Contents /\ changes = 0
  /\ cancelled = FALSE
  /\ info = [considered |-> 0, applied |-> <<>>, skipped |-> <<>>]

Applied(keys) == [info EXCEPT !.applied = Append(@, [node |-> node, values |-> keys])]

SkippedSilently(reason) == info \* a faulty form of Skipped

Skipped(reason) == [info EXCEPT !.skipped = Append(@, reason)]

\* config.enabled is FALSE, at the entry of the pass.
Disabled ==
  /\ pc = "walk" /\ node = 1
  /\ pc' = "done"
  /\ UNCHANGED <<query, plan, node, info, cancelled, data, changes>>

\* The walk passes a node that is no join.
PassNode ==
  /\ pc = "walk" /\ node <= Len(query)
  /\ plan[node].kind # "join"
  /\ node' = node + 1
  /\ UNCHANGED <<pc, query, plan, info, cancelled, data, changes>>

\* A join is considered: skipped at once, or its local side is read.
ConsiderJoin ==
  /\ pc = "walk" /\ node <= Len(query)
  /\ plan[node].kind = "join"
  /\ LET reason == SkipReason(plan[node])
     IN IF reason = "none"
        THEN /\ pc' = "collect"
             /\ info' = [info EXCEPT !.considered = @ + 1]
             /\ UNCHANGED node
        ELSE /\ info' = [Skipped(reason) EXCEPT !.considered = @ + 1]
             /\ node' = node + 1
             /\ UNCHANGED pc
  /\ UNCHANGED <<query, plan, cancelled, data, changes>>

\* Back to the walk, the join replaced or not.
Return(newPlan, newInfo) ==
  /\ plan' = newPlan /\ info' = newInfo
  /\ pc' = "walk" /\ node' = node + 1
  /\ UNCHANGED <<query, cancelled, data, changes>>

KeysCancelled ==
  /\ pc = "collect" /\ cancelled
  /\ Return(plan, Skipped("CancellationRequested"))

\* Planning or reading the keys, or turning them into scalars, fails.
KeysFail ==
  /\ pc = "collect"
  /\ Return(plan, Skipped("LocalSideMaterializationError"))

\* There are too many keys, or their batches take more than max_local_bytes.
KeysExceedCap ==
  /\ pc = "collect"
  /\ \E keys \in DistinctKeys(Sides(plan[node])), tooLarge \in BOOLEAN :
       /\ Cardinality(keys) > MaxLocalRows \/ tooLarge
       /\ Return(plan, Skipped("LocalSideMaterializationExceededCap"))

\* No keys: the join is empty, whatever the type of the key.
NoKeys ==
  /\ pc = "collect"
  /\ {} \in DistinctKeys(Sides(plan[node]))
  /\ Return([plan EXCEPT ![node] = EmptyRelation(SchemaOf(plan)[node])], Applied({}))

KeysUnsupported ==
  /\ pc = "collect"
  /\ LET side == Sides(plan[node])
     IN /\ side.localKey \in Unsupported
        /\ \E keys \in DistinctKeys(side) : Cardinality(keys) \in 1..MaxLocalRows
  /\ Return(plan, Skipped("UnsupportedKeyType"))

\* NULLs are dropped from the keys; if nothing is left the join is taken as empty.
OnlyNullKeys ==
  /\ pc = "collect"
  /\ MaxLocalRows > 0
  /\ LET side == Sides(plan[node])
     IN side.localKey \notin Unsupported /\ {Null} \in DistinctKeys(side)
  /\ Return([plan EXCEPT ![node] = EmptyRelation(SchemaOf(plan)[node])], Applied({}))

\* The remote side is filtered by the keys, in its place in the join.
RewriteJoin ==
  LET side == Sides(plan[node])
  IN /\ pc = "collect"
     /\ side.localKey \notin Unsupported
     /\ \E keys \in DistinctKeys(side) :
          /\ keys \ {Null} # {} /\ Cardinality(keys) <= MaxLocalRows
          /\ Return(Append([plan EXCEPT ![node] = Rebuilt(@, side, Len(plan) + 1)],
                           InList(side.remote, side.remoteKey, keys \ {Null})),
                    Applied(keys \ {Null}))

Cancel ==
  /\ ~cancelled /\ cancelled' = TRUE
  /\ UNCHANGED <<pc, query, plan, node, info, data, changes>>

\* A cancellation or the timeout drops the planning of a query where it awaits, or
\* the filter over the remote side cannot be built and the query fails.
Abandon ==
  /\ pc = "collect"
  /\ pc' = "abandoned"
  /\ UNCHANGED <<query, plan, node, info, cancelled, data, changes>>

\* A node cannot be built again over its inputs, and the query fails.
RebuildFails ==
  /\ pc = "walk" /\ node <= Len(query)
  /\ plan[node].kind # "scan"
  /\ pc' = "failed"
  /\ UNCHANGED <<query, plan, node, info, cancelled, data, changes>>

\* A local file is written while the plan is rewritten or before it runs.
LocalChange ==
  /\ changes < MaxChanges /\ changes' = changes + 1
  /\ \E d \in Contents :
       /\ \A t \in Remote : d[t] = data[t]
       /\ d # data /\ data' = d
  /\ UNCHANGED <<pc, query, plan, node, info, cancelled>>

Finish ==
  /\ pc = "walk" /\ node > Len(query)
  /\ pc' = "done"
  /\ UNCHANGED <<query, plan, node, info, cancelled, data, changes>>

Next ==
  \/ Disabled \/ PassNode \/ ConsiderJoin
  \/ KeysCancelled \/ KeysFail \/ KeysExceedCap \/ NoKeys \/ KeysUnsupported
  \/ OnlyNullKeys \/ RewriteJoin
  \/ Cancel \/ Abandon \/ RebuildFails \/ LocalChange \/ Finish

Spec == Init /\ [][Next]_vars

-----------------------------------------------------------------------------
(* Properties.                                                             *)

Joins(p) == {i \in DOMAIN p : p[i].kind = "join"}

\* The joins of a query are equalities of columns as they are, in which NULL
\* does not match NULL.
PlainKeys ==
  \A i \in Joins(query) :
    /\ ~query[i].nulls
    /\ \A k \in DOMAIN query[i].on :
         query[i].on[k].left.form # "cast" /\ query[i].on[k].right.form # "cast"

\* A query whose joins compare plain columns has, after the rewrite, the rows it
\* had before, unless a local file changed meanwhile: whatever joins were nested
\* in it, rewritten, replaced by nothing, skipped, refused over the cap or
\* interrupted, the filters injected below them take away no row (broadcast.rs
\* 196-438; tests/broadcast_join_tests.rs:9-11).
RewriteKeepsResult ==
  pc = "done" /\ changes = 0 /\ PlainKeys =>
    Result(plan) = Result(query)

\* Whatever keys are cast, whether NULL matches NULL, and whatever changes while
\* the local sides are read or before the plan runs, an inner-join query never
\* gets a row that it does not have by itself (the rebuilt join keeps the join's
\* own condition, broadcast.rs:396-424).
RewriteNarrows ==
  (\A i \in Joins(query) : query[i].type = "Inner") =>
    Result(plan) \subseteq Result(query)

\* Every join passed is counted once, as applied or as skipped with a reason; the
\* plan differs from the query at the joins applied only, and the keys sent to a
\* remote side are at most max_local_rows and never NULL (BroadcastRewriteInfo,
\* which explain shows for the plan).
AccountsForJoins ==
  LET passed == {i \in Joins(query) : i < node}
      current == IF pc \in {"collect", "abandoned"} THEN 1 ELSE 0
      applied == {info.applied[k].node : k \in DOMAIN info.applied}
  IN /\ info.considered = Cardinality(passed) + current
     /\ info.considered = Len(info.applied) + Len(info.skipped) + current
     /\ \A i \in DOMAIN query : plan[i] # query[i] => i \in applied
     /\ \A i \in DOMAIN plan : plan[i].kind = "filter" =>
          Null \notin plan[i].list /\ Cardinality(plan[i].list) \in 1..MaxLocalRows

\* What the repository's tests say of the pass: "the rewrite must never change the
\* result set" (tests/broadcast_join_tests.rs:9-11), casts left aside.
Parity ==
  pc = "done" /\ changes = 0
  /\ (\A i \in Joins(query) : \A k \in DOMAIN query[i].on :
        query[i].on[k].left.form # "cast" /\ query[i].on[k].right.form # "cast") =>
    Result(plan) = Result(query)
=============================================================================
