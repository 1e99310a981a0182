------------------------------ MODULE PlanGraph ------------------------------
(***************************************************************************)
(* The plan graph of an explained query.  A logical plan is a tree of      *)
(*   [op, inputs, ...]; a "scan" has table, guarded, filtered, fetch;      *)
(*   a "filter" has inList, the column of an IN list or None;              *)
(* a physical plan is a tree of [sql, rows, inputs]: the SQL that the      *)
(*   operator sends, or None, and the rows it counts.  A SQL is [reads,    *)
(*   quoted, spaced, dotted, ordered, restricted, executor]: the tables it *)
(*   reads; the names that stand in its text in quotes, those that stand   *)
(*   between spaces, in a string literal too, and the pairs <<schema,      *)
(*   name>> that stand there without quotes and with a dot between them,   *)
(*   as part of longer words too; whether it has an ORDER BY, and a WHERE  *)
(*   or LIMIT; and the executor that is told from its quotes.              *)
(* The inputs of a node are the numbers of its children.                   *)
(* A table is <<alias, name>>; the alias of a file's table is None.        *)
(* A broadcast application is [key, local, remote]: the remote join key    *)
(* and the tables on the two sides.                                        *)
(***************************************************************************)
EXTENDS Naturals, Sequences, FiniteSets, Trees

CONSTANTS
  MaxNodes,  \* MAX_PLAN_NODES
  None

IsTree(tree) ==
  /\ Len(tree) \in Nat \ {0} /\ DOMAIN tree = 1..Len(tree)
  /\ \A i \in DOMAIN tree : tree[i].inputs \in Seq(1..i - 1)

Inputs(tree) == [i \in DOMAIN tree |-> tree[i].inputs]

PreOrder(tree) == PreOrders(Inputs(tree))[Len(tree)]

\* collect_scans, of the plan below node i.
ScansOf(plan, i) == {j \in ToSet(PreOrders(Inputs(plan))[i]) : plan[j].op = "scan"}

TablesBelow(plan, i) == {plan[j].table : j \in ScansOf(plan, i)}

TablesOf(plan) == TablesBelow(plan, Len(plan))

-----------------------------------------------------------------------------
(* The SQL that is sent to the databases.                                  *)

\* A faulty form of References.
ReferencesAnything(sql, schema, name) == TRUE

\* sql_references_table: the name of the table stands in the SQL, in quotes, between
\* spaces, or after its schema.  (In quotes after its schema, it is in quotes.)
References(sql, schema, name) ==
  \/ name \in sql.quoted
  \/ name \in sql.spaced
  \/ schema # None /\ <<schema, name>> \in sql.dotted

\* The schema that a table's database was registered with, or None.
SchemaOf(table, registrations) ==
  IF table[1] \in DOMAIN registrations THEN registrations[table[1]].schema ELSE None

\* collect_remote_sql_for_scans: for a table, the first SQL that references it.
RemoteSql(plan, physical, registrations) ==
  LET order == PreOrder(physical)
      Sent(k) == physical[order[k]].sql
      Matching(table) ==
        {k \in DOMAIN order :
           Sent(k) # None /\ References(Sent(k), SchemaOf(table, registrations), table[2])}
  IN [table \in {t \in TablesOf(plan) : Matching(t) # {}} |-> Sent(Min(Matching(table)))]

\* sort_was_pushed_to_every_scan.
SortPushed(plan, i, sqls) ==
  LET below == TablesBelow(plan, plan[i].inputs[1])
  IN below # {} /\ \A table \in below : table \in DOMAIN sqls /\ sqls[table].ordered

-----------------------------------------------------------------------------
(* What a node is shown with.                                              *)

\* join_matches_application, whichever way round the sides are.
Rewritten(plan, i, app) ==
  \E l \in {1, 2} : /\ app.local \subseteq TablesBelow(plan, plan[i].inputs[l])
                    /\ app.remote \subseteq TablesBelow(plan, plan[i].inputs[3 - l])

FirstOf(apps) == IF apps = << >> THEN None ELSE apps[1]

NoBadge == [role |-> None, app |-> None]

\* The broadcast badge: the first application that concerns the node.
Badge(plan, i, apps) ==
  LET node == plan[i]
      Shown(role, app) == IF app = None THEN NoBadge ELSE [role |-> role, app |-> app]
      receives == FirstOf(SelectSeq(apps, LAMBDA app : node.table \in app.remote))
  IN CASE node.op = "scan" ->
            IF receives # None THEN Shown("remote_scan", receives)
            ELSE Shown("local_scan", FirstOf(SelectSeq(apps, LAMBDA app : node.table \in app.local)))
       [] node.op = "join" -> Shown("join", FirstOf(SelectSeq(apps, LAMBDA app : Rewritten(plan, i, app))))
       [] node.op = "filter" ->
            Shown("filter", FirstOf(SelectSeq(apps, LAMBDA app : app.key = node.inList)))
       [] OTHER -> NoBadge

\* classify_provider_kind: the registration's kind, or else the SQL's executor.
ProviderKind(table, sqls, registrations) ==
  IF table[1] \in DOMAIN registrations THEN registrations[table[1]].kind
  ELSE IF table \in DOMAIN sqls THEN sqls[table].executor ELSE None

FullScan(scan, sqls) ==
  IF scan.table \in DOMAIN sqls THEN ~sqls[scan.table].restricted
  ELSE ~scan.filtered /\ scan.fetch = None

\* classify_pushdown_reason.
PushdownReason(scan, sqls) ==
  IF ~FullScan(scan, sqls) THEN None
  ELSE IF scan.table \in DOMAIN sqls
       THEN IF Cardinality(DOMAIN sqls) > 1 THEN "multi_source_join" ELSE "unsupported_expression"
       ELSE IF scan.guarded THEN "local_file_scan" ELSE None

Plain(plan, i, apps) ==
  [op |-> plan[i].op, children |-> << >>, rows |-> None, badge |-> Badge(plan, i, apps),
   table |-> None, sql |-> None, provider |-> None, sorted |-> None,
   full |-> FALSE, reason |-> None]

NodeOf(plan, i, ctx) ==
  LET node == plan[i]
      plain == Plain(plan, i, ctx.apps)
      known == node.table \in DOMAIN ctx.sqls
  IN CASE node.op = "scan" ->
            [plain EXCEPT
               !.table = node.table,
               !.sql = IF known THEN ctx.sqls[node.table] ELSE None,
               !.provider = ProviderKind(node.table, ctx.sqls, ctx.registrations),
               !.sorted = IF known /\ ctx.sqls[node.table].ordered THEN TRUE ELSE None,
               !.full = FullScan(node, ctx.sqls),
               !.reason = PushdownReason(node, ctx.sqls)]
       [] node.op = "sort" -> [plain EXCEPT !.sorted = SortPushed(plan, i, ctx.sqls)]
       [] OTHER -> plain

-----------------------------------------------------------------------------
(* The walk that builds the graph.  Nodes are numbered from 1 as they are  *)
(* met; the walk stops when there are as many as the limit.                *)

\* The nodes that the walk has added to a graph of n nodes after the first k inputs
\* of node i, when below[j][m] is what it adds for node j to a graph of m nodes.
AfterInputs(plan, ctx, below, i, n) ==
  LET After[k \in 0..Len(plan[i].inputs)] ==
        IF k = 0 THEN [nodes |-> <<NodeOf(plan, i, ctx)>>, truncated |-> FALSE]
        ELSE LET before == After[k - 1]
                 count == n + Len(before.nodes)
                 added == below[plan[i].inputs[k]][count]
             IN IF count >= MaxNodes THEN [before EXCEPT !.truncated = TRUE]
                ELSE [nodes |-> [before.nodes EXCEPT ![1].children = Append(@, count + 1)]
                                  \o added.nodes,
                      truncated |-> before.truncated \/ added.truncated]
  IN After

\* A faulty form of Added.
AddedBelow(plan, ctx, below, i, n) ==
  IF n + 1 >= MaxNodes THEN [nodes |-> << >>, truncated |-> TRUE]
  ELSE AfterInputs(plan, ctx, below, i, n)[Len(plan[i].inputs)]

Added(plan, ctx, below, i, n) ==
  IF n >= MaxNodes THEN [nodes |-> << >>, truncated |-> TRUE]
  ELSE AfterInputs(plan, ctx, below, i, n)[Len(plan[i].inputs)]

\* traverse_plan, from each node of a plan.
Traverse(plan, ctx) ==
  LET Walk[i \in DOMAIN plan] == [n \in 0..MaxNodes |-> Added(plan, ctx, Walk, i, n)]
  IN Walk

\* build_plan_graph_with_broadcast.
Graph(plan, ctx) == Traverse(plan, ctx)[Len(plan)][0]

\* A faulty form of Metrics.
MetricsOfLeavesFirst(physical) ==
  LET order == Reverse(PreOrder(physical)) IN [n \in DOMAIN order |-> physical[order[n]].rows]

\* collect_metrics_pre_order.
Metrics(physical) ==
  LET order == PreOrder(physical) IN [n \in DOMAIN order |-> physical[order[n]].rows]

\* The nodes of a graph in the order of apply_runtime_metrics.
VisitOrder(graph) ==
  IF graph.nodes = << >> THEN << >>
  ELSE PreOrders([id \in DOMAIN graph.nodes |-> graph.nodes[id].children])[1]

\* apply_runtime_metrics: the n-th node is given what the n-th operator counted.
Measured(graph, metrics) ==
  LET order == VisitOrder(graph)
      RowsOf(id) == LET n == CHOOSE n \in DOMAIN order : order[n] = id
                    IN IF n <= Len(metrics) THEN metrics[n] ELSE None
  IN [graph EXCEPT !.nodes =
        [id \in DOMAIN graph.nodes |-> [graph.nodes[id] EXCEPT !.rows = RowsOf(id)]]]
=============================================================================
