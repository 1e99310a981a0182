------------------------------- MODULE Lineage -------------------------------
(***************************************************************************)
(* The lineage of a query: which columns of which tables its plan reads,   *)
(* how they are joined and aggregated, and what the output columns come    *)
(* from.  Of a plan's nodes (PlanGraph), a "scan" has columns, the names   *)
(* of those it yields; a "projection" has exprs, an "aggregate" has group  *)
(* and aggr, an "alias" has name, and a "join" has kind and on, pairs of   *)
(* the columns of a left and a right key.  An expression is [name, text,   *)
(* aliased, refs, function]: function is None but for an aggregate.        *)
(* A column is <<relation, name>>.                                         *)
(***************************************************************************)
EXTENDS PlanGraph

\* What a plan's nodes are known to be, besides a tree.
IsPlan(plan) ==
  /\ IsTree(plan)
  /\ \A i \in DOMAIN plan :
       /\ plan[i].op = "scan" => plan[i].table[2] # None
       /\ plan[i].op = "alias" => plan[i].name # None /\ Len(plan[i].inputs) = 1
       /\ plan[i].op = "join" => Len(plan[i].inputs) = 2

\* A node's name, if below[j] is that of node j: a scan is named after its table,
\* any other node like the first of its inputs that has a name, and an alias whose
\* input has none by itself.
Named(plan, below, i) ==
  LET node == plan[i]
      named == {k \in DOMAIN node.inputs : below[node.inputs[k]] # None}
  IN IF node.op = "scan" THEN node.table[2]
     ELSE IF named # {} THEN below[node.inputs[Min(named)]]
     ELSE IF node.op = "alias" THEN node.name ELSE None

\* primary_table, from each node of a plan.
PrimaryTables(plan) ==
  LET Of[i \in DOMAIN plan] == Named(plan, Of, i)
  IN Of

Primary(plan, i) ==
  IF PrimaryTables(plan)[i] = None THEN "<subquery>" ELSE PrimaryTables(plan)[i]

\* collect_projection_aliases: the last alias that a text is given.
NameOf(plan, text) ==
  LET Names(i) == {n \in DOMAIN plan[i].exprs :
                     plan[i].exprs[n].aliased /\ plan[i].exprs[n].text = text}
      naming == SelectSeq(PreOrder(plan), LAMBDA i : plan[i].op = "projection" /\ Names(i) # {})
  IN IF naming = << >> THEN None
     ELSE plan[Last(naming)].exprs[Max(Names(Last(naming)))].name

\* decompose_projection_expr.
OutputOf(exprs) ==
  [i \in DOMAIN exprs |-> [name |-> exprs[i].name, sources |-> exprs[i].refs]]

\* decompose_aggregate, for each expression that is one.
AggregatesOf(exprs, unoptimized) ==
  LET calls == SelectSeq(exprs, LAMBDA expr : expr.function # None)
  IN [i \in DOMAIN calls |->
        [function |-> calls[i].function, inputs |-> calls[i].refs,
         alias |-> IF calls[i].aliased THEN calls[i].name
                   ELSE NameOf(unoptimized, calls[i].text)]]

JoinOf(plan, i) ==
  [kind |-> plan[i].kind, left |-> Primary(plan, plan[i].inputs[1]),
   right |-> Primary(plan, plan[i].inputs[2]),
   on |-> SelectSeq(plan[i].on, LAMBDA key : key[1] # None /\ key[2] # None)]

NoLineage ==
  [relations |-> << >>, output |-> << >>, seen |-> FALSE, joins |-> << >>,
   aggregates |-> << >>, aliases |-> << >>]

Updated(f, key, value) ==
  [k \in DOMAIN f \cup {key} |-> IF k = key THEN value ELSE f[k]]

\* What walk_lineage adds to the builder at a node: the output is that of the
\* first projection or aggregate it meets, the aggregates those of the first
\* node that has any.
Noted(builder, plan, i, unoptimized) ==
  LET node == plan[i] IN
  CASE node.op = "scan" ->
         LET name == node.table[2]
             known == IF name \in DOMAIN builder.relations THEN builder.relations[name] ELSE {}
         IN [builder EXCEPT !.relations = Updated(@, name, known \cup node.columns)]
    [] node.op = "projection" /\ ~builder.seen ->
         [builder EXCEPT !.output = OutputOf(node.exprs), !.seen = TRUE,
                         !.aggregates = @ \o AggregatesOf(node.exprs, unoptimized)]
    [] node.op = "join" -> [builder EXCEPT !.joins = Append(@, JoinOf(plan, i))]
    [] node.op = "aggregate" ->
         [builder EXCEPT
            !.output = IF builder.seen THEN @ ELSE OutputOf(node.group \o node.aggr),
            !.seen = TRUE,
            !.aggregates = IF @ = << >> THEN AggregatesOf(node.aggr, unoptimized) ELSE @]
    [] node.op = "alias" ->
         [builder EXCEPT !.aliases = Updated(@, node.name, Primary(plan, node.inputs[1]))]
    [] OTHER -> builder

\* walk_lineage goes through a plan in preorder: the builder after n nodes.
Builders(plan, unoptimized) ==
  LET order == PreOrder(plan)
      Built[n \in 0..Len(order)] ==
        IF n = 0 THEN NoLineage ELSE Noted(Built[n - 1], plan, order[n], unoptimized)
  IN Built

Builder(plan, unoptimized) == Builders(plan, unoptimized)[Len(PreOrder(plan))]

\* A faulty form of QueryLineage.
LineageOfOptimized(unoptimized, optimized) ==
  LET built == Builder(optimized, unoptimized)
  IN [relations |-> built.relations, joins |-> built.joins, aggregates |-> built.aggregates,
      output |-> built.output, aliases |-> built.aliases]

\* get_query_lineage: relations, joins and aggregates are those of the optimized
\* plan, the output and the aliases those of the plan before.
QueryLineage(unoptimized, optimized) ==
  LET built == Builder(optimized, unoptimized)
      written == Builder(unoptimized, unoptimized)
  IN [relations |-> built.relations, joins |-> built.joins, aggregates |-> built.aggregates,
      output |-> written.output, aliases |-> written.aliases]
=============================================================================
