------------------------------ MODULE TableRefs ------------------------------
(***************************************************************************)
(* Which tables of databases a SQL text refers to: the walk of qsql-core   *)
(* over the syntax tree, and the tables that planning the query will look  *)
(* up.  A text is a tree of nodes (see Trees).                             *)
(***************************************************************************)
EXTENDS Naturals, Sequences, FiniteSets, Trees, Words

CONSTANT Catalog   \* external: the name of the catalog that has the databases' schemas

-----------------------------------------------------------------------------
(* The syntax.                                                             *)

\* The nodes after n others.  A "statement" is one that is not a query, with the query
\* in it; an "item" is one of FROM; "opaque" are calls, casts, VALUES and table functions;
\* `other` has the rest of a SELECT, GROUP BY and ORDER BY.  A query in brackets, a derived
\* table and a bracketed join have no node of their own: the query or item is in its place.
Nodes(n) ==
  LET Number == 1..n
      Numbers == Seq(Number)
  IN [op : {"text"}, statements : Numbers]
       \cup [op : {"statement"}, query : Number]
       \cup [op : {"query"}, ctes : Seq([name : DOMAIN Lower, query : Number]), body : Number]
       \cup [op : {"union"}, left : Number, right : Number]
       \cup [op : {"select"}, from : Numbers, projection : Numbers, selection : Numbers,
             having : Numbers, other : Numbers]
       \cup [op : {"item"}, relation : Number, joins : Numbers, on : Numbers]
       \cup [op : {"table"}, parts : Seq([text : DOMAIN Lower, quoted : BOOLEAN])]
       \cup [op : {"operator", "opaque"}, args : Numbers]
       \cup [op : {"subquery"}, args : Numbers, query : Number]

\* The CTEs of a query come before its body.
PartsOfQuery(query) == [k \in DOMAIN query.ctes |-> query.ctes[k].query] \o <<query.body>>

PartsOfExpr(expr) == IF expr.op = "subquery" THEN Append(expr.args, expr.query) ELSE expr.args

\* External: the parts of a node, all of which the planner looks at.
Parts(node) ==
  CASE node.op = "text"      -> node.statements
    [] node.op = "statement" -> <<node.query>>
    [] node.op = "query"     -> PartsOfQuery(node)
    [] node.op = "union"     -> <<node.left, node.right>>
    [] node.op = "select"    ->
         node.from \o node.projection \o node.selection \o node.having \o node.other
    [] node.op = "item"      -> <<node.relation>> \o node.joins \o node.on
    [] node.op \in {"operator", "subquery", "opaque"} -> PartsOfExpr(node)
    [] OTHER -> << >>

\* A faulty form of RelationsOf.
FirstRelationOf(item) == <<item.relation>>

RelationsOf(item) == <<item.relation>> \o item.joins

\* Where the walk goes on from a node, in its order.
Visited(node) ==
  CASE node.op = "text"   -> node.statements
    [] node.op = "query"  -> PartsOfQuery(node)
    [] node.op = "union"  -> <<node.left, node.right>>
    [] node.op = "select" -> node.from \o node.projection \o node.selection \o node.having
    [] node.op = "item"   -> RelationsOf(node)
    [] node.op \in {"operator", "subquery"} -> PartsOfExpr(node)
    [] OTHER -> << >>

\* Parts come before what they are a part of, and are a part of nothing else.
IsText(text) ==
  /\ Len(text) \in Nat \ {0} /\ DOMAIN text = 1..Len(text)
  /\ \A i \in DOMAIN text : text[i] \in Nodes(i - 1)
  /\ \A i, j \in DOMAIN text :
       \A k \in DOMAIN Parts(text[i]), l \in DOMAIN Parts(text[j]) :
         Parts(text[i])[k] = Parts(text[j])[l] => i = j /\ k = l

\* For each node the nodes that the walk meets from it, and all below it.
Walk(text) == PreOrders([i \in DOMAIN text |-> Visited(text[i])])
Whole(text) == PreOrders([i \in DOMAIN text |-> Parts(text[i])])

-----------------------------------------------------------------------------
(* The walk.                                                               *)

\* The names of CTEs that the walk has when it meets a node: those of the queries
\* it came through, each of which has all its names before it goes on.
NamesOf(query) == {query.ctes[k].name : k \in DOMAIN query.ctes}

Scope(text, i) ==
  UNION {NamesOf(text[j]) :
           j \in {q \in DOMAIN text : text[q].op = "query" /\ i \in ToSet(Walk(text)[q])}}

\* Two parts are a table of a database, if no CTE has the name of the first.
IsReference(text, i) ==
  /\ text[i].op = "table" /\ Len(text[i].parts) = 2
  /\ text[i].parts[1].text \notin Scope(text, i)

\* Alias and table, spelled as they are written.
Written(parts) == <<parts[1].text, parts[2].text>>

\* extract_database_table_refs: the references, at the places where the walk meets
\* them; one that was seen before is left out.
TableRefs(text) ==
  LET order == Walk(text)[Len(text)]
      met == {k \in DOMAIN order : IsReference(text, order[k])}
      Met(k) == Written(text[order[k]].parts)
  IN [k \in {n \in met : \A m \in met : m < n => Met(m) # Met(n)} |-> Met(k)]

-----------------------------------------------------------------------------
(* External: what the planner looks up.  It reads a name that is not       *)
(* quoted in lower case, resolves it in every part of the tree, and takes  *)
(* a CTE only for a name of one part.                                      *)

Resolved(part) == IF part.quoted THEN part.text ELSE Lower[part.text]

NeedsOfName(parts) ==
  CASE Len(parts) = 2 -> {<<Resolved(parts[1]), Resolved(parts[2])>>}
    [] Len(parts) = 3 /\ Resolved(parts[1]) = Catalog ->
         {<<Resolved(parts[2]), Resolved(parts[3])>>}
    [] OTHER -> {}

\* The tables named below a node.
NamedBelow(text, i) == {j \in ToSet(Whole(text)[i]) : text[j].op = "table"}

NeedsBelow(text, i) == UNION {NeedsOfName(text[j].parts) : j \in NamedBelow(text, i)}

\* The tables of databases that a text is planned on.
Needs(text) == NeedsBelow(text, Len(text))

-----------------------------------------------------------------------------
(* Where the two differ.                                                   *)

\* The parts of a node that the walk does not visit.
Passed(node) ==
  CASE node.op = "statement" -> {node.query}
    [] node.op = "select"    -> ToSet(node.other)
    [] node.op = "item"      -> ToSet(node.on)
    [] node.op = "opaque"    -> ToSet(node.args)
    [] OTHER -> {}

\* A name that the walk and the planner take for the same table of a database.
ReadAsWritten(text, i) ==
  /\ IsReference(text, i)
  /\ \A k \in {1, 2} : Resolved(text[i].parts[k]) = text[i].parts[k].text

\* A table of a database is named where the walk does not go, or with three parts,
\* after a CTE's name, or in letters that the planner takes in lower case.
HidesName(text) ==
  \/ \E i \in ToSet(Whole(text)[Len(text)]) :
       \E c \in Passed(text[i]) : NeedsBelow(text, c) # {}
  \/ \E i \in NamedBelow(text, Len(text)) :
       NeedsOfName(text[i].parts) # {} /\ ~ReadAsWritten(text, i)
=============================================================================
