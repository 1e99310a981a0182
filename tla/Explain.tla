------------------------------- MODULE Explain -------------------------------
(***************************************************************************)
(* The explain_query and get_lineage requests of the daemon: the steps of  *)
(* explain_query between its awaits, while other requests register and     *)
(* remove the databases it is about, and databases do not answer.          *)
(*                                                                         *)
(* What DataFusion makes of a query is a constant of the module: [select,  *)
(* unoptimized, optimized, applied, physical], `optimized` being the plan  *)
(* after the broadcast rewrites that are `applied`.  The engine's tables   *)
(* are kept here by alias; SourceRegistry and Tables keep each of them.    *)
(***************************************************************************)
EXTENDS Lineage

CONSTANTS
  Queries,     \* external: what is planned for each text
  Databases,   \* the databases that each alias can be registered for: [kind, schema]
  Statistics,  \* external: for each table, its statistics, or None
  MaxRows, MaxBytes, MaxUsize, \* the scan budget
  MaxRequests  \* bound: requests

Guard == INSTANCE ScanGuard

ASSUME ExplainAssumption == MaxNodes \in Nat /\ MaxRequests \in Nat

\* Plans are trees, and what a SQL reads are tables of the plan it is of.
ASSUME QueriesAssumption ==
  \A q \in DOMAIN Queries :
    /\ IsPlan(Queries[q].unoptimized) /\ IsPlan(Queries[q].optimized)
    /\ IsTree(Queries[q].physical)
    /\ \A i \in DOMAIN Queries[q].physical :
         LET sql == Queries[q].physical[i].sql
         IN sql # None => sql.reads \subseteq TablesOf(Queries[q].optimized)

VARIABLES
  sources,     \* database_sources: the aliases' registrations, with kind and schema
  tables,      \* the aliases that have tables registered with the engine
  request,     \* the explain request that is handled, or None
  answer,      \* the last answer, or None
  rewrites,    \* broadcast_rewrites_applied_total
  requests     \* history: how many requests there were

vars == <<sources, tables, request, answer, rewrites, requests>>

TablesRead == [q \in DOMAIN Queries |-> TablesOf(Queries[q].optimized)]

Aliases(q) == {table[1] : table \in TablesRead[q]} \ {None}

\* An answer has a code if it is an error, and otherwise what its graph, its cards
\* and its lineage are made from.
NoAnswer(code) ==
  [kind |-> "error", code |-> code, q |-> None, analyze |-> FALSE, physical |-> FALSE,
   registrations |-> None, cards |-> None, measured |-> FALSE]

Init ==
  /\ sources = << >> /\ tables = {}
  /\ request = None /\ answer = None
  /\ rewrites = 0 /\ requests = 0

-----------------------------------------------------------------------------
(* Other requests.                                                         *)

RegisterSource(alias) ==
  /\ \E database \in Databases[alias] : sources' = Updated(sources, alias, database)
  /\ UNCHANGED <<tables, request, answer, rewrites, requests>>

RemoveSource(alias) ==
  /\ alias \in DOMAIN sources
  /\ sources' = [a \in DOMAIN sources \ {alias} |-> sources[a]]
  /\ tables' = tables \ {alias}
  /\ UNCHANGED <<request, answer, rewrites, requests>>

-----------------------------------------------------------------------------
(* explain_query.                                                          *)

Answer(a) == request' = None /\ answer' = a

Received == request = None /\ requests < MaxRequests /\ requests' = requests + 1

\* Only SELECT and WITH are explained.
Refused(q) ==
  /\ Received /\ ~Queries[q].select
  /\ Answer(NoAnswer("-32602"))
  /\ UNCHANGED <<sources, tables, rewrites>>

Start(q, analyze) ==
  /\ Received /\ Queries[q].select
  /\ request' = [step |-> "ensure", q |-> q, analyze |-> analyze, physical |-> FALSE,
                 registrations |-> None, cards |-> None]
  /\ answer' = None
  /\ UNCHANGED <<sources, tables, rewrites>>

\* ensure_database_namesregistered: an alias without a source is left alone.
Ensure ==
  /\ request # None /\ request.step = "ensure"
  /\ \/ /\ tables' = tables \cup (Aliases(request.q) \cap DOMAIN sources)
        /\ request' = [request EXCEPT !.step = "plan"]
        /\ UNCHANGED answer
     \/ /\ \E some \in SUBSET (Aliases(request.q) \cap DOMAIN sources) :
             tables' = tables \cup some
        /\ Answer(NoAnswer("-32001"))
  /\ UNCHANGED <<sources, rewrites, requests>>

\* get_logical_plan_with_broadcast, and the daemon's counter.
Plan ==
  /\ request # None /\ request.step = "plan"
  /\ \/ /\ Aliases(request.q) \subseteq tables
        /\ request' = [request EXCEPT !.step = "physical"]
        /\ rewrites' = rewrites + Len(Queries[request.q].applied)
        /\ UNCHANGED answer
     \/ /\ Answer(NoAnswer("-32603"))
        /\ UNCHANGED rewrites
  /\ UNCHANGED <<sources, tables, requests>>

Stats(table) == IF table \in DOMAIN Statistics THEN Statistics[table] ELSE None

\* The queries whose guarded scans are all within their budget.
Affordable ==
  {q \in DOMAIN Queries :
     LET plan == Queries[q].optimized
     IN \A i \in ScansOf(plan, Len(plan)) :
          plan[i].guarded => Guard!WithinBudget(Stats(plan[i].table), plan[i].fetch)}

\* create_physical_plan_for_explain: GuardedTableProvider.scan may refuse, and
\* a database may not be there; the request goes on without a physical plan.
PhysicalPlan ==
  /\ request # None /\ request.step = "physical"
  /\ \E made \in BOOLEAN :
       /\ made => request.q \in Affordable
       /\ request' = [request EXCEPT !.step = "graph", !.physical = made]
  /\ UNCHANGED <<sources, tables, answer, rewrites, requests>>

\* One copy of database_sources is what the SQL is attributed by, the graph is
\* built from, and the cards are made for.
BuildGraph ==
  /\ request # None /\ request.step = "graph"
  /\ request' = [request EXCEPT !.step = "cards", !.registrations = sources, !.cards = << >>]
  /\ UNCHANGED <<sources, tables, answer, rewrites, requests>>

\* A faulty form of Registrations.
RegistrationsNow == sources

Registrations == request.registrations

\* The tables that extract_source_plans makes a card for.
CardTables ==
  {table \in TablesRead[request.q] : table[1] \in DOMAIN Registrations}

Pending == CardTables \ DOMAIN request.cards

\* build_source_plan_entry: a card for the SQL that was captured for the table, or
\* else for a SELECT * of it.
WithCard(table, explain) ==
  [request EXCEPT !.cards = Updated(@, table,
     [provider |-> Registrations[table[1]].kind, explain |-> explain])]

\* The tables of SQLite files, which are explained by a call that awaits nothing: no
\* timeout can end it, but it returns.
Blocking == {table \in CardTables : Registrations[table[1]].kind = "sqlite"}

\* The database explains the SQL, or fails to.
CardExplained ==
  /\ request # None /\ request.step = "cards"
  /\ \E table \in Pending \ Blocking, explain \in {"plan", None} :
       request' = WithCard(table, explain)
  /\ UNCHANGED <<sources, tables, answer, rewrites, requests>>

\* SqliteConnector::explain_query returns.
FileExplained ==
  /\ request # None /\ request.step = "cards"
  /\ \E table \in Pending \cap Blocking, explain \in {"plan", None} :
       request' = WithCard(table, explain)
  /\ UNCHANGED <<sources, tables, answer, rewrites, requests>>

\* A faulty form of CardTimesOut.
NoTimeout == FALSE /\ UNCHANGED vars

\* explain_with_timeout: the card is shown without its plan.
CardTimesOut ==
  /\ request # None /\ request.step = "cards"
  /\ \E table \in Pending \ Blocking : request' = WithCard(table, None)
  /\ UNCHANGED <<sources, tables, answer, rewrites, requests>>

Result(measured) ==
  [NoAnswer(None) EXCEPT
     !.kind = "plan", !.q = request.q, !.analyze = request.analyze,
     !.physical = request.physical, !.registrations = request.registrations,
     !.cards = request.cards, !.measured = measured]

\* Without ANALYZE, or without a physical plan to run, there is nothing more.
Explained ==
  /\ request # None /\ request.step = "cards" /\ Pending = {}
  /\ ~request.analyze \/ ~request.physical
  /\ Answer(Result(FALSE))
  /\ UNCHANGED <<sources, tables, rewrites, requests>>

\* query_execution_error: the guard's code is for a message that starts with its
\* mark; DataFusion puts the kind of an error before its text.
ErrorCode(message) == IF message[1] = "[QSQL_SCAN_GUARD]" THEN "-32100" ELSE "-32001"

Messages == {<<"Execution error:", "io">>, <<"Execution error:", "[QSQL_SCAN_GUARD]">>}

\* execute_physical_plan_collect_metrics, to the end of the plan's stream ...
Analyzed ==
  /\ request # None /\ request.step = "cards" /\ Pending = {}
  /\ request.analyze /\ request.physical
  /\ Answer(Result(TRUE))
  /\ UNCHANGED <<sources, tables, rewrites, requests>>

\* ... or to an error, which is a warning unless it has the guard's code.
AnalyzeFails ==
  /\ request # None /\ request.step = "cards" /\ Pending = {}
  /\ request.analyze /\ request.physical
  /\ \E message \in Messages :
       IF ErrorCode(message) = "-32100" THEN Answer(NoAnswer("-32100"))
       ELSE Answer(Result(FALSE))
  /\ UNCHANGED <<sources, tables, rewrites, requests>>

\* get_lineage, of any statement; it keeps nothing from one await to the next but
\* the tables it registers.
GetLineage(q) ==
  /\ Received /\ request' = None
  /\ \/ /\ tables' = tables \cup (Aliases(q) \cap DOMAIN sources)
        /\ Aliases(q) \subseteq tables'
        /\ answer' = [NoAnswer(None) EXCEPT !.kind = "lineage", !.q = q]
     \/ /\ \E some \in SUBSET (Aliases(q) \cap DOMAIN sources) : tables' = tables \cup some
        /\ answer' = NoAnswer("-32001")
  /\ UNCHANGED <<sources, rewrites>>

Next ==
  \/ \E alias \in DOMAIN Databases : RegisterSource(alias) \/ RemoveSource(alias)
  \/ \E q \in DOMAIN Queries :
       Refused(q) \/ GetLineage(q) \/ \E analyze \in BOOLEAN : Start(q, analyze)
  \/ Ensure \/ Plan \/ PhysicalPlan \/ BuildGraph
  \/ CardExplained \/ FileExplained \/ CardTimesOut
  \/ Explained \/ Analyzed \/ AnalyzeFails

\* The handler goes on: ensuring tables and planning, which have no timeout of their
\* own here, are taken to end, with or without success, and so is the call that
\* explains a SQL to a SQLite file.  Of the other databases' explains, only the timeouts
\* are relied on.
Fairness ==
  /\ WF_vars(Ensure) /\ WF_vars(Plan) /\ WF_vars(PhysicalPlan) /\ WF_vars(BuildGraph)
  /\ WF_vars(FileExplained) /\ WF_vars(CardTimesOut) /\ WF_vars(Explained)

Spec == Init /\ [][Next]_vars /\ Fairness

-----------------------------------------------------------------------------
(* Properties.                                                             *)

Optimized == Queries[answer.q].optimized

Physical == Queries[answer.q].physical

HasGraph == answer # None /\ answer.kind = "plan"

\* The graph of an answer, with the counts of an ANALYZE.
AnsweredGraph ==
  LET graph == Graph(Optimized,
                 [apps |-> Queries[answer.q].applied,
                  sqls |-> IF answer.physical
                           THEN RemoteSql(Optimized, Physical, answer.registrations) ELSE << >>,
                  registrations |-> answer.registrations])
  IN IF answer.measured THEN Measured(graph, Metrics(Physical)) ELSE graph

\* The numbers that the inputs of node i have in preorder, if it has number id.
ChildrenOf(plan, i, id) ==
  LET orders == PreOrders(Inputs(plan))
      Before(k) == FlattenSeq([l \in 1..k - 1 |-> orders[plan[i].inputs[l]]])
  IN [k \in DOMAIN plan[i].inputs |-> id + 1 + Len(Before(k))]

\* The graph is the plan, or as much of it as there is room for: the first nodes of
\* the plan in preorder, linked as they are in the plan, without links to nodes
\* that were left out, and it says so if some were (explain.rs:55-83, 484-700).
GraphIsPlan ==
  HasGraph =>
    LET order == PreOrder(Optimized)
        graph == AnsweredGraph
    IN /\ Len(graph.nodes) = (IF Len(order) < MaxNodes THEN Len(order) ELSE MaxNodes)
       /\ graph.truncated <=> Len(order) > MaxNodes
       /\ \A id \in DOMAIN graph.nodes :
            LET links == ChildrenOf(Optimized, order[id], id)
            IN /\ graph.nodes[id].op = Optimized[order[id]].op
               /\ graph.nodes[id].children =
                    [k \in {l \in DOMAIN links : links[l] <= MaxNodes} |-> links[k]]

\* Whatever is registered and removed while an explain waits for databases, its
\* answer is of one moment: a node of a table that has a card shows the database of
\* that card, and any other what its SQL tells at most (lib.rs:722-746, explain.rs:
\* 702-716, 914-945).
CardsAgree ==
  HasGraph =>
    LET nodes == AnsweredGraph.nodes
    IN \A id \in DOMAIN nodes :
         nodes[id].op = "scan" =>
           nodes[id].provider =
             IF nodes[id].table \in DOMAIN answer.cards THEN answer.cards[nodes[id].table].provider
             ELSE IF nodes[id].sql # None THEN nodes[id].sql.executor ELSE None

SameShape(plan, physical) ==
  LET nodes == PreOrder(plan)
      operators == PreOrder(physical)
  IN /\ Len(nodes) = Len(operators)
     /\ \A n \in DOMAIN nodes :
          Len(plan[nodes[n]].inputs) = Len(physical[operators[n]].inputs)

\* What ANALYZE counts is shown on the node it was counted for, in a truncated
\* graph too, if the physical plan has the shape of the logical one (explain.rs:
\* 815-841, engine.rs:1484-1507).
MetricsOnOwnNode ==
  HasGraph /\ answer.measured /\ SameShape(Optimized, Physical) =>
    LET nodes == AnsweredGraph.nodes
    IN \A id \in DOMAIN nodes : nodes[id].rows = Physical[PreOrder(Physical)[id]].rows

\* The names that a SQL can be taken to reference.
Mentioned(sql) == sql.quoted \cup sql.spaced \cup {pair[2] : pair \in sql.dotted}

\* The SQLs that the operators of the physical plan send.
SqlsSent == {Physical[i].sql : i \in ToSet(PreOrder(Physical))} \ {None}

\* The SQL that is shown for a table reads that table, and a table whose name is in
\* quotes in a SQL that reads it is shown with one, if none of the SQLs mentions a
\* table of the query that it does not read: as a column, in a string, or as another
\* database's.  The names are looked for in the whole text of a SQL, not in its FROM
\* alone, and without a mention of its own a table may be shown with another's SQL
\* (explain.rs:206-316, 365-387).
SqlOfItsScan ==
  HasGraph =>
    LET names == {table[2] : table \in TablesOf(Optimized)}
    IN /\ \A s, t \in TablesOf(Optimized) : s[2] = t[2] => s = t
       /\ \A sql \in SqlsSent : Mentioned(sql) \cap names \subseteq {table[2] : table \in sql.reads}
       => \A node \in ToSet(AnsweredGraph.nodes) :
            /\ node.sql # None => node.table \in node.sql.reads
            /\ (/\ node.op = "scan" /\ answer.physical
                /\ \E sql \in SqlsSent : node.table \in sql.reads /\ node.table[2] \in sql.quoted)
               => node.sql # None

\* In the plan as it is written, the relation of a column is that of table `name`:
\* either it is no alias, or each alias of the name stands on that table.
StandsFor(plan, relation, name) ==
  LET aliases == {i \in ToSet(PreOrder(plan)) : plan[i].op = "alias" /\ plan[i].name = relation}
      OnTable(i) == plan[i].op = "scan" /\ plan[i].table[2] = name
  IN IF aliases = {} THEN relation = name ELSE \A i \in aliases : OnTable(plan[i].inputs[1])

\* What node i of a plan can be called: the tables below it, and the aliases of what
\* reads no table; or else it is a subquery.
CanBeCalled(plan, i) ==
  LET names == {table[2] : table \in TablesBelow(plan, i)}
      bare == {plan[j].name : j \in {k \in ToSet(PreOrders(Inputs(plan))[i]) :
                                       plan[k].op = "alias" /\ TablesBelow(plan, k) = {}}}
  IN IF names \cup bare = {} THEN {"<subquery>"} ELSE names \cup bare

\* The lineage of a query shows the columns that are read of each table, under all of
\* its aliases.  A column of them that an output column comes from is found there,
\* under the name that the aliases give its relation, though the columns are those
\* of one plan, and the outputs and aliases those of another.  A join is shown with
\* the names of what it joins (engine.rs:1109-1172, 1546-1670, 1755-1770).
LineageResolves ==
  answer # None /\ answer.kind = "lineage" =>
    LET written == Queries[answer.q].unoptimized
        lineage == QueryLineage(written, Optimized)
        Read(name) == UNION {Optimized[i].columns : i \in
                               {j \in ScansOf(Optimized, Len(Optimized)) :
                                  Optimized[j].table[2] = name}}
        Table(name) == IF name \in DOMAIN lineage.aliases THEN lineage.aliases[name] ELSE name
    IN /\ DOMAIN lineage.relations = {table[2] : table \in TablesOf(Optimized)}
       /\ \A name \in DOMAIN lineage.relations : lineage.relations[name] = Read(name)
       /\ \A i \in DOMAIN lineage.output : \A ref \in lineage.output[i].sources :
            \A name \in DOMAIN lineage.relations :
              StandsFor(written, ref[1], name) /\ ref[2] \in Read(name) =>
                /\ Table(ref[1]) \in DOMAIN lineage.relations
                /\ ref[2] \in lineage.relations[Table(ref[1])]
       /\ \A i \in DOMAIN lineage.joins :
            \E j \in ToSet(PreOrder(Optimized)) :
              /\ Optimized[j].op = "join" /\ Optimized[j].kind = lineage.joins[i].kind
              /\ lineage.joins[i].left \in CanBeCalled(Optimized, Optimized[j].inputs[1])
              /\ lineage.joins[i].right \in CanBeCalled(Optimized, Optimized[j].inputs[2])

\* An explain without ANALYZE is answered, though no database answers and sources
\* come and go (explain.rs:1017-1033).
ExplainAnswers ==
  request # None /\ ~request.analyze ~> request = None
=============================================================================
