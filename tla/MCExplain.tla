------------------------------ MODULE MCExplain ------------------------------
(* Explain of queries over two databases, pg and lite, and a file.             *)
EXTENDS Explain

\* Another database is registered as pg, of another kind and with a schema.
MCDatabases ==
  [alias \in {"pg", "lite"} |->
     IF alias = "pg"
     THEN {[kind |-> "postgres", schema |-> None], [kind |-> "mariadb", schema |-> "sales"]}
     ELSE {[kind |-> "sqlite", schema |-> None]}]

MCStatistics ==
  [table \in {<<"pg", "orders">>, <<"lite", "events">>} |->
     IF table = <<"pg", "orders">> THEN [rows |-> 10, bytes |-> 80]
     ELSE [rows |-> 1000, bytes |-> 8000]]

\* A node above some trees.
Moved(tree, by) ==
  [i \in DOMAIN tree |->
     [tree[i] EXCEPT !.inputs = [k \in DOMAIN @ |-> @[k] + by]]]
Above(tree, node) == Append(tree, [node EXCEPT !.inputs = <<Len(tree)>>])
AboveBoth(left, right, node) ==
  Append(left \o Moved(right, Len(left)),
         [node EXCEPT !.inputs = <<Len(left), Len(left) + Len(right)>>])

\* Logical plans.
Scan(alias, name, columns) ==
  << [op |-> "scan", inputs |-> << >>, table |-> <<alias, name>>, guarded |-> TRUE,
      filtered |-> FALSE, fetch |-> None, columns |-> columns] >>
Join(left, right, on) ==
  AboveBoth(left, right, [op |-> "join", inputs |-> << >>, kind |-> "inner", on |-> on])
Filter(input, inList) == Above(input, [op |-> "filter", inputs |-> << >>, inList |-> inList])
Sort(input) == Above(input, [op |-> "sort", inputs |-> << >>])
Limit(input) == Above(input, [op |-> "limit", inputs |-> << >>])
Values == << [op |-> "values", inputs |-> << >>] >>
Union(left, right) == AboveBoth(left, right, [op |-> "union", inputs |-> << >>])
Alias(input, name) == Above(input, [op |-> "alias", inputs |-> << >>, name |-> name])
Projection(input, exprs) ==
  Above(input, [op |-> "projection", inputs |-> << >>, exprs |-> exprs])
Aggregate(input, group, aggr) ==
  Above(input, [op |-> "aggregate", inputs |-> << >>, group |-> group, aggr |-> aggr])

Column(relation, name) ==
  [name |-> name, text |-> name, aliased |-> FALSE, refs |-> {<<relation, name>>},
   function |-> None]
Sum(relation, name) ==
  [name |-> "sum", text |-> "sum", aliased |-> FALSE, refs |-> {<<relation, name>>},
   function |-> "SUM"]
As(expr, name) == [expr EXCEPT !.name = name, !.aliased = TRUE]
\* Above an aggregate, what it computes is a column without a relation.
Computed(expr) == [expr EXCEPT !.function = None, !.refs = {<<"", expr.text>>}]

\* Physical plans.
Sql(executor, reads, quoted, ordered) ==
  [reads |-> reads, quoted |-> quoted, spaced |-> {}, dotted |-> {}, ordered |-> ordered,
   restricted |-> ordered, executor |-> executor]
Operator(rows) == [sql |-> None, rows |-> rows, inputs |-> << >>]
Remote(rows, sql) == <<[Operator(rows) EXCEPT !.sql = sql]>>
Reader(rows) == <<Operator(rows)>>
Local(rows, input) == Above(input, Operator(rows))
LocalJoin(rows, left, right) == AboveBoth(left, right, Operator(rows))

PgOrders == Scan("pg", "orders", {"id", "user"})
LiteUsers == Scan("lite", "users", {"id", "name"})
OrdersSql(ordered) == Sql("postgres", {<<"pg", "orders">>}, {"orders", "id", "user"}, ordered)
\* SELECT id FROM sales.orders, with no quotes, and SELECT id FROM orders WHERE ...
DottedSql == [Sql("sql", {<<"pg", "orders">>}, {}, FALSE) EXCEPT !.dotted = {<<"sales", "orders">>}]
SpacedSql == [Sql("sql", {<<"pg", "orders">>}, {}, FALSE) EXCEPT !.spaced = {"orders"}]
UsersSql == Sql("sqlite", {<<"lite", "users">>}, {"users", "id", "name"}, FALSE)
ById == << <<"user", "id">> >>

Query(unoptimized, optimized, applied, physical) ==
  [select |-> TRUE, unoptimized |-> unoptimized, optimized |-> optimized,
   applied |-> applied, physical |-> physical]

MCQueries == <<
  \* SELECT o.id, u.name FROM pg.orders o JOIN lite.users u ON o.user = u.id ORDER BY o.id
  Query(Sort(Projection(Join(Alias(PgOrders, "o"), Alias(LiteUsers, "u"), << >>),
                        <<Column("o", "id"), Column("u", "name")>>)),
        Sort(Projection(Join(PgOrders, LiteUsers, ById),
                        <<Column("o", "id"), Column("u", "name")>>)),
        << >>,
        Local(3, Local(4, LocalJoin(5, Remote(6, OrdersSql(FALSE)), Remote(7, UsersSql))))),
  \* SELECT id FROM pg.orders ORDER BY id LIMIT n, sorted by the database
  Query(Limit(Sort(Projection(PgOrders, <<Column("orders", "id")>>))),
        Limit(Sort(PgOrders)),
        << >>,
        Remote(3, OrdersSql(TRUE))),
  \* one side of the join is sorted by its database, the join is not
  Query(Sort(Join(Limit(Sort(PgOrders)), LiteUsers, ById)),
        Sort(Join(Limit(Sort(PgOrders)), LiteUsers, ById)),
        << >>,
        Local(3, LocalJoin(4, Remote(5, OrdersSql(TRUE)), Remote(6, UsersSql)))),
  \* a file's keys are sent to a database
  Query(Projection(Join(Alias(Scan(None, "keys", {"key"}), "k"), PgOrders, << >>),
                   <<As(Column("k", "key"), "the_key"), Column("orders", "user")>>),
        Join([Scan(None, "keys", {"key"}) EXCEPT ![1].filtered = TRUE],
             Filter(PgOrders, "id"), << <<"key", "id">> >>),
        <<[key |-> "id", local |-> {<<None, "keys">>}, remote |-> {<<"pg", "orders">>}]>>,
        LocalJoin(3, Reader(4), Local(5, Remote(6, OrdersSql(FALSE))))),
  \* SELECT o.user, SUM(o.id) AS total FROM pg.orders o GROUP BY o.user
  Query(Projection(Aggregate(Alias(PgOrders, "o"), <<Column("o", "user")>>, <<Sum("o", "id")>>),
                   <<Column("o", "user"), As(Computed(Sum("o", "id")), "total")>>),
        Aggregate(PgOrders, <<Column("o", "user")>>, <<Sum("o", "id")>>),
        << >>,
        Local(3, Remote(4, OrdersSql(FALSE)))),
  \* SELECT v.id, a.user, b.id FROM (VALUES (1)) v (id)
  \*   JOIN pg.orders a ON v.id = a.id JOIN pg.orders b ON a.user = b.user
  Query(Projection(Join(Join(Alias(Values, "v"), Alias(PgOrders, "a"), << >>),
                        Alias(PgOrders, "b"), << >>),
                   <<Column("v", "id"), Column("a", "user"), Column("b", "id")>>),
        Join(Join(Alias(Values, "v"), Alias(PgOrders, "a"), ById),
             Alias(Scan("pg", "orders", {"id"}), "b"), << <<"user", None>> >>),
        << >>,
        LocalJoin(1, LocalJoin(2, Reader(1), Remote(3, OrdersSql(FALSE))),
                  Remote(3, OrdersSql(FALSE)))),
  \* SELECT x.id FROM pg.orders x UNION ALL SELECT x.id FROM lite.users x WHERE FALSE
  Query(Union(Projection(Alias(PgOrders, "x"), <<Column("x", "id")>>),
              Projection(Filter(Alias(LiteUsers, "x"), None), <<Column("x", "id")>>)),
        Projection(Alias(Scan("pg", "orders", {"id"}), "x"), <<Column("x", "id")>>),
        << >>,
        Remote(2, OrdersSql(FALSE))),
  \* a scan over the budget
  Query(Scan("lite", "events", {"id"}), Scan("lite", "events", {"id"}), << >>,
        Remote(1000, Sql("sqlite", {<<"lite", "events">>}, {"events", "id"}, FALSE))),
  \* SQLs without quotes, with the schema of the table and without
  Query(Union(PgOrders, Join(PgOrders, LiteUsers, ById)),
        Union(PgOrders, Join(PgOrders, LiteUsers, ById)), << >>,
        LocalJoin(4, Remote(5, DottedSql),
                  LocalJoin(6, Remote(7, SpacedSql), Remote(8, UsersSql)))),
  [Query(PgOrders, PgOrders, << >>, Remote(10, OrdersSql(FALSE))) EXCEPT !.select = FALSE] >>
=============================================================================
