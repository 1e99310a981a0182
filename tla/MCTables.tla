------------------------------- MODULE MCTables -------------------------------
(* Tables over databases of up to three tables, two of which differ by case, *)
(* one that is internal and one in another schema.                           *)
EXTENDS Tables

CONSTANTS c1, c2

MCOrder == [n \in {"Orders", "items", "orders", "sqlite_seq"} |->
              CASE n = "Orders" -> 1 [] n = "items" -> 2 [] n = "orders" -> 3 [] OTHER -> 4]

MCInternal == {<<"public", "sqlite_seq">>}
MCObjects == ({"public"} \X {"Orders", "items", "orders"}) \cup {<<"crm", "orders">>} \cup MCInternal

MCDatabases == {MCObjects, MCObjects \ {<<"public", "items">>}}

MCProfiles == {[kind |-> "sqlite", schema |-> None], [kind |-> "postgres", schema |-> "crm"],
               [kind |-> "mysql", schema |-> Blank]}

MCLower ==
  [w \in {"pg", "PG", "my", "q", "datafusion", "Orders", "items", "orders", "sqlite_seq"} |->
     CASE w = "PG" -> "pg" [] w = "Orders" -> "orders" [] OTHER -> w]

Id(word) == [text |-> word, quoted |-> FALSE]
Quoted(word) == [text |-> word, quoted |-> TRUE]

\* The nodes of texts.
Table(parts) == [op |-> "table", parts |-> parts]
Of(alias, table) == Table(<<Id(alias), Id(table)>>)
Item(relation) == [op |-> "item", relation |-> relation, joins |-> << >>, on |-> << >>]
Joined(left, right, on) == [op |-> "item", relation |-> left, joins |-> <<right>>, on |-> on]
Select(from) == [op |-> "select", from |-> from, projection |-> << >>, selection |-> << >>,
                 having |-> << >>, other |-> << >>]
Plainly(body) == [op |-> "query", ctes |-> << >>, body |-> body]
With(name, query, body) ==
  [op |-> "query", ctes |-> <<[name |-> name, query |-> query]>>, body |-> body]
Union(left, right) == [op |-> "union", left |-> left, right |-> right]
Operator(args) == [op |-> "operator", args |-> args]
Opaque(args) == [op |-> "opaque", args |-> args]
Sub(args, query) == [op |-> "subquery", args |-> args, query |-> query]
Insert(query) == [op |-> "statement", query |-> query]
Root(statements) == [op |-> "text", statements |-> statements]

\* SELECT ... FROM a table, as nodes n to n + 3.
Simple(n, table) == <<table, Item(n), Select(<<n + 1>>), Plainly(n + 2)>>
Items(n) == Simple(n, Of("pg", "items"))
Orders(n) == Simple(n, Of("pg", "orders"))

\* The last six hide a name from the walk.
MCTexts == <<
  Orders(1) \o <<Root(<<4>>)>>,
  Simple(1, Table(<<Id("pg"), Quoted("Orders")>>)) \o <<Root(<<4>>)>>,
  \* a join with a derived table, whose condition has a name that is not ours
  Items(1) \o Simple(5, Of("my", "items"))
    \o <<Of("pg", "orders"), Sub(<< >>, 8), Joined(9, 4, << >>),
         [Select(<<11>>) EXCEPT !.selection = <<10>>], Plainly(12), Root(<<13>>)>>,
  \* a bracketed join, and subqueries in the projection and, below an operator, in HAVING
  Orders(1) \o Items(5)
    \o <<Sub(<< >>, 4), Operator(<< >>), Sub(<<10>>, 8), Operator(<<11>>),
         Of("pg", "items"), Item(13), Item(14),
         [Select(<<15>>) EXCEPT !.projection = <<9>>, !.having = <<12>>], Plainly(16),
         Root(<<17>>)>>,
  Items(1)
    \o <<Operator(<< >>), Sub(<< >>, 4), Operator(<<5, 6>>), Opaque(<< >>), Item(8),
         [Select(<<9>>) EXCEPT !.selection = <<7>>], Plainly(10), Root(<<11>>)>>,
  Orders(1) \o <<Table(<<Id("q")>>), Item(5), Select(<<6>>), With("q", 4, 7), Root(<<8>>)>>,
  \* a union, and a second statement with a name of the first
  Items(1)
    \o <<Of("pg", "orders"), Item(5), Select(<<6>>), Union(7, 4), Plainly(8)>>
    \o Items(10) \o <<Root(<<9, 13>>)>>,
  \* the planner's case, three parts, ON, GROUP BY and calls, a CTE with the alias, INSERT
  Simple(1, Of("PG", "Orders")) \o <<Root(<<4>>)>>,
  Simple(1, Table(<<Id("datafusion"), Id("pg"), Id("items")>>)) \o <<Root(<<4>>)>>,
  Items(1)
    \o <<Sub(<< >>, 4), Of("pg", "orders"), Opaque(<< >>), Joined(6, 7, <<5>>), Select(<<8>>),
         Plainly(9), Root(<<10>>)>>,
  Orders(1)
    \o <<Sub(<< >>, 4), Opaque(<<5>>), Of("pg", "items"), Item(7),
         [Select(<<8>>) EXCEPT !.other = <<6>>], Plainly(9), Root(<<10>>)>>,
  Items(1) \o <<Of("pg", "orders"), Item(5), Select(<<6>>), With("pg", 4, 7), Root(<<8>>)>>,
  Items(1) \o <<Insert(4), Root(<<5>>)>> >>
=============================================================================
