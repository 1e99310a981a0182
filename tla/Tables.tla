-------------------------------- MODULE Tables --------------------------------
(***************************************************************************)
(* The tables of one attached database: what the daemon lists of them when *)
(* the database is registered, which of them a query registers with the    *)
(* engine, and how the extension's tree shows them page by page while the  *)
(* database changes and clicks on "Load more" overlap.                     *)
(*                                                                         *)
(* A list of tables is the set of their names: the place of a name in the  *)
(* database's order is that of the list.                                   *)
(*                                                                         *)
(* The daemon's steps on its tables are taken one at a time here; how they *)
(* interleave with other requests is the subject of SourceRegistry.        *)
(***************************************************************************)
EXTENDS Integers, Sequences, FiniteSets, TableRefs

CONSTANTS
  Alias,       \* the name the database is registered under
  Profiles,    \* what it may be registered as: a kind, and a schema or None
  Blank,       \* a schema that is given, and is blank
  Default,     \* external: the schema that names without one are in: SQLite's main,
               \* PostgreSQL's public, MySQL's DATABASE()
  Objects,     \* external: tables there may be, as <<schema, name>>
  Internal,    \* external: those that listings leave out (views, sqlite_ tables)
  Databases,   \* external: the tables there may be at first
  Order,       \* external: the place of each name in the database's order
  Texts,       \* the SQL texts that are queried, each under a number
  ListLimit,   \* TABLE_LIST_LIMIT
  PageSize,    \* TABLE_TREE_PAGE_SIZE
  Clicks,      \* requests of "Load more" that may be pending at the same time
  MaxChanges,  \* bound: changes of the database
  None

ASSUME LimitsAssumption ==
  ListLimit \in Nat \ {0} /\ PageSize \in 1..ListLimit /\ MaxChanges \in Nat

ASSUME DatabaseAssumption ==
  /\ IsFiniteSet(Objects) /\ Databases \subseteq SUBSET Objects
  /\ \A o \in Objects : o = <<o[1], o[2]>> /\ o[2] # None /\ Order[o[2]] \in Nat
  /\ \A o, p \in Objects : Order[o[2]] = Order[p[2]] => o[2] = p[2]

ASSUME TextsAssumption == \A q \in DOMAIN Texts : IsText(Texts[q])

VARIABLES
  database,    \* external: the tables the database has
  profile,     \* what it is registered as
  source,      \* DatabaseRegistration.tables and .tables_truncated, or None;
               \* history, in `had`: the tables there were
  registered,  \* engine.table_registry under Alias: the table read for each spelling
  known,       \* sources of the tree: the daemon's entry, an offline profile, or None
  loaded,      \* loadedTables, or None
  hasMore,     \* hasMoreTables
  promised,    \* history: the tables there were when the list in `loaded` was begun
  clicks,      \* pending requests of loadMoreTables: the list and, once listed, the page
  dropped,     \* history: a table was dropped
  changes      \* history: changes of the database

daemon == <<source, registered>>
tree == <<known, loaded, hasMore, promised, clicks>>
world == <<database, profile, dropped, changes>>
vars == <<daemon, tree, world>>

-----------------------------------------------------------------------------
(* Listing: the connectors of the three kinds of databases.                *)

\* The place of a name among others, and the first k of them.
Rank(n, names) == Cardinality({m \in names : Order[m] <= Order[n]})
First(k, names) == {n \in names : Rank(n, names) <= k}

\* Base tables of the schema, ORDER BY name LIMIT limit.max(1) OFFSET offset.
Page(schema, offset, limit) ==
  LET objects == {o \in database \ Internal : o[1] = schema}
      names == {o[2] : o \in objects}
      most == IF limit = 0 THEN 1 ELSE limit
  IN [names |-> First(offset + most, names) \ First(offset, names), all |-> objects]

OrDefault(schema, missing) == IF schema \in missing THEN Default ELSE schema

\* A file has one schema, and the one that is given is not looked at.
SqlitePage(offset, limit) == Page(Default, offset, limit)

\* A blank schema is one that has no tables.
PostgresPage(schema, offset, limit) == Page(OrDefault(schema, {None}), offset, limit)

\* A blank schema is as good as none.
MysqlPage(schema, offset, limit) == Page(OrDefault(schema, {None, Blank}), offset, limit)

\* list_database_tables_page.
ListPage(offset, limit) ==
  CASE profile.kind = "sqlite" -> SqlitePage(offset, limit)
    [] profile.kind = "postgres" -> PostgresPage(profile.schema, offset, limit)
    [] OTHER -> MysqlPage(profile.schema, offset, limit)

\* list_tables_with_truncation: one more than the limit tells whether there are more.
Listing ==
  LET page == ListPage(0, ListLimit + 1)
  IN [tables |-> First(ListLimit, page.names),
      truncated |-> Cardinality(page.names) > ListLimit,
      had |-> page.all]

\* Two faulty forms of TablesPage.
PageFromStart(offset) ==
  LET names == ListPage(0, PageSize + 1).names
  IN [tables |-> First(PageSize, names), truncated |-> Cardinality(names) > PageSize,
      total |-> None]

PageWithoutProbe(offset) ==
  [tables |-> ListPage(offset, PageSize).names, truncated |-> FALSE,
   total |-> IF source.truncated THEN None ELSE Cardinality(source.tables)]

\* list_source_tables, for a page of the tree's size.
TablesPage(offset) ==
  LET names == ListPage(offset, PageSize + 1).names
  IN [tables |-> First(PageSize, names), truncated |-> Cardinality(names) > PageSize,
      total |-> IF source.truncated THEN None ELSE Cardinality(source.tables)]

-----------------------------------------------------------------------------
(* The database and the daemon.                                            *)

Init ==
  /\ database \in Databases /\ profile \in Profiles
  /\ source = None /\ registered = {}
  /\ known = None /\ loaded = None /\ hasMore = FALSE
  /\ clicks = [c \in Clicks |-> None]
  /\ promised = {} /\ dropped = FALSE /\ changes = 0

CreateTable ==
  /\ changes < MaxChanges
  /\ \E o \in Objects \ database : database' = database \cup {o}
  /\ changes' = changes + 1
  /\ UNCHANGED <<profile, dropped, daemon, tree>>

DropTable ==
  /\ changes < MaxChanges
  /\ \E o \in database \ Internal : database' = database \ {o}
  /\ dropped' = TRUE /\ changes' = changes + 1
  /\ UNCHANGED <<profile, daemon, tree>>

\* The tables registered with the engine for an earlier registration stay.
Register ==
  /\ source' = Listing
  /\ UNCHANGED <<registered, tree, world>>

RegisterSqlite == profile.kind = "sqlite" /\ Register
RegisterPostgres == profile.kind = "postgres" /\ Register
RegisterMysql == profile.kind = "mysql" /\ Register

\* remove_source, or a new daemon that has no source until it is told of it.
RemoveSource ==
  /\ source # None
  /\ source' = None /\ registered' = {}
  /\ UNCHANGED <<tree, world>>

-----------------------------------------------------------------------------
(* ensure_database_tables_registered, and the planning that follows.       *)

\* A faulty form of TableOf.
FirstTableOf(spelling) ==
  LET alike == {n \in source.tables : SameWord(n, spelling)}
  IN IF alike = {} THEN None ELSE CHOOSE n \in alike : \A m \in alike : Order[n] <= Order[m]

\* The listed table that a spelling denotes: the exact one, or else the first
\* that differs by case; None if there is none.
TableOf(spelling) ==
  LET alike == {n \in source.tables : SameWord(n, spelling)}
  IN CASE spelling \in source.tables -> spelling
       [] spelling \notin source.tables /\ alike # {} ->
            CHOOSE n \in alike : \A m \in alike : Order[n] <= Order[m]
       [] OTHER -> None

\* The table that a connector's provider reads.
SqliteTable(name) == <<Default, name>>
PostgresTable(schema, name) == <<OrDefault(schema, {None}), name>>
MysqlTable(schema, name) == <<OrDefault(schema, {None, Blank}), name>>

Provider(name) ==
  CASE profile.kind = "sqlite" -> SqliteTable(name)
    [] profile.kind = "postgres" -> PostgresTable(profile.schema, name)
    [] OTHER -> MysqlTable(profile.schema, name)

\* How tables of this database are spelled, at each reference to one: aliases are
\* compared without case.
Spellings ==
  [q \in DOMAIN Texts |->
     LET refs == TableRefs(Texts[q])
     IN [i \in {j \in DOMAIN refs : SameWord(refs[j][1], Alias)} |-> refs[i][2]]]

Taken == {e[1] : e \in registered}

\* register_schema_table, under the spelling that was written, unless it is there.
Entries(spellings) ==
  registered \cup {<<s, Provider(TableOf(s))>> : s \in spellings \ Taken}

Unlisted(spelled) == {i \in DOMAIN spelled : TableOf(spelled[i]) = None}

\* References are dealt with in turn.  One that is not listed, or that has to be
\* registered and whose schema cannot be read, ends the request, and those before
\* it stay registered.  Without a source of that alias nothing is done.
Query(spelled) ==
  /\ source # None
  /\ \/ /\ Unlisted(spelled) = {}
        /\ registered' = Entries({spelled[i] : i \in DOMAIN spelled})
     \/ \E i \in DOMAIN spelled :
          /\ \A j \in Unlisted(spelled) : i <= j
          /\ i \in Unlisted(spelled) \/ spelled[i] \notin Taken
          /\ registered' = Entries({spelled[j] : j \in {k \in DOMAIN spelled : k < i}})
  /\ UNCHANGED <<source, tree, world>>

-----------------------------------------------------------------------------
(* The tree.                                                               *)

Offline == [tables |-> {}, truncated |-> FALSE, had |-> {}]

\* getChildren without an element: the daemon's sources, if it lists them, and
\* the profiles.  What was loaded of a source that is gone is pruned, unless no
\* source is left at all.
RefreshTree ==
  /\ \/ /\ source # None /\ known' = source
        /\ UNCHANGED <<loaded, hasMore>>
     \/ /\ known' = Offline
        /\ UNCHANGED <<loaded, hasMore>>
     \/ /\ known' = None
        /\ \/ UNCHANGED <<loaded, hasMore>>
           \/ loaded' = None /\ hasMore' = FALSE
  /\ UNCHANGED <<clicks, promised, daemon, world>>

\* getChildren of the source: the first page is of the tables it came with.
Expand ==
  /\ known # None /\ known.tables # {} /\ loaded = None
  /\ loaded' = First(PageSize, known.tables)
  /\ hasMore' = (known.truncated \/ Cardinality(known.tables) > Cardinality(loaded'))
  /\ promised' = {o[2] : o \in known.had}
  /\ UNCHANGED <<known, clicks, daemon, world>>

\* loadMoreTables, up to the request, for a click on the item under the tables.
Click(c) ==
  /\ known # None /\ hasMore /\ clicks[c] = None
  /\ clicks' = [clicks EXCEPT ![c] = [base |-> loaded, promised |-> promised, page |-> None]]
  /\ UNCHANGED <<known, loaded, hasMore, promised, daemon, world>>

\* The daemon answers with a page ...
PageListed(c) ==
  /\ source # None
  /\ clicks[c] # None /\ clicks[c].page = None
  /\ clicks' = [clicks EXCEPT ![c].page = TablesPage(Cardinality(clicks[c].base))]
  /\ UNCHANGED <<known, loaded, hasMore, promised, daemon, world>>

\* ... or with an error: it has no such source, or the database did not answer.
PageFails(c) ==
  /\ clicks[c] # None /\ clicks[c].page = None
  /\ clicks' = [clicks EXCEPT ![c] = None]
  /\ UNCHANGED <<known, loaded, hasMore, promised, daemon, world>>

\* The rest of loadMoreTables: the list that was read before the request is
\* extended, and put in the place of what the list may be by now.
PageArrives(c) ==
  /\ clicks[c] # None /\ clicks[c].page # None
  /\ LET page == clicks[c].page
     IN /\ loaded' = clicks[c].base \cup page.tables
        /\ hasMore' = (page.truncated
                         \/ (page.total # None /\ Cardinality(loaded') < page.total))
  /\ promised' = clicks[c].promised
  /\ clicks' = [clicks EXCEPT ![c] = None]
  /\ UNCHANGED <<known, daemon, world>>

Next ==
  \/ CreateTable \/ DropTable
  \/ RegisterSqlite \/ RegisterPostgres \/ RegisterMysql \/ RemoveSource
  \/ \E spelled \in {Spellings[q] : q \in DOMAIN Texts} : Query(spelled)
  \/ RefreshTree \/ Expand
  \/ \E c \in Clicks : Click(c) \/ PageListed(c) \/ PageFails(c) \/ PageArrives(c)

\* A user who goes on clicking, and a database that does not fail for ever.
Fairness ==
  \A c \in Clicks : WF_vars(Click(c)) /\ SF_vars(PageListed(c)) /\ WF_vars(PageArrives(c))

Spec == Init /\ [][Next]_vars /\ Fairness

-----------------------------------------------------------------------------
(* Properties.                                                             *)

\* The tables that the planner looks up, of texts with no hidden name.
Planned == [q \in {p \in DOMAIN Texts : ~HidesName(Texts[p])} |-> Needs(Texts[q])]

\* Whatever was queried and registered before, a query whose tables of this database
\* are listed is planned on all of them, wherever in the text it names them (joins,
\* subqueries, CTEs, unions), unless a name is hidden: in a part of the tree the walk
\* does not visit, of three parts, after a CTE's name, or to be read in lower case
\* (lib.rs:1211-1249, table_refs.rs:40-258, engine.rs:585-623).
ListedIsQueryable ==
  source # None =>
    \A q \in DOMAIN Planned :
      LET ours == {need \in Planned[q] : SameWord(need[1], Alias)}
      IN (\A need \in ours : need[1] = Alias /\ need[2] \in source.tables) =>
           /\ Unlisted(Spellings[q]) = {}
           /\ {need[2] : need \in ours}
                \subseteq {e[1] : e \in Entries({Spellings[q][i] : i \in DOMAIN Spellings[q]})}

\* While the database stays as it is, a name that is listed as it is written is
\* read from the table of that very name that was listed, in the schema that was
\* listed, whichever other spellings are queried, however often the source is
\* registered or removed, and whatever its kind and schema (lib.rs:1219-1249).
\* (After a change it may not be: what an earlier registration read stays.)
ExactNameWins ==
  changes = 0 /\ source # None =>
    \A e \in registered : e[1] \in source.tables => e[2] \in source.had /\ e[2][2] = e[1]

\* When the tree offers no more tables of a source, every table that the database
\* had when the list was begun is in it, however clicks overlap and their answers
\* cross, if no table was dropped since (dataSourcesProvider.ts:130-158, 262-275).
TreeComplete ==
  loaded # None /\ ~hasMore /\ ~dropped => promised \subseteq loaded

\* While the database stays as it is, clicking on "Load more" comes to an end,
\* though an overlapping click may put the list back (dataSourcesProvider.ts:140-157).
LoadMoreEnds ==
  hasMore /\ changes = 0 ~> ~hasMore \/ changes > 0 \/ source = None \/ known = None
=============================================================================
