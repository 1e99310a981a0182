# QuiverSQL in TLA+

QuiverSQL is a federated SQL workbench: a VS Code extension (`qsql-vscode`)
starts a Rust daemon (`qsql-workspace/qsql-daemon`) and talks JSON-RPC to it
over stdin and stdout. The daemon runs SQL with DataFusion over files and
registered databases and hands results out page by page.

This directory models the parts of it where order, failure, shared state or a
walk over somebody else's data structure decide what happens: the paged query
service, the registry of data sources and their tables, the stored profiles that
outlive both processes, the broadcast rewrite of joins, fixed-width files,
explain and lineage, and the client's transport. TLC checks the models on small
instances; TLAPS proves most of what they say, the rows of rewritten joins, the
lines of scans, the framing of responses and the graphs of plans included, for
instances of every size.

All paths below are relative to the repository's root; `lib.rs` and `explain.rs`
are those of `qsql-workspace/qsql-daemon/src`, `engine.rs`, `broadcast.rs`,
`fixed_width.rs` and `table_refs.rs` those of `qsql-workspace/qsql-core/src`, and
`.ts` files are in `qsql-vscode/src`.

## 1. The system

### 1.1 Components, their state and their operations

| Component | Code | State | Operations | Modules |
|---|---|---|---|---|
| Result handle | `engine.rs` `QueryResultHandle`, `result_ipc.rs`, `models.rs` | a DataFusion stream, the queue of batches, `buffered_rows`, `buffered_bytes`, `terminal` | `push_batch`, `read_until`, `page_with_format` | `ResultHandle` |
| Paged query service | `lib.rs` 857-1035 | `sessions` (a mutex), `query_semaphore` (16 permits), `next_query_id`, an async mutex around each handle, a cancellation token per session | `query_start`, `query_page`, `query_cancel` | `QuerySessions` |
| Source registry | `lib.rs` 362-678, 1040-1387; `engine.rs` 536-623, 797-991 | `engine.catalog`, `database_sources`, `engine.table_registry`, `schema_cache` (four read-write locks), `next_source_generation` | `register_*`, `remove_source`, just-in-time registration of the tables a query names, `execution_context` | `SourceRegistry` |
| Table listing | `lib.rs` 1048-1233, connectors, `dataSourcesProvider.ts` | the tables listed at registration; the pages the tree has loaded | `list_source_tables`, `getChildren`, `loadMoreTables` | `Tables` |
| Table references | `table_refs.rs` | none | `extract_database_table_refs` | `TableRefs` |
| Broadcast rewrite | `broadcast.rs` | none between queries | `apply_broadcast_rewrites` | `BroadcastRewrite` |
| Scan guard | `engine.rs` 115-250, 1321-1332 | a budget per table | `scan` | `ScanGuard` |
| Fixed-width files | `fixed_width.rs` | the layout; reader position, `rows_emitted`, `done` | `validate`, `scan`, `next_batch` | `FixedWidth` |
| Explain | `explain.rs`, `lib.rs` 679-839 | none between requests | `explain_query`, with `analyze` an execution | `PlanGraph`, `Explain` |
| Lineage | `engine.rs` 1109-1172, 1512-1760 | none between requests | `get_lineage` | `Lineage`, `Explain` |
| Connectors | `qsql-connectors` | a connection or pool per provider | `table_provider`, `list_tables_page`, `explain_query` | `Tables`, `Explain`, in part |
| JSON-RPC transport | `lib.rs` 174-256, `daemonClient.ts` | pending requests, one receive buffer, the current process | `sendRequest`, `processBuffer`, `start`, `stop` | `DaemonClient` |
| Source profiles | `sourceManager.ts`, commands of `extension.ts` | stored profiles, secrets, replay errors | `addSource`, `removeSource`, `replaySources`, attach, remove, restart | `SourceProfiles` |
| Panels and views | `extension.ts`, `webviewPanel.ts`, `planVisualizationPanel.ts`, `lineageProvider.ts` | one result panel, one plan panel, one view | run, next page, cancel, explain | none |
| Text and type helpers | `detectQueries`, redaction, `sql_types.rs`, `sql.rs` | none | pure functions | `FixedWidth`, in part |

### 1.2 How they interact

The daemon reads requests on one thread and spawns a task per request
(`dispatch_frame`), so that every pair of handlers may interleave at every
`.await` and between every two critical sections; responses leave in the order
the tasks end, one at a time under the stdout mutex. A query task first ensures
that the database tables it names are in the table registry (which finds their
names with a walk over the text and awaits the databases), then takes a permit,
plans on a snapshot of the registry, rewrites joins (which reads the local sides),
publishes a session, and reads its first page under the handle's lock. Page
requests find the session, take a permit, and queue on that lock. Cancellation
removes the session and fires its token, which the reader polls beside the
stream. Explain and lineage plan in the same way; explain then asks each database
for its own plan, under a timeout.

The extension starts the daemon and replays its stored sources into it, one
request each; it does so again after every change of its settings. An attach
or remove command tells the daemon first and the stores afterwards.

### 1.3 What is hard, and what makes each part correct

| Component | Hard part | Correct when |
|---|---|---|
| Result handle | short and empty batches, limits, errors and timeouts between two polls, a retry of a page | pages are exact windows of the result, repeatable, and the buffer is bounded |
| Query service | some fifteen exits of two handlers; cancellation between lookup and lock; waiting with a permit | permits and locks balance, no session is orphaned, a cancelled query is not read and frees its waiters |
| Source registry | five critical sections per removal; a registration held across an await; check, then insert | a schema is never believed of another database; the tables agree; a removal spares others |
| Table references, listing | a walk of its own beside the planner's; exact and caseless names; a probe of limit + 1 against a live list; racing clicks | listed tables can be queried, exact names win, the tree ends, and ends complete |
| Broadcast rewrite | null keys, casts, caps, nested joins, a key set read before the join runs | the join's result is unchanged, and never has more rows |
| Fixed-width files | limits and blank lines at batch boundaries, offsets that overflow | each line once, up to the limit; errors only for a cause |
| Explain, lineage | awaits between plan, graph and cards; three walks over two plans; a cut graph | the answer is of one moment, what is shown on a node belongs to it, and it arrives |
| Transport | chunks end anywhere; two processes, one buffer; exit and restart race | every response is read, a crash settles every request |
| Profiles | two stores and a daemon changed one after the other, across awaits; reload and restart anywhere | the daemon has what the stores say; what is finished is durable |

`PROJECT.json` lists each hazard at its line with the properties that cover it.

## 2. The modules

    Pages                     pages as windows of a result
      PagedResult             what the query service promises
      ResultHandle            the handle as data: operators on a record
        QuerySessions         the service: tasks, permits, locks, streams
          MCQuerySessions
          QuerySessionsProofs the handle, the invariants, the promise
    SourceRegistry            the registry
      MCSourceRegistry
      SourceRegistryProofs    types, generations, schemas, agreement of the tables
    Words                     words compared without case
    Trees                     trees as sequences of nodes, and their preorder
      TableRefs               names in a text, found by the walk and by the planner
        Tables                one database: listing, names, the tree
          TablesProofs        walks, exact names, complete trees, queries on listed tables
          MCTables            texts and a database
    BroadcastRewrite          the pass over a plan, and what plans mean
      MCBroadcastRewrite
      BroadcastRewriteProofs  the account the pass gives of itself, and its rows
    FixedWidth                layouts, and scans in batches
      MCFixedWidth
      FixedWidthProofs        disjoint columns, exact scans, causes of errors
      PlanGraph               plans, the graph, what is shown on its nodes
        Lineage               the walk that collects a lineage
          Explain             the requests (with ScanGuard as an instance)
            MCExplain
            ExplainProofs     the walks in closed form; graph, cards, counts, SQL, lineage
    ScanGuard                 the budget of a scan
    DaemonClient              the transport
      DaemonClientProofs      framing
    SourceProfiles            profiles, secrets and the daemons that are told of them
      MCSourceProfiles
      SourceProfilesProofs    agreement of daemon and stores, durability

Definitions that are called a faulty form of another are wrong on purpose.
Nothing uses them: they are the plausible bugs against which each property is
tested (`mutants` in `PROJECT.json`: put in place of the definition they are a
form of, the property named there fails).

### 2.1 ResultHandle

A handle is a record of the four fields the pages depend on. Rows are numbered
by their position in the query's result, so that a page shows which rows it
holds; the queue of batches is flattened, because the encoders walk it without
looking at its boundaries. `PushBatch` is `push_batch` with its order of things:
count, compare, then queue or refuse. `PageRows`, `SliceLen` and `IsLast` are
the window arithmetic of `page_with_format`, which trusts the counters and not
the queue; `EncodeFails` is its one failure that depends on the rows.

`usize` saturates in the code and is unbounded here: counters would have to
reach 2^64 to differ. The page-size limits come from environment variables; they
are assumed positive, as their defaults are.

### 2.2 QuerySessions

A task is at a point (`pc`) between two things it does without interruption:

| `pc` | the task is about to | code |
|---|---|---|
| `ensure` | await the registration of its tables | `lib.rs` 870 |
| `plan` | await the plan, holding a permit | 886-897 |
| `find` | look its session up, holding a permit | 953 |
| `wait` | lock the handle | 913, 989 |
| `read` | poll the stream in `read_until`, holding the lock | `engine.rs` 458-497 |

One action is one such segment with all that the code does in it:
`PlanSucceeds` builds the handle and publishes the session; `LockRefused` is the
run from the lock to the early errors of `page_with_format`; `PollBatch`,
`PollError` and `PollEnd` are what the stream may answer; `ReadCancelled` and
`ReadTimesOut` the other branches of the select; `PageReturned` and
`EncodingFails` the end. `Fail` is every error exit: it drops the lock guard and
the permit and, in `query_start` once the session is published, the session.
The client may send a page request or a cancellation for any id at any time.

The stream is external: it may yield batches of any size, empty ones too, fail
any number of times, end, or never answer. The order in which tasks get a
handle's lock is left open (the code's mutex is fair; no property needs that).
`query_start` locks its own handle like anyone else, since the session is
public by then. `reply` and `told` are history: what each task last answered,
and the ids that clients have been given.

### 2.3 PagedResult, the promise

What is left of the service when tasks, permits, locks, streams, batches and
buffers are taken away: a session per query that is unused, open or closed; the
request each client is being served; the result as far as it is known; the page
each client was last given. A session is opened once, with a request for its
first page, and closed once; only a request that finds it open is served; rows
are pulled only for a request that is being served; a request is answered with
the page it asked for, exact with respect to the result, or refused.

`QuerySessions` implements it under this mapping: a task serves from the moment
it has cloned the session's handle (`wait`, `read`), not from the lock; a session
is open while it is in the table, unused while its id is not given out or its
plan is being made, closed afterwards; the result is what the stream has
yielded, intact as long as no batch was refused. So a page may still be answered
after a cancellation, to a request that came before it: that is the code's
behaviour (`read_until` polls the token only while it waits for rows), and the
promise says no more.

### 2.4 SourceRegistry

The five tables a source lives in are five variables (the table registry is two
here, qualified entries of databases and bare entries of files). A step is one
critical section or one await of the handlers. `RegisterDatabase`,
`TablesListed`, `SourceInserted` stand for the four `register_*` handlers of
databases, which differ in parsing and in the external call only. Removing takes
`RemoveSource` (read the catalog), `Deregister`, `Uncatalogue`, `Forget`,
`ClearCache`. A query goes through its references one by one: `Find`,
`CheckRegistered` or `CheckMissing`, `CacheLookup`, `ProviderBuilt` (an await,
which may fail), `CacheSchema`, `RecheckRegistered` or `RecheckMissing`,
`TableInserted`, and in the end `Planned` on a snapshot.

A database is its endpoint, and the schema of its tables is named by the
endpoint too: what matters is whose schema a provider believes in. `Spellings`
are the names queries write for a table; the registry is keyed by the spelling
and the cache by the listed name, as in the code. Aliases are taken to differ by
more than their case. `overlapped` is history: the names about which two
requests have ever been in flight at once. `TablesAgree` and `RemovedNotQueried`
leave out names that are used for files and databases both: the catalog has one
entry for such a name, `remove_source` goes by it, and the tables of the other
kind stay registered.

### 2.5 DaemonClient

Both sides of the pipe. A response is a header of four units ("Content-", "Length:
n", and two newlines) and a body of one or more; the daemon writes units one at a
time under its stdout lock and may be killed between any two; a chunk that the
client receives ends after any unit, between the two newlines too. The client's
handlers are steps, `Data` with the whole loop of `processBuffer` (`ProcessBuffer`
is a recursive function). Its branches are those of `FrameEnd`: a whole header takes
the bytes it announces whatever they are (`HasHeader`); a buffer that starts like a
header, but does not have all of it, waits (`StartsHeader`, `daemonClient.ts`
168-170; the mutant `FrameEndByLine` is without that branch); anything else, such as
half of "Content-Length:" or what is left of another daemon's frame, is taken up to
the next newline, which only headers contain, or waits for one. An empty line is
skipped. `Restart` is `stop()` and `start()`, which run in one turn of
the event loop; the killed process exits later (`Exit`), its stdout drains, and
then it closes.

A spawn that fails is not modelled, nor is the daemon's reader: it has one
writer, which writes whole frames.

### 2.6 TableRefs and Tables

`TableRefs` has the walk of `table_refs.rs` over the syntax tree, and beside it a
reference: the names that DataFusion's planner resolves for the same text (`Needs`,
external). A text is a sequence of nodes, each with the numbers of its parts, and both
walks are preorders of it (`Trees`). `Visited` has, kind of node by kind of node, where
the code's functions call each other, in their order; `Parts` is what there is to visit.
The CTE names that the code passes down are those of the queries it came through
(`Scope`), and its list of references with the set of those it has seen is a function
from the places of the walk at which a new one is met. The two walks differ where the
code's does not go (the ON of a join, GROUP BY and ORDER BY, arguments of calls and
casts, statements that are not queries) and where it reads names in another way (three
parts, a CTE that has the alias's name, letters that the planner takes in lower case).
`HidesName` says that of a text, and `WalkFindsNeeds` that they differ nowhere else.
(`Words` is comparison without case.)

`Tables` is one database, which may change, and the three ways in which its
tables are known: the list taken at registration, cut at `ListLimit` with a
probe of one more; `registered`, the table that each spelling is read from; and
the tree's pages. `Query` goes through the references of a text in order, and
stops in the middle as the code does, leaving what was registered. `TableOf` is
the exact match and then the caseless one. In the tree, `Click` is
`loadMoreTables` up to its await and `PageArrives` the rest: the list that was
read before the await is what is written. `RefreshTree` may find the daemon
silent, in which case the profile is shown without tables. `promised` is history:
what the database had when the list was begun.

The handlers of the daemon are single steps here: how they interleave is what
`SourceRegistry` is about.

### 2.7 BroadcastRewrite

A plan is a sequence of nodes in the order of the walk, each a scan or a join of
two nodes before it (`IsJoin`); `RowsOf` says, by recursion over the nodes, what rows
every node has, in DataFusion's semantics of joins, NULLs and casts, so that a
plan before and after can be compared. One action per exit of `try_rewrite_join`:
`ConsiderJoin` with the early reasons in the order of the code, then, when the
keys of the local side are in, `KeysCancelled`, `KeysFail`, `KeysExceedCap`,
`NoKeys`, `KeysUnsupported`, `OnlyNullKeys` or `RewriteJoin`. `LocalChange` writes
a local table between two of them, or before the plan runs. A query fails where
DataFusion cannot build a node again over its inputs (`RebuildFails`) or the filter
over the remote side (`Abandon`). Filters and
projections between joins are left out, as is the residual filter of a join,
which the rewrite copies; rows are sets, so duplicates are not told apart.

### 2.8 FixedWidth and ScanGuard

`Register` validates a layout pair by pair, with offsets computed modulo `Wrap` (2^64
in the code). `NextBatch` reads up to the line that fills a batch or ends it
(`StopsAt`), skipping blank ones (`FullLines`), and builds its columns in turn, each
by slicing every line first and parsing afterwards, so that the outcome of a batch
(rows, an error, or a panic on a slice whose end lies before its start) is that of
the first column that fails. A byte is a digit, a letter, a blank, or half of a
two-byte character, which is all that slicing, trimming and parsing distinguish here.

`ScanGuard` is `check_budget` with its estimate. `Explain` uses it for the scans
of a plan that is made or refused.

### 2.9 PlanGraph, Lineage and Explain

What DataFusion makes of a query is given: the plan before and after
optimisation, the rewrites that were applied, the physical plan with the SQL
that was captured. A plan is a sequence of nodes, each with the numbers of its
inputs, which come before it, and the root is the last. So a walk over a plan is
a function of the node's number that is defined by its values for the inputs, and
can be proved about. `QueriesAssumption` says that plans are such trees, and that
a SQL that is sent reads tables of the plan it is of.

A SQL is what is in its text as far as `sql_references_table` sees it: the names in
quotes, those between two spaces, in a string literal too, and the pairs of a schema
and a name with a dot between them (`References`). The schema is the one that the
table's database was registered with, in the copy of the registrations that the
explain goes by (`SchemaOf`).

`PlanGraph` is the walk that builds the graph (`Traverse`), and what it shows on a
node: broadcast badge, provider, SQL, full scan and its reason, sort; then the
second walk that hands out the counts of an ANALYZE by position (`Measured`).
`Added` is what one call of `traverse_plan` adds to a graph that has n nodes, and
`AfterInputs` its loop; the cap on nodes is checked where the code checks it, on
entry and before each input. `Lineage` is `walk_lineage`, node by node over the plan in
preorder (`Builders`), once over each plan of a query, and `primary_table` from each
node (`PrimaryTables`). Columns have their relation's name as the planner gives it;
that of what an aggregate computes is empty.

`Explain` is the handler with its awaits as steps, `Ensure`, `Plan`,
`PhysicalPlan`, `BuildGraph`, one per card, and the end, while sources are
registered anew (as another kind of database with another schema, too) and removed
in between. A card waits for its database or for the timeout; that of a SQLite file
is a call without an await (`FileExplained`), which no timeout ends. An answer keeps
what its graph and cards were made from. Badges, sorts, full scans and their reasons
are there because they are part of what the walk puts on a node and of what the
second walk must leave alone; no property is about what they say.

### 2.10 SourceProfiles

A step is what the extension does between two awaits, or what the daemon, the
secret store or the disk does for it. A command first has the daemon register or
remove (`DaemonRegisters`, `DaemonRemoves`, which may fail), then changes the
stores: `AddSource` reads the list, `SecretStored`, `SaveProfile` writes the list
that was read, `Flushed`. A removal that fails anywhere is tried once more from
the start, as in the `catch` of the command. `Restart` cuts off what waits for
the old daemon; `Reload` cuts off everything and reads the disk. A replay is one
little process per profile, which reads its secret and registers the source with
the daemon that is in use by then. Commands exist once `activate` has replayed.

`upset` is history, and the excuse of both properties: names of which a command
failed or was cut off halfway, that two commands or a command and a replay
dealt with at the same time, or whose change was written over by a list that
another command had read before. What is left to say is the cross-effects: a
command about one name, interleaved with anything about others, in any order with
restarts and reloads, leaves daemon and stores in agreement about it.

## 3. What TLC checks

| Run | Instance | Distinct states | Shows |
|---|---|---|---|
| `sessions` | 3 tasks, 2 permits, 1 query of at most 1 row that may stall, with and without timeouts, fairness | 177k | `TypeOK`, `PermitAccounting`, `LockHeldByReader`, `NoOrphanSession`, `CancelUnblocks`, `TimeoutEndsRead` |
| `paging` | 2 tasks, 1 query, 4 rows in batches of 0 to 2, limits 3 rows and 3 bytes, pages of 1 to 2 rows (3 is clamped) | 352k | `BufferBounded`, `HandleInv`, `ExactPages`, `RepeatablePages`, `CancelledNotRead`, `PromiseKept` |
| `sources` | 2 requests, a file and an alias, 2 databases, 2 spellings, 2 registrations | 781k | `TypeOK`, `SchemaOfItsSource`, `GenerationIdentifies`, `TablesAgree`, `RemovedNotQueried`, `OthersSpared` |
| `tables` | 4 tables, two of them differing by case and one internal, lists of 2, pages of 1, 13 texts, 2 clicks, 1 change, fairness | 272k | `ListedIsQueryable`, `ExactNameWins`, `TreeComplete`, `LoadMoreEnds` |
| `broadcast` | 13 plans of 1 or 2 joins over 5 tables, at most 3 values and NULL, a cap of 2 keys, 1 change of a local table | 26k | `RewriteKeepsResult`, `RewriteNarrows`, `AccountsForJoins` |
| `file_scan` | 9 layouts, files of up to 4 lines of 6 kinds, batches of 2, limits 0 to 3 and none, fairness | 23k | `ScanIsExact`, `FailsForCause`, `ColumnsDisjoint`, `ScanEnds` |
| `explain` | 10 queries over 2 databases, one of them SQLite, and a file, graphs of at most 4 nodes, 2 requests, fairness | 43k | `GraphIsPlan`, `CardsAgree`, `MetricsOnOwnNode`, `SqlOfItsScan`, `LineageResolves`, `ExplainAnswers` |
| `transport` | 2 daemons, 2 requests, headers of 4 units, bodies of 1 or 2, fairness | 97k | `FramingKept`, `ResponsesRead`, `CrashRejects` |
| `profiles` | 2 names, one with a secret, 3 commands of which 2 at a time, 1 restart or reload | 2.5M | `ProfilesAgree`, `FinishedIsDurable` |

Each property is stated with its meaning in its module. In short: every exit
gives back what it took; pages are exact and repeatable however requests for
them interleave, fail and are repeated; a cancellation frees whoever waits; the
service implements its abstract specification. No schema is believed of the
wrong database; the tables of the registry agree whenever requests about a
source did not overlap, and a removal touches nothing else. A listed table can
be queried wherever the walk looks, and is the table of that name; the tree ends
and misses nothing. A rewritten join has the rows it had. A scan yields each
line once and fails only for a cause. The graph is the plan, and an explain is of
one moment and arrives. A response that was written is read. And the daemon comes
to have what the profiles say.

Three runs are expected to fail, each on one property that a text of the
repository states and the code does not keep (`findings` in `PROJECT.json`):

| Run | Property | What happens |
|---|---|---|
| `over_budget` | `OverBudgetIsError` | a refused batch is counted, so a later page is answered with rows missing |
| `reconnect` | `ReconnectedIsFresh` | a re-registered alias is still read through its old providers |
| `parity` | `Parity` | a join that matches NULL with NULL loses those rows to the rewrite |

### 3.1 Bounds, and why they are enough

Every bound is a constant of its module.

* Query service: two tasks show every race between a holder of a lock and one
  that waits, three tasks with two permits every race for a permit that the third
  is refused. Four rows with batches of up to two and pages of one or two rows
  give every alignment of batch and page boundaries, including pages past the end;
  limits of three rows and three bytes are crossed in the middle, by rows and by
  bytes, and reads go on after the refusal.
* Registry: two registrations of one alias are what a stale cache entry, a stale
  provider and a stale registration need; two spellings of one table are two
  registry entries for one cache entry.
* Tables: a list of two of three tables is cut, one of two is not; pages of one
  table make a list of three clicks, of which two may be pending at a time, which
  is what puts an older list back. The texts have one name in each part of a
  statement that the walk visits, and one in each that it does not.
* Broadcast: three keys exceed the cap of two by the one that the probe asks for;
  the contents have no key, only NULL, NULL among keys, and keys that do not match.
  The plans have each kind of join that is skipped, and a rewritten join below,
  above and beside another.
* Fixed-width: batches of two lines and limits to three put the end of the file,
  the limit, blank lines and an unreadable line before, on and behind a batch's end.
* Explain: two requests, since the answer of one must not depend on another; plans
  of four nodes and more meet the cap of four exactly and exceed it; the SQLs name
  their tables in quotes, between spaces, and after a schema that one of the two
  registrations of the alias has and the other has not.
* Transport: two processes with a response each give every splice of an old frame's
  rest, header or body, with a new header and a new body; two responses of one
  process are read from one chunk, or cut anywhere; headers of four units have a cut
  in the middle of "Content-Length:", after it, and between the newlines.
* Profiles: two names are the one a command is about and another; with three
  commands a name can be attached, changed or removed and attached again while
  another command is under way; one restart or reload between any two steps shows
  what is lost with the process. Activation and the restart use the same replay.

The proofs of section 4 do not depend on any of them.

TLC checks for deadlock in `sessions`, `paging` and `sources`, where a request can
always be made. The other systems may stop, and their configurations say so: a
walk, a scan or a plan comes to its end, or the clients have sent what the bound
lets them send.

### 3.2 Fairness

`QuerySessions!FairSpec` makes the steps fair that the runtime takes by itself:
a task whose lock is free, whose timer has fired, whose token has been
cancelled, or whose page is ready goes on. Polling the stream, planning and
ensuring tables are not fair: a database may never answer. Hence `CancelUnblocks`
is about stalled streams, as it should be, and there is no property that every
query ends. `DaemonClient!FairSpec` makes the event loop deliver what is in a
pipe and the close of a process that is dead; no daemon is bound to answer.
`Tables!Spec` has a user who goes on clicking while "Load more" is offered, and a
database that, asked again and again, does not fail for ever (strong fairness of
`PageListed`); its other steps are not fair. `FixedWidth!Spec` has a consumer that
polls the stream, as the engine does until it ends. `Explain!Spec` makes the
handler's own steps fair and, of the explains that it sends to databases, only the
timeouts, and for SQLite files the return of the call. So `ExplainAnswers` rests on two
things the code does not enforce: that ensuring and planning end, with or without
success (there is no timeout around `Ensure`, `Plan` and `PhysicalPlan` in the
handler), and that SQLite returns: `SqliteConnector::explain_query` awaits nothing, so
the timeout around it cannot fire (`sqlite.rs` 69-110).
`SourceRegistry`, `BroadcastRewrite` and `SourceProfiles` have no liveness
property: nothing there waits but for databases, the daemon or VS Code.

### 3.3 Known divergences without a run

Met while modelling; each is left out of, or excused in, the properties above.

* A stream error is not remembered (`engine.rs` 479): a page asked for again after
  it is cut from what was buffered and marked as the last.
* A provider that is being built when its source is removed is registered
  afterwards (`engine.rs` 934) and stays until the alias is removed again. A database
  that is registered while its alias is removed may be left with a registration and
  no catalog entry. `TablesAgree` and `RemovedNotQueried` therefore leave out the names
  whose requests have overlapped, which is where these races are;
  `SchemaOfItsSource`, `GenerationIdentifies` and `OthersSpared` do not.
* Requests pending when `stop()` forgets the process never settle
  (`daemonClient.ts` 96); a test has the name "Should have rejected pending request
  when daemon closed" (`test/client.test.ts` 288), of a daemon that exits by itself.
  The receive buffer outlives the process: a response cut off by a restart swallows
  the first responses of the next daemon (`daemonClient.ts` 86).
* An empty projection, `COUNT(*)` over a fixed-width file, cannot be built into a
  batch and fails on valid lines (`fixed_width.rs` 531).
* The code -32100 of the scan guard never reaches a client: DataFusion puts
  "Execution error:" before the mark that `query_execution_error` looks for at the
  start (`engine.rs` 1282). `ANALYZE` has no timeout.
* Names that are hidden from the table walk (2.6) make a query on a listed table
  fail unless another query has registered it.
* Where the list of a database is cut, or its tables change and it is registered
  again, `orders` may be read from `Orders`; after a DROP the count that was taken
  at registration keeps "Load more" offered (`lib.rs` 1086).
* A SQL is shown for a table whose name it mentions in any way, as a column, in a
  string, or as another database's table, though the comments speak of "the SQL's FROM
  clause" (`explain.rs` 285, 370); `SqlOfItsScan` has that as its hypothesis.
* The lineage has the aggregates of the first node that has any, and one relation
  for all tables of one name. The source of `SUM(o.id) AS total` is the aggregate's own
  column, of a table without a name, though the sources are said to be the columns that
  contribute (`engine.rs` 1836): the column it reads is under `aggregates` only. Of two
  tables with one alias, in the legs of a UNION, the alias stands for the last, which the
  optimiser may have left out.
* A sort above sorted and limited subqueries is shown as pushed down, though the
  engine does it (`explain.rs` 843). Raw plans are cut at a byte, which panics
  within a character (`explain.rs` 899). A card may be explained on a newer
  connection than the plan was made on.
* Attaching a file under the name of a database leaves its secret in the store;
  attaching again leaves an old replay error on show.
* Two commands that overlap lose each other's profile; a command that is cut off
  halfway leaves daemon, secrets and profiles apart; a source attached while a restart
  replays may be stored but unknown to the daemon (`sourceManager.ts` 42-80).
  `ProfilesAgree` and `FinishedIsDurable` excuse the names of these (`upset`).

## 4. What is proved

`QuerySessionsProofs` proves, for every set of tasks (finite where permits are
counted), any number of queries and permits, any limits and page sizes, any
stream and any batch sizes:

| Theorem | States |
|---|---|
| `TypeCorrect` | `[]TypeOK` |
| `PermitsAccounted` | `[]PermitAccounting` |
| `LockCorrect` | `[]LockHeldByReader` |
| `NoOrphans` | `[]NoOrphanSession` |
| `CancelledNeverRead` | `CancelledNotRead`, an action property |
| `HandleCorrect` | `[]HandleInv` |
| `Bounded` | `[]BufferBounded` |
| `Exact` | `[]ExactPages` |
| `Repeatable` | `[]RepeatablePages` |
| `Implements` | `PromiseKept`: the service implements `PagedResult` |

`SourceRegistryProofs` proves, for every finite set of tasks and any sets of
aliases, files, databases, tables, spellings and queries:

| Theorem | States |
|---|---|
| `RegistryTypes` | `[]TypeOK` |
| `SchemasStay` | `[]SchemaOfItsSource` |
| `GenerationsIdentify` | `[]GenerationIdentifies` |
| `SparesOthers` | `OthersSpared`, an action property |
| `SourcesAgree` | `[]TablesAgree` |
| `RemovedStaysOut` | `[]RemovedNotQueried` |

The other components, for any names, attachments, commands, restarts and reloads;
any plans, contents of tables and caps; any layouts, files, batch sizes and limits;
any number of daemons and requests and any lengths of responses; any database, list
and page limits, and clicks; any queries, kinds of database and limits on nodes:

| Theorem | States |
|---|---|
| `StoresAgree` (`SourceProfilesProofs`) | `[]ProfilesAgree` |
| `FinishedSurvives` (`SourceProfilesProofs`) | `[]FinishedIsDurable` |
| `JoinsAccountedFor` (`BroadcastRewriteProofs`) | `[]AccountsForJoins` |
| `ResultKept` (`BroadcastRewriteProofs`) | `[]RewriteKeepsResult` |
| `ResultNarrowed` (`BroadcastRewriteProofs`) | `[]RewriteNarrows` |
| `ColumnsAreDisjoint` (`FixedWidthProofs`) | `[]ColumnsDisjoint` |
| `ScanIsAlwaysExact` (`FixedWidthProofs`) | `[]ScanIsExact` |
| `FailsForCauseAlways` (`FixedWidthProofs`) | `[]FailsForCause` |
| `FramingKeptAlways` (`DaemonClientProofs`) | `[]FramingKept` |
| `ExactNameWinsAlways` (`TablesProofs`) | `[]ExactNameWins` |
| `TreeCompleteAlways` (`TablesProofs`) | `[]TreeComplete` |
| `WalkFindsNeeds` (`TablesProofs`) | in a text that hides no name the walk finds what the planner needs, each once |
| `ListedIsQueryableAlways` (`TablesProofs`) | `[]ListedIsQueryable` |
| `GraphIsPlanAlways` (`ExplainProofs`) | `[]GraphIsPlan` |
| `CardsAgreeAlways` (`ExplainProofs`) | `[]CardsAgree` |
| `MetricsOnOwnNodeAlways` (`ExplainProofs`) | `[]MetricsOnOwnNode` |
| `SqlOfItsScanAlways` (`ExplainProofs`) | `[]SqlOfItsScan` |
| `LineageResolvesAlways` (`ExplainProofs`) | `[]LineageResolves` |

The assumptions are those the modules name: limits are numbers, default and
maximum page size are positive, the constants that stand for "nothing" are
different from everything else, `Tasks` is finite, the joins of a plan are of nodes
before them, the plans of `Explain` are trees whose SQL reads their own tables, files
are sequences of lines of bytes, layouts sequences of fields with
offsets that are numbers, a database is finite and its order of names is one, and
texts are trees of the syntax's nodes.

The argument about the query service has four layers, each inductive given the
ones before.

1. `TypeInv` is `TypeOK` with `RequestInv`: at each point a task's request has
   the fields its next step reads. `TypeOK` alone is not inductive, because a
   step may use a query or a page size that only an earlier step has set.
   Permits, locks and sessions follow from `TypeInv` one invariant at a time;
   the permit count rests on how a task's move changes the cardinality of the
   set of holders (`HoldersMove`).
2. `HandleInv` ties each handle to its stream: `buffered_rows` is what the
   stream has yielded, `terminal` is whether it has ended, and `WellBuffered`
   says that the queue is a prefix of the result as long as the counters agree
   with it, and that once they do not, a counter is over its limit. The last
   conjunct is what makes it inductive: after a refusal every later batch is
   refused too, so nothing is queued behind a gap. `PushBatchBuffers` is the step
   for one batch.
3. `PageInv` says that every page a task has answered is the page that would be
   cut from the handle now. It is inductive because a page is only cut when the
   rows it needs, and one more, have been counted or the stream has ended, and
   no later batch changes that prefix (`PageRowsStable`). `Exact` and
   `Repeatable` follow: the first from `CutPageExact`, the second because two
   answers to one request are both the page cut now.
4. `PlanInv` says that an id is planned by one task, has been given out, and has
   neither a session nor a server yet: without it an id could be opened twice,
   or a session that fails could go back to "unused". With it every step maps to
   one of the promise or to none, one lemma per action of either side
   (`ForgetStep`, `AdmittedStep`, `PlanFailsStep`, ... `PromiseStep`). That a
   refused batch spoils a result for good is `OverflowKept`; that a page answers
   its request is `CutPageExact`, shared with `Exact`.

`ExactPages` excludes overflowed handles, and must: `over_budget` shows the
page that is not exact then. `RepeatablePages` holds of those too.

The argument about the registry has three.

1. `RegistryInv` is `TypeOK` with `Shape`, what is known of a request from its
   point, and `Counted`, which says that a generation is left for each
   registration under way. `StepMoves` reduces a step to one task's move from a
   point and a request in shape to another.
2. `Identity` is about claims. A registration, a provider in the registry, a
   cache entry, and whatever a request holds across an await, each claim that a
   generation stands for an alias and a database; a schema is such a claim of
   the database it was read from. No two claims contradict each other and none
   is of a generation to come. Every step but `SourceInserted` only copies
   claims, and that one makes a claim of a generation that is new. A cached
   schema can only be believed of another database if two claims contradict.
3. `DatabaseAt` and `FileAt` say in what way the tables of a name disagree at
   each point of the one request about it, `DatabasesAgree` and `FilesAgree`
   that they hold while requests about the name have not overlapped. `Apart`
   and `OneOwner` give the request its name to itself, and `Spared` keeps other
   requests off it. `UnknownMissing` carries "no registration was found" from
   `FindNothing` to `Planned`.

The argument about the profiles is about one name at a time, so that it does not
depend on how many there are. `NameInv` says of a name that is not excused:
either no command is about it, and it is `Settled` (disk and memory agree, a keyed
profile has its secret, every replay of it carries what the stores say, and the
daemon has that or nothing, nothing only while a replay is to come or after one
failed), or one command is, `Alone`, with no replay near, and its step says how far
daemon and stores have come (`Underway`). Neither property is inductive without
the second half: half-way through a command the two stores disagree. `SparedKeeps`
is why the steps about other names do no harm: all they can do to this one is to
write its profile to disk, or to overwrite it, and then it is excused. `OwnStep` is
the step of its own command.

`JoinsAccountedFor` carries the account through the walk, and with it that the part
of the plan which the walk has not reached is still the query's: without that a join
could be taken for one that was rewritten before.

What the rewrite does to the rows is `RowsInv`. Its first part, `Rewritten`, is
about the plan alone: node by node it is the query, but that a side of a join may be
a filter over what the query has there, or nothing. That is enough for
`ResultNarrowed`, by induction over the nodes: a filtered side has fewer rows, and
the join keeps its own condition, so no row is new. For `ResultKept` the second
part, `Exact`, says more of every filter: what it takes away finds no partner on the
other side, with the contents the tables have. It is inductive because a filter is made of
all keys of a local side, read under the cap from a subplan which by the same
invariant has the rows of the query, and it is lost only when a local table changes.
A recursive function exists only if it is shown to: `SchemaOf` and `RowsOf` take the
value of a node from nodes before it (`Layered`), which an induction turns into the
equations that everything else uses.

`ColumnsAreDisjoint` rests on the layout being one that passed the validation, which
compares every two fields, in either order. `ScanInv`, behind the other two theorems
about scans, says that the rows emitted are those of the full lines among the
first `position` of the file, of which there are no more than the limit. A batch
adds those up to where it stops. `FullLines` is cut at any place into what comes
before it and after, which is the lemma that lines are neither lost nor repeated at
a batch's end.

`FramingKeptAlways` is about streams, cut anywhere. What the client holds of a
process's output, what is in its pipe and what the daemon is writing are, one after
the other, whole frames, as long as nothing has been cut; the client's buffer is the
beginning of a single frame, of its header or more, of a single process; and each
process answers requests that were sent to it (`Owned`), which is how the buffer's
owner is known. The parse of a chunk is a loop over frames: it takes every whole one
off and leaves what does not end (`ProcessFrames`), by induction over the length of
the buffer; that it leaves a part of a header is the branch which waits
(`StartsHeader`), and without a newline before its third unit it is not taken for a
line either. A restart keeps all this or cuts a frame, and then the property says no
more.

`ExactNameWinsAlways` rests on `ExactInv`: while the database does not change, the
list is what listing would give again, and what was registered for a name in it is the
table of that name. `TreeCompleteAlways` rests on `TreeInv`: the tree's list, and the
list that each pending click has read, miss no promised table whose place in the order
of pages is within their length (`ListOK`), and a page says truly whether more follow. That a page
begins where the list ends is counting: the place of a name (`Rank`) is the number of
names up to it, so a list of n is the first n names, and the lemmas are about
cardinalities of such sets.

`ListedIsQueryableAlways` is little more than `WalkFindsNeeds`, which is about texts
alone. From a node the walk meets the node and what it meets from each node it goes on
to (`TextOrders`, from the preorder's equation), and the kinds of nodes are gone through
once, to show that every part is either gone on to or passed by (`NodeParts`). Two
inductions over the numbers of the nodes follow: the walk stays within the text
(`WalkStays`), so it finds no table that is not needed, and it meets every name of a
table unless one is below a part that some node passes by (`WalkMeets`), so it misses
none. What it leaves out as seen is there before, at the first such place (`RefsMet`).

The theorems about explains have two parts about walks and one about requests.

1. Walks. `PreOrder` is unfolded once and for all: below a node come its inputs, one
   after the other (`PreOrderNext`, `UnderNext`). `Part` is in closed form what a call
   of `traverse_plan` adds: the first so many nodes of that preorder, as many as there
   is room for, each with the links that fit. `TraverseIs` says that the walk adds
   just that, by induction over the plan with the loop over the inputs inside it
   (`AfterInputsIs`), where an input is added whole, in part (`OneMoreRoom`) or not at
   all (`OneMoreFull`). The second walk goes over the links of the graph, which are
   those of the plan without the ones that were left out. It meets the nodes in the
   order of their numbers (`VisitAll`), because the nodes below a node are the ones
   numbered right after it (`Contiguous`), however the graph was cut. Hence each node
   is given its own count, and without it the counts of a truncated graph could shift.
2. Lineage. What the walk has built after some nodes is a matter of which nodes those
   are (`HasNoted`): the relations have the columns of their scans, each alias is that
   of one of its nodes, each join that of a join. `OneMoreNoted` is the step for one
   node, and `BuilderIs` goes along the preorder. The name of a node is that of a table
   below it, or the alias of something without one, and there is none only where
   neither is (`NamesAreRight`, by induction over the plan; `PrimaryTablesAre` shows
   that there are names at all). An alias that stands on a table is given that
   table's name (`AliasStands`), so that a source column is found by it.
3. Requests. `ExplainInv` says what a request has at each step and what an answer has
   in the end: registrations that were copied once, and cards for some of the tables
   that are read and registered there, each with the kind of that copy. An answer is
   given when no card is pending, so that a scan whose table has no card has no
   registration either; then `ProviderKind` falls back on the SQL. It is the copy that
   makes this inductive, and reading the sources again for the cards (the mutant
   `RegistrationsNow`) breaks it.

`SqlOfItsScan` follows from what `RemoteSql` picks (`SqlSent`): a SQL that mentions
the table's name in one of the three ways. Since that is a match of words anywhere in
the text, the property has hypotheses on names: different tables of a query have different names,
and no SQL mentions a table of the query that it does not read (`Mentioned`). It says
both that the SQL that is shown reads the table and that one is shown for a table that
is quoted in a SQL that reads it.

Induction. The induction theorems of the prover's library take an operator as a
parameter, which the installed back ends cannot instantiate. The proofs here go by
sets instead: a set of numbers without a least member is empty (`LeastMember`, from
the well-foundedness of `<` on `Nat`), and a set that has 0 and every successor is
`Nat` (`Induct`). These few lemmas are stated in each module that needs them.

Only model-checked:

* the liveness properties `CancelUnblocks`, `TimeoutEndsRead`, `LoadMoreEnds`,
  `ScanEnds`, `ResponsesRead`, `CrashRejects` and `ExplainAnswers`, which
  TLAPS 1.4.5 cannot prove.

What DataFusion's optimiser does between the two plans of a query is assumed nowhere.
So `LineageResolves` speaks of source columns whose relation stands for a table that
the optimised plan reads them of: a column that the optimiser has left out (`WHERE
FALSE`), or that a subquery or VALUES yields, has no relation to be found in.

## 5. What is not modelled, and why

* Cell values, the bytes of Arrow and JSON, wording, logging, the redaction of
  credentials, the detection of queries in an editor: data that no property here
  tells apart, or pure text.
* The panels (`webviewPanel.ts`, `planVisualizationPanel.ts`) and the lineage view:
  nothing in the code ties an answer to the run that asked for it, and no text says
  what should be shown when answers overtake each other. A model would have no
  property to check.
* The drivers' I/O and their conversion of types: a connector appears by the tables
  it lists, the provider it builds and the plan it explains, each of which may fail.
* DataFusion, Node and VS Code: external, modelled by what the code relies on (a
  stream that yields, fails or ends; a plan with its rewrites; stdout chunks and a
  close event after the last of them; two stores that are written when awaited).
* A daemon that cannot be spawned, and the daemon's reader: it has one writer, which
  writes whole frames.
* A client that never cancels leaves sessions in the daemon for good. Nothing
  bounds the table and nothing promises a bound, so no property is stated.
* A name used for a file and a database both: which of the two should win is said
  nowhere.

## 6. What is left

1. `DaemonClient`, `SourceRegistry` and `SourceProfiles` are checked one by one: the
   daemon of `SourceProfiles` is a function from names to attachments. Composing it
   with `SourceRegistry` would show that a replay into a registry in use keeps
   `TablesAgree`.
2. `ScanGuard` without statistics never refuses. When a connector reports them its
   boundary cases deserve a property.
