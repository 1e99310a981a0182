--------------------------- MODULE SourceRegistry ---------------------------
(***************************************************************************)
(* The data sources of qsql-daemon.  A source lives in up to five tables,  *)
(* each behind a lock of its own: the engine's catalog, the daemon's       *)
(* database registrations, the engine's table registry (qualified entries  *)
(* of databases, bare entries of files), and the daemon's schema cache.    *)
(* Requests that register, remove and query sources run concurrently; one  *)
(* critical section, or one await, is one step here.                       *)
(*                                                                         *)
(* Databases and files are external.  A database is its endpoint; since a  *)
(* schema is only passed around, the schema of any of its tables is        *)
(* denoted by the endpoint as well.  Aliases are taken to differ by more   *)
(* than their case.                                                        *)
(***************************************************************************)
EXTENDS Naturals, Sequences, FiniteSets

CONSTANTS
  Tasks,          \* request tasks that may be alive at the same time
  DatabaseNames,  \* aliases a client registers databases under
  FileNames,      \* names a client registers files under
  Endpoints,      \* external: the databases
  Tables,         \* names the databases list their tables under
  Spellings,      \* names that queries write
  Listing,        \* external: the table each endpoint has for a spelling
  Queries,        \* the qualified table references of each query
  MaxGeneration,  \* bound: registrations made
  None            \* no entry

Names == DatabaseNames \cup FileNames

Refs == DatabaseNames \X Spellings

ASSUME TasksAssumption == IsFiniteSet(Tasks)

ASSUME ListingAssumption ==
  Listing \in [Endpoints -> [Spellings -> Tables \cup {None}]]

ASSUME QueriesAssumption == Queries \subseteq Seq(Refs)

ASSUME NoneAssumption ==
  /\ MaxGeneration \in Nat
  /\ None \notin Names \cup Tables \cup Endpoints \cup {"file"}
  /\ "file" \notin Endpoints

Generations == 1..MaxGeneration

\* DatabaseRegistration.
Registration == [generation : Generations, endpoint : Endpoints]

\* A provider reads the tables of its endpoint, believing in its schema.
Provider == [generation : Generations, endpoint : Endpoints, schema : Endpoints]

ASSUME NoneRecords == None \notin Registration \cup Provider

VARIABLES
  pc,              \* where each task is: see Points
  op,              \* the request of each task, and what it has read
  catalog,         \* engine.catalog: an endpoint, "file", or None
  sources,         \* database_sources
  tables,          \* engine.table_registry, its qualified entries
  files,           \* engine.table_registry, its bare entries
  cache,           \* schema_cache
  nextGeneration,  \* next_source_generation
  answer,          \* history: providers the last query of a task was planned on
  overlapped       \* history: names on which two requests have overlapped

vars == <<pc, op, catalog, sources, tables, files, cache, nextGeneration,
          answer, overlapped>>

stores == <<catalog, sources, tables, files, cache, nextGeneration>>

-----------------------------------------------------------------------------
(* Types.                                                                  *)

Points == {"idle",
           "list", "listed",                     \* registering a database
           "load", "loaded",                     \* registering a file
           "deregister", "uncatalogue", "forget", "clear",   \* removing
           "find", "check", "lookup", "introspect", "cache", "recheck",
           "insert", "plan"}                     \* querying

Op == [names    : SUBSET Names,        \* the names the request is about
       name     : Names \cup {None},
       endpoint : Endpoints \cup {"file", None},
       query    : Queries \cup {<< >>},
       refs     : Seq(Refs),           \* references still to be ensured
       held     : Registration \cup {None},
       provider : Provider \cup {None},
       schema   : Endpoints \cup {None},
       unknown  : BOOLEAN]             \* a reference had no registration

NoOp == [names |-> {}, name |-> None, endpoint |-> None, query |-> << >>,
         refs |-> << >>, held |-> None, provider |-> None, schema |-> None,
         unknown |-> FALSE]

CacheKeys == DatabaseNames \X Generations \X Tables

Answer == [names : SUBSET Names, providers : SUBSET Provider, unknown : BOOLEAN]

TypeOK ==
  /\ pc \in [Tasks -> Points]
  /\ op \in [Tasks -> Op]
  /\ catalog \in [Names -> Endpoints \cup {"file", None}]
  /\ sources \in [DatabaseNames -> Registration \cup {None}]
  /\ tables \in [Refs -> Provider \cup {None}]
  /\ files \in [FileNames -> BOOLEAN]
  /\ cache \in [CacheKeys -> Endpoints \cup {None}]
  /\ nextGeneration \in 1..(MaxGeneration + 1)
  /\ answer \in [Tasks -> Answer]
  /\ overlapped \in SUBSET Names

NoAnswer == [names |-> {}, providers |-> {}, unknown |-> FALSE]

Init ==
  /\ pc = [t \in Tasks |-> "idle"]
  /\ op = [t \in Tasks |-> NoOp]
  /\ catalog = [n \in Names |-> None]
  /\ sources = [n \in DatabaseNames |-> None]
  /\ tables = [r \in Refs |-> None]
  /\ files = [n \in FileNames |-> FALSE]
  /\ cache = [k \in CacheKeys |-> None]
  /\ nextGeneration = 1
  /\ answer = [t \in Tasks |-> NoAnswer]
  /\ overlapped = {}

-----------------------------------------------------------------------------
(* Requests.                                                               *)

Begin(t, point, request) ==
  /\ pc[t] = "idle"
  /\ pc' = [pc EXCEPT ![t] = point]
  /\ op' = [op EXCEPT ![t] = request]
  /\ answer' = [answer EXCEPT ![t] = NoAnswer]
  /\ overlapped' = overlapped \cup
       {n \in request.names : \E u \in Tasks \ {t} : n \in op[u].names}

Goto(t, from, to) ==
  /\ pc[t] = from
  /\ pc' = [pc EXCEPT ![t] = to]
  /\ UNCHANGED <<answer, overlapped>>

End(t) ==
  /\ pc' = [pc EXCEPT ![t] = "idle"]
  /\ op' = [op EXCEPT ![t] = NoOp]
  /\ UNCHANGED <<answer, overlapped>>

\* Any request may fail, or time out, where it awaits an external source.
AwaitFails(t) ==
  /\ pc[t] \in {"list", "load", "introspect"}
  /\ End(t)
  /\ UNCHANGED stores

-----------------------------------------------------------------------------
(* register_sqlite, register_postgres, register_mysql, register_mariadb.   *)

Registering == {t \in Tasks : pc[t] \in {"list", "listed"}}

RegisterDatabase(t) ==
  /\ nextGeneration + Cardinality(Registering) <= MaxGeneration
  /\ \E n \in DatabaseNames, e \in Endpoints :
       Begin(t, "list", [NoOp EXCEPT !.names = {n}, !.name = n, !.endpoint = e])
  /\ UNCHANGED stores

\* The tables have been listed: the catalog is written first ...
TablesListed(t) ==
  /\ Goto(t, "list", "listed")
  /\ catalog' = [catalog EXCEPT ![op[t].name] = op[t].endpoint]
  /\ UNCHANGED <<op, sources, tables, files, cache, nextGeneration>>

\* A faulty form: every registration has the same generation.
SourceReinserted(t) ==
  /\ pc[t] = "listed"
  /\ sources' = [sources EXCEPT ![op[t].name] =
                   [generation |-> nextGeneration, endpoint |-> op[t].endpoint]]
  /\ End(t)
  /\ UNCHANGED <<catalog, tables, files, cache, nextGeneration>>

\* ... and then the registration, its generation taken under the write lock.
SourceInserted(t) ==
  /\ pc[t] = "listed"
  /\ sources' = [sources EXCEPT ![op[t].name] =
                   [generation |-> nextGeneration, endpoint |-> op[t].endpoint]]
  /\ nextGeneration' = nextGeneration + 1
  /\ End(t)
  /\ UNCHANGED <<catalog, tables, files, cache>>

-----------------------------------------------------------------------------
(* register_file.                                                          *)

RegisterFile(t) ==
  /\ \E n \in FileNames :
       Begin(t, "load", [NoOp EXCEPT !.names = {n}, !.name = n])
  /\ UNCHANGED stores

FileLoaded(t) ==
  /\ Goto(t, "load", "loaded")
  /\ catalog' = [catalog EXCEPT ![op[t].name] = "file"]
  /\ UNCHANGED <<op, sources, tables, files, cache, nextGeneration>>

FileInserted(t) ==
  /\ pc[t] = "loaded"
  /\ files' = [files EXCEPT ![op[t].name] = TRUE]
  /\ End(t)
  /\ UNCHANGED <<catalog, sources, tables, cache, nextGeneration>>

-----------------------------------------------------------------------------
(* remove_source: five critical sections.                                  *)

\* A faulty form: every source is deregistered as if it were a file.
DeregisterTable(t) ==
  /\ Goto(t, "deregister", "uncatalogue")
  /\ files' = [m \in FileNames |-> m # op[t].name /\ files[m]]
  /\ UNCHANGED <<op, catalog, sources, tables, cache, nextGeneration>>

\* What the catalog says of the name decides what is deregistered.
RemoveSource(t) ==
  /\ \E n \in Names :
       Begin(t, "deregister", [NoOp EXCEPT !.names = {n}, !.name = n,
                                           !.endpoint = catalog[n]])
  /\ UNCHANGED stores

\* deregister_schema for a database, deregister_table for anything else.
Deregister(t) ==
  LET n == op[t].name
  IN  /\ Goto(t, "deregister", "uncatalogue")
      /\ IF op[t].endpoint \in Endpoints
         THEN /\ tables' = [r \in Refs |-> IF r[1] = n THEN None ELSE tables[r]]
              /\ UNCHANGED files
         ELSE /\ files' = [m \in FileNames |-> m # n /\ files[m]]
              /\ UNCHANGED tables
      /\ UNCHANGED <<op, catalog, sources, cache, nextGeneration>>

Uncatalogue(t) ==
  /\ Goto(t, "uncatalogue", "forget")
  /\ catalog' = [catalog EXCEPT ![op[t].name] = None]
  /\ UNCHANGED <<op, sources, tables, files, cache, nextGeneration>>

\* A faulty form: the registration outlives the source.
KeepRegistration(t) ==
  /\ Goto(t, "forget", "clear")
  /\ UNCHANGED <<op, stores>>

Forget(t) ==
  /\ Goto(t, "forget", "clear")
  /\ sources' = [n \in DatabaseNames |->
                   IF n = op[t].name THEN None ELSE sources[n]]
  /\ UNCHANGED <<op, catalog, tables, files, cache, nextGeneration>>

\* A faulty form: removing a source drops what was cached for all of them.
ClearAll(t) ==
  /\ pc[t] = "clear"
  /\ cache' = [k \in CacheKeys |-> None]
  /\ End(t)
  /\ UNCHANGED <<catalog, sources, tables, files, nextGeneration>>

\* clear_schema_cache_for_source: the entries of every generation.
ClearCache(t) ==
  /\ pc[t] = "clear"
  /\ cache' = [k \in CacheKeys |-> IF k[1] = op[t].name THEN None ELSE cache[k]]
  /\ End(t)
  /\ UNCHANGED <<catalog, sources, tables, files, nextGeneration>>

-----------------------------------------------------------------------------
(* ensure_database_tables_registered, for query_start, explain and lineage.*)

Query(t) ==
  /\ \E query \in Queries :
       Begin(t, "find", [NoOp EXCEPT !.names = {query[i][1] : i \in DOMAIN query},
                                     !.query = query, !.refs = query])
  /\ UNCHANGED stores

Ref(t) == Head(op[t].refs)
Name(t) == Ref(t)[1]
Table(t) == Listing[op[t].held.endpoint][Ref(t)[2]]

\* A faulty form: the cache is keyed by alias and table only.
UngeneratedKey(t) == <<Name(t), 1, Table(t)>>

CacheKey(t) == <<Name(t), op[t].held.generation, Table(t)>>

\* The reference is dealt with.
NextRef(t, from) ==
  /\ Goto(t, from, "find")
  /\ op' = [op EXCEPT ![t] = [@ EXCEPT !.refs = Tail(op[t].refs), !.held = None,
                                       !.provider = None, !.schema = None]]

\* find_database_registration: an alias without a registration is skipped.
FindNothing(t) ==
  /\ pc[t] = "find" /\ op[t].refs # << >>
  /\ sources[Name(t)] = None
  /\ pc' = pc
  /\ op' = [op EXCEPT ![t] = [@ EXCEPT !.refs = Tail(op[t].refs),
                                       !.unknown = TRUE]]
  /\ UNCHANGED <<stores, answer, overlapped>>

\* A table that the registration does not list is an error.
FindUnlisted(t) ==
  /\ pc[t] = "find" /\ op[t].refs # << >>
  /\ sources[Name(t)] # None
  /\ Listing[sources[Name(t)].endpoint][Ref(t)[2]] = None
  /\ End(t)
  /\ UNCHANGED stores

\* The registration is shared: the task holds it whatever becomes of the
\* source.
Find(t) ==
  /\ op[t].refs # << >>
  /\ sources[Name(t)] # None
  /\ Listing[sources[Name(t)].endpoint][Ref(t)[2]] # None
  /\ Goto(t, "find", "check")
  /\ op' = [op EXCEPT ![t].held = sources[Name(t)]]
  /\ UNCHANGED stores

\* table_registered_in_schema looks at the name, not at the generation.
CheckRegistered(t) ==
  /\ NextRef(t, "check")
  /\ tables[Ref(t)] # None
  /\ UNCHANGED stores

CheckMissing(t) ==
  /\ Goto(t, "check", "lookup")
  /\ tables[Ref(t)] = None
  /\ UNCHANGED <<op, stores>>

\* cached_schema; an entry may have outlived SCHEMA_CACHE_TTL.
CacheLookup(t) ==
  /\ Goto(t, "lookup", "introspect")
  /\ \/ /\ op' = [op EXCEPT ![t].schema = cache[CacheKey(t)]]
        /\ UNCHANGED cache
     \/ /\ op' = [op EXCEPT ![t].schema = None]
        /\ cache' = [cache EXCEPT ![CacheKey(t)] = None]
  /\ UNCHANGED <<catalog, sources, tables, files, nextGeneration>>

\* A faulty form: the source is not asked when nothing was cached.
ProviderUnasked(t) ==
  LET held == op[t].held
  IN  /\ Goto(t, "introspect", "cache")
      /\ op' = [op EXCEPT ![t].provider = [generation |-> held.generation,
                                           endpoint |-> held.endpoint,
                                           schema |-> op[t].schema]]
      /\ UNCHANGED stores

\* table_provider: a cached schema is believed, otherwise the source's is used.
ProviderBuilt(t) ==
  LET held == op[t].held
      schema == IF op[t].schema # None THEN op[t].schema ELSE held.endpoint
  IN  /\ Goto(t, "introspect", "cache")
      /\ op' = [op EXCEPT ![t].provider = [generation |-> held.generation,
                                           endpoint |-> held.endpoint,
                                           schema |-> schema]]
      /\ UNCHANGED stores

CacheSchema(t) ==
  /\ Goto(t, "cache", "recheck")
  /\ cache' = [cache EXCEPT ![CacheKey(t)] = op[t].provider.schema]
  /\ UNCHANGED <<op, catalog, sources, tables, files, nextGeneration>>

\* register_schema_table: the check and the insertion are separate sections.
RecheckRegistered(t) ==
  /\ NextRef(t, "recheck")
  /\ tables[Ref(t)] # None
  /\ UNCHANGED stores

RecheckMissing(t) ==
  /\ Goto(t, "recheck", "insert")
  /\ tables[Ref(t)] = None
  /\ UNCHANGED <<op, stores>>

TableInserted(t) ==
  /\ NextRef(t, "insert")
  /\ tables' = [tables EXCEPT ![Ref(t)] = op[t].provider]
  /\ UNCHANGED <<catalog, sources, files, cache, nextGeneration>>

\* execution_context: the query is planned on a snapshot of the registry, and
\* fails if a table is missing from it.
Planned(t) ==
  LET read == {tables[op[t].query[i]] : i \in DOMAIN op[t].query}
  IN  /\ pc[t] = "find" /\ op[t].refs = << >>
      /\ pc' = [pc EXCEPT ![t] = "idle"]
      /\ op' = [op EXCEPT ![t] = NoOp]
      /\ answer' = [answer EXCEPT ![t] =
           [names |-> op[t].names,
            providers |-> IF None \in read THEN {} ELSE read,
            unknown |-> op[t].unknown]]
      /\ UNCHANGED <<stores, overlapped>>

-----------------------------------------------------------------------------
(* Specification.                                                          *)

Register(t) ==
  \/ RegisterDatabase(t) \/ TablesListed(t) \/ SourceInserted(t)
  \/ RegisterFile(t) \/ FileLoaded(t) \/ FileInserted(t)

Remove(t) ==
  \/ RemoveSource(t) \/ Deregister(t) \/ Uncatalogue(t) \/ Forget(t)
  \/ ClearCache(t)

Ensure(t) ==
  \/ Query(t) \/ FindNothing(t) \/ FindUnlisted(t) \/ Find(t)
  \/ CheckRegistered(t) \/ CheckMissing(t) \/ CacheLookup(t)
  \/ ProviderBuilt(t) \/ CacheSchema(t)
  \/ RecheckRegistered(t) \/ RecheckMissing(t) \/ TableInserted(t)
  \/ Planned(t)

Step(t) == Register(t) \/ Remove(t) \/ Ensure(t) \/ AwaitFails(t)

Next == \E t \in Tasks : Step(t)

Spec == Init /\ [][Next]_vars

-----------------------------------------------------------------------------
(* Safety.                                                                 *)

\* The schema of one database is never believed of another: neither a cached
\* schema nor a provider built from one outlives, in use, the registration it
\* was read for, whatever registrations replaced it in between.
SchemaOfItsSource ==
  \A r \in Refs : tables[r] # None => tables[r].schema = tables[r].endpoint

\* A generation names one registration: a provider, a registration in the
\* table and one that a request still holds agree on the database whenever
\* they agree on the generation, though they were read at different times.
GenerationIdentifies ==
  \A n \in DatabaseNames, r \in Refs, t \in Tasks :
    /\ sources[n] # None /\ tables[r] # None
         /\ sources[n].generation = tables[r].generation
       => sources[n].endpoint = tables[r].endpoint /\ r[1] = n
    /\ op[t].held # None /\ tables[r] # None
         /\ op[t].held.generation = tables[r].generation
       => op[t].held.endpoint = tables[r].endpoint
    /\ op[t].held # None /\ sources[n] # None
         /\ op[t].held.generation = sources[n].generation
       => op[t].held.endpoint = sources[n].endpoint

\* No request about n is in flight, and no two requests about it have ever
\* overlapped.
Undisturbed(n) == n \notin overlapped /\ \A t \in Tasks : n \notin op[t].names

\* The five tables agree about a source that requests have used one at a
\* time, under a name that is not used for files and databases both: what was
\* removed, even half-way through earlier failures, has left nothing behind.
TablesAgree ==
  /\ \A n \in DatabaseNames \ FileNames : Undisturbed(n) =>
       /\ catalog[n] = IF sources[n] = None THEN None ELSE sources[n].endpoint
       /\ sources[n] = None => /\ \A r \in Refs : r[1] = n => tables[r] = None
                               /\ \A k \in CacheKeys : k[1] = n => cache[k] = None
  /\ \A n \in FileNames \ DatabaseNames : Undisturbed(n) =>
       files[n] <=> catalog[n] = "file"

\* A query of a source that was removed before it started reads nothing of
\* it, unless some request about the source overlapped another, or its name
\* is used for files as well.
RemovedNotQueried ==
  \A t \in Tasks :
    answer[t].unknown /\ answer[t].names \cap (overlapped \cup FileNames) = {} =>
      answer[t].providers = {}

\* A step changes entries only of the names its request is about: removing
\* one source, with its loops over whole tables, spares all the others.
OthersSpared ==
  [][\A n \in Names : (\A t \in Tasks : n \notin op[t].names) =>
       /\ catalog'[n] = catalog[n]
       /\ n \in FileNames => files'[n] = files[n]
       /\ n \in DatabaseNames =>
            /\ sources'[n] = sources[n]
            /\ \A r \in Refs : r[1] = n => tables'[r] = tables[r]
            /\ \A k \in CacheKeys : k[1] = n => cache'[k] = cache[k]]_vars

-----------------------------------------------------------------------------
(* What the project's texts say and the code does not do.                  *)

\* "Fix catalog/JIT TOCTOU by storing registrations as
\* Arc<DatabaseRegistration> with generation counters and refusing stale
\* retries after removal or reconnect" (implementation_plan.md).  A query that
\* starts after the alias was registered anew goes on reading the database
\* the alias stood for before: the tables are looked up by name alone.
ReconnectedIsFresh ==
  \A n \in DatabaseNames, r \in Refs :
    Undisturbed(n) /\ r[1] = n /\ tables[r] # None =>
      sources[n] # None /\ tables[r].generation = sources[n].generation
=============================================================================
