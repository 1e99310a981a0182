------------------------ MODULE SourceRegistryProofs ------------------------
(* The safety of the source registry for any number of tasks, aliases,      *)
(* files, databases, tables, queries and registrations.                     *)
EXTENDS SourceRegistry, FiniteSetTheorems, SequenceTheorems, TLAPS

-----------------------------------------------------------------------------
(* What is known of a request from where it is.                            *)

Removing == {"deregister", "uncatalogue", "forget", "clear"}

Built == {"cache", "recheck", "insert"}

\* A registration is held across these points, two awaits among them.
Holding == {"check", "lookup", "introspect"} \cup Built

NothingHeld(o) == o.held = None /\ o.provider = None /\ o.schema = None

\* The references still to be ensured are some of the query's, and the request
\* is about the aliases of all of them.
Asks(o) ==
  /\ \A i \in DOMAIN o.refs : \E j \in DOMAIN o.query : o.refs[i] = o.query[j]
  /\ \A j \in DOMAIN o.query : o.query[j][1] \in o.names

Shaped(p, o) ==
  /\ p = "idle" => o = NoOp
  /\ p \in {"list", "listed"} => /\ o.names = {o.name}
                                 /\ o.name \in DatabaseNames
                                 /\ o.endpoint \in Endpoints
  /\ p \in {"load", "loaded"} => o.names = {o.name} /\ o.name \in FileNames
  /\ p \in Removing => o.names = {o.name}
  /\ p \in Holding \cup {"find"} => Asks(o)
  /\ p \notin Holding \cup {"find"} => ~ o.unknown
  /\ p \in Holding => /\ o.refs # << >>
                      /\ o.held \in Registration
                      /\ Listing[o.held.endpoint][Head(o.refs)[2]] # None
  /\ p \notin Holding => NothingHeld(o)
  /\ p \in Built => /\ o.provider \in Provider
                    /\ o.provider.generation = o.held.generation
  /\ p \notin Built => o.provider = None

Shape == \A t \in Tasks : Shaped(pc[t], op[t])

\* Every registration under way will find a generation that is not used.
Counted == nextGeneration + Cardinality(Registering) <= MaxGeneration + 1

RegistryInv == TypeOK /\ Shape /\ Counted

\* An idle task has asked nothing.
LEMMA NoOpType == NoOp \in Op
<1>1. << >> \in Seq(Refs)
  BY EmptySeq
<1>2. QED
  BY <1>1 DEF NoOp, Op

\* Every entry of a queue of references is one, and so are those behind it.
LEMMA RefsType ==
  ASSUME NEW refs \in Seq(Refs), refs # << >>
  PROVE  /\ Head(refs) \in Refs
         /\ Tail(refs) \in Seq(Refs)
         /\ Head(refs) = refs[1]
         /\ 1 \in DOMAIN refs
         /\ \A i \in DOMAIN Tail(refs) : /\ i + 1 \in DOMAIN refs
                                         /\ Tail(refs)[i] = refs[i + 1]
<1>1. Len(refs) \in Nat \ {0}
  BY EmptySeq
<1>2. QED
  BY <1>1

-----------------------------------------------------------------------------
(* A step is one of one task, and leaves its request in shape.             *)

Moves(t, p, o) ==
  /\ pc' = [pc EXCEPT ![t] = p]
  /\ op' = [op EXCEPT ![t] = o]
  /\ p \in Points
  /\ o \in Op
  /\ Shaped(p, o)

\* The first reference is of the query, and so are those behind it.
LEMMA AsksNext ==
  ASSUME NEW o \in Op, Asks(o), o.refs # << >>
  PROVE  /\ Head(o.refs) \in Refs
         /\ Head(o.refs)[1] \in o.names
         /\ \E j \in DOMAIN o.query : Head(o.refs) = o.query[j]
         /\ Tail(o.refs) \in Seq(Refs)
         /\ \A i \in DOMAIN Tail(o.refs) :
              \E j \in DOMAIN o.query : Tail(o.refs)[i] = o.query[j]
<1>1. o.refs \in Seq(Refs)
  BY DEF Op
<1>2. QED
  BY <1>1, RefsType DEF Asks

\* A task whose request has ended is idle.
LEMMA EndMoves ==
  ASSUME NEW t \in Tasks, End(t)
  PROVE  Moves(t, "idle", NoOp)
<1>1. Shaped("idle", NoOp)
  BY DEF Shaped, NoOp, NothingHeld, Holding, Built, Removing
<1>2. QED
  BY <1>1, NoOpType DEF End, Moves, Points

\* The steps that register a source.
LEMMA RegisterMoves ==
  ASSUME RegistryInv, NEW t \in Tasks, Register(t)
  PROVE  \E p, o : Moves(t, p, o)
<1>. USE DEF RegistryInv, TypeOK, Shape
<1>0. Shaped(pc[t], op[t]) /\ op[t] \in Op /\ pc[t] \in Points
  OBVIOUS
<1>1. CASE RegisterDatabase(t)
  <2>1. PICK n \in DatabaseNames, e \in Endpoints :
          Begin(t, "list", [NoOp EXCEPT !.names = {n}, !.name = n, !.endpoint = e])
    BY <1>1 DEF RegisterDatabase
  <2>. DEFINE o == [NoOp EXCEPT !.names = {n}, !.name = n, !.endpoint = e]
  <2>2. o \in Op
    BY NoOpType DEF Op, Names
  <2>3. Shaped("list", o)
    BY DEF Shaped, NoOp, NothingHeld, Holding, Built, Removing
  <2>4. QED
    BY <2>1, <2>2, <2>3 DEF Begin, Moves, Points
<1>2. CASE TablesListed(t)
  <2>1. pc[t] = "list" /\ pc' = [pc EXCEPT ![t] = "listed"] /\ op' = op
    BY <1>2 DEF TablesListed, Goto
  <2>2. Shaped("listed", op[t])
    BY <1>0, <2>1 DEF Shaped, Holding, Built, Removing
  <2>3. QED
    BY <1>0, <2>1, <2>2 DEF Moves, Points
<1>3. CASE SourceInserted(t)
  BY <1>3, EndMoves DEF SourceInserted
<1>4. CASE RegisterFile(t)
  <2>1. PICK n \in FileNames :
          Begin(t, "load", [NoOp EXCEPT !.names = {n}, !.name = n])
    BY <1>4 DEF RegisterFile
  <2>. DEFINE o == [NoOp EXCEPT !.names = {n}, !.name = n]
  <2>2. o \in Op
    BY NoOpType DEF Op, Names
  <2>3. Shaped("load", o)
    BY DEF Shaped, NoOp, NothingHeld, Holding, Built, Removing
  <2>4. QED
    BY <2>1, <2>2, <2>3 DEF Begin, Moves, Points
<1>5. CASE FileLoaded(t)
  <2>1. pc[t] = "load" /\ pc' = [pc EXCEPT ![t] = "loaded"] /\ op' = op
    BY <1>5 DEF FileLoaded, Goto
  <2>2. Shaped("loaded", op[t])
    BY <1>0, <2>1 DEF Shaped, Holding, Built, Removing
  <2>3. QED
    BY <1>0, <2>1, <2>2 DEF Moves, Points
<1>6. CASE FileInserted(t)
  BY <1>6, EndMoves DEF FileInserted
<1>7. QED
  BY <1>1, <1>2, <1>3, <1>4, <1>5, <1>6 DEF Register

\* The steps that remove a source.
LEMMA RemoveMoves ==
  ASSUME RegistryInv, NEW t \in Tasks, Remove(t)
  PROVE  \E p, o : Moves(t, p, o)
<1>. USE DEF RegistryInv, TypeOK, Shape
<1>0. Shaped(pc[t], op[t]) /\ op[t] \in Op /\ pc[t] \in Points
  OBVIOUS
<1>1. CASE RemoveSource(t)
  <2>1. PICK n \in Names :
          Begin(t, "deregister", [NoOp EXCEPT !.names = {n}, !.name = n,
                                              !.endpoint = catalog[n]])
    BY <1>1 DEF RemoveSource
  <2>. DEFINE o == [NoOp EXCEPT !.names = {n}, !.name = n, !.endpoint = catalog[n]]
  <2>2. o \in Op
    BY NoOpType DEF Op, Names
  <2>3. Shaped("deregister", o)
    BY DEF Shaped, NoOp, NothingHeld, Holding, Built, Removing
  <2>4. QED
    BY <2>1, <2>2, <2>3 DEF Begin, Moves, Points
<1>2. CASE ClearCache(t)
  BY <1>2, EndMoves DEF ClearCache
<1>3. ASSUME NEW p, NEW q, p \in Removing, q \in Removing, Goto(t, p, q), op' = op
      PROVE  Moves(t, q, op[t])
  <2>1. Shaped(q, op[t])
    BY <1>0, <1>3 DEF Shaped, Goto, Holding, Built, Removing
  <2>2. QED
    BY <1>0, <1>3, <2>1 DEF Moves, Points, Goto, Removing
<1>4. CASE Deregister(t)
  BY <1>3, <1>4 DEF Deregister, Removing
<1>5. CASE Uncatalogue(t)
  BY <1>3, <1>5 DEF Uncatalogue, Removing
<1>6. CASE Forget(t)
  BY <1>3, <1>6 DEF Forget, Removing
<1>7. QED
  BY <1>1, <1>2, <1>4, <1>5, <1>6 DEF Remove

\* While a registration is held, there is a reference to deal with, and its
\* cache key is one.
LEMMA CacheKeyType ==
  ASSUME NEW t \in Tasks, op[t] \in Op, Shaped(pc[t], op[t]), pc[t] \in Holding
  PROVE  /\ Ref(t) \in Refs
         /\ Name(t) \in DatabaseNames
         /\ Name(t) \in op[t].names
         /\ op[t].held \in Registration
         /\ CacheKey(t) \in CacheKeys
         /\ CacheKey(t)[1] = Name(t)
         /\ CacheKey(t)[2] = op[t].held.generation
<1>1. /\ op[t].refs \in Seq(Refs) /\ op[t].refs # << >>
      /\ op[t].held \in Registration
      /\ Listing[op[t].held.endpoint][Head(op[t].refs)[2]] # None
      /\ Asks(op[t])
  BY DEF Shaped, Op
<1>2. /\ Ref(t) \in Refs
      /\ Name(t) \in DatabaseNames /\ Name(t) \in op[t].names
      /\ Ref(t)[2] \in Spellings
  BY <1>1, AsksNext DEF Ref, Name, Refs
<1>3. Table(t) \in Tables
  BY <1>1, <1>2, ListingAssumption DEF Table, Ref, Registration
<1>4. QED
  BY <1>1, <1>2, <1>3 DEF CacheKey, CacheKeys, Registration

\* A reference that is dealt with is taken off, and nothing is held for it.
LEMMA NextRefMoves ==
  ASSUME RegistryInv, NEW t \in Tasks, NEW p \in Holding, NextRef(t, p)
  PROVE  \E o : Moves(t, "find", o)
<1>. DEFINE o == op[t]
            m == [o EXCEPT !.refs = Tail(o.refs), !.held = None, !.provider = None,
                           !.schema = None]
<1>1. /\ pc[t] = p /\ pc' = [pc EXCEPT ![t] = "find"]
      /\ op' = [op EXCEPT ![t] = m]
      /\ o \in Op /\ Shaped(p, o)
  BY DEF NextRef, Goto, RegistryInv, TypeOK, Shape
<1>2. o.refs # << >> /\ Asks(o)
  BY <1>1 DEF Shaped
<1>3. m \in Op
  BY <1>1, <1>2, AsksNext DEF Op
<1>4. /\ m.refs = Tail(o.refs) /\ m.query = o.query /\ m.names = o.names
      /\ NothingHeld(m)
  BY <1>1 DEF Op, NothingHeld
<1>5. Shaped("find", m)
  <2>1. Asks(m)
    <3>. HIDE DEF m
    <3>1. \A i \in DOMAIN m.refs : \E j \in DOMAIN m.query : m.refs[i] = m.query[j]
      BY <1>1, <1>2, <1>4, AsksNext
    <3>2. QED
      BY <1>2, <1>4, <3>1 DEF Asks
  <2>2. QED
    BY <1>4, <2>1 DEF Shaped, NothingHeld, Holding, Built, Removing
<1>6. QED
  BY <1>1, <1>3, <1>5 DEF Moves, Points

\* The steps that query sources.
LEMMA EnsureMoves ==
  ASSUME RegistryInv, NEW t \in Tasks, Ensure(t)
  PROVE  \E p, o : Moves(t, p, o)
<1>. DEFINE o == op[t]
<1>0. /\ Shaped(pc[t], o) /\ o \in Op /\ pc[t] \in Points
      /\ pc \in [Tasks -> Points] /\ op \in [Tasks -> Op]
  BY DEF RegistryInv, TypeOK, Shape
<1>1. CASE Query(t)
  <2>1. PICK query \in Queries :
          Begin(t, "find", [NoOp EXCEPT !.names = {query[i][1] : i \in DOMAIN query},
                                        !.query = query, !.refs = query])
    BY <1>1 DEF Query
  <2>. DEFINE n == [NoOp EXCEPT !.names = {query[i][1] : i \in DOMAIN query},
                                !.query = query, !.refs = query]
  <2>2. query \in Seq(Refs)
    BY QueriesAssumption
  <2>3. \A i \in DOMAIN query : query[i][1] \in DatabaseNames
    BY <2>2 DEF Refs
  <2>4. n \in Op
    BY <2>2, <2>3, NoOpType, ZenonT(60) DEF Op, Names
  <2>5. Shaped("find", n)
    <3>1. /\ n.refs = query /\ n.query = query /\ n.unknown = FALSE
          /\ n.names = {query[i][1] : i \in DOMAIN query}
          /\ NothingHeld(n)
      BY DEF NoOp, NothingHeld
    <3>2. Asks(n)
      BY <3>1 DEF Asks
    <3>3. QED
      BY <3>1, <3>2 DEF Shaped, NothingHeld, Holding, Built, Removing
  <2>6. QED
    BY <2>1, <2>4, <2>5 DEF Begin, Moves, Points
<1>2. CASE FindNothing(t)
  <2>. DEFINE m == [o EXCEPT !.refs = Tail(o.refs), !.unknown = TRUE]
  <2>1. /\ pc[t] = "find" /\ o.refs # << >>
        /\ pc' = [pc EXCEPT ![t] = "find"]
        /\ op' = [op EXCEPT ![t] = m]
    BY <1>0, <1>2 DEF FindNothing
  <2>2. Asks(o) /\ NothingHeld(o)
    BY <1>0, <2>1 DEF Shaped, Holding, Built
  <2>3. m \in Op
    BY <1>0, <2>1, <2>2, AsksNext DEF Op
  <2>4. /\ m.refs = Tail(o.refs) /\ m.query = o.query /\ m.names = o.names
        /\ NothingHeld(m)
    BY <1>0, <2>2 DEF Op, NothingHeld
  <2>5. Shaped("find", m)
    <3>1. Asks(m)
      BY <1>0, <2>1, <2>2, <2>4, AsksNext DEF Asks
    <3>2. QED
      BY <2>4, <3>1 DEF Shaped, NothingHeld, Holding, Built, Removing
  <2>6. QED
    BY <2>1, <2>3, <2>5 DEF Moves, Points
<1>3. CASE FindUnlisted(t)
  BY <1>3, EndMoves DEF FindUnlisted
<1>4. CASE Find(t)
  <2>. DEFINE m == [o EXCEPT !.held = sources[Name(t)]]
  <2>1. /\ pc[t] = "find" /\ o.refs # << >>
        /\ pc' = [pc EXCEPT ![t] = "check"]
        /\ op' = [op EXCEPT ![t] = m]
        /\ sources[Name(t)] # None
        /\ Listing[sources[Name(t)].endpoint][Ref(t)[2]] # None
    BY <1>4 DEF Find, Goto
  <2>2. Ref(t) = Head(o.refs) /\ Ref(t) \in Refs /\ Name(t) \in DatabaseNames
    BY <1>0, <2>1, AsksNext DEF Ref, Name, Shaped, Refs
  <2>3. sources[Name(t)] \in Registration
    BY <2>1, <2>2 DEF RegistryInv, TypeOK
  <2>4. m \in Op
    BY <1>0, <2>3 DEF Op
  <2>5. /\ m.held = sources[Name(t)]
        /\ m.refs = o.refs /\ m.names = o.names /\ m.provider = o.provider
        /\ m.query = o.query
    BY <1>0 DEF Op
  <2>6. Shaped("check", m)
    <3>1. Asks(m)
      BY <1>0, <2>1, <2>5 DEF Shaped, Asks
    <3>2. QED
      BY <1>0, <2>1, <2>2, <2>3, <2>5, <3>1
         DEF Shaped, NothingHeld, Holding, Built, Removing
  <2>7. QED
    BY <2>1, <2>4, <2>6 DEF Moves, Points
<1>5. CASE CheckRegistered(t)
  BY <1>5, NextRefMoves DEF CheckRegistered, Holding
<1>6. CASE CheckMissing(t)
  <2>1. pc[t] = "check" /\ pc' = [pc EXCEPT ![t] = "lookup"] /\ op' = op
    BY <1>6 DEF CheckMissing, Goto
  <2>2. Shaped("lookup", o)
    BY <1>0, <2>1 DEF Shaped, Holding, Built, Removing
  <2>3. QED
    BY <1>0, <2>1, <2>2 DEF Moves, Points
<1>7. CASE CacheLookup(t)
  <2>1. PICK s \in Endpoints \cup {None} :
          op' = [op EXCEPT ![t] = [o EXCEPT !.schema = s]]
    <3>1. CASE op' = [op EXCEPT ![t].schema = None]
      BY <3>1
    <3>2. CASE op' = [op EXCEPT ![t].schema = cache[CacheKey(t)]]
      <4>1. CacheKey(t) \in CacheKeys
        BY <1>0, <1>7, CacheKeyType DEF CacheLookup, Goto, Holding
      <4>2. QED
        BY <3>2, <4>1 DEF RegistryInv, TypeOK
    <3>3. QED
      BY <1>7, <3>1, <3>2 DEF CacheLookup
  <2>. DEFINE m == [o EXCEPT !.schema = s]
  <2>2. pc[t] = "lookup" /\ pc' = [pc EXCEPT ![t] = "introspect"]
    BY <1>7 DEF CacheLookup, Goto
  <2>3. m \in Op
    BY <1>0 DEF Op
  <2>4. /\ m.held = o.held /\ m.refs = o.refs /\ m.names = o.names
        /\ m.provider = o.provider /\ m.query = o.query
    BY <1>0 DEF Op
  <2>5. Shaped("introspect", m)
    BY <1>0, <2>2, <2>4 DEF Shaped, Asks, Holding, Built, Removing
  <2>6. QED
    BY <2>1, <2>2, <2>3, <2>5 DEF Moves, Points
<1>8. CASE ProviderBuilt(t)
  <2>. DEFINE schema == IF o.schema # None THEN o.schema ELSE o.held.endpoint
              provider == [generation |-> o.held.generation,
                           endpoint |-> o.held.endpoint, schema |-> schema]
              m == [o EXCEPT !.provider = provider]
  <2>1. /\ pc[t] = "introspect" /\ pc' = [pc EXCEPT ![t] = "cache"]
        /\ op' = [op EXCEPT ![t] = m]
    BY <1>8 DEF ProviderBuilt, Goto
  <2>2. provider \in Provider
    BY <1>0, <2>1 DEF Shaped, Holding, Op, Registration, Provider
  <2>3. m \in Op
    BY <1>0, <2>2 DEF Op
  <2>4. /\ m.held = o.held /\ m.refs = o.refs /\ m.names = o.names
        /\ m.provider = provider /\ m.query = o.query
    BY <1>0 DEF Op
  <2>5. Shaped("cache", m)
    BY <1>0, <2>1, <2>2, <2>4 DEF Shaped, Asks, Holding, Built, Removing
  <2>6. QED
    BY <2>1, <2>3, <2>5 DEF Moves, Points
<1>9. CASE CacheSchema(t)
  <2>1. pc[t] = "cache" /\ pc' = [pc EXCEPT ![t] = "recheck"] /\ op' = op
    BY <1>9 DEF CacheSchema, Goto
  <2>2. Shaped("recheck", o)
    BY <1>0, <2>1 DEF Shaped, Holding, Built, Removing
  <2>3. QED
    BY <1>0, <2>1, <2>2 DEF Moves, Points
<1>10. CASE RecheckRegistered(t)
  BY <1>10, NextRefMoves DEF RecheckRegistered, Holding, Built
<1>11. CASE RecheckMissing(t)
  <2>1. pc[t] = "recheck" /\ pc' = [pc EXCEPT ![t] = "insert"] /\ op' = op
    BY <1>11 DEF RecheckMissing, Goto
  <2>2. Shaped("insert", o)
    BY <1>0, <2>1 DEF Shaped, Holding, Built, Removing
  <2>3. QED
    BY <1>0, <2>1, <2>2 DEF Moves, Points
<1>12. CASE TableInserted(t)
  BY <1>12, NextRefMoves DEF TableInserted, Holding, Built
<1>13. CASE Planned(t)
  <2>1. Shaped("idle", NoOp)
    BY DEF Shaped, NoOp, NothingHeld, Holding, Built, Removing
  <2>2. QED
    BY <1>13, <2>1, NoOpType DEF Planned, Moves, Points
<1>14. QED
  BY <1>1, <1>2, <1>3, <1>4, <1>5, <1>6, <1>7, <1>8, <1>9, <1>10, <1>11, <1>12,
     <1>13 DEF Ensure

\* Every step is such a move of the task that takes it.
LEMMA StepMoves ==
  ASSUME RegistryInv, NEW t \in Tasks, Step(t)
  PROVE  \E p, o : Moves(t, p, o)
<1>1. CASE AwaitFails(t)
  BY <1>1, EndMoves DEF AwaitFails
<1>2. QED
  BY <1>1, RegisterMoves, RemoveMoves, EnsureMoves DEF Step

\* The tables of sources, and the answers, keep their types.
LEMMA StoresTypes ==
  ASSUME RegistryInv, NEW t \in Tasks, Step(t)
  PROVE  /\ catalog' \in [Names -> Endpoints \cup {"file", None}]
         /\ sources' \in [DatabaseNames -> Registration \cup {None}]
         /\ tables' \in [Refs -> Provider \cup {None}]
         /\ files' \in [FileNames -> BOOLEAN]
         /\ cache' \in [CacheKeys -> Endpoints \cup {None}]
         /\ nextGeneration' \in Nat \ {0}
         /\ answer' \in [Tasks -> Answer]
         /\ overlapped' \in SUBSET Names
<1>. DEFINE o == op[t]
<1>0. /\ Shaped(pc[t], o) /\ o \in Op /\ pc[t] \in Points
      /\ pc \in [Tasks -> Points] /\ op \in [Tasks -> Op]
      /\ NoAnswer \in Answer
      /\ nextGeneration \in Nat \ {0}
  BY DEF RegistryInv, TypeOK, Shape, NoAnswer, Answer
<1>1. ASSUME NEW p, NEW r, Begin(t, p, r), r.names \in SUBSET Names
      PROVE  answer' \in [Tasks -> Answer] /\ overlapped' \in SUBSET Names
  BY <1>0, <1>1 DEF Begin, RegistryInv, TypeOK
<1>. USE DEF stores, Goto, End
<1>2. CASE RegisterDatabase(t)
  <2>1. PICK n \in DatabaseNames, e \in Endpoints :
          Begin(t, "list", [NoOp EXCEPT !.names = {n}, !.name = n, !.endpoint = e])
    BY <1>2 DEF RegisterDatabase
  <2>2. [NoOp EXCEPT !.names = {n}, !.name = n, !.endpoint = e].names \in SUBSET Names
    BY DEF NoOp, Names
  <2>3. answer' \in [Tasks -> Answer] /\ overlapped' \in SUBSET Names
    BY <1>1, <2>1, <2>2
  <2>4. UNCHANGED stores
    BY <1>2 DEF RegisterDatabase
  <2>5. QED
    BY <1>0, <2>3, <2>4 DEF RegistryInv, TypeOK
<1>3. CASE TablesListed(t)
  BY <1>0, <1>3 DEF TablesListed, Shaped, RegistryInv, TypeOK
<1>4. CASE SourceInserted(t)
  <2>1. o.name \in DatabaseNames /\ o.endpoint \in Endpoints
    BY <1>0, <1>4 DEF SourceInserted, Shaped
  <2>2. nextGeneration \in Generations
    <3>1. t \in Registering /\ IsFiniteSet(Registering)
      BY <1>4, TasksAssumption, FS_Subset DEF SourceInserted, Registering
    <3>2. Cardinality(Registering) \in Nat \ {0}
      BY <3>1, FS_CardinalityType, FS_EmptySet
    <3>3. QED
      BY <1>0, <3>2, NoneAssumption DEF RegistryInv, Counted, Generations
  <2>3. QED
    BY <1>0, <1>4, <2>1, <2>2 DEF SourceInserted, Registration, RegistryInv, TypeOK
<1>5. CASE RegisterFile(t)
  <2>1. PICK n \in FileNames :
          Begin(t, "load", [NoOp EXCEPT !.names = {n}, !.name = n])
    BY <1>5 DEF RegisterFile
  <2>2. [NoOp EXCEPT !.names = {n}, !.name = n].names \in SUBSET Names
    BY DEF NoOp, Names
  <2>3. answer' \in [Tasks -> Answer] /\ overlapped' \in SUBSET Names
    BY <1>1, <2>1, <2>2
  <2>4. UNCHANGED stores
    BY <1>5 DEF RegisterFile
  <2>5. QED
    BY <1>0, <2>3, <2>4 DEF RegistryInv, TypeOK
<1>6. CASE FileLoaded(t)
  BY <1>0, <1>6 DEF FileLoaded, RegistryInv, TypeOK
<1>7. CASE FileInserted(t)
  BY <1>0, <1>7 DEF FileInserted, RegistryInv, TypeOK
<1>8. CASE RemoveSource(t)
  <2>1. PICK n \in Names :
          Begin(t, "deregister", [NoOp EXCEPT !.names = {n}, !.name = n,
                                              !.endpoint = catalog[n]])
    BY <1>8 DEF RemoveSource
  <2>2. [NoOp EXCEPT !.names = {n}, !.name = n, !.endpoint = catalog[n]].names
          \in SUBSET Names
    BY DEF NoOp
  <2>3. answer' \in [Tasks -> Answer] /\ overlapped' \in SUBSET Names
    BY <1>1, <2>1, <2>2
  <2>4. UNCHANGED stores
    BY <1>8 DEF RemoveSource
  <2>5. QED
    BY <1>0, <2>3, <2>4 DEF RegistryInv, TypeOK
<1>9. CASE Deregister(t)
  BY <1>0, <1>9 DEF Deregister, RegistryInv, TypeOK
<1>10. CASE Uncatalogue(t)
  BY <1>0, <1>10 DEF Uncatalogue, RegistryInv, TypeOK
<1>11. CASE Forget(t)
  BY <1>0, <1>11 DEF Forget, RegistryInv, TypeOK
<1>12. CASE ClearCache(t)
  BY <1>0, <1>12 DEF ClearCache, RegistryInv, TypeOK
<1>13. CASE Query(t)
  <2>1. PICK query \in Queries :
          Begin(t, "find", [NoOp EXCEPT !.names = {query[i][1] : i \in DOMAIN query},
                                        !.query = query, !.refs = query])
    BY <1>13 DEF Query
  <2>2. \A i \in DOMAIN query : query[i][1] \in Names
    BY QueriesAssumption DEF Refs, Names
  <2>3. [NoOp EXCEPT !.names = {query[i][1] : i \in DOMAIN query},
                     !.query = query, !.refs = query].names \in SUBSET Names
    BY <2>2 DEF NoOp
  <2>4. answer' \in [Tasks -> Answer] /\ overlapped' \in SUBSET Names
    BY <1>1, <2>1, <2>3
  <2>5. UNCHANGED stores
    BY <1>13 DEF Query
  <2>6. QED
    BY <1>0, <2>4, <2>5 DEF RegistryInv, TypeOK
<1>14. CASE FindNothing(t)
  BY <1>0, <1>14 DEF FindNothing, RegistryInv, TypeOK
<1>15. CASE FindUnlisted(t)
  BY <1>0, <1>15 DEF FindUnlisted, RegistryInv, TypeOK
<1>16. CASE Find(t)
  BY <1>0, <1>16 DEF Find, RegistryInv, TypeOK
<1>17. CASE CheckRegistered(t) \/ RecheckRegistered(t)
  BY <1>0, <1>17 DEF CheckRegistered, RecheckRegistered, NextRef, RegistryInv, TypeOK
<1>18. CASE CheckMissing(t) \/ RecheckMissing(t)
  BY <1>0, <1>18 DEF CheckMissing, RecheckMissing, RegistryInv, TypeOK
<1>19. CASE CacheLookup(t)
  BY <1>0, <1>19 DEF CacheLookup, RegistryInv, TypeOK
<1>20. CASE ProviderBuilt(t)
  BY <1>0, <1>20 DEF ProviderBuilt, RegistryInv, TypeOK
<1>21. CASE CacheSchema(t)
  <2>1. o.provider.schema \in Endpoints
    BY <1>0, <1>21 DEF CacheSchema, Shaped, Built, Provider
  <2>2. QED
    BY <1>0, <1>21, <2>1 DEF CacheSchema, RegistryInv, TypeOK
<1>22. CASE TableInserted(t)
  <2>1. o.provider \in Provider
    BY <1>0, <1>22 DEF TableInserted, NextRef, Shaped, Built
  <2>2. QED
    BY <1>0, <1>22, <2>1 DEF TableInserted, NextRef, RegistryInv, TypeOK
<1>23. CASE Planned(t)
  <2>. DEFINE read == {tables[o.query[i]] : i \in DOMAIN o.query}
  <2>1. o.query \in Seq(Refs)
    BY <1>0, QueriesAssumption, EmptySeq DEF Op
  <2>2. \A i \in DOMAIN o.query : tables[o.query[i]] \in Provider \cup {None}
    BY <2>1 DEF RegistryInv, TypeOK
  <2>3. (IF None \in read THEN {} ELSE read) \in SUBSET Provider
    BY <2>2
  <2>4. [names |-> o.names, providers |-> IF None \in read THEN {} ELSE read,
         unknown |-> o.unknown] \in Answer
    BY <1>0, <2>3 DEF Op, Answer
  <2>5. answer' = [answer EXCEPT ![t] =
          [names |-> o.names, providers |-> IF None \in read THEN {} ELSE read,
           unknown |-> o.unknown]]
    BY <1>23 DEF Planned
  <2>6. QED
    BY <1>0, <1>23, <2>4, <2>5 DEF Planned, RegistryInv, TypeOK
<1>24. CASE AwaitFails(t)
  BY <1>0, <1>24 DEF AwaitFails, RegistryInv, TypeOK
<1>25. QED
  BY <1>2, <1>3, <1>4, <1>5, <1>6, <1>7, <1>8, <1>9, <1>10, <1>11, <1>12, <1>13,
     <1>14, <1>15, <1>16, <1>17, <1>18, <1>19, <1>20, <1>21, <1>22, <1>23, <1>24
     DEF Step, Register, Remove, Ensure

-----------------------------------------------------------------------------
(* Types, and a generation for every registration under way.               *)

\* The bound on generations is never reached with a registration under way.
LEMMA CountedStep ==
  ASSUME RegistryInv, NEW t \in Tasks, Step(t)
  PROVE  Counted'
<1>. DEFINE n == Cardinality(Registering)
<1>1. /\ IsFiniteSet(Registering) /\ n \in Nat
      /\ nextGeneration \in Nat \ {0}
      /\ nextGeneration + n <= MaxGeneration + 1
      /\ MaxGeneration \in Nat
      /\ pc \in [Tasks -> Points]
  BY TasksAssumption, NoneAssumption, FS_Subset, FS_CardinalityType
     DEF RegistryInv, Counted, TypeOK, Registering
<1>2. PICK p, o : Moves(t, p, o)
  BY StepMoves
<1>3. Registering' = IF p \in {"list", "listed"} THEN Registering \cup {t}
                                                 ELSE Registering \ {t}
  BY <1>1, <1>2 DEF Registering, Moves
<1>4. CASE RegisterDatabase(t)
  <2>1. /\ nextGeneration + n <= MaxGeneration
        /\ nextGeneration' = nextGeneration
    BY <1>4 DEF RegisterDatabase, stores
  <2>2. pc[t] = "idle" /\ pc' = [pc EXCEPT ![t] = "list"]
    BY <1>4 DEF RegisterDatabase, Begin
  <2>3. t \notin Registering /\ Registering' = Registering \cup {t}
    BY <1>1, <2>2 DEF Registering
  <2>4. Cardinality(Registering') = n + 1
    BY <1>1, <2>3, FS_AddElement
  <2>5. QED
    BY <1>1, <2>1, <2>4 DEF Counted
<1>5. CASE SourceInserted(t)
  <2>1. nextGeneration' = nextGeneration + 1
    BY <1>5 DEF SourceInserted
  <2>2. pc[t] = "listed" /\ pc' = [pc EXCEPT ![t] = "idle"]
    BY <1>5 DEF SourceInserted, End
  <2>3. t \in Registering /\ Registering' = Registering \ {t}
    BY <1>1, <2>2 DEF Registering
  <2>4. Cardinality(Registering') = n - 1
    BY <1>1, <2>3, FS_RemoveElement
  <2>5. QED
    BY <1>1, <2>1, <2>4 DEF Counted
<1>6. CASE ~ RegisterDatabase(t) /\ ~ SourceInserted(t)
  <2>1. nextGeneration' = nextGeneration
    BY <1>6 DEF Step, Register, Remove, Ensure, AwaitFails, stores, TablesListed,
       RegisterFile, FileLoaded, FileInserted, RemoveSource, Deregister,
       Uncatalogue, Forget, ClearCache, Query, FindNothing, FindUnlisted, Find,
       CheckRegistered, CheckMissing, CacheLookup, ProviderBuilt, CacheSchema,
       RecheckRegistered, RecheckMissing, TableInserted, Planned
  <2>2. p \in {"list", "listed"} => t \in Registering
    <3>1. CASE TablesListed(t)
      BY <3>1, <1>1 DEF TablesListed, Goto, Registering
    <3>2. CASE ~ TablesListed(t)
      <4>1. pc'[t] \notin {"list", "listed"}
        BY <1>1, <1>6, <3>2 DEF Step, Register, Remove, Ensure, AwaitFails, Begin,
           Goto, End, NextRef, RegisterFile, FileLoaded, FileInserted,
           RemoveSource, Deregister, Uncatalogue, Forget, ClearCache, Query,
           FindNothing, FindUnlisted, Find, CheckRegistered, CheckMissing,
           CacheLookup, ProviderBuilt, CacheSchema, RecheckRegistered,
           RecheckMissing, TableInserted, Planned
      <4>2. QED
        BY <1>1, <1>2, <4>1 DEF Moves
    <3>3. QED
      BY <3>1, <3>2
  <2>3. Registering' \in SUBSET Registering
    BY <1>3, <2>2
  <2>4. Cardinality(Registering') \in Nat /\ Cardinality(Registering') <= n
    BY <1>1, <2>3, FS_Subset, FS_CardinalityType
  <2>5. QED
    BY <1>1, <2>1, <2>4 DEF Counted
<1>7. QED
  BY <1>4, <1>5, <1>6

\* A step keeps the types, the shape of requests and the bound.
LEMMA RegistryInvStep ==
  ASSUME RegistryInv, [Next]_vars
  PROVE  RegistryInv'
<1>1. CASE UNCHANGED vars
  BY <1>1 DEF RegistryInv, TypeOK, Shape, Shaped, NothingHeld, Asks, Counted,
     Registering, vars
<1>2. ASSUME NEW t \in Tasks, Step(t)
      PROVE  RegistryInv'
  <2>1. PICK p, o : Moves(t, p, o)
    BY <1>2, StepMoves
  <2>2. /\ pc \in [Tasks -> Points] /\ op \in [Tasks -> Op]
        /\ \A u \in Tasks : Shaped(pc[u], op[u])
    BY DEF RegistryInv, TypeOK, Shape
  <2>3. pc' \in [Tasks -> Points] /\ op' \in [Tasks -> Op]
    BY <2>1, <2>2 DEF Moves
  <2>4. \A u \in Tasks : Shaped(pc'[u], op'[u])
    BY <2>1, <2>2 DEF Moves
  <2>5. Counted'
    BY <1>2, CountedStep
  <2>6. nextGeneration' \in 1..(MaxGeneration + 1)
    <3>1. Cardinality(Registering') \in Nat
      BY TasksAssumption, FS_Subset, FS_CardinalityType DEF Registering
    <3>2. nextGeneration' \in Nat \ {0}
      BY <1>2, StoresTypes
    <3>3. QED
      BY <2>5, <3>1, <3>2, NoneAssumption DEF Counted
  <2>7. TypeOK'
    BY <1>2, <2>3, <2>6, StoresTypes DEF TypeOK
  <2>8. Shape'
    BY <2>4 DEF Shape
  <2>9. QED
    BY <2>5, <2>7, <2>8 DEF RegistryInv
<1>3. QED
  BY <1>1, <1>2 DEF Next

\* The daemon starts with no source and no request.
LEMMA RegistryInvInit == Init => RegistryInv
<1>. SUFFICES ASSUME Init PROVE RegistryInv
  OBVIOUS
<1>1. TypeOK
  BY NoOpType, NoneAssumption DEF Init, TypeOK, NoAnswer, Answer, Points
<1>2. Shape
  BY DEF Init, Shape, Shaped, NoOp, NothingHeld, Holding, Built, Removing
<1>3. Registering = {}
  BY DEF Init, Registering
<1>4. Counted
  BY <1>3, FS_EmptySet, NoneAssumption DEF Counted, Init
<1>5. QED
  BY <1>1, <1>2, <1>4 DEF RegistryInv

\* Whatever requests come and however they interleave, every table of sources
\* holds entries of its kind, and a generation is left for each registration.
THEOREM RegistryTypes == Spec => []TypeOK
<1>1. RegistryInv => TypeOK
  BY DEF RegistryInv
<1>2. QED
  BY <1>1, RegistryInvInit, RegistryInvStep, PTL DEF Spec

-----------------------------------------------------------------------------
(* What generations stand for.  Whoever has the registration or the schema  *)
(* of an alias claims that its generation is one of that alias and of one   *)
(* database.  The claims are those of the registrations, of the tables in   *)
(* the registry, of the cache entries, and of the requests, which hold what *)
(* they have read across awaits, when the table it came from has changed.   *)

SourceClaims(n, g, e) ==
  sources[n] # None /\ sources[n].generation = g /\ sources[n].endpoint = e

TableClaims(n, g, e) ==
  \E r \in Refs : /\ r[1] = n /\ tables[r] # None /\ tables[r].generation = g
                  /\ e \in {tables[r].endpoint, tables[r].schema}

CacheClaims(n, g, e) ==
  \E k \in CacheKeys : k[1] = n /\ k[2] = g /\ cache[k] = e

RequestClaims(o, n, g, e) ==
  /\ o.held # None
  /\ Head(o.refs)[1] = n
  /\ o.held.generation = g
  /\ \/ e \in {o.held.endpoint, o.schema}
     \/ o.provider # None /\ e \in {o.provider.endpoint, o.provider.schema}

Claims(n, g, e) ==
  \/ SourceClaims(n, g, e)
  \/ TableClaims(n, g, e)
  \/ CacheClaims(n, g, e)
  \/ \E t \in Tasks : RequestClaims(op[t], n, g, e)

\* No two claims contradict each other, and none is of a generation to come.
Identity ==
  \A n, m \in DatabaseNames, g \in Generations, e, d \in Endpoints :
    Claims(n, g, e) =>
      /\ g < nextGeneration
      /\ Claims(m, g, d) => n = m /\ e = d

\* A request claims only what was claimed when it read it.
LEMMA RequestClaimsStep ==
  ASSUME RegistryInv, NEW t \in Tasks, Step(t), NEW u \in Tasks,
         NEW n \in DatabaseNames, NEW g \in Generations, NEW e \in Endpoints,
         RequestClaims(op'[u], n, g, e)
  PROVE  Claims(n, g, e)
<1>. DEFINE o == op[t]
<1>0. /\ Shaped(pc[t], o) /\ o \in Op /\ pc[t] \in Points
      /\ op \in [Tasks -> Op]
      /\ e # None
  BY NoneAssumption DEF RegistryInv, TypeOK, Shape
<1>1. CASE op'[u] = op[u]
  BY <1>1 DEF Claims
<1>2. CASE op'[u] # op[u]
  <2>1. u = t /\ op'[t] # op[t]
    BY <1>0, <1>2, StepMoves DEF Moves
  <2>2. PICK p, m : Moves(t, p, m)
    BY StepMoves
  <2>3. op'[t] = m /\ m.held # None /\ p \in Holding /\ pc'[t] = p
    BY <1>0, <2>1, <2>2 DEF Moves, Shaped, RequestClaims, NothingHeld, RegistryInv, TypeOK
  <2>4. Find(t) \/ CacheLookup(t) \/ ProviderBuilt(t)
    <3>1. pc'[t] \notin {"idle", "find", "list", "listed", "load", "loaded"} \cup Removing
      BY <2>3 DEF Holding, Built, Removing
    <3>2. pc \in [Tasks -> Points]
      BY DEF RegistryInv, TypeOK
    <3>3. QED
      BY <2>1, <3>1, <3>2 DEF Step, Register, Remove, Ensure, AwaitFails, Begin,
         Goto, End, NextRef, RegisterDatabase, TablesListed, SourceInserted,
         RegisterFile, FileLoaded, FileInserted,
         RemoveSource, Deregister, Uncatalogue, Forget, ClearCache, Query,
         FindNothing, FindUnlisted, CheckRegistered, CheckMissing,
         CacheSchema, RecheckRegistered, RecheckMissing, TableInserted, Planned,
         Removing
  <2>5. CASE Find(t)
    <3>1. /\ pc[t] = "find" /\ o.refs # << >>
          /\ op' = [op EXCEPT ![t].held = sources[Name(t)]]
          /\ sources[Name(t)] # None
      BY <2>5 DEF Find, Goto
    <3>2. Name(t) = Head(o.refs)[1]
      BY DEF Name, Ref
    <3>3. /\ op'[t].held = sources[Name(t)]
          /\ op'[t].refs = o.refs /\ op'[t].schema = o.schema
          /\ op'[t].provider = o.provider
      BY <1>0, <3>1 DEF Op
    <3>4. o.schema = None /\ o.provider = None
      BY <1>0, <3>1 DEF Shaped, NothingHeld, Holding, Built
    <3>5. SourceClaims(n, g, e)
      BY <1>0, <2>1, <3>1, <3>2, <3>3, <3>4 DEF RequestClaims, SourceClaims
    <3>6. QED
      BY <3>5 DEF Claims
  <2>6. CASE CacheLookup(t)
    <3>1. /\ pc[t] = "lookup"
          /\ \/ op' = [op EXCEPT ![t].schema = cache[CacheKey(t)]]
             \/ op' = [op EXCEPT ![t].schema = None]
      BY <2>6 DEF CacheLookup, Goto
    <3>2. /\ op'[t].schema \in {cache[CacheKey(t)], None}
          /\ op'[t].refs = o.refs /\ op'[t].held = o.held
          /\ op'[t].provider = o.provider
      BY <1>0, <3>1 DEF Op
    <3>3. /\ CacheKey(t) \in CacheKeys
          /\ CacheKey(t)[1] = Name(t) /\ CacheKey(t)[2] = o.held.generation
          /\ Name(t) = Head(o.refs)[1]
      BY <1>0, <3>1, CacheKeyType DEF Holding, Name, Ref
    <3>4. RequestClaims(o, n, g, e) \/ CacheClaims(n, g, e)
      BY <1>0, <2>1, <3>2, <3>3 DEF RequestClaims, CacheClaims
    <3>5. QED
      BY <3>4 DEF Claims
  <2>7. CASE ProviderBuilt(t)
    <3>. DEFINE schema == IF o.schema # None THEN o.schema ELSE o.held.endpoint
                provider == [generation |-> o.held.generation,
                             endpoint |-> o.held.endpoint, schema |-> schema]
    <3>1. op' = [op EXCEPT ![t] = [o EXCEPT !.provider = provider]]
      BY <2>7 DEF ProviderBuilt
    <3>2. /\ op'[t].schema = o.schema
          /\ op'[t].refs = o.refs /\ op'[t].held = o.held
          /\ op'[t].provider = provider
      BY <1>0, <3>1 DEF Op
    <3>3. RequestClaims(o, n, g, e)
      BY <1>0, <2>1, <3>2 DEF RequestClaims
    <3>4. QED
      BY <3>3 DEF Claims
  <2>8. QED
    BY <2>4, <2>5, <2>6, <2>7
<1>3. QED
  BY <1>1, <1>2

\* The entries of the tables claim what the requests that wrote them did; only
\* a new registration makes a claim, and it has a generation of its own.
LEMMA StoreClaimsStep ==
  ASSUME RegistryInv, NEW t \in Tasks, Step(t),
         NEW n \in DatabaseNames, NEW g \in Generations, NEW e \in Endpoints,
         SourceClaims(n, g, e)' \/ TableClaims(n, g, e)' \/ CacheClaims(n, g, e)'
  PROVE  \/ Claims(n, g, e)
         \/ /\ SourceInserted(t)
            /\ n = op[t].name /\ g = nextGeneration /\ e = op[t].endpoint
<1>. DEFINE o == op[t]
<1>0. /\ Shaped(pc[t], o) /\ o \in Op /\ pc[t] \in Points
      /\ sources \in [DatabaseNames -> Registration \cup {None}]
      /\ tables \in [Refs -> Provider \cup {None}]
      /\ cache \in [CacheKeys -> Endpoints \cup {None}]
      /\ e # None
  BY NoneAssumption DEF RegistryInv, TypeOK, Shape
<1>1. CASE SourceInserted(t)
  <2>1. /\ sources' = [sources EXCEPT ![o.name] =
                         [generation |-> nextGeneration, endpoint |-> o.endpoint]]
        /\ tables' = tables /\ cache' = cache
    BY <1>1 DEF SourceInserted
  <2>2. CASE SourceClaims(n, g, e)'
    BY <1>0, <1>1, <2>1, <2>2 DEF SourceClaims, Claims
  <2>3. CASE TableClaims(n, g, e)' \/ CacheClaims(n, g, e)'
    BY <2>1, <2>3 DEF TableClaims, CacheClaims, Claims
  <2>4. QED
    BY <2>2, <2>3
<1>2. CASE Deregister(t)
  <2>1. /\ sources' = sources /\ cache' = cache
        /\ \A r \in Refs : tables'[r] \in {tables[r], None}
    BY <1>0, <1>2 DEF Deregister
  <2>2. QED
    BY <2>1 DEF SourceClaims, TableClaims, CacheClaims, Claims
<1>3. CASE Forget(t)
  <2>1. /\ tables' = tables /\ cache' = cache
        /\ \A m \in DatabaseNames : sources'[m] \in {sources[m], None}
    BY <1>0, <1>3 DEF Forget
  <2>2. QED
    BY <2>1 DEF SourceClaims, TableClaims, CacheClaims, Claims
<1>4. CASE ClearCache(t) \/ CacheLookup(t)
  <2>1. /\ sources' = sources /\ tables' = tables
        /\ \A k \in CacheKeys : cache'[k] \in {cache[k], None}
    BY <1>0, <1>4 DEF ClearCache, CacheLookup
  <2>2. QED
    BY <1>0, <2>1 DEF SourceClaims, TableClaims, CacheClaims, Claims
<1>5. CASE CacheSchema(t)
  <2>1. /\ sources' = sources /\ tables' = tables
        /\ cache' = [cache EXCEPT ![CacheKey(t)] = o.provider.schema]
        /\ pc[t] = "cache"
    BY <1>5 DEF CacheSchema, Goto
  <2>2. /\ CacheKey(t)[1] = Name(t) /\ CacheKey(t)[2] = o.held.generation
        /\ Name(t) = Head(o.refs)[1]
        /\ o.held \in Registration /\ o.provider \in Provider
    BY <1>0, <2>1, CacheKeyType DEF Holding, Built, Name, Ref, Shaped
  <2>3. CASE CacheClaims(n, g, e)'
    <3>1. PICK k \in CacheKeys : k[1] = n /\ k[2] = g /\ cache'[k] = e
      BY <2>3 DEF CacheClaims
    <3>2. CASE k # CacheKey(t)
      BY <1>0, <2>1, <3>1, <3>2 DEF CacheClaims, Claims
    <3>3. CASE k = CacheKey(t)
      <4>1. e = o.provider.schema
        BY <1>0, <2>1, <3>1, <3>3
      <4>2. RequestClaims(o, n, g, e)
        BY <2>2, <3>1, <3>3, <4>1, NoneRecords DEF RequestClaims
      <4>3. QED
        BY <4>2 DEF Claims
    <3>4. QED
      BY <3>2, <3>3
  <2>4. QED
    BY <2>1, <2>3 DEF SourceClaims, TableClaims, Claims
<1>6. CASE TableInserted(t)
  <2>1. /\ sources' = sources /\ cache' = cache
        /\ tables' = [tables EXCEPT ![Ref(t)] = o.provider]
        /\ pc[t] = "insert"
    BY <1>6 DEF TableInserted, NextRef, Goto
  <2>2. /\ Ref(t) \in Refs /\ Ref(t) = Head(o.refs)
        /\ o.held \in Registration /\ o.provider \in Provider
        /\ o.provider.generation = o.held.generation
    BY <1>0, <2>1, CacheKeyType DEF Holding, Built, Ref, Shaped
  <2>3. CASE TableClaims(n, g, e)'
    <3>1. PICK r \in Refs :
            /\ r[1] = n /\ tables'[r] # None /\ tables'[r].generation = g
            /\ e \in {tables'[r].endpoint, tables'[r].schema}
      BY <2>3 DEF TableClaims
    <3>2. CASE r # Ref(t)
      BY <1>0, <2>1, <3>1, <3>2 DEF TableClaims, Claims
    <3>3. CASE r = Ref(t)
      <4>1. tables'[r] = o.provider
        BY <1>0, <2>1, <3>3
      <4>2. RequestClaims(o, n, g, e)
        BY <2>2, <3>1, <3>3, <4>1, NoneRecords DEF RequestClaims
      <4>3. QED
        BY <4>2 DEF Claims
    <3>4. QED
      BY <3>2, <3>3
  <2>4. QED
    BY <2>1, <2>3 DEF SourceClaims, CacheClaims, Claims
<1>7. CASE /\ ~ SourceInserted(t) /\ ~ Deregister(t) /\ ~ Forget(t)
           /\ ~ ClearCache(t) /\ ~ CacheLookup(t) /\ ~ CacheSchema(t)
           /\ ~ TableInserted(t)
  <2>1. sources' = sources /\ tables' = tables /\ cache' = cache
    BY <1>7 DEF Step, Register, Remove, Ensure, AwaitFails, stores, NextRef,
       RegisterDatabase, TablesListed, RegisterFile, FileLoaded, FileInserted,
       RemoveSource, Uncatalogue, Query, FindNothing, FindUnlisted, Find,
       CheckRegistered, CheckMissing, ProviderBuilt, RecheckRegistered,
       RecheckMissing, Planned
  <2>2. QED
    BY <2>1 DEF SourceClaims, TableClaims, CacheClaims, Claims
<1>8. QED
  BY <1>1, <1>2, <1>3, <1>4, <1>5, <1>6, <1>7

\* No step makes two claims contradict each other.
LEMMA IdentityStep ==
  ASSUME RegistryInv, Identity, [Next]_vars
  PROVE  Identity'
<1>1. CASE UNCHANGED vars
  BY <1>1 DEF Identity, Claims, SourceClaims, TableClaims, CacheClaims,
     RequestClaims, vars
<1>2. ASSUME NEW t \in Tasks, Step(t)
      PROVE  Identity'
  <2>. DEFINE New(n, g, e) ==
         /\ SourceInserted(t)
         /\ n = op[t].name /\ g = nextGeneration /\ e = op[t].endpoint
  <2>1. ASSUME NEW n \in DatabaseNames, NEW g \in Generations, NEW e \in Endpoints,
               Claims(n, g, e)'
        PROVE  Claims(n, g, e) \/ New(n, g, e)
    BY <1>2, <2>1, RequestClaimsStep, StoreClaimsStep DEF Claims
  <2>2. /\ nextGeneration \in Nat
        /\ SourceInserted(t) => nextGeneration' = nextGeneration + 1
        /\ ~ SourceInserted(t) => nextGeneration' = nextGeneration
    <3>1. SourceInserted(t) => nextGeneration' = nextGeneration + 1
      BY DEF SourceInserted
    <3>2. ~ SourceInserted(t) => nextGeneration' = nextGeneration
      BY <1>2 DEF Step, Register, Remove, Ensure, AwaitFails, stores,
         RegisterDatabase, TablesListed, RegisterFile, FileLoaded, FileInserted,
         RemoveSource, Deregister, Uncatalogue, Forget, ClearCache, Query,
         FindNothing, FindUnlisted, Find, CheckRegistered, CheckMissing,
         CacheLookup, ProviderBuilt, CacheSchema, RecheckRegistered,
         RecheckMissing, TableInserted, Planned
    <3>3. QED
      BY <3>1, <3>2 DEF RegistryInv, TypeOK
  <2>3. SUFFICES ASSUME NEW n \in DatabaseNames, NEW m \in DatabaseNames,
                        NEW g \in Generations,
                        NEW e \in Endpoints, NEW d \in Endpoints,
                        Claims(n, g, e)'
                 PROVE  /\ g < nextGeneration'
                        /\ Claims(m, g, d)' => n = m /\ e = d
    BY DEF Identity
  <2>4. Claims(n, g, e) => g < nextGeneration
    BY DEF Identity
  <2>5. Claims(n, g, e) \/ New(n, g, e)
    BY <2>1, <2>3
  <2>6. g < nextGeneration'
    BY <2>2, <2>4, <2>5 DEF Generations
  <2>7. ASSUME Claims(m, g, d)'
        PROVE  n = m /\ e = d
    <3>1. Claims(m, g, d) \/ New(m, g, d)
      BY <2>1, <2>7
    <3>2. CASE Claims(n, g, e) /\ Claims(m, g, d)
      BY <3>2 DEF Identity
    <3>3. CASE New(n, g, e) /\ New(m, g, d)
      BY <3>3
    <3>4. Claims(m, g, d) => g < nextGeneration
      BY DEF Identity
    <3>5. QED
      BY <2>2, <2>4, <2>5, <3>1, <3>2, <3>3, <3>4 DEF Generations
  <2>8. QED
    BY <2>6, <2>7
<1>3. QED
  BY <1>1, <1>2 DEF Next

\* At the start nothing is claimed.
LEMMA IdentityInit == Init => Identity
BY NoneAssumption DEF Init, Identity, Claims, SourceClaims, TableClaims, CacheClaims,
   RequestClaims, NoOp

-----------------------------------------------------------------------------
(* Schemas and generations.                                                *)

\* A provider of a table claims both its database and its schema.
LEMMA TableSchemas == RegistryInv /\ Identity => SchemaOfItsSource
<1>. SUFFICES ASSUME RegistryInv, Identity, NEW r \in Refs, tables[r] # None
              PROVE  tables[r].schema = tables[r].endpoint
  BY DEF SchemaOfItsSource
<1>1. tables[r] \in Provider /\ r[1] \in DatabaseNames
  BY DEF RegistryInv, TypeOK, Refs
<1>2. /\ TableClaims(r[1], tables[r].generation, tables[r].schema)
      /\ TableClaims(r[1], tables[r].generation, tables[r].endpoint)
  BY DEF TableClaims
<1>3. QED
  BY <1>1, <1>2 DEF Identity, Claims, Provider

\* A registration, a table and a registration held claim their databases.
LEMMA TableGenerations == RegistryInv /\ Identity => GenerationIdentifies
<1>. SUFFICES ASSUME RegistryInv, Identity,
                     NEW n \in DatabaseNames, NEW r \in Refs, NEW t \in Tasks
              PROVE  /\ sources[n] # None /\ tables[r] # None
                          /\ sources[n].generation = tables[r].generation
                        => sources[n].endpoint = tables[r].endpoint /\ r[1] = n
                     /\ op[t].held # None /\ tables[r] # None
                          /\ op[t].held.generation = tables[r].generation
                        => op[t].held.endpoint = tables[r].endpoint
                     /\ op[t].held # None /\ sources[n] # None
                          /\ op[t].held.generation = sources[n].generation
                        => op[t].held.endpoint = sources[n].endpoint
  BY DEF GenerationIdentifies
<1>. DEFINE held == op[t].held
            m == Head(op[t].refs)[1]
<1>1. /\ r[1] \in DatabaseNames
      /\ sources[n] # None =>
           /\ sources[n].generation \in Generations /\ sources[n].endpoint \in Endpoints
           /\ Claims(n, sources[n].generation, sources[n].endpoint)
      /\ tables[r] # None =>
           /\ tables[r].generation \in Generations /\ tables[r].endpoint \in Endpoints
           /\ Claims(r[1], tables[r].generation, tables[r].endpoint)
  BY DEF RegistryInv, TypeOK, Refs, Registration, Provider, Claims, SourceClaims,
     TableClaims
<1>2. held # None =>
        /\ held.generation \in Generations /\ held.endpoint \in Endpoints
        /\ m \in DatabaseNames
        /\ Claims(m, held.generation, held.endpoint)
  <2>1. SUFFICES ASSUME held # None
                 PROVE  /\ held.generation \in Generations /\ held.endpoint \in Endpoints
                        /\ m \in DatabaseNames
                        /\ Claims(m, held.generation, held.endpoint)
    OBVIOUS
  <2>2. op[t] \in Op /\ Shaped(pc[t], op[t]) /\ pc[t] \in Holding
    BY <2>1 DEF RegistryInv, TypeOK, Shape, Shaped, NothingHeld
  <2>3. m = Name(t) /\ m \in DatabaseNames /\ held \in Registration
    BY <2>2, CacheKeyType DEF Name, Ref
  <2>4. QED
    BY <2>1, <2>3 DEF Claims, RequestClaims, Registration
<1>3. QED
  BY <1>1, <1>2 DEF Identity

\* However registrations, removals and queries of an alias interleave, and
\* whatever was cached or held meanwhile: a schema that was read from one
\* database is not used for the tables of another.
THEOREM SchemasStay == Spec => []SchemaOfItsSource
<1>1. Init => RegistryInv /\ Identity
  BY RegistryInvInit, IdentityInit
<1>2. RegistryInv /\ Identity /\ [Next]_vars => RegistryInv' /\ Identity'
  BY RegistryInvStep, IdentityStep
<1>3. QED
  BY <1>1, <1>2, TableSchemas, PTL DEF Spec

\* A generation always names one registration of one alias.
THEOREM GenerationsIdentify == Spec => []GenerationIdentifies
<1>1. Init => RegistryInv /\ Identity
  BY RegistryInvInit, IdentityInit
<1>2. RegistryInv /\ Identity /\ [Next]_vars => RegistryInv' /\ Identity'
  BY RegistryInvStep, IdentityStep
<1>3. QED
  BY <1>1, <1>2, TableGenerations, PTL DEF Spec

-----------------------------------------------------------------------------
(* Other sources.                                                          *)

\* What the tables say of n is not changed by this step.
Spared(n) ==
  /\ catalog'[n] = catalog[n]
  /\ n \in FileNames => files'[n] = files[n]
  /\ n \in DatabaseNames =>
       /\ sources'[n] = sources[n]
       /\ \A r \in Refs : r[1] = n => tables'[r] = tables[r]
       /\ \A k \in CacheKeys : k[1] = n => cache'[k] = cache[k]

\* A request changes no entry of a name it is not about.
LEMMA OthersSparedStep ==
  ASSUME RegistryInv, NEW t \in Tasks, Step(t),
         NEW n \in Names, n \notin op[t].names
  PROVE  Spared(n)
<1>. DEFINE o == op[t]
<1>0. /\ Shaped(pc[t], o) /\ o \in Op /\ pc[t] \in Points
      /\ catalog \in [Names -> Endpoints \cup {"file", None}]
      /\ sources \in [DatabaseNames -> Registration \cup {None}]
      /\ files \in [FileNames -> BOOLEAN]
      /\ tables \in [Refs -> Provider \cup {None}]
      /\ cache \in [CacheKeys -> Endpoints \cup {None}]
  BY DEF RegistryInv, TypeOK, Shape
<1>1. ASSUME UNCHANGED stores
      PROVE  Spared(n)
  BY <1>1 DEF stores, Spared
<1>2. CASE TablesListed(t) \/ FileLoaded(t)
  <2>1. n # o.name
    BY <1>0, <1>2 DEF TablesListed, FileLoaded, Goto, Shaped
  <2>2. QED
    BY <1>0, <1>2, <2>1 DEF TablesListed, FileLoaded, Spared
<1>3. CASE SourceInserted(t) \/ FileInserted(t)
  <2>1. n # o.name
    BY <1>0, <1>3 DEF SourceInserted, FileInserted, Shaped
  <2>2. QED
    BY <1>0, <1>3, <2>1 DEF SourceInserted, FileInserted, Spared
<1>4. CASE Deregister(t) \/ Uncatalogue(t) \/ Forget(t) \/ ClearCache(t)
  <2>1. pc[t] \in Removing
    BY <1>4 DEF Deregister, Uncatalogue, Forget, ClearCache, Goto, Removing
  <2>2. n # o.name
    BY <1>0, <2>1 DEF Shaped
  <2>3. CASE Deregister(t)
    BY <1>0, <2>2, <2>3 DEF Deregister, Spared
  <2>4. CASE Uncatalogue(t)
    BY <1>0, <2>2, <2>4 DEF Uncatalogue, Spared
  <2>5. CASE Forget(t)
    BY <1>0, <2>2, <2>5 DEF Forget, Spared
  <2>6. CASE ClearCache(t)
    BY <1>0, <2>2, <2>6 DEF ClearCache, Spared
  <2>7. QED
    BY <1>4, <2>3, <2>4, <2>5, <2>6
<1>5. CASE CacheLookup(t) \/ CacheSchema(t) \/ TableInserted(t)
  <2>1. pc[t] \in Holding
    BY <1>5 DEF CacheLookup, CacheSchema, TableInserted, NextRef, Goto, Holding, Built
  <2>2. /\ Name(t) \in o.names /\ Ref(t)[1] = Name(t) /\ CacheKey(t)[1] = Name(t)
    BY <1>0, <2>1, CacheKeyType DEF Name
  <2>3. CASE TableInserted(t)
    BY <1>0, <2>2, <2>3 DEF TableInserted, Spared
  <2>4. CASE CacheLookup(t) \/ CacheSchema(t)
    <3>1. /\ catalog' = catalog /\ sources' = sources /\ tables' = tables
          /\ files' = files
          /\ \A k \in CacheKeys : k # CacheKey(t) => cache'[k] = cache[k]
      BY <1>0, <2>4 DEF CacheLookup, CacheSchema
    <3>2. QED
      BY <2>2, <3>1 DEF Spared
  <2>5. QED
    BY <1>5, <2>3, <2>4
<1>6. CASE /\ ~ TablesListed(t) /\ ~ FileLoaded(t) /\ ~ SourceInserted(t)
           /\ ~ FileInserted(t) /\ ~ Deregister(t) /\ ~ Uncatalogue(t)
           /\ ~ Forget(t) /\ ~ ClearCache(t) /\ ~ CacheLookup(t)
           /\ ~ CacheSchema(t) /\ ~ TableInserted(t)
  <2>1. UNCHANGED stores
    BY <1>6 DEF Step, Register, Remove, Ensure, AwaitFails, stores, NextRef,
       RegisterDatabase, RegisterFile, RemoveSource, Query, FindNothing,
       FindUnlisted, Find, CheckRegistered, CheckMissing, ProviderBuilt,
       RecheckRegistered, RecheckMissing, Planned
  <2>2. QED
    BY <1>1, <2>1
<1>7. QED
  BY <1>2, <1>3, <1>4, <1>5, <1>6

\* Registering, removing or querying one source changes nothing of another.
THEOREM SparesOthers == Spec => OthersSpared
<1>1. RegistryInv /\ [Next]_vars =>
        [\A n \in Names : (\A t \in Tasks : n \notin op[t].names) => Spared(n)]_vars
  <2>1. SUFFICES ASSUME RegistryInv, NEW u \in Tasks, Step(u),
                        NEW n \in Names, \A t \in Tasks : n \notin op[t].names
                 PROVE  Spared(n)
    BY DEF Next
  <2>2. QED
    BY <2>1, OthersSparedStep
<1>2. QED
  BY <1>1, RegistryInvInit, RegistryInvStep, PTL DEF Spec, OthersSpared, Spared

-----------------------------------------------------------------------------
(* Requests that do not overlap.  The five tables agree about every source *)
(* whose requests have not overlapped, whatever the requests about other   *)
(* sources are doing meanwhile.                                            *)

\* Names that two requests have in common are recorded as overlapped.
Apart ==
  \A t, u \in Tasks : t # u => op[t].names \cap op[u].names \subseteq overlapped

\* A step begins a request, ends it, or leaves it about the same names; what
\* has overlapped stays so.
LEMMA NamesStep ==
  ASSUME RegistryInv, NEW t \in Tasks, Step(t)
  PROVE  /\ \/ /\ overlapped' = overlapped
               /\ \/ op'[t].names = op[t].names
                  \/ op'[t] = NoOp /\ pc'[t] = "idle"
            \/ op[t] = NoOp /\ \E p, r : Begin(t, p, r)
         /\ overlapped \subseteq overlapped'
<1>. DEFINE o == op[t]
<1>0. /\ Shaped(pc[t], o) /\ o \in Op /\ pc[t] \in Points
      /\ op \in [Tasks -> Op] /\ pc \in [Tasks -> Points]
  BY DEF RegistryInv, TypeOK, Shape
<1>1. ASSUME NEW p, NEW r, Begin(t, p, r)
      PROVE  op[t] = NoOp /\ overlapped \subseteq overlapped'
  BY <1>0, <1>1 DEF Begin, Shaped
<1>2. CASE RegisterDatabase(t) \/ RegisterFile(t) \/ RemoveSource(t) \/ Query(t)
  <2>1. \E p, r : Begin(t, p, r)
    BY <1>2 DEF RegisterDatabase, RegisterFile, RemoveSource, Query
  <2>2. QED
    BY <1>1, <2>1
<1>3. ASSUME pc' = [pc EXCEPT ![t] = "idle"], op' = [op EXCEPT ![t] = NoOp]
      PROVE  op'[t] = NoOp /\ pc'[t] = "idle"
  BY <1>0, <1>3
<1>4. CASE \/ TablesListed(t) \/ SourceInserted(t) \/ FileLoaded(t) \/ FileInserted(t)
           \/ Deregister(t) \/ Uncatalogue(t) \/ Forget(t) \/ ClearCache(t)
           \/ FindUnlisted(t) \/ CheckMissing(t) \/ CacheSchema(t)
           \/ RecheckMissing(t) \/ Planned(t) \/ AwaitFails(t)
  <2>1. /\ overlapped' = overlapped
        /\ \/ op' = op
           \/ pc' = [pc EXCEPT ![t] = "idle"] /\ op' = [op EXCEPT ![t] = NoOp]
    BY <1>4 DEF TablesListed, SourceInserted, FileLoaded, FileInserted, Deregister,
       Uncatalogue, Forget, ClearCache, FindUnlisted, CheckMissing, CacheSchema,
       RecheckMissing, Planned, AwaitFails, Goto, End
  <2>2. QED
    BY <1>3, <2>1
<1>5. CASE FindNothing(t)
  BY <1>0, <1>5 DEF FindNothing, Op
<1>6. CASE Find(t)
  <2>1. /\ op' = [op EXCEPT ![t] = [o EXCEPT !.held = sources[Name(t)]]]
        /\ overlapped' = overlapped
    BY <1>6 DEF Find, Goto
  <2>2. [o EXCEPT !.held = sources[Name(t)]].names = o.names
    BY <1>0 DEF Op
  <2>3. QED
    BY <1>0, <2>1, <2>2
<1>7. CASE CheckRegistered(t) \/ RecheckRegistered(t) \/ TableInserted(t)
  <2>. DEFINE m == [o EXCEPT !.refs = Tail(o.refs), !.held = None,
                             !.provider = None, !.schema = None]
  <2>1. op' = [op EXCEPT ![t] = m] /\ overlapped' = overlapped
    BY <1>7 DEF CheckRegistered, RecheckRegistered, TableInserted, NextRef, Goto
  <2>2. m.names = o.names
    BY <1>0 DEF Op
  <2>3. op'[t] = m
    BY <1>0, <2>1
  <2>4. QED
    BY <2>1, <2>2, <2>3
<1>8. CASE CacheLookup(t)
  <2>1. overlapped' = overlapped
    BY <1>8 DEF CacheLookup, Goto
  <2>2. \/ op' = [op EXCEPT ![t].schema = cache[CacheKey(t)]]
        \/ op' = [op EXCEPT ![t].schema = None]
    BY <1>8 DEF CacheLookup
  <2>3. op'[t].names = o.names
    BY <1>0, <2>2 DEF Op
  <2>4. QED
    BY <2>1, <2>3
<1>9. CASE ProviderBuilt(t)
  BY <1>0, <1>9 DEF ProviderBuilt, Goto, Op
<1>10. QED
  BY <1>2, <1>4, <1>5, <1>6, <1>7, <1>8, <1>9 DEF Step, Register, Remove, Ensure

\* The requests that overlap at a step are recorded at that step.
LEMMA ApartStep ==
  ASSUME RegistryInv, Apart, [Next]_vars
  PROVE  Apart'
<1>1. CASE UNCHANGED vars
  BY <1>1 DEF Apart, vars
<1>2. ASSUME NEW t \in Tasks, Step(t)
      PROVE  Apart'
  <2>1. /\ op \in [Tasks -> Op]
        /\ \A u \in Tasks \ {t} : op'[u] = op[u]
    BY <1>2, StepMoves DEF RegistryInv, TypeOK, Moves
  <2>2. CASE /\ overlapped' = overlapped
             /\ op'[t].names = op[t].names \/ op'[t] = NoOp
    <3>1. op'[t].names \subseteq op[t].names
      BY <2>2 DEF NoOp
    <3>2. QED
      BY <2>1, <2>2, <3>1 DEF Apart
  <2>3. CASE \E p, r : Begin(t, p, r)
    <3>1. PICK p, r : Begin(t, p, r)
      BY <2>3
    <3>2. /\ op'[t] = r
          /\ overlapped' = overlapped \cup
               {n \in r.names : \E u \in Tasks \ {t} : n \in op[u].names}
      BY <2>1, <3>1 DEF Begin
    <3>3. \A u \in Tasks \ {t} : op'[t].names \cap op[u].names \subseteq overlapped'
      BY <3>2
    <3>4. QED
      BY <2>1, <3>2, <3>3 DEF Apart
  <2>4. QED
    BY <1>2, <2>2, <2>3, NamesStep
<1>3. QED
  BY <1>1, <1>2 DEF Next

-----------------------------------------------------------------------------
(* Databases.  What the tables say of an alias that only one request is     *)
(* about, from where that request, o at the point p, has got: between the   *)
(* sections of a registration or a removal the tables disagree, each time   *)
(* in a way the rest of the request makes up for.                           *)

NoTables(n) == \A r \in Refs : r[1] = n => tables[r] = None

NoSchemas(n) == \A k \in CacheKeys : k[1] = n => cache[k] = None

Listed(n) == catalog[n] = IF sources[n] = None THEN None ELSE sources[n].endpoint

DatabaseAt(n, p, o) ==
  /\ p \notin {"listed", "forget", "clear"} => Listed(n)
  /\ sources[n] = None => NoTables(n)
  /\ sources[n] = None /\ p # "clear" => NoSchemas(n)
  /\ p = "listed" => catalog[n] = o.endpoint
  /\ p = "deregister" => o.endpoint = catalog[n]
  /\ p \in {"uncatalogue", "forget", "clear"} => NoTables(n)
  /\ p \in {"forget", "clear"} => catalog[n] = None
  /\ p = "clear" => sources[n] = None
  /\ o.held # None /\ Head(o.refs)[1] = n => sources[n] # None

\* The one request about an alias keeps the tables in that state: the steps
\* that write them ...
LEMMA DatabaseAtWrites ==
  ASSUME RegistryInv, NEW t \in Tasks, NEW n \in DatabaseNames \ FileNames,
         n \in op[t].names, DatabaseAt(n, pc[t], op[t]),
         \/ TablesListed(t) \/ SourceInserted(t) \/ Deregister(t) \/ Uncatalogue(t)
         \/ Forget(t) \/ ClearCache(t)
  PROVE  DatabaseAt(n, pc[t], op[t])'
<1>. DEFINE o == op[t]
<1>0. /\ Shaped(pc[t], o) /\ o \in Op /\ pc[t] \in Points
      /\ op \in [Tasks -> Op] /\ pc \in [Tasks -> Points]
      /\ n \in Names
      /\ catalog \in [Names -> Endpoints \cup {"file", None}]
      /\ sources \in [DatabaseNames -> Registration \cup {None}]
      /\ tables \in [Refs -> Provider \cup {None}]
      /\ cache \in [CacheKeys -> Endpoints \cup {None}]
      /\ NoOp.held = None
      /\ \A e : [generation |-> nextGeneration, endpoint |-> e].endpoint = e
  BY DEF RegistryInv, TypeOK, Shape, Names, NoOp
<1>1. CASE TablesListed(t)
  <2>1. /\ pc[t] = "list" /\ pc'[t] = "listed" /\ op' = op
        /\ catalog' = [catalog EXCEPT ![o.name] = o.endpoint]
        /\ UNCHANGED <<sources, tables, cache>>
    BY <1>0, <1>1 DEF TablesListed, Goto
  <2>2. n = o.name /\ o.held = None
    BY <1>0, <2>1 DEF Shaped, NothingHeld, Holding, Built
  <2>3. QED
    BY <1>0, <2>1, <2>2 DEF DatabaseAt, NoTables, NoSchemas
<1>2. CASE SourceInserted(t)
  <2>1. /\ pc[t] = "listed" /\ pc'[t] = "idle" /\ op'[t] = NoOp
        /\ sources' = [sources EXCEPT ![o.name] =
                         [generation |-> nextGeneration, endpoint |-> o.endpoint]]
        /\ UNCHANGED <<catalog, tables, cache>>
    BY <1>0, <1>2 DEF SourceInserted, End
  <2>2. n = o.name
    BY <1>0, <2>1 DEF Shaped
  <2>3. nextGeneration \in Generations
    <3>1. t \in Registering /\ IsFiniteSet(Registering)
      BY <2>1, TasksAssumption, FS_Subset DEF Registering
    <3>2. Cardinality(Registering) \in Nat \ {0}
      BY <3>1, FS_CardinalityType, FS_EmptySet
    <3>3. QED
      BY <3>2, NoneAssumption DEF RegistryInv, TypeOK, Counted, Generations
  <2>4. o.endpoint \in Endpoints
    BY <1>0, <2>1 DEF Shaped
  <2>5. sources'[n] # None /\ sources'[n].endpoint = o.endpoint
    BY <1>0, <2>1, <2>2, <2>3, <2>4, NoneRecords DEF Registration
  <2>6. QED
    BY <1>0, <2>1, <2>5 DEF DatabaseAt, Listed
<1>3. CASE Deregister(t)
  <2>1. /\ pc[t] = "deregister" /\ pc'[t] = "uncatalogue" /\ op' = op
        /\ o.endpoint \in Endpoints =>
             tables' = [r \in Refs |-> IF r[1] = o.name THEN None ELSE tables[r]]
        /\ o.endpoint \notin Endpoints => tables' = tables
        /\ UNCHANGED <<catalog, sources, cache>>
    BY <1>0, <1>3 DEF Deregister, Goto
  <2>2. n = o.name /\ o.held = None
    BY <1>0, <2>1 DEF Shaped, Removing, NothingHeld, Holding, Built
  <2>3. NoTables(n)'
    <3>1. CASE o.endpoint \in Endpoints
      BY <2>1, <2>2, <3>1 DEF NoTables
    <3>2. CASE o.endpoint \notin Endpoints
      <4>1. sources[n] = None
        BY <1>0, <2>1, <3>2 DEF DatabaseAt, Listed, Registration
      <4>2. QED
        BY <2>1, <3>2, <4>1 DEF DatabaseAt, NoTables
    <3>3. QED
      BY <3>1, <3>2
  <2>4. QED
    BY <2>1, <2>2, <2>3 DEF DatabaseAt, NoSchemas, Listed
<1>4. CASE Uncatalogue(t)
  <2>1. /\ pc[t] = "uncatalogue" /\ pc'[t] = "forget" /\ op' = op
        /\ catalog' = [catalog EXCEPT ![o.name] = None]
        /\ UNCHANGED <<sources, tables, cache>>
    BY <1>0, <1>4 DEF Uncatalogue, Goto
  <2>2. n = o.name /\ o.held = None
    BY <1>0, <2>1 DEF Shaped, Removing, NothingHeld, Holding, Built
  <2>3. QED
    BY <1>0, <2>1, <2>2 DEF DatabaseAt, NoTables, NoSchemas
<1>5. CASE Forget(t)
  <2>1. /\ pc[t] = "forget" /\ pc'[t] = "clear" /\ op' = op
        /\ sources' = [m \in DatabaseNames |->
                         IF m = o.name THEN None ELSE sources[m]]
        /\ UNCHANGED <<catalog, tables, cache>>
    BY <1>0, <1>5 DEF Forget, Goto
  <2>2. n = o.name /\ o.held = None
    BY <1>0, <2>1 DEF Shaped, Removing, NothingHeld, Holding, Built
  <2>3. QED
    BY <1>0, <2>1, <2>2 DEF DatabaseAt, NoTables, NoSchemas
<1>6. CASE ClearCache(t)
  <2>1. /\ pc[t] = "clear" /\ pc'[t] = "idle" /\ op'[t] = NoOp
        /\ cache' = [k \in CacheKeys |-> IF k[1] = o.name THEN None ELSE cache[k]]
        /\ UNCHANGED <<catalog, sources, tables>>
    BY <1>0, <1>6 DEF ClearCache, End
  <2>2. n = o.name
    BY <1>0, <2>1 DEF Shaped, Removing
  <2>3. QED
    BY <1>0, <2>1, <2>2 DEF DatabaseAt, NoTables, NoSchemas, Listed
<1>7. QED
  BY <1>1, <1>2, <1>3, <1>4, <1>5, <1>6

\* ... those of a query, which write them only for an alias it has found ...
LEMMA DatabaseAtEnsure ==
  ASSUME RegistryInv, NEW t \in Tasks, NEW n \in DatabaseNames,
         DatabaseAt(n, pc[t], op[t]), Ensure(t), ~ Query(t)
  PROVE  DatabaseAt(n, pc[t], op[t])'
<1>. DEFINE o == op[t]
            Ensuring == Holding \cup {"find"}
<1>0. /\ Shaped(pc[t], o) /\ o \in Op /\ pc[t] \in Points
      /\ op \in [Tasks -> Op] /\ pc \in [Tasks -> Points]
      /\ tables \in [Refs -> Provider \cup {None}]
      /\ cache \in [CacheKeys -> Endpoints \cup {None}]
      /\ NoOp.held = None
  BY DEF RegistryInv, TypeOK, Shape, NoOp
<1>1. pc[t] \in Ensuring /\ pc'[t] \in Ensuring \cup {"idle"}
  BY <1>0 DEF Ensure, FindNothing, FindUnlisted, Find, CheckRegistered, CheckMissing,
     CacheLookup, ProviderBuilt, CacheSchema, RecheckRegistered, RecheckMissing,
     TableInserted, Planned, NextRef, Goto, End, Holding, Built
<1>2. \A p \in Ensuring \cup {"idle"} :
        p \notin {"listed", "deregister", "uncatalogue", "forget", "clear"}
  BY DEF Holding, Built
<1>3. ASSUME UNCHANGED <<catalog, sources>>,
             sources[n] = None => NoTables(n)' /\ NoSchemas(n)',
             \/ op'[t].held = None
             \/ op'[t].held = o.held /\ op'[t].refs = o.refs
             \/ sources[Head(op'[t].refs)[1]] # None
      PROVE  DatabaseAt(n, pc[t], op[t])'
  <2>1. Listed(n)'
    BY <1>1, <1>2, <1>3 DEF DatabaseAt, Listed
  <2>2. op'[t].held # None /\ Head(op'[t].refs)[1] = n => sources'[n] # None
    BY <1>3 DEF DatabaseAt
  <2>3. QED
    BY <1>1, <1>2, <1>3, <2>1, <2>2 DEF DatabaseAt
<1>4. sources[n] = None => NoTables(n) /\ NoSchemas(n)
  BY <1>1, <1>2 DEF DatabaseAt
<1>5. ASSUME UNCHANGED <<catalog, sources, tables, cache>>
      PROVE  /\ UNCHANGED <<catalog, sources>>
             /\ sources[n] = None => NoTables(n)' /\ NoSchemas(n)'
  BY <1>4, <1>5 DEF NoTables, NoSchemas
<1>6. ASSUME NEW p, NextRef(t, p)
      PROVE  op'[t].held = None
  <2>. DEFINE m == [o EXCEPT !.refs = Tail(o.refs), !.held = None,
                             !.provider = None, !.schema = None]
  <2>1. op' = [op EXCEPT ![t] = m] /\ m.held = None
    BY <1>0, <1>6 DEF NextRef, Op
  <2>. HIDE DEF m
  <2>2. QED
    BY <1>0, <2>1
<1>7. CASE FindUnlisted(t) \/ Planned(t)
  <2>1. op'[t] = NoOp /\ UNCHANGED <<catalog, sources, tables, cache>>
    BY <1>0, <1>7 DEF FindUnlisted, Planned, End, stores
  <2>2. QED
    BY <1>0, <1>3, <1>5, <2>1
<1>8. CASE CheckRegistered(t) \/ RecheckRegistered(t)
  <2>1. op'[t].held = None
    BY <1>6, <1>8 DEF CheckRegistered, RecheckRegistered
  <2>2. UNCHANGED <<catalog, sources, tables, cache>>
    BY <1>8 DEF CheckRegistered, RecheckRegistered, stores
  <2>3. QED
    BY <1>3, <1>5, <2>1, <2>2
<1>9. CASE CheckMissing(t) \/ RecheckMissing(t)
  <2>1. op' = op /\ UNCHANGED <<catalog, sources, tables, cache>>
    BY <1>9 DEF CheckMissing, RecheckMissing, stores
  <2>2. QED
    BY <1>3, <1>5, <2>1
<1>10. CASE FindNothing(t)
  <2>. DEFINE m == [o EXCEPT !.refs = Tail(o.refs), !.unknown = TRUE]
  <2>1. /\ op' = [op EXCEPT ![t] = m] /\ m.held = o.held
        /\ UNCHANGED <<catalog, sources, tables, cache>>
        /\ pc[t] = "find"
    BY <1>0, <1>10 DEF FindNothing, stores, Op
  <2>2. o.held = None
    BY <1>0, <2>1 DEF Shaped, NothingHeld, Holding, Built
  <2>. HIDE DEF m
  <2>3. op'[t].held = None
    BY <1>0, <2>1, <2>2
  <2>4. QED
    BY <1>3, <1>5, <2>1, <2>3
<1>11. CASE Find(t)
  <2>. DEFINE m == [o EXCEPT !.held = sources[Name(t)]]
  <2>1. /\ op' = [op EXCEPT ![t] = m] /\ m.refs = o.refs
        /\ UNCHANGED <<catalog, sources, tables, cache>>
        /\ sources[Name(t)] # None /\ Name(t) = Head(o.refs)[1]
    BY <1>0, <1>11 DEF Find, stores, Op, Name, Ref
  <2>. HIDE DEF m
  <2>2. sources[Head(op'[t].refs)[1]] # None
    BY <1>0, <2>1
  <2>3. QED
    BY <1>3, <1>5, <2>1, <2>2
<1>12. CASE ProviderBuilt(t)
  <2>1. PICK provider :
          /\ op' = [op EXCEPT ![t].provider = provider]
          /\ UNCHANGED <<catalog, sources, tables, cache>>
    BY <1>12 DEF ProviderBuilt, stores
  <2>2. op'[t].held = o.held /\ op'[t].refs = o.refs
    BY <1>0, <2>1 DEF Op
  <2>3. QED
    BY <1>3, <1>5, <2>1, <2>2
<1>13. CASE CacheLookup(t)
  <2>1. /\ UNCHANGED <<catalog, sources, tables>>
        /\ \A k \in CacheKeys : cache'[k] \in {cache[k], None}
        /\ \/ op' = [op EXCEPT ![t].schema = cache[CacheKey(t)]]
           \/ op' = [op EXCEPT ![t].schema = None]
    BY <1>0, <1>13 DEF CacheLookup
  <2>2. op'[t].held = o.held /\ op'[t].refs = o.refs
    BY <1>0, <2>1 DEF Op
  <2>3. sources[n] = None => NoTables(n)' /\ NoSchemas(n)'
    BY <1>4, <2>1 DEF NoTables, NoSchemas
  <2>4. QED
    BY <1>3, <2>1, <2>2, <2>3
<1>14. CASE CacheSchema(t) \/ TableInserted(t)
  <2>1. pc[t] \in Holding
    BY <1>14 DEF CacheSchema, TableInserted, NextRef, Goto, Holding, Built
  <2>2. /\ Ref(t)[1] = Name(t) /\ CacheKey(t)[1] = Name(t) /\ Name(t) = Head(o.refs)[1]
        /\ o.held # None
    BY <1>0, <2>1, CacheKeyType, NoneRecords DEF Name, Ref
  <2>3. sources[n] = None => Name(t) # n
    BY <2>2 DEF DatabaseAt
  <2>4. /\ UNCHANGED <<catalog, sources>>
        /\ \A r \in Refs : r # Ref(t) => tables'[r] = tables[r]
        /\ \A k \in CacheKeys : k # CacheKey(t) => cache'[k] = cache[k]
    BY <1>0, <1>14 DEF CacheSchema, TableInserted
  <2>5. sources[n] = None => NoTables(n)' /\ NoSchemas(n)'
    BY <1>4, <2>2, <2>3, <2>4 DEF NoTables, NoSchemas
  <2>6. op'[t].held = None \/ op' = op
    BY <1>6, <1>14 DEF CacheSchema, TableInserted
  <2>7. QED
    BY <1>3, <2>4, <2>5, <2>6
<1>15. QED
  BY <1>7, <1>8, <1>9, <1>10, <1>11, <1>12, <1>13, <1>14 DEF Ensure

\* ... and those that begin a request or abandon it, which write none.
LEMMA DatabaseAtOther ==
  ASSUME RegistryInv, NEW t \in Tasks, NEW n \in DatabaseNames \ FileNames,
         n \in op[t].names \/ n \in op'[t].names,
         DatabaseAt(n, pc[t], op[t]),
         \/ RegisterDatabase(t) \/ RegisterFile(t) \/ FileLoaded(t) \/ FileInserted(t)
         \/ RemoveSource(t) \/ Query(t) \/ AwaitFails(t)
  PROVE  DatabaseAt(n, pc[t], op[t])'
<1>. DEFINE o == op[t]
<1>0. /\ Shaped(pc[t], o) /\ o \in Op /\ pc[t] \in Points
      /\ op \in [Tasks -> Op] /\ pc \in [Tasks -> Points]
      /\ NoOp.held = None /\ NoOp.names = {}
  BY DEF RegistryInv, TypeOK, Shape, NoOp
<1>1. ASSUME UNCHANGED <<catalog, sources, tables, cache>>,
             pc[t] \in {"idle", "list", "load", "introspect"},
             pc'[t] \in {"idle", "list", "load", "deregister", "find"},
             pc'[t] = "deregister" => op'[t].endpoint = catalog[n],
             op'[t].held = None
      PROVE  DatabaseAt(n, pc[t], op[t])'
  BY <1>1 DEF DatabaseAt, Listed, NoTables, NoSchemas
<1>2. CASE FileLoaded(t) \/ FileInserted(t)
  <2>1. o.names = {o.name} /\ o.name \in FileNames
    BY <1>0, <1>2 DEF FileLoaded, FileInserted, Goto, Shaped
  <2>2. op'[t].names \subseteq o.names
    BY <1>0, <1>2 DEF FileLoaded, FileInserted, End
  <2>3. QED
    BY <2>1, <2>2
<1>3. CASE AwaitFails(t)
  <2>1. /\ pc[t] \in {"list", "load", "introspect"}
        /\ pc'[t] = "idle" /\ op'[t] = NoOp
        /\ UNCHANGED <<catalog, sources, tables, cache>>
    BY <1>0, <1>3 DEF AwaitFails, End, stores
  <2>2. QED
    BY <1>0, <1>1, <2>1
<1>4. ASSUME NEW p \in {"list", "load", "deregister", "find"}, NEW r, Begin(t, p, r),
             r.held = None, p = "deregister" => r.endpoint = catalog[n],
             UNCHANGED stores
      PROVE  DatabaseAt(n, pc[t], op[t])'
  BY <1>0, <1>1, <1>4 DEF Begin, stores
<1>5. CASE RegisterDatabase(t)
  <2>1. PICK m \in DatabaseNames, e \in Endpoints :
          Begin(t, "list", [NoOp EXCEPT !.names = {m}, !.name = m, !.endpoint = e])
    BY <1>5 DEF RegisterDatabase
  <2>2. [NoOp EXCEPT !.names = {m}, !.name = m, !.endpoint = e].held = None
    BY DEF NoOp
  <2>3. UNCHANGED stores
    BY <1>5 DEF RegisterDatabase
  <2>4. QED
    BY <1>4, <2>1, <2>2, <2>3
<1>6. CASE RegisterFile(t)
  <2>1. PICK m \in FileNames :
          Begin(t, "load", [NoOp EXCEPT !.names = {m}, !.name = m])
    BY <1>6 DEF RegisterFile
  <2>2. [NoOp EXCEPT !.names = {m}, !.name = m].held = None
    BY DEF NoOp
  <2>3. UNCHANGED stores
    BY <1>6 DEF RegisterFile
  <2>4. QED
    BY <1>4, <2>1, <2>2, <2>3
<1>7. CASE RemoveSource(t)
  <2>1. PICK m \in Names :
          Begin(t, "deregister", [NoOp EXCEPT !.names = {m}, !.name = m,
                                              !.endpoint = catalog[m]])
    BY <1>7 DEF RemoveSource
  <2>. DEFINE r == [NoOp EXCEPT !.names = {m}, !.name = m, !.endpoint = catalog[m]]
  <2>2. r.held = None /\ r.names = {m} /\ r.endpoint = catalog[m]
    BY DEF NoOp
  <2>3. UNCHANGED stores /\ op[t] = NoOp /\ op'[t] = r
    BY <1>0, <1>7, <2>1 DEF RemoveSource, Begin, Shaped
  <2>4. n = m
    BY <1>0, <2>2, <2>3
  <2>. HIDE DEF r
  <2>5. QED
    BY <1>4, <2>1, <2>2, <2>3, <2>4 DEF r
<1>8. CASE Query(t)
  <2>1. PICK query \in Queries :
          Begin(t, "find", [NoOp EXCEPT !.names = {query[i][1] : i \in DOMAIN query},
                                        !.query = query, !.refs = query])
    BY <1>8 DEF Query
  <2>2. [NoOp EXCEPT !.names = {query[i][1] : i \in DOMAIN query},
                     !.query = query, !.refs = query].held = None
    BY DEF NoOp
  <2>3. UNCHANGED stores
    BY <1>8 DEF Query
  <2>4. QED
    BY <1>4, <2>1, <2>2, <2>3
<1>9. QED
  BY <1>2, <1>3, <1>5, <1>6, <1>7, <1>8

\* Every step of the one request about an alias keeps the tables in the state
\* that goes with where the request is.
LEMMA DatabaseAtStep ==
  ASSUME RegistryInv, NEW t \in Tasks, Step(t),
         NEW n \in DatabaseNames \ FileNames,
         n \in op[t].names \/ n \in op'[t].names,
         DatabaseAt(n, pc[t], op[t])
  PROVE  DatabaseAt(n, pc[t], op[t])'
<1>1. CASE n \in op[t].names
  BY <1>1, DatabaseAtWrites, DatabaseAtEnsure, DatabaseAtOther
     DEF Step, Register, Remove, Ensure
<1>2. CASE n \notin op[t].names
  <2>1. \E p, r : Begin(t, p, r)
    BY <1>2, NamesStep DEF NoOp
  <2>2. pc[t] = "idle"
    BY <2>1 DEF Begin
  <2>3. /\ ~ TablesListed(t) /\ ~ SourceInserted(t)
        /\ Remove(t) => RemoveSource(t)
    BY <2>2 DEF TablesListed, SourceInserted, Remove, Deregister, Uncatalogue, Forget,
       ClearCache, Goto
  <2>4. QED
    BY <2>3, DatabaseAtEnsure, DatabaseAtOther DEF Step, Register
<1>3. QED
  BY <1>1, <1>2

-----------------------------------------------------------------------------
(* Files.                                                                  *)

FileAt(n, p, o) ==
  /\ catalog[n] \notin Endpoints
  /\ p \notin {"loaded", "uncatalogue", "forget", "clear"} =>
       (files[n] <=> catalog[n] = "file")
  /\ p = "loaded" => catalog[n] = "file"
  /\ p = "deregister" => o.endpoint = catalog[n]
  /\ p \in {"uncatalogue", "forget", "clear"} => ~ files[n]
  /\ p \in {"forget", "clear"} => catalog[n] = None

\* Every step of the one request about a file keeps the tables in the state
\* that goes with where the request is.
LEMMA FileAtStep ==
  ASSUME RegistryInv, NEW t \in Tasks, Step(t),
         NEW n \in FileNames \ DatabaseNames,
         n \in op[t].names \/ n \in op'[t].names,
         FileAt(n, pc[t], op[t])
  PROVE  FileAt(n, pc[t], op[t])'
<1>. DEFINE o == op[t]
<1>0. /\ Shaped(pc[t], o) /\ o \in Op /\ pc[t] \in Points
      /\ op \in [Tasks -> Op] /\ pc \in [Tasks -> Points]
      /\ n \in Names
      /\ catalog \in [Names -> Endpoints \cup {"file", None}]
      /\ files \in [FileNames -> BOOLEAN]
      /\ NoOp.names = {}
      /\ None # "file" /\ None \notin Endpoints /\ "file" \notin Endpoints
  BY NoneAssumption DEF RegistryInv, TypeOK, Shape, Names, NoOp
<1>1. ASSUME UNCHANGED <<catalog, files>>,
             pc[t] \notin {"loaded", "uncatalogue", "forget", "clear"},
             pc'[t] \notin {"loaded", "uncatalogue", "forget", "clear"},
             pc'[t] = "deregister" => op'[t].endpoint = catalog[n]
      PROVE  FileAt(n, pc[t], op[t])'
  BY <1>1 DEF FileAt
<1>2. CASE FileLoaded(t)
  <2>1. /\ pc[t] = "load" /\ pc'[t] = "loaded" /\ op' = op
        /\ catalog' = [catalog EXCEPT ![o.name] = "file"]
        /\ files' = files
    BY <1>0, <1>2 DEF FileLoaded, Goto
  <2>2. n = o.name
    BY <1>0, <2>1 DEF Shaped
  <2>3. QED
    BY <1>0, <2>1, <2>2 DEF FileAt
<1>3. CASE FileInserted(t)
  <2>1. /\ pc[t] = "loaded" /\ pc'[t] = "idle" /\ op'[t] = NoOp
        /\ files' = [files EXCEPT ![o.name] = TRUE]
        /\ catalog' = catalog
    BY <1>0, <1>3 DEF FileInserted, End
  <2>2. n = o.name
    BY <1>0, <2>1 DEF Shaped
  <2>3. QED
    BY <1>0, <2>1, <2>2 DEF FileAt
<1>4. CASE TablesListed(t) \/ SourceInserted(t)
  <2>1. o.names = {o.name} /\ o.name \in DatabaseNames
    BY <1>0, <1>4 DEF TablesListed, SourceInserted, Goto, Shaped
  <2>2. op'[t].names \subseteq o.names
    BY <1>0, <1>4 DEF TablesListed, SourceInserted, End
  <2>3. QED
    BY <2>1, <2>2
<1>5. CASE Deregister(t) \/ Uncatalogue(t) \/ Forget(t) \/ ClearCache(t)
  <2>1. pc[t] \in Removing
    BY <1>5 DEF Deregister, Uncatalogue, Forget, ClearCache, Goto, Removing
  <2>2. op'[t].names \subseteq o.names
    BY <1>0, <1>5 DEF Deregister, Uncatalogue, Forget, ClearCache, End
  <2>3. n = o.name
    BY <1>0, <2>1, <2>2 DEF Shaped
  <2>4. CASE Deregister(t)
    <3>1. /\ pc[t] = "deregister" /\ pc'[t] = "uncatalogue" /\ catalog' = catalog
      BY <1>0, <2>4 DEF Deregister, Goto
    <3>2. o.endpoint \notin Endpoints
      BY <3>1 DEF FileAt
    <3>3. files' = [m \in FileNames |-> m # o.name /\ files[m]]
      BY <2>4, <3>2 DEF Deregister
    <3>4. QED
      BY <2>3, <3>1, <3>3 DEF FileAt
  <2>5. CASE Uncatalogue(t)
    <3>1. /\ pc[t] = "uncatalogue" /\ pc'[t] = "forget" /\ files' = files
          /\ catalog' = [catalog EXCEPT ![o.name] = None]
      BY <1>0, <2>5 DEF Uncatalogue, Goto
    <3>2. QED
      BY <1>0, <2>3, <3>1 DEF FileAt
  <2>6. CASE Forget(t)
    <3>1. pc[t] = "forget" /\ pc'[t] = "clear" /\ UNCHANGED <<catalog, files>>
      BY <1>0, <2>6 DEF Forget, Goto
    <3>2. QED
      BY <3>1 DEF FileAt
  <2>7. CASE ClearCache(t)
    <3>1. pc[t] = "clear" /\ pc'[t] = "idle" /\ UNCHANGED <<catalog, files>>
      BY <1>0, <2>7 DEF ClearCache, End
    <3>2. QED
      BY <1>0, <3>1 DEF FileAt
  <2>8. QED
    BY <1>5, <2>4, <2>5, <2>6, <2>7
<1>6. CASE RemoveSource(t)
  <2>1. PICK m \in Names :
          Begin(t, "deregister", [NoOp EXCEPT !.names = {m}, !.name = m,
                                              !.endpoint = catalog[m]])
    BY <1>6 DEF RemoveSource
  <2>. DEFINE r == [NoOp EXCEPT !.names = {m}, !.name = m, !.endpoint = catalog[m]]
  <2>2. r.names = {m} /\ r.endpoint = catalog[m]
    BY DEF NoOp
  <2>3. /\ UNCHANGED <<catalog, files>> /\ op[t] = NoOp /\ op'[t] = r
        /\ pc[t] = "idle" /\ pc'[t] = "deregister"
    BY <1>0, <1>6, <2>1 DEF RemoveSource, Begin, Shaped, stores
  <2>4. QED
    BY <1>0, <1>1, <2>2, <2>3
<1>7. CASE \/ RegisterDatabase(t) \/ RegisterFile(t) \/ Ensure(t) \/ AwaitFails(t)
  <2>1. UNCHANGED <<catalog, files>>
    BY <1>7, ZenonT(60) DEF RegisterDatabase, RegisterFile, Ensure, Query, FindNothing,
       FindUnlisted, Find, CheckRegistered, CheckMissing, CacheLookup, ProviderBuilt,
       CacheSchema, RecheckRegistered, RecheckMissing, TableInserted, Planned,
       AwaitFails, stores
  <2>2. /\ pc[t] \notin Removing \cup {"loaded"}
        /\ pc'[t] \notin Removing \cup {"loaded"}
    BY <1>0, <1>7 DEF RegisterDatabase, RegisterFile, Ensure, Query, FindNothing,
       FindUnlisted, Find, CheckRegistered, CheckMissing, CacheLookup, ProviderBuilt,
       CacheSchema, RecheckRegistered, RecheckMissing, TableInserted, Planned,
       AwaitFails, Begin, Goto, NextRef, End, Removing
  <2>3. QED
    BY <1>1, <2>1, <2>2 DEF Removing
<1>8. QED
  BY <1>2, <1>3, <1>4, <1>5, <1>6, <1>7 DEF Step, Register, Remove

-----------------------------------------------------------------------------
(* The tables agree.                                                       *)

Unclaimed(n) == \A t \in Tasks : n \notin op[t].names

DatabasesAgree ==
  \A n \in DatabaseNames \ FileNames : n \notin overlapped =>
    /\ \A t \in Tasks : n \in op[t].names => DatabaseAt(n, pc[t], op[t])
    /\ Unclaimed(n) => DatabaseAt(n, "idle", NoOp)

FilesAgree ==
  \A n \in FileNames \ DatabaseNames : n \notin overlapped =>
    /\ \A t \in Tasks : n \in op[t].names => FileAt(n, pc[t], op[t])
    /\ Unclaimed(n) => FileAt(n, "idle", NoOp)

AgreementInv == RegistryInv /\ Apart /\ DatabasesAgree /\ FilesAgree

\* Of a name that requests have not overlapped on, the step is either that of
\* its one request, or one that it is spared by.
LEMMA OneOwner ==
  ASSUME RegistryInv, Apart, NEW t \in Tasks, Step(t),
         NEW n \in Names, n \notin overlapped'
  PROVE  /\ n \notin overlapped
         /\ n \in op[t].names \/ n \in op'[t].names =>
              /\ \A u \in Tasks \ {t} : n \notin op[u].names /\ n \notin op'[u].names
              /\ n \notin op[t].names => /\ Unclaimed(n)
                                         /\ pc[t] = "idle" /\ op[t] = NoOp
              /\ n \notin op'[t].names => pc'[t] = "idle" /\ op'[t] = NoOp
         /\ n \notin op[t].names => Spared(n)
         /\ \A u \in Tasks \ {t} : op'[u] = op[u] /\ pc'[u] = pc[u]
<1>0. NoOp.names = {}
  BY DEF NoOp
<1>1. \A u \in Tasks \ {t} : op'[u] = op[u] /\ pc'[u] = pc[u]
  BY StepMoves DEF RegistryInv, TypeOK, Moves
<1>2. n \notin overlapped
  BY NamesStep
<1>3. Apart'
  BY ApartStep DEF Next
<1>4. n \in op[t].names \/ n \in op'[t].names =>
        \A u \in Tasks \ {t} : n \notin op[u].names /\ n \notin op'[u].names
  BY <1>1, <1>2, <1>3 DEF Apart
<1>5. n \in op'[t].names /\ n \notin op[t].names => pc[t] = "idle" /\ op[t] = NoOp
  BY <1>0, NamesStep DEF Begin
<1>6. n \in op[t].names /\ n \notin op'[t].names => pc'[t] = "idle" /\ op'[t] = NoOp
  BY <1>0, NamesStep
<1>7. n \notin op[t].names => Spared(n)
  BY OthersSparedStep
<1>8. QED
  BY <1>1, <1>2, <1>4, <1>5, <1>6, <1>7 DEF Unclaimed

\* The databases agree after a step.
LEMMA DatabasesAgreeStep ==
  ASSUME AgreementInv, NEW t \in Tasks, Step(t)
  PROVE  DatabasesAgree'
<1>. SUFFICES ASSUME NEW n \in DatabaseNames \ FileNames, n \notin overlapped'
              PROVE  /\ \A u \in Tasks : n \in op'[u].names => DatabaseAt(n, pc[u], op[u])'
                     /\ Unclaimed(n)' => DatabaseAt(n, "idle", NoOp)'
  BY DEF DatabasesAgree
<1>1. /\ n \in Names /\ RegistryInv /\ Apart
      /\ n \notin overlapped
      /\ \A u \in Tasks : n \in op[u].names => DatabaseAt(n, pc[u], op[u])
      /\ Unclaimed(n) => DatabaseAt(n, "idle", NoOp)
  BY OneOwner DEF AgreementInv, DatabasesAgree, Names
<1>2. CASE n \in op[t].names \/ n \in op'[t].names
  <2>1. DatabaseAt(n, pc[t], op[t])
    BY <1>1, <1>2, OneOwner
  <2>2. DatabaseAt(n, pc[t], op[t])'
    BY <1>1, <1>2, <2>1, DatabaseAtStep
  <2>3. \A u \in Tasks \ {t} : n \notin op'[u].names
    BY <1>1, <1>2, OneOwner
  <2>4. ASSUME Unclaimed(n)'
        PROVE  DatabaseAt(n, "idle", NoOp)'
    <3>1. pc'[t] = "idle" /\ op'[t] = NoOp
      BY <1>1, <1>2, <2>4, OneOwner DEF Unclaimed
    <3>2. QED
      BY <2>2, <3>1
  <2>5. QED
    BY <2>2, <2>3, <2>4
<1>3. CASE n \notin op[t].names /\ n \notin op'[t].names
  <2>1. /\ Spared(n)
        /\ \A u \in Tasks \ {t} : op'[u] = op[u] /\ pc'[u] = pc[u]
    BY <1>1, <1>3, OneOwner
  <2>2. ASSUME NEW u \in Tasks, n \in op'[u].names
        PROVE  DatabaseAt(n, pc[u], op[u])'
    <3>1. u # t /\ op'[u] = op[u] /\ pc'[u] = pc[u]
      BY <1>3, <2>1, <2>2
    <3>2. DatabaseAt(n, pc[u], op[u])
      BY <1>1, <2>2, <3>1
    <3>3. QED
      BY <2>1, <3>1, <3>2 DEF DatabaseAt, Spared, NoTables, NoSchemas, Listed
  <2>3. ASSUME Unclaimed(n)'
        PROVE  DatabaseAt(n, "idle", NoOp)'
    <3>1. Unclaimed(n)
      BY <1>3, <2>1, <2>3 DEF Unclaimed
    <3>2. DatabaseAt(n, "idle", NoOp)
      BY <1>1, <3>1
    <3>3. QED
      BY <2>1, <3>2 DEF DatabaseAt, Spared, NoTables, NoSchemas, Listed
  <2>4. QED
    BY <2>2, <2>3
<1>4. QED
  BY <1>2, <1>3

\* The files agree after a step.
LEMMA FilesAgreeStep ==
  ASSUME AgreementInv, NEW t \in Tasks, Step(t)
  PROVE  FilesAgree'
<1>. SUFFICES ASSUME NEW n \in FileNames \ DatabaseNames, n \notin overlapped'
              PROVE  /\ \A u \in Tasks : n \in op'[u].names => FileAt(n, pc[u], op[u])'
                     /\ Unclaimed(n)' => FileAt(n, "idle", NoOp)'
  BY DEF FilesAgree
<1>1. /\ n \in Names /\ RegistryInv /\ Apart
      /\ n \notin overlapped
      /\ \A u \in Tasks : n \in op[u].names => FileAt(n, pc[u], op[u])
      /\ Unclaimed(n) => FileAt(n, "idle", NoOp)
  BY OneOwner DEF AgreementInv, FilesAgree, Names
<1>2. CASE n \in op[t].names \/ n \in op'[t].names
  <2>1. FileAt(n, pc[t], op[t])
    BY <1>1, <1>2, OneOwner
  <2>2. FileAt(n, pc[t], op[t])'
    BY <1>1, <1>2, <2>1, FileAtStep
  <2>3. \A u \in Tasks \ {t} : n \notin op'[u].names
    BY <1>1, <1>2, OneOwner
  <2>4. ASSUME Unclaimed(n)'
        PROVE  FileAt(n, "idle", NoOp)'
    <3>1. pc'[t] = "idle" /\ op'[t] = NoOp
      BY <1>1, <1>2, <2>4, OneOwner DEF Unclaimed
    <3>2. QED
      BY <2>2, <3>1
  <2>5. QED
    BY <2>2, <2>3, <2>4
<1>3. CASE n \notin op[t].names /\ n \notin op'[t].names
  <2>1. /\ Spared(n)
        /\ \A u \in Tasks \ {t} : op'[u] = op[u] /\ pc'[u] = pc[u]
    BY <1>1, <1>3, OneOwner
  <2>2. ASSUME NEW u \in Tasks, n \in op'[u].names
        PROVE  FileAt(n, pc[u], op[u])'
    <3>1. u # t /\ op'[u] = op[u] /\ pc'[u] = pc[u]
      BY <1>3, <2>1, <2>2
    <3>2. FileAt(n, pc[u], op[u])
      BY <1>1, <2>2, <3>1
    <3>3. QED
      BY <2>1, <3>1, <3>2 DEF FileAt, Spared
  <2>3. ASSUME Unclaimed(n)'
        PROVE  FileAt(n, "idle", NoOp)'
    <3>1. Unclaimed(n)
      BY <1>3, <2>1, <2>3 DEF Unclaimed
    <3>2. FileAt(n, "idle", NoOp)
      BY <1>1, <3>1
    <3>3. QED
      BY <2>1, <3>2 DEF FileAt, Spared
  <2>4. QED
    BY <2>2, <2>3
<1>4. QED
  BY <1>2, <1>3

\* A step keeps the tables in agreement.
LEMMA AgreementStep ==
  ASSUME AgreementInv, [Next]_vars
  PROVE  AgreementInv'
<1>1. RegistryInv' /\ Apart'
  BY RegistryInvStep, ApartStep DEF AgreementInv
<1>2. CASE UNCHANGED vars
  <2>1. DatabasesAgree' /\ FilesAgree'
    BY <1>2 DEF AgreementInv, DatabasesAgree, FilesAgree, Unclaimed, DatabaseAt,
       FileAt, NoTables, NoSchemas, Listed, vars
  <2>2. QED
    BY <1>1, <2>1 DEF AgreementInv
<1>3. CASE Next
  BY <1>1, <1>3, DatabasesAgreeStep, FilesAgreeStep DEF AgreementInv, Next
<1>4. QED
  BY <1>2, <1>3

\* At the start all tables are empty.
LEMMA AgreementInit == Init => AgreementInv
<1>. SUFFICES ASSUME Init PROVE AgreementInv
  OBVIOUS
<1>1. \A t \in Tasks : op[t] = NoOp
  BY DEF Init
<1>2. /\ NoOp.names = {} /\ NoOp.held = None
      /\ None \notin Endpoints /\ None # "file"
  BY NoneAssumption DEF NoOp
<1>3. Apart
  BY <1>1, <1>2 DEF Apart
<1>4. \A n \in DatabaseNames : DatabaseAt(n, "idle", NoOp)
  BY <1>2 DEF Init, DatabaseAt, NoTables, NoSchemas, Listed, Names
<1>5. \A n \in FileNames : FileAt(n, "idle", NoOp)
  BY <1>2 DEF Init, FileAt, Names
<1>6. DatabasesAgree /\ FilesAgree
  BY <1>1, <1>2, <1>4, <1>5 DEF DatabasesAgree, FilesAgree
<1>7. QED
  BY <1>3, <1>6, RegistryInvInit DEF AgreementInv

\* Once no request is about a source, and none has overlapped another on it,
\* its catalog entry, its registration, its tables and its cached schemas are
\* all there or all gone: registration in two sections and removal in five
\* make up for every disagreement they go through.
THEOREM SourcesAgree == Spec => []TablesAgree
<1>1. AgreementInv => TablesAgree
  <2>1. SUFFICES ASSUME AgreementInv
                 PROVE  TablesAgree
    OBVIOUS
  <2>2. ASSUME NEW n \in DatabaseNames \ FileNames, Undisturbed(n)
        PROVE  Listed(n) /\ (sources[n] = None => NoTables(n) /\ NoSchemas(n))
    <3>1. n \notin overlapped /\ Unclaimed(n)
      BY <2>2 DEF Undisturbed, Unclaimed
    <3>2. DatabaseAt(n, "idle", NoOp)
      BY <2>1, <3>1 DEF AgreementInv, DatabasesAgree
    <3>3. QED
      BY <3>2 DEF DatabaseAt
  <2>3. ASSUME NEW n \in FileNames \ DatabaseNames, Undisturbed(n)
        PROVE  files[n] <=> catalog[n] = "file"
    <3>1. n \notin overlapped /\ Unclaimed(n)
      BY <2>3 DEF Undisturbed, Unclaimed
    <3>2. FileAt(n, "idle", NoOp)
      BY <2>1, <3>1 DEF AgreementInv, FilesAgree
    <3>3. QED
      BY <3>2 DEF FileAt
  <2>4. QED
    BY <2>2, <2>3 DEF TablesAgree, Listed, NoTables, NoSchemas
<1>2. QED
  BY <1>1, AgreementInit, AgreementStep, PTL DEF Spec

-----------------------------------------------------------------------------
(* Queries of removed sources.                                             *)

\* An alias of the query has no registration, and so no table to read.
Missing(o) ==
  \E i \in DOMAIN o.query : sources[o.query[i][1]] = None /\ tables[o.query[i]] = None

Private(names) == names \cap (overlapped \cup FileNames) = {}

UnknownMissing ==
  \A t \in Tasks : op[t].unknown /\ Private(op[t].names) => Missing(op[t])

\* What a query has found missing, other requests do not put there.
LEMMA MissingStaysOthers ==
  ASSUME AgreementInv, UnknownMissing, NEW t \in Tasks, Step(t),
         NEW u \in Tasks \ {t}, op'[u].unknown, Private(op[u].names)'
  PROVE  Missing(op[u])'
<1>1. /\ op'[u] = op[u] /\ op[u] \in Op /\ Shaped(pc[u], op[u])
      /\ RegistryInv /\ Apart
  BY StepMoves DEF AgreementInv, RegistryInv, TypeOK, Shape, Moves
<1>2. Private(op[u].names)
  BY <1>1, NamesStep DEF Private, AgreementInv
<1>3. PICK i \in DOMAIN op[u].query :
        sources[op[u].query[i][1]] = None /\ tables[op[u].query[i]] = None
  BY <1>1, <1>2 DEF UnknownMissing, Missing
<1>. DEFINE r == op[u].query[i]
            n == r[1]
<1>4. /\ r \in Refs /\ n \in DatabaseNames /\ n \in Names /\ n \in op[u].names
  <2>1. op[u].query \in Seq(Refs)
    BY <1>1, QueriesAssumption, EmptySeq DEF Op
  <2>2. Asks(op[u])
    BY <1>1 DEF Shaped
  <2>3. QED
    BY <1>3, <2>1, <2>2 DEF Asks, Refs, Names
<1>5. n \notin op[t].names
  BY <1>1, <1>2, <1>4 DEF Apart, Private
<1>6. Spared(n)
  BY <1>1, <1>4, <1>5, OthersSparedStep
<1>7. sources'[n] = None /\ tables'[r] = None
  BY <1>3, <1>4, <1>6 DEF Spared
<1>8. QED
  BY <1>1, <1>3, <1>7 DEF Missing

\* ... nor does the query itself, which builds tables only of aliases it found.
LEMMA MissingStays ==
  ASSUME AgreementInv, UnknownMissing, NEW t \in Tasks, Step(t),
         op'[t].unknown, Private(op[t].names)'
  PROVE  Missing(op[t])'
<1>. DEFINE o == op[t]
<1>0. /\ Shaped(pc[t], o) /\ o \in Op /\ pc[t] \in Points
      /\ op \in [Tasks -> Op] /\ pc \in [Tasks -> Points]
      /\ tables \in [Refs -> Provider \cup {None}]
      /\ o.query \in Seq(Refs)
      /\ NoOp.unknown = FALSE
      /\ RegistryInv /\ Apart /\ DatabasesAgree
  BY QueriesAssumption, EmptySeq
     DEF AgreementInv, RegistryInv, TypeOK, Shape, NoOp, Op
<1>1. PICK p, m : Moves(t, p, m)
  BY <1>0, StepMoves
<1>2. op'[t] = m /\ pc'[t] = p /\ p \in Holding \cup {"find"}
  BY <1>0, <1>1 DEF Moves, Shaped
<1>3. CASE Query(t)
  <2>1. PICK query \in Queries :
          Begin(t, "find", [NoOp EXCEPT !.names = {query[i][1] : i \in DOMAIN query},
                                        !.query = query, !.refs = query])
    BY <1>3 DEF Query
  <2>. DEFINE r == [NoOp EXCEPT !.names = {query[i][1] : i \in DOMAIN query},
                                !.query = query, !.refs = query]
  <2>2. r.unknown = FALSE
    BY DEF NoOp
  <2>3. op'[t] = r
    BY <1>0, <2>1 DEF Begin
  <2>. HIDE DEF r
  <2>4. QED
    BY <2>2, <2>3
<1>4. CASE Ensure(t) /\ ~ Query(t)
  <2>1. /\ pc[t] \in Holding \cup {"find"}
        /\ ~ FindUnlisted(t) /\ ~ Planned(t)
    BY <1>0, <1>2, <1>4 DEF Ensure, FindNothing, FindUnlisted, Find, CheckRegistered,
       CheckMissing, CacheLookup, ProviderBuilt, CacheSchema, RecheckRegistered,
       RecheckMissing, TableInserted, Planned, NextRef, Goto, End, Holding, Built
  <2>2. Asks(o)
    BY <1>0, <2>1 DEF Shaped
  <2>3. CASE FindNothing(t)
    <3>. DEFINE k == [o EXCEPT !.refs = Tail(o.refs), !.unknown = TRUE]
    <3>1. /\ op' = [op EXCEPT ![t] = k] /\ k.query = o.query /\ k.names = o.names
          /\ sources[Name(t)] = None /\ o.refs # << >> /\ pc[t] = "find"
          /\ UNCHANGED <<sources, tables, overlapped>>
      BY <1>0, <2>3 DEF FindNothing, stores, Op
    <3>. HIDE DEF k
    <3>2. op'[t].query = o.query /\ op'[t].names = o.names
      BY <1>0, <3>1
    <3>3. /\ Ref(t) \in Refs /\ Name(t) = Ref(t)[1] /\ Name(t) \in o.names
          /\ \E j \in DOMAIN o.query : Ref(t) = o.query[j]
      BY <1>0, <2>2, <3>1, AsksNext DEF Ref, Name
    <3>4. Name(t) \in DatabaseNames \ FileNames /\ Name(t) \notin overlapped
      BY <3>1, <3>2, <3>3 DEF Refs, Private
    <3>5. DatabaseAt(Name(t), pc[t], o)
      BY <1>0, <3>3, <3>4 DEF DatabasesAgree
    <3>6. tables[Ref(t)] = None
      BY <3>1, <3>3, <3>5 DEF DatabaseAt, NoTables
    <3>7. PICK j \in DOMAIN o.query : Ref(t) = o.query[j]
      BY <3>3
    <3>8. sources'[o.query[j][1]] = None /\ tables'[o.query[j]] = None
      BY <3>1, <3>3, <3>6, <3>7
    <3>9. QED
      BY <3>2, <3>7, <3>8 DEF Missing
  <2>4. CASE ~ FindNothing(t)
    <3>1. /\ op'[t].query = o.query /\ op'[t].names = o.names
          /\ op'[t].unknown = o.unknown
      <4>1. CASE CheckMissing(t) \/ CacheSchema(t) \/ RecheckMissing(t)
        BY <4>1 DEF CheckMissing, CacheSchema, RecheckMissing
      <4>2. CASE Find(t)
        <5>1. PICK h : op' = [op EXCEPT ![t].held = h]
          BY <4>2 DEF Find
        <5>2. QED
          BY <1>0, <5>1 DEF Op
      <4>3. CASE CacheLookup(t)
        <5>1. PICK h : op' = [op EXCEPT ![t].schema = h]
          BY <4>3 DEF CacheLookup
        <5>2. QED
          BY <1>0, <5>1 DEF Op
      <4>4. CASE ProviderBuilt(t)
        <5>1. PICK h : op' = [op EXCEPT ![t].provider = h]
          BY <4>4 DEF ProviderBuilt
        <5>2. QED
          BY <1>0, <5>1 DEF Op
      <4>5. CASE CheckRegistered(t) \/ RecheckRegistered(t) \/ TableInserted(t)
        <5>. DEFINE k == [o EXCEPT !.refs = Tail(o.refs), !.held = None,
                                   !.provider = None, !.schema = None]
        <5>1. /\ op' = [op EXCEPT ![t] = k]
              /\ k.query = o.query /\ k.names = o.names /\ k.unknown = o.unknown
          BY <1>0, <4>5 DEF CheckRegistered, RecheckRegistered, TableInserted,
             NextRef, Op
        <5>. HIDE DEF k
        <5>2. QED
          BY <1>0, <5>1
      <4>6. QED
        BY <1>4, <2>1, <2>4, <4>1, <4>2, <4>3, <4>4, <4>5 DEF Ensure
    <3>2. Private(o.names)
      BY <1>0, <3>1, NamesStep DEF Private
    <3>3. PICK i \in DOMAIN o.query :
            sources[o.query[i][1]] = None /\ tables[o.query[i]] = None
      BY <3>1, <3>2 DEF UnknownMissing, Missing
    <3>. DEFINE r == o.query[i]
    <3>4. /\ r \in Refs /\ r[1] \in DatabaseNames \ FileNames
          /\ r[1] \in o.names /\ r[1] \notin overlapped
      BY <1>0, <2>2, <3>2, <3>3 DEF Asks, Refs, Private
    <3>5. sources' = sources
      BY <1>4 DEF Ensure, FindNothing, FindUnlisted, Find, CheckRegistered,
         CheckMissing, CacheLookup, ProviderBuilt, CacheSchema, RecheckRegistered,
         RecheckMissing, TableInserted, Planned, stores
    <3>6. tables'[r] = None
      <4>1. CASE TableInserted(t)
        <5>1. /\ tables' = [tables EXCEPT ![Ref(t)] = o.provider]
              /\ pc[t] = "insert"
          BY <4>1 DEF TableInserted, NextRef, Goto
        <5>2. DatabaseAt(r[1], pc[t], o)
          BY <1>0, <3>4 DEF DatabasesAgree
        <5>3. o.held # None
          BY <1>0, <5>1, NoneRecords DEF Shaped, Holding, Built
        <5>4. r # Ref(t)
          BY <3>3, <5>2, <5>3 DEF DatabaseAt, Ref
        <5>5. QED
          BY <1>0, <3>3, <3>4, <5>1, <5>4
      <4>2. CASE ~ TableInserted(t)
        <5>1. tables' = tables
          BY <1>4, <4>2 DEF Ensure, FindNothing, FindUnlisted, Find, CheckRegistered,
             CheckMissing, CacheLookup, ProviderBuilt, CacheSchema,
             RecheckRegistered, RecheckMissing, Planned, stores
        <5>2. QED
          BY <3>3, <5>1
      <4>3. QED
        BY <4>1, <4>2
    <3>7. QED
      BY <3>1, <3>3, <3>5, <3>6 DEF Missing
  <2>5. QED
    BY <2>3, <2>4
<1>5. CASE ~ Ensure(t)
  <2>1. op'[t] # NoOp
    BY <1>0
  <2>2. QED
    BY <1>0, <1>2, <1>5, <2>1, ZenonT(60) DEF Step, Register, Remove, RegisterDatabase,
       TablesListed, SourceInserted, RegisterFile, FileLoaded, FileInserted,
       RemoveSource, Deregister, Uncatalogue, Forget, ClearCache, AwaitFails,
       Begin, Goto, End, Holding, Built
<1>6. QED
  BY <1>3, <1>4, <1>5

QueryInv == AgreementInv /\ UnknownMissing /\ RemovedNotQueried

\* Only the plan of a query answers it, and the plan of a query with a table
\* missing reads nothing.
LEMMA AnswerStep ==
  ASSUME QueryInv, NEW t \in Tasks, Step(t)
  PROVE  RemovedNotQueried'
<1>. DEFINE o == op[t]
            read == {tables[o.query[i]] : i \in DOMAIN o.query}
            planned == [names |-> o.names,
                        providers |-> IF None \in read THEN {} ELSE read,
                        unknown |-> o.unknown]
<1>0. /\ answer \in [Tasks -> Answer]
      /\ overlapped \subseteq overlapped'
      /\ RemovedNotQueried
  BY NamesStep DEF QueryInv, AgreementInv, RegistryInv, TypeOK
<1>1. CASE answer' = answer
  BY <1>0, <1>1 DEF RemovedNotQueried
<1>2. CASE answer' = [answer EXCEPT ![t] = NoAnswer]
  <2>1. NoAnswer.unknown = FALSE
    BY DEF NoAnswer
  <2>2. QED
    BY <1>0, <1>2, <2>1 DEF RemovedNotQueried
<1>3. CASE Planned(t)
  <2>1. answer' = [answer EXCEPT ![t] = planned] /\ overlapped' = overlapped
    BY <1>3 DEF Planned
  <2>2. /\ planned.names = o.names /\ planned.unknown = o.unknown
        /\ planned.providers = IF None \in read THEN {} ELSE read
    OBVIOUS
  <2>3. o.unknown /\ Private(o.names) => None \in read
    BY DEF QueryInv, UnknownMissing, Missing
  <2>4. planned.unknown /\ planned.names \cap (overlapped \cup FileNames) = {} =>
          planned.providers = {}
    BY <2>2, <2>3 DEF Private
  <2>. HIDE DEF planned
  <2>5. QED
    BY <1>0, <2>1, <2>4 DEF RemovedNotQueried
<1>4. answer' = answer \/ answer' = [answer EXCEPT ![t] = NoAnswer] \/ Planned(t)
  BY DEF Step, Register, Remove, Ensure, AwaitFails, Begin, Goto, End, NextRef,
     RegisterDatabase, TablesListed, SourceInserted, RegisterFile, FileLoaded,
     FileInserted, RemoveSource, Deregister, Uncatalogue, Forget, ClearCache, Query,
     FindNothing, FindUnlisted, Find, CheckRegistered, CheckMissing, CacheLookup,
     ProviderBuilt, CacheSchema, RecheckRegistered, RecheckMissing, TableInserted
<1>5. QED
  BY <1>1, <1>2, <1>3, <1>4

\* A query that found no registration for one of its aliases reads nothing,
\* unless requests about its aliases have overlapped or an alias is the name
\* of a file: no table is left behind by a removal that had the source to
\* itself.
THEOREM RemovedStaysOut == Spec => []RemovedNotQueried
<1>1. Init => QueryInv
  <2>1. Init => UnknownMissing /\ RemovedNotQueried
    BY DEF Init, UnknownMissing, RemovedNotQueried, NoOp, NoAnswer
  <2>2. QED
    BY <2>1, AgreementInit DEF QueryInv
<1>2. QueryInv /\ [Next]_vars => QueryInv'
  <2>1. SUFFICES ASSUME QueryInv, [Next]_vars
                 PROVE  QueryInv'
    OBVIOUS
  <2>2. AgreementInv'
    BY <2>1, AgreementStep DEF QueryInv
  <2>3. CASE UNCHANGED vars
    <3>1. UnknownMissing' /\ RemovedNotQueried'
      BY <2>1, <2>3 DEF QueryInv, UnknownMissing, Missing, Private,
         RemovedNotQueried, vars
    <3>2. QED
      BY <2>2, <3>1 DEF QueryInv
  <2>4. ASSUME NEW t \in Tasks, Step(t)
        PROVE  QueryInv'
    <3>1. UnknownMissing'
      <4>1. SUFFICES ASSUME NEW u \in Tasks, op'[u].unknown, Private(op[u].names)'
                     PROVE  Missing(op[u])'
        BY DEF UnknownMissing
      <4>2. QED
        BY <2>1, <2>4, <4>1, MissingStays, MissingStaysOthers DEF QueryInv
    <3>2. RemovedNotQueried'
      BY <2>1, <2>4, AnswerStep
    <3>3. QED
      BY <2>2, <3>1, <3>2 DEF QueryInv
  <2>5. QED
    BY <2>1, <2>3, <2>4 DEF Next
<1>3. QueryInv => RemovedNotQueried
  BY DEF QueryInv
<1>4. QED
  BY <1>1, <1>2, <1>3, PTL DEF Spec
=============================================================================
