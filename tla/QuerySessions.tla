---------------------------- MODULE QuerySessions ----------------------------
(***************************************************************************)
(* The paged-query service of qsql-daemon: query_start, query_page and     *)
(* query_cancel, handled concurrently by one tokio task per request, over  *)
(* the session table, the query semaphore, the cancellation tokens and the *)
(* per-session lock on the result handle (module ResultHandle).            *)
(*                                                                         *)
(* A task moves through the points where the handler awaits or takes a     *)
(* lock; what it does between two of them is one step.  The engine's       *)
(* result stream is external: at each poll it may yield a batch, fail, or  *)
(* end, and it may keep the reader waiting for ever.                       *)
(***************************************************************************)
EXTENDS ResultHandle, FiniteSets

CONSTANTS
  Tasks,          \* request tasks that may be alive at the same time
  MaxPermits,     \* MAX_CONCURRENT_QUERY_TASKS
  MaxQueries,     \* bound: query ids handed out
  PageSizes,      \* page sizes a client asks for, or Unset
  PageIndexes,    \* page indexes a client asks for
  Formats,        \* result formats a client asks for, or Unset
  Timeouts,       \* timeout_ms of query_start: "none", "zero" or "some"
  BatchSizes,     \* rows of a batch of the stream
  BatchBytes,     \* memory size of a batch of the stream
  MaxStreamRows,  \* bound: rows a stream yields
  NoTask,         \* a handle lock nobody holds
  NoSession       \* a query id that is not in the session table

ASSUME PermitsAssumption == MaxPermits \in Nat \ {0} /\ IsFiniteSet(Tasks)

ASSUME RequestAssumption ==
  /\ MaxQueries \in Nat
  /\ PageSizes \subseteq Nat \cup {Unset}
  /\ PageIndexes \subseteq Nat
  /\ NoTask \notin Tasks

ASSUME StreamAssumption ==
  /\ BatchSizes \subseteq Nat
  /\ BatchBytes \subseteq Nat
  /\ MaxStreamRows \in Nat

QueryIds == 1..MaxQueries

Session == [size : Nat, format : Formats \cup {Unset}]

ASSUME NoSessionAssumption == NoSession \notin Session

VARIABLES
  pc,        \* where each task is: see Points
  req,       \* the request each task is handling
  reply,     \* the last response of each task
  permits,   \* free permits of query_semaphore
  nextId,    \* next_query_id
  sessions,  \* the session table, NoSession where an id is absent
  handles,   \* the handle of each query
  cancelled, \* the cancellation token of each query
  lock,      \* the task holding each handle's async mutex
  stream,    \* external: what each query's result stream has yielded
  told       \* history: ids a successful query_start has returned

vars == <<pc, req, reply, permits, nextId, sessions, handles, cancelled, lock,
          stream, told>>

taskVars == <<pc, req, reply>>
queryVars == <<handles, stream, cancelled>>

-----------------------------------------------------------------------------
(* Types.                                                                  *)

\* "ensure": before the permit; "plan": in start_query_stream; "find": before
\* the session lookup; "wait": in handle.lock().await; "read": in read_until,
\* holding the lock.
Points == {"idle", "ensure", "plan", "find", "wait", "read"}

\* The points at which a task holds a permit.
WithPermit == {"plan", "find", "wait", "read"}

Request == [method  : {"start", "page"},
            query   : Nat,
            index   : Nat,
            size    : Nat \cup {Unset},
            format  : Formats \cup {Unset},
            timeout : Timeouts \cup {"none"}]

\* An idle task.
NoRequest == [method |-> "page", query |-> 0, index |-> 0, size |-> Unset,
              format |-> Unset, timeout |-> "none"]

ErrorCodes == {"invalid_params", "source_error", "resource_limit", "not_found",
               "planning", "cancelled", "timeout", "execution", "over_budget",
               "no_schema"}

NoReply == [kind |-> "none"]
ErrorReply == [kind : {"error"}, code : ErrorCodes]
PageReply == [kind : {"page"}, query : QueryIds, index : Nat, size : Nat,
              rows : Seq(Nat), rows_returned : Nat, is_last : BOOLEAN]

Stream == [yielded : Nat, failed : BOOLEAN, ended : BOOLEAN]

TypeOK ==
  /\ pc \in [Tasks -> Points]
  /\ req \in [Tasks -> Request]
  /\ reply \in [Tasks -> {NoReply} \cup ErrorReply \cup PageReply]
  /\ permits \in Nat
  /\ nextId \in 1..(MaxQueries + 1)
  /\ sessions \in [QueryIds -> Session \cup {NoSession}]
  /\ handles \in [QueryIds -> Handle]
  /\ cancelled \in [QueryIds -> BOOLEAN]
  /\ lock \in [QueryIds -> Tasks \cup {NoTask}]
  /\ stream \in [QueryIds -> Stream]
  /\ told \in SUBSET QueryIds

Init ==
  /\ pc = [t \in Tasks |-> "idle"]
  /\ req = [t \in Tasks |-> NoRequest]
  /\ reply = [t \in Tasks |-> NoReply]
  /\ permits = MaxPermits
  /\ nextId = 1
  /\ sessions = [q \in QueryIds |-> NoSession]
  /\ handles = [q \in QueryIds |-> NewHandle]
  /\ cancelled = [q \in QueryIds |-> FALSE]
  /\ lock = [q \in QueryIds |-> NoTask]
  /\ stream = [q \in QueryIds |-> [yielded |-> 0, failed |-> FALSE,
                                   ended |-> FALSE]]
  /\ told = {}

-----------------------------------------------------------------------------
(* Responding.                                                             *)

Error(code) == [kind |-> "error", code |-> code]

Respond(t, r) ==
  /\ pc' = [pc EXCEPT ![t] = "idle"]
  /\ reply' = [reply EXCEPT ![t] = r]
  /\ req' = [req EXCEPT ![t] = NoRequest]

\* A new request of a client; the previous response of the task is history.
Accept(t, point, request) ==
  /\ pc' = [pc EXCEPT ![t] = point]
  /\ req' = [req EXCEPT ![t] = request]
  /\ reply' = [reply EXCEPT ![t] = NoReply]

\* The permit is owned by the handler and dropped when it returns.
\* Faulty forms: a permit taken without looking, a permit never given back.
TakePermitBlindly == permits' = permits - 1
KeepPermit == UNCHANGED permits

AcquirePermit == permits > 0 /\ permits' = permits - 1
ReleasePermit == permits' = permits + 1

-----------------------------------------------------------------------------
(* query_start.                                                            *)

\* The page size is checked before anything else is done.
QueryStart(t) ==
  /\ pc[t] = "idle"
  /\ \E size \in PageSizes, format \in Formats, timeout \in Timeouts :
       \/ /\ PageSizeFails(size)
          /\ Respond(t, Error("invalid_params"))
       \/ /\ ~PageSizeFails(size)
          /\ Accept(t, "ensure",
                    [method |-> "start", query |-> 0, index |-> 0,
                     size |-> NormalPageSize(size), format |-> format,
                     timeout |-> timeout])
  /\ UNCHANGED <<permits, nextId, sessions, queryVars, lock, told>>

\* ensure_database_tables_registered fails or times out (module
\* SourceRegistry models what it does).
EnsureFails(t) ==
  /\ pc[t] = "ensure"
  /\ Respond(t, Error("source_error"))
  /\ UNCHANGED <<permits, nextId, sessions, queryVars, lock, told>>

StartRejected(t) ==
  /\ pc[t] = "ensure"
  /\ permits = 0
  /\ Respond(t, Error("resource_limit"))
  /\ UNCHANGED <<permits, nextId, sessions, queryVars, lock, told>>

StartAdmitted(t) ==
  /\ pc[t] = "ensure"
  /\ nextId <= MaxQueries
  /\ AcquirePermit
  /\ pc' = [pc EXCEPT ![t] = "plan"]
  /\ req' = [req EXCEPT ![t].query = nextId]
  /\ nextId' = nextId + 1
  /\ UNCHANGED <<reply, sessions, queryVars, lock, told>>

\* start_query_stream fails: a bad plan, or the timeout.
PlanFails(t) ==
  /\ pc[t] = "plan"
  /\ Respond(t, Error(IF req[t].timeout = "zero" THEN "timeout" ELSE "planning"))
  /\ ReleasePermit
  /\ UNCHANGED <<nextId, sessions, queryVars, lock, told>>

\* The handle exists, and the session enters the table.
PlanSucceeds(t) ==
  /\ pc[t] = "plan"
  /\ req[t].timeout # "zero"
  /\ sessions' = [sessions EXCEPT ![req[t].query] =
                    [size |-> req[t].size, format |-> req[t].format]]
  /\ pc' = [pc EXCEPT ![t] = "wait"]
  /\ UNCHANGED <<req, reply, permits, nextId, queryVars, lock, told>>

-----------------------------------------------------------------------------
(* query_page.                                                             *)

PageRejected(t) ==
  /\ pc[t] = "idle"
  /\ permits = 0
  /\ Respond(t, Error("resource_limit"))
  /\ UNCHANGED <<permits, nextId, sessions, queryVars, lock, told>>

\* The client names any query id, the ones it was never told included.
QueryPage(t) ==
  /\ pc[t] = "idle"
  /\ AcquirePermit
  /\ \E q \in QueryIds, index \in PageIndexes, size \in PageSizes,
        format \in Formats :
       Accept(t, "find", [method |-> "page", query |-> q, index |-> index,
                          size |-> size, format |-> format,
                          timeout |-> "none"])
  /\ UNCHANGED <<nextId, sessions, queryVars, lock, told>>

PageNotFound(t) ==
  /\ pc[t] = "find"
  /\ \/ /\ sessions[req[t].query] = NoSession
        /\ Respond(t, Error("not_found"))
     \/ /\ sessions[req[t].query] # NoSession
        /\ PageSizeFails(req[t].size)
        /\ Respond(t, Error("invalid_params"))
  /\ ReleasePermit
  /\ UNCHANGED <<nextId, sessions, queryVars, lock, told>>

\* What the request leaves unset comes from the session.
Resolved(r, session) ==
  [method  |-> r.method,
   query   |-> r.query,
   index   |-> r.index,
   size    |-> IF r.size = Unset THEN session.size ELSE NormalPageSize(r.size),
   format  |-> IF r.format = Unset THEN session.format ELSE r.format,
   timeout |-> r.timeout]

\* A faulty form: the handle is found whether or not its session is still there.
FoundClosed(t) ==
  /\ pc[t] = "find"
  /\ pc' = [pc EXCEPT ![t] = "wait"]
  /\ req' = [req EXCEPT ![t] = Resolved(@, [size   |-> DefaultPageSize,
                                           format |-> Unset])]
  /\ UNCHANGED <<reply, permits, nextId, sessions, queryVars, lock, told>>

\* The handle and the token are cloned: the task keeps them whatever becomes
\* of the session.
PageFound(t) ==
  LET session == sessions[req[t].query]
  IN  /\ pc[t] = "find"
      /\ session # NoSession
      /\ ~PageSizeFails(req[t].size)
      /\ pc' = [pc EXCEPT ![t] = "wait"]
      /\ req' = [req EXCEPT ![t] = Resolved(@, session)]
      /\ UNCHANGED <<reply, permits, nextId, sessions, queryVars, lock, told>>

-----------------------------------------------------------------------------
(* query_cancel: one critical section of the session table, no permit.     *)

QueryCancel(q) ==
  /\ sessions[q] # NoSession
  /\ sessions' = [sessions EXCEPT ![q] = NoSession]
  /\ cancelled' = [cancelled EXCEPT ![q] = TRUE]
  /\ UNCHANGED <<taskVars, permits, nextId, handles, lock, stream, told>>

-----------------------------------------------------------------------------
(* page_with_format, under the handle's lock.                              *)

\* A faulty form: a failed query_start leaves its session behind.
FailKeepingSession(t, code) ==
  /\ Respond(t, Error(code))
  /\ ReleasePermit
  /\ UNCHANGED <<nextId, sessions, cancelled, told>>

\* A failed query_start takes its session back; a failed query_page leaves
\* the session, and the handle as far as it was read.
Fail(t, code) ==
  /\ Respond(t, Error(code))
  /\ ReleasePermit
  /\ sessions' = IF req[t].method = "start"
                 THEN [sessions EXCEPT ![req[t].query] = NoSession]
                 ELSE sessions
  /\ UNCHANGED <<nextId, cancelled, told>>

\* A faulty form: the token is looked at only while batches are pulled.
FormatRefused(t) == FormatFails(req[t].format)

\* What is checked once the lock is held and before anything is read.
ReadRefused(t) == FormatFails(req[t].format) \/ cancelled[req[t].query]

LockRefused(t) ==
  /\ pc[t] = "wait"
  /\ lock[req[t].query] = NoTask
  /\ ReadRefused(t)
  /\ Fail(t, IF FormatFails(req[t].format) THEN "invalid_params" ELSE "cancelled")
  /\ UNCHANGED <<handles, stream, lock>>

LockTaken(t) ==
  /\ pc[t] = "wait"
  /\ lock[req[t].query] = NoTask
  /\ ~ReadRefused(t)
  /\ lock' = [lock EXCEPT ![req[t].query] = t]
  /\ pc' = [pc EXCEPT ![t] = "read"]
  /\ UNCHANGED <<req, reply, permits, nextId, sessions, queryVars, told>>

ReadDone(t) ==
  ReadComplete(handles[req[t].query], ReadTarget(req[t].index, req[t].size))

\* The task is at the select! of read_until.
Reading(t) == pc[t] = "read" /\ ~ReadDone(t)

\* A faulty form: a handler that fails leaves the handle locked.
LeaveLocked(t) == pc[t] = "read" /\ UNCHANGED lock

Unlock(t) == lock' = [lock EXCEPT ![req[t].query] = NoTask]

\* The rows of the stream's next batch of n rows.
NextRows(q, n) == [i \in 1..n |-> stream[q].yielded + i]

\* The stream yields a batch; push_batch may refuse it.
PollBatch(t) ==
  LET q == req[t].query
  IN  /\ Reading(t)
      /\ \E n \in BatchSizes, bytes \in BatchBytes :
           /\ stream[q].yielded + n <= MaxStreamRows
           /\ stream' = [stream EXCEPT ![q].yielded = @ + n]
           /\ handles' = [handles EXCEPT ![q] = PushBatch(@, NextRows(q, n), bytes)]
           /\ \/ /\ ~PushFails(handles[q], NextRows(q, n), bytes)
                 /\ UNCHANGED <<taskVars, permits, nextId, sessions, cancelled,
                                lock, told>>
              \/ /\ PushFails(handles[q], NextRows(q, n), bytes)
                 /\ Fail(t, "over_budget")
                 /\ Unlock(t)

\* A faulty form: an error is taken for the end of the stream.
ErrorIsTerminal(t) ==
  /\ Reading(t)
  /\ stream' = [stream EXCEPT ![req[t].query].failed = TRUE]
  /\ handles' = [handles EXCEPT ![req[t].query].terminal = TRUE]
  /\ Fail(t, "execution")
  /\ Unlock(t)

\* The stream yields an error.
PollError(t) ==
  /\ Reading(t)
  /\ stream' = [stream EXCEPT ![req[t].query].failed = TRUE]
  /\ Fail(t, "execution")
  /\ Unlock(t)
  /\ UNCHANGED handles

\* The stream yields None.
PollEnd(t) ==
  /\ Reading(t)
  /\ stream' = [stream EXCEPT ![req[t].query].ended = TRUE]
  /\ handles' = [handles EXCEPT ![req[t].query].terminal = TRUE]
  /\ UNCHANGED <<taskVars, permits, nextId, sessions, cancelled, lock, told>>

\* A faulty form: the token is looked at when the rows are there, not while the
\* stream is awaited.
CancelledWhenDone(t) ==
  /\ pc[t] = "read" /\ ReadDone(t)
  /\ cancelled[req[t].query]
  /\ Fail(t, "cancelled")
  /\ Unlock(t)
  /\ UNCHANGED <<handles, stream>>

ReadCancelled(t) ==
  /\ Reading(t)
  /\ cancelled[req[t].query]
  /\ Fail(t, "cancelled")
  /\ Unlock(t)
  /\ UNCHANGED <<handles, stream>>

\* A faulty form: the timeout of a query_start covers the planning only.
NoReadTimeout(t) == pc[t] = "plan" /\ req[t].timeout = "some" /\ PlanFails(t)

ReadTimesOut(t) ==
  /\ Reading(t)
  /\ req[t].timeout = "some"
  /\ Fail(t, "timeout")
  /\ Unlock(t)
  /\ UNCHANGED <<handles, stream>>

EncodingFails(t) ==
  /\ pc[t] = "read" /\ ReadDone(t)
  /\ EncodeFails(handles[req[t].query], req[t].format)
  /\ Fail(t, "no_schema")
  /\ Unlock(t)
  /\ UNCHANGED <<handles, stream>>

Page(h, r) ==
  [kind |-> "page", query |-> r.query, index |-> r.index, size |-> r.size,
   rows |-> PageRows(h, r.index, r.size),
   rows_returned |-> SliceLen(h, r.index, r.size),
   is_last |-> IsLast(h, r.index, r.size)]

PageReturned(t) ==
  LET q == req[t].query
  IN  /\ pc[t] = "read" /\ ReadDone(t)
      /\ ~EncodeFails(handles[q], req[t].format)
      /\ Respond(t, Page(handles[q], req[t]))
      /\ ReleasePermit
      /\ Unlock(t)
      /\ told' = IF req[t].method = "start" THEN told \cup {q} ELSE told
      /\ UNCHANGED <<nextId, sessions, queryVars>>

-----------------------------------------------------------------------------
(* Specification.                                                          *)

Step(t) ==
  \/ EnsureFails(t) \/ StartRejected(t) \/ StartAdmitted(t)
  \/ PlanFails(t) \/ PlanSucceeds(t)
  \/ PageNotFound(t) \/ PageFound(t)
  \/ LockRefused(t) \/ LockTaken(t)
  \/ PollBatch(t) \/ PollError(t) \/ PollEnd(t)
  \/ ReadCancelled(t) \/ ReadTimesOut(t)
  \/ EncodingFails(t) \/ PageReturned(t)

Client(t) == QueryStart(t) \/ PageRejected(t) \/ QueryPage(t)

Next == \/ \E t \in Tasks : Client(t) \/ Step(t)
        \/ \E q \in QueryIds : QueryCancel(q)

Spec == Init /\ [][Next]_vars

\* The runtime runs a task that can go on, fires its timer and sees its
\* token.  Nothing makes a source answer, or a client send a request: the
\* steps in which the stream is polled and the planning ends are not fair.
Scheduled(t) ==
  \/ PageNotFound(t) \/ PageFound(t)
  \/ LockRefused(t) \/ LockTaken(t)
  \/ ReadCancelled(t) \/ ReadTimesOut(t)
  \/ EncodingFails(t) \/ PageReturned(t)

Fairness == \A t \in Tasks : WF_vars(Scheduled(t))

FairSpec == Spec /\ Fairness

-----------------------------------------------------------------------------
(* Safety.                                                                 *)

Holders == {t \in Tasks : pc[t] \in WithPermit}

\* Every way out of a handler gives its permit back, and only one: the free
\* permits and the tasks that hold one always add up to the semaphore's size,
\* so that the daemon neither runs more query tasks than its limit nor, after
\* enough failures, refuses queries it has room for.
PermitAccounting == permits + Cardinality(Holders) = MaxPermits

\* A handle's lock is held by the task that reads the handle and by no other,
\* and is never left locked by a task that failed, timed out or was cancelled.
LockHeldByReader ==
  \A q \in QueryIds, t \in Tasks :
    lock[q] = t <=> pc[t] = "read" /\ req[t].query = q

\* A session in the table is one whose id a client was given, or is about to
\* be: a query_start that fails leaves no session that nobody could cancel.
NoOrphanSession ==
  \A q \in QueryIds :
    sessions[q] # NoSession =>
      \/ q \in told
      \/ \E t \in Tasks : /\ pc[t] \in {"wait", "read"}
                          /\ req[t].method = "start"
                          /\ req[t].query = q

\* The rows kept for a query never exceed the limit, whatever batches the
\* stream yields and however often a request that failed is made again.
BufferBounded ==
  \A q \in QueryIds :
    /\ Len(handles[q].rows) <= MaxBufferedRows
    /\ ~Overflowed(handles[q]) => handles[q].buffered_bytes <= MaxBufferedBytes

\* The page r holds exactly its rows of what the stream has yielded, and says
\* truly whether it is the last one.
PageIsExact(r) == PageHolds(r, stream[r.query].yielded, stream[r.query].ended)

\* However requests for pages of one query interleave, fail, time out, are
\* cancelled and are made again, each page that is returned is exact, as long
\* as the result buffer has not overflowed.
ExactPages ==
  \A t \in Tasks :
    reply[t].kind = "page" /\ ~Overflowed(handles[reply[t].query]) =>
      PageIsExact(reply[t])

\* Two responses to the same page request agree, even when batches were
\* pulled, refused or lost to an error in between.
RepeatablePages ==
  \A t1, t2 \in Tasks :
    /\ reply[t1].kind = "page" /\ reply[t2].kind = "page"
    /\ reply[t1].query = reply[t2].query
    /\ reply[t1].index = reply[t2].index
    /\ reply[t1].size = reply[t2].size
    => reply[t1] = reply[t2]

\* Once a query is cancelled no task starts to read its stream, one that had
\* found the session before the cancellation included.
CancelledNotRead ==
  [][\A q \in QueryIds : cancelled[q] => lock'[q] \in {lock[q], NoTask}]_vars

-----------------------------------------------------------------------------
(* What the safety properties rest on.                                     *)

\* A request has what its handler needs at each point.
RequestInv ==
  \A t \in Tasks :
    /\ pc[t] \in {"plan", "find", "wait", "read"} => req[t].query \in QueryIds
    /\ pc[t] \in {"ensure", "plan", "wait", "read"} => req[t].size \in Nat
    /\ pc[t] \in {"ensure", "plan"} => req[t].method = "start"

\* The counters of a handle follow its stream: every row the stream yielded
\* is counted, whoever polled it and however the request ended, and as long
\* as no batch was refused the rows kept are those counted, in order.
HandleInv ==
  \A q \in QueryIds :
    /\ handles[q].buffered_rows = stream[q].yielded
    /\ handles[q].terminal = stream[q].ended
    /\ WellBuffered(handles[q])

-----------------------------------------------------------------------------
(* Liveness.                                                               *)

\* Cancelling a query frees every task that waits for it: the one reading a
\* stream that yields nothing and those queued behind it on the handle.
CancelUnblocks ==
  \A t \in Tasks, q \in QueryIds :
    (pc[t] \in {"wait", "read"} /\ req[t].query = q /\ cancelled[q])
      ~> pc[t] = "idle"

\* A query_start with a timeout does not read for ever.
TimeoutEndsRead ==
  \A t \in Tasks :
    (pc[t] = "read" /\ req[t].timeout = "some") ~> pc[t] = "idle"

-----------------------------------------------------------------------------
(* What the service promises.                                              *)

\* The query's id is not given out, or its plan is still being made.
Unplanned(q) ==
  \/ q >= nextId
  \/ \E t \in Tasks : pc[t] = "plan" /\ req[t].query = q

SessionState(q) ==
  IF sessions[q] # NoSession THEN "open"
  ELSE IF Unplanned(q) THEN "unused" ELSE "closed"

\* What a task serves, from the moment it has the session's handle.
Served(t) ==
  IF pc[t] \in {"wait", "read"}
  THEN [query |-> req[t].query, index |-> req[t].index, size |-> req[t].size]
  ELSE NoReply

Known(q) == [rows |-> stream[q].yielded, ended |-> stream[q].ended,
             intact |-> ~Overflowed(handles[q])]

PageOf(t) == IF reply[t].kind = "page" THEN reply[t] ELSE NoReply

SessionStates == [q \in QueryIds |-> SessionState(q)]
Serving == [t \in Tasks |-> Served(t)]
Results == [q \in QueryIds |-> Known(q)]
Answered == [t \in Tasks |-> PageOf(t)]

Promise == INSTANCE PagedResult WITH
  Clients <- Tasks,
  Queries <- QueryIds,
  Nothing <- NoReply,
  session <- SessionStates,
  serving <- Serving,
  result  <- Results,
  answer  <- Answered

\* Tasks, permits, locks, timeouts, retries and cancellations come to this: a
\* session is opened and closed once under an id that is never used again, a
\* request that comes after the session was closed is not served, one that is
\* served gets the page it asked for or an error, and rows are pulled only for
\* requests that are being served.
PromiseKept == Promise!Spec

-----------------------------------------------------------------------------
(* What the project's texts say and the code does not do.                  *)

\* "queries exceeding result-buffer [...] budgets return structured resource
\* errors" (implementation_plan.md): a page that is returned is complete.  It
\* is not once a batch was refused: the counters have moved past the rows
\* that were dropped, and a later request is answered as if they were there.
OverBudgetIsError ==
  \A t \in Tasks : reply[t].kind = "page" => PageIsExact(reply[t])
=============================================================================
