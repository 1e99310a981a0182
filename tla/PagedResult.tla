----------------------------- MODULE PagedResult -----------------------------
(***************************************************************************)
(* What the paged-query service promises to its clients, without tasks,    *)
(* permits, locks, streams or buffers.                                     *)
(*                                                                         *)
(* A query's session is opened once and closed once, and its id is never   *)
(* used again.  A request is served only if it found the session open.     *)
(* The result grows while requests are served, never shrinks, and does not *)
(* grow once it has ended.  A request is answered with the page it asked   *)
(* for, cut from the result, or refused.                                   *)
(*                                                                         *)
(* A result that is not "intact" has outgrown its buffer: nothing is       *)
(* promised of the pages that are cut from it.                             *)
(***************************************************************************)
EXTENDS Pages

CONSTANTS Clients, Queries,
          Nothing   \* no request, or no page

VARIABLES session,  \* of each query: "unused", "open" or "closed"
          serving,  \* of each client: the request being served, or Nothing
          result,   \* of each query: the rows known, whether they are all of
                    \* the result, and whether it is intact
          answer    \* of each client: the page it was last given, or Nothing

vars == <<session, serving, result, answer>>

Init ==
  /\ session = [q \in Queries |-> "unused"]
  /\ serving = [c \in Clients |-> Nothing]
  /\ result = [q \in Queries |-> [rows |-> 0, ended |-> FALSE, intact |-> TRUE]]
  /\ answer = [c \in Clients |-> Nothing]

\* Below, f' = [f EXCEPT ![x] = f'[x]] says that f changes at x only; the
\* conjunct with it says to what.

\* The client's request is served from now on.
Serve(c, q) ==
  /\ serving[c] = Nothing
  /\ serving' = [serving EXCEPT ![c] = serving'[c]]
  /\ serving'[c] # Nothing
  /\ serving'[c].query = q

\* A query is planned, and its first page is read.
Open(c, q) ==
  /\ session[q] = "unused"
  /\ session' = [session EXCEPT ![q] = "open"]
  /\ Serve(c, q)
  /\ serving'[c].index = 0
  /\ UNCHANGED <<result, answer>>

Request(c, q) ==
  /\ session[q] = "open"
  /\ Serve(c, q)
  /\ UNCHANGED <<session, result, answer>>

\* A cancellation, or a query that cannot be planned.
Close(q) ==
  /\ session[q] # "closed"
  /\ session' = [session EXCEPT ![q] = "closed"]
  /\ UNCHANGED <<serving, result, answer>>

\* The result "new" continues the result "old".
Continues(new, old) ==
  /\ ~old.ended
  /\ new.rows >= old.rows
  /\ new.ended => new.rows = old.rows
  /\ new.intact => old.intact

Grow(q) ==
  /\ result' = [result EXCEPT ![q] = result'[q]]
  /\ Continues(result'[q], result[q])

\* Rows are pulled because a request needs them.
Fetch(c) ==
  /\ serving[c] # Nothing
  /\ Grow(serving[c].query)
  /\ UNCHANGED <<session, serving, answer>>

\* A request that fails may take the query's session with it, and may have
\* pulled rows that do not fit.
Refuse(c) ==
  /\ serving[c] # Nothing
  /\ serving' = [serving EXCEPT ![c] = Nothing]
  /\ answer' = [answer EXCEPT ![c] = Nothing]
  /\ \/ UNCHANGED session
     \/ session' = [session EXCEPT ![serving[c].query] = "closed"]
  /\ \/ UNCHANGED result
     \/ /\ Grow(serving[c].query)
        /\ ~result'[serving[c].query].intact

\* The page p answers the request r for a page of a result.
Answers(p, r, known) ==
  /\ p # Nothing
  /\ p.query = r.query /\ p.index = r.index /\ p.size = r.size
  /\ known.intact => PageHolds(p, known.rows, known.ended)

Answer(c) ==
  /\ serving[c] # Nothing
  /\ serving' = [serving EXCEPT ![c] = Nothing]
  /\ answer' = [answer EXCEPT ![c] = answer'[c]]
  /\ Answers(answer'[c], serving[c], result[serving[c].query])
  /\ UNCHANGED <<session, result>>

\* The client turns to something else.
Forget(c) ==
  /\ serving[c] = Nothing
  /\ answer' = [answer EXCEPT ![c] = Nothing]
  /\ UNCHANGED <<session, serving, result>>

Next ==
  \/ \E c \in Clients :
       \/ Fetch(c) \/ Refuse(c) \/ Answer(c) \/ Forget(c)
       \/ \E q \in Queries : Open(c, q) \/ Request(c, q)
  \/ \E q \in Queries : Close(q)

Spec == Init /\ [][Next]_vars
=============================================================================
