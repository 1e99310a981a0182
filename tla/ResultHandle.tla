---------------------------- MODULE ResultHandle ----------------------------
(***************************************************************************)
(* QueryResultHandle of qsql-core: the rows of one streamed query that the *)
(* daemon has pulled so far, and the pages cut from them.                  *)
(*                                                                         *)
(* A handle is a record.  Rows are their positions in the query's result,  *)
(* so that a page shows which rows it carries; the boundaries between the  *)
(* buffered batches are left out (the pages do not depend on them) and     *)
(* "rows" is the concatenation of the batches in the queue.                *)
(***************************************************************************)
EXTENDS Pages

CONSTANTS
  MaxBufferedRows,   \* get_max_buffered_result_rows()
  MaxBufferedBytes,  \* get_max_buffered_result_bytes()
  DefaultPageSize,   \* default_page_size()
  MaxPageSize,       \* max_page_size()
  Unset              \* an Option that is None

ASSUME LimitsAssumption ==
  /\ MaxBufferedRows \in Nat
  /\ MaxBufferedBytes \in Nat

ASSUME PageSizeAssumption ==
  /\ DefaultPageSize \in Nat \ {0}
  /\ MaxPageSize \in Nat \ {0}

ASSUME UnsetAssumption == Unset \notin Nat

Handle == [rows           : Seq(Nat),
           buffered_rows  : Nat,
           buffered_bytes : Nat,
           terminal       : BOOLEAN]

NewHandle == [rows |-> << >>, buffered_rows |-> 0, buffered_bytes |-> 0,
              terminal |-> FALSE]

-----------------------------------------------------------------------------
(* Pulling batches.                                                        *)

\* The size check of push_batch, after the counters have been advanced.
OverBudget(h) == \/ h.buffered_rows > MaxBufferedRows
                 \/ h.buffered_bytes > MaxBufferedBytes

\* The handle after a batch has been counted, holding the rows "held".
Counted(h, held, rows, bytes) ==
  [rows           |-> held,
   buffered_rows  |-> h.buffered_rows + Len(rows),
   buffered_bytes |-> h.buffered_bytes + bytes,
   terminal       |-> h.terminal]

\* push_batch refuses a batch that takes the counters over a limit.
PushFails(h, rows, bytes) ==
  rows # << >> /\ OverBudget(Counted(h, h.rows, rows, bytes))

\* A faulty form: the batch is queued before the limits are looked at.
PushUnchecked(h, rows, bytes) == Counted(h, h.rows \o rows, rows, bytes)

\* A refused batch is counted all the same, and is gone; an empty batch is
\* neither counted nor kept.
PushBatch(h, rows, bytes) ==
  IF rows = << >> THEN h
  ELSE Counted(h, IF PushFails(h, rows, bytes) THEN h.rows ELSE h.rows \o rows,
               rows, bytes)

\* A batch was refused: rows have been counted that the handle does not hold.
Overflowed(h) == h.buffered_rows # Len(h.rows)

-----------------------------------------------------------------------------
(* Cutting pages.                                                          *)

\* A faulty form: as many rows are read as the page has, and none to look ahead.
ReadPageOnly(index, size) == PageEnd(index, size)

\* One row more than the page, to learn whether the page is the last one.
ReadTarget(index, size) == PageEnd(index, size) + 1

\* A faulty form: a page is cut from whatever has been buffered.
ReadSomething(h, target) == h.terminal \/ h.rows # << >>

ReadComplete(h, target) == h.terminal \/ h.buffered_rows >= target

SliceLen(h, index, size) ==
  LET end == Least(PageEnd(index, size), h.buffered_rows)
  IN  IF end > PageStart(index, size) THEN end - PageStart(index, size) ELSE 0

\* Both encoders walk the queued batches and stop where the rows do.
PageRows(h, index, size) ==
  LET start == PageStart(index, size)
  IN  SubSeq(h.rows, start + 1,
             Least(start + SliceLen(h, index, size), Len(h.rows)))

IsLast(h, index, size) ==
  /\ h.terminal
  /\ Least(PageEnd(index, size), h.buffered_rows) >= h.buffered_rows

\* The Arrow encoder takes the schema of the first queued batch.
EncodeFails(h, format) == format = "arrow_ipc" /\ h.rows = << >>

\* canonicalise_result_format: None is "json", anything unknown is refused.
FormatFails(format) == format \notin {Unset, "json", "arrow_ipc"}

-----------------------------------------------------------------------------
(* normalize_page_size: zero is refused, too large is clamped.             *)

PageSizeFails(size) == size = 0

NormalPageSize(size) ==
  IF size = Unset THEN DefaultPageSize ELSE Least(size, MaxPageSize)

-----------------------------------------------------------------------------
(* What the buffer is meant to hold.                                       *)

\* No more rows are kept than are counted or allowed.  Unless a batch was
\* refused they are the first rows of the result; once one was, the counters
\* are over a limit, and stay there.
WellBuffered(h) ==
  /\ Len(h.rows) <= h.buffered_rows
  /\ Len(h.rows) <= MaxBufferedRows
  /\ Overflowed(h) => OverBudget(h)
  /\ ~Overflowed(h) => /\ h.buffered_bytes <= MaxBufferedBytes
                       /\ \A i \in 1..Len(h.rows) : h.rows[i] = i
=============================================================================
