------------------------- MODULE QuerySessionsProofs -------------------------
(* The safety of the paged-query service for any number of tasks, permits,  *)
(* queries, page sizes, limits and batches, and that it keeps the promise   *)
(* of module PagedResult.                                                   *)
EXTENDS QuerySessions, FiniteSetTheorems, SequenceTheorems, TLAPS

-----------------------------------------------------------------------------
(* What the operators of ResultHandle do, for every handle and every batch. *)

\* What a record of a handle holds, field by field.
LEMMA HandleFields ==
  ASSUME NEW h \in Handle
  PROVE  /\ h.rows \in Seq(Nat) /\ Len(h.rows) \in Nat
         /\ h.buffered_rows \in Nat
         /\ h.buffered_bytes \in Nat
         /\ h.terminal \in BOOLEAN
BY LenProperties DEF Handle

\* The length and the elements of the rows a batch is appended to.
LEMMA Appended ==
  ASSUME NEW held \in Seq(Nat), NEW rows \in Seq(Nat)
  PROVE  /\ held \o rows \in Seq(Nat)
         /\ Len(held) \in Nat /\ Len(rows) \in Nat
         /\ Len(held \o rows) = Len(held) + Len(rows)
         /\ rows = << >> <=> Len(rows) = 0
         /\ \A i \in 1..(Len(held) + Len(rows)) :
              (held \o rows)[i] = IF i <= Len(held) THEN held[i]
                                  ELSE rows[i - Len(held)]
BY LenProperties, ConcatProperties, EmptySeq

\* push_batch counts every row of the batch, keeps the handle a handle and
\* does not touch the terminal flag.
LEMMA PushBatchCounts ==
  ASSUME NEW h \in Handle, NEW rows \in Seq(Nat), NEW bytes \in Nat
  PROVE  /\ PushBatch(h, rows, bytes) \in Handle
         /\ PushBatch(h, rows, bytes).buffered_rows = h.buffered_rows + Len(rows)
         /\ PushBatch(h, rows, bytes).terminal = h.terminal
<1>1. /\ h.rows \in Seq(Nat) /\ h.rows \o rows \in Seq(Nat)
      /\ Len(rows) \in Nat /\ rows = << >> => Len(rows) = 0
  BY HandleFields, Appended
<1>2. ASSUME NEW held \in Seq(Nat)
      PROVE  /\ Counted(h, held, rows, bytes) \in Handle
             /\ Counted(h, held, rows, bytes).buffered_rows
                  = h.buffered_rows + Len(rows)
             /\ Counted(h, held, rows, bytes).terminal = h.terminal
  BY <1>1, HandleFields DEF Counted, Handle
<1>3. CASE rows = << >>
  BY <1>1, <1>3, HandleFields DEF PushBatch
<1>4. CASE rows # << >>
  BY <1>1, <1>2, <1>4 DEF PushBatch
<1>5. QED
  BY <1>3, <1>4

\* What push_batch leaves in the buffer, in the three cases it distinguishes.
LEMMA PushBatchCases ==
  ASSUME NEW h \in Handle, NEW rows \in Seq(Nat), NEW bytes \in Nat,
         NEW p, p = PushBatch(h, rows, bytes)
  PROVE  \/ rows = << >> /\ p = h
         \/ /\ rows # << >> /\ PushFails(h, rows, bytes)
            /\ p.rows = h.rows /\ OverBudget(p)
         \/ /\ rows # << >> /\ p.rows = h.rows \o rows
            /\ ~OverBudget(h)
            /\ p.buffered_rows <= MaxBufferedRows
            /\ p.buffered_bytes <= MaxBufferedBytes
<1>1. CASE rows = << >>
  BY <1>1 DEF PushBatch
<1>2. CASE PushFails(h, rows, bytes)
  <2>1. p = Counted(h, h.rows, rows, bytes) /\ rows # << >>
    BY <1>2 DEF PushBatch, PushFails
  <2>2. QED
    BY <1>2, <2>1 DEF PushFails, Counted
<1>3. CASE rows # << >> /\ ~PushFails(h, rows, bytes)
  <2>1. p = Counted(h, h.rows \o rows, rows, bytes)
    BY <1>3 DEF PushBatch
  <2>2. ~OverBudget(Counted(h, h.rows, rows, bytes))
    BY <1>3 DEF PushFails
  <2>3. /\ h.buffered_rows + Len(rows) <= MaxBufferedRows
        /\ h.buffered_bytes + bytes <= MaxBufferedBytes
    BY <2>2, HandleFields, Appended, LimitsAssumption DEF OverBudget, Counted
  <2>4. ~OverBudget(h)
    BY <2>3, HandleFields, Appended, LimitsAssumption DEF OverBudget
  <2>5. QED
    BY <1>3, <2>1, <2>3, <2>4, HandleFields DEF Counted
<1>4. QED
  BY <1>1, <1>2, <1>3 DEF PushFails

\* push_batch keeps the buffer well formed when the batch holds the rows that
\* come next in the result.
LEMMA PushBatchBuffers ==
  ASSUME NEW h \in Handle, NEW rows \in Seq(Nat), NEW bytes \in Nat,
         WellBuffered(h),
         \A i \in 1..Len(rows) : rows[i] = h.buffered_rows + i
  PROVE  WellBuffered(PushBatch(h, rows, bytes))
<1> DEFINE p == PushBatch(h, rows, bytes)
<1>1. p \in Handle /\ p.buffered_rows = h.buffered_rows + Len(rows)
  BY PushBatchCounts
<1>2. /\ Len(h.rows) <= h.buffered_rows
      /\ Len(h.rows) <= MaxBufferedRows
  BY DEF WellBuffered
<1>3. CASE rows = << >> /\ p = h
  BY <1>3
<1>4. CASE rows # << >> /\ p.rows = h.rows /\ OverBudget(p)
  <2>1. Len(p.rows) < p.buffered_rows
    BY <1>1, <1>2, <1>4, HandleFields, Appended
  <2>2. Overflowed(p)
    BY <2>1, <1>1, HandleFields DEF Overflowed
  <2>3. QED
    BY <1>1, <1>2, <1>4, <2>1, <2>2, HandleFields DEF WellBuffered
<1>5. CASE /\ p.rows = h.rows \o rows
           /\ p.buffered_rows <= MaxBufferedRows
           /\ p.buffered_bytes <= MaxBufferedBytes
           /\ ~OverBudget(h)
  <2>1. Len(p.rows) = Len(h.rows) + Len(rows)
    BY <1>5, HandleFields, Appended
  <2>2. Len(p.rows) <= p.buffered_rows /\ Len(p.rows) <= MaxBufferedRows
    BY <1>1, <1>2, <1>5, <2>1, HandleFields, Appended, LimitsAssumption
  <2>3. ASSUME ~Overflowed(p), NEW i \in 1..Len(p.rows)
        PROVE  p.rows[i] = i
    <3>1. h.buffered_rows = Len(h.rows)
      BY <1>1, <2>1, <2>3, HandleFields, Appended DEF Overflowed
    <3>2. \A j \in 1..Len(h.rows) : h.rows[j] = j
      BY <3>1 DEF WellBuffered, Overflowed
    <3>3. i \in 1..(Len(h.rows) + Len(rows))
      BY <2>1
    <3>4. p.rows[i] = IF i <= Len(h.rows) THEN h.rows[i]
                      ELSE rows[i - Len(h.rows)]
      BY <1>5, <3>3, HandleFields, Appended
    <3>5. CASE i <= Len(h.rows)
      BY <3>2, <3>3, <3>4, <3>5, HandleFields
    <3>6. CASE ~(i <= Len(h.rows))
      <4>1. i - Len(h.rows) \in 1..Len(rows)
        BY <3>3, <3>6, HandleFields, Appended
      <4>2. rows[i - Len(h.rows)] = Len(h.rows) + (i - Len(h.rows))
        BY <3>1, <4>1
      <4>3. QED
        BY <3>3, <3>4, <3>6, <4>2, HandleFields
    <3>7. QED
      BY <3>5, <3>6
  <2>4. ~Overflowed(p)
    BY <1>1, <1>5, <2>1, HandleFields, Appended DEF Overflowed, WellBuffered
  <2>5. QED
    BY <1>5, <2>2, <2>3, <2>4 DEF WellBuffered
<1>6. QED
  BY <1>3, <1>4, <1>5, PushBatchCases
-----------------------------------------------------------------------------
(* Pages.                                                                  *)

\* The bounds of a page, and how many rows it says it has.
LEMMA PageBounds ==
  ASSUME NEW h \in Handle, NEW index \in Nat, NEW size \in Nat
  PROVE  /\ PageStart(index, size) \in Nat
         /\ PageEnd(index, size) = PageStart(index, size) + size
         /\ SliceLen(h, index, size) \in Nat
         /\ SliceLen(h, index, size) =
              LET end == Least(PageEnd(index, size), h.buffered_rows)
              IN  IF end > PageStart(index, size)
                  THEN end - PageStart(index, size) ELSE 0
<1>1. index * size \in Nat /\ (index + 1) * size = index * size + size
  OBVIOUS
<1>2. QED
  BY <1>1, HandleFields DEF PageStart, PageEnd, SliceLen, Least

\* A page cut from a buffer that lost no rows holds its window of the result,
\* and says truly how many rows it holds.
LEMMA PageRowsExact ==
  ASSUME NEW h \in Handle, NEW index \in Nat, NEW size \in Nat,
         WellBuffered(h), ~Overflowed(h)
  PROVE  /\ PageRows(h, index, size) =
              Window(PageStart(index, size) + 1,
                     Least(PageEnd(index, size), h.buffered_rows))
         /\ SliceLen(h, index, size) = Len(PageRows(h, index, size))
<1> DEFINE start == PageStart(index, size)
<1> DEFINE end == Least(PageEnd(index, size), h.buffered_rows)
<1> DEFINE slice == SliceLen(h, index, size)
<1> DEFINE page == PageRows(h, index, size)
<1>1. /\ start \in Nat /\ end \in Nat /\ slice \in Nat
      /\ slice = IF end > start THEN end - start ELSE 0
      /\ end <= Len(h.rows)
      /\ h.rows \in Seq(Nat) /\ Len(h.rows) \in Nat
      /\ \A i \in 1..Len(h.rows) : h.rows[i] = i
  <2>1. /\ h.buffered_rows = Len(h.rows)
        /\ \A i \in 1..Len(h.rows) : h.rows[i] = i
    BY DEF Overflowed, WellBuffered
  <2>2. end \in Nat /\ end <= h.buffered_rows
    <3>1. PageEnd(index, size) \in Nat /\ h.buffered_rows \in Nat
      <4>1. /\ PageStart(index, size) \in Nat
            /\ PageEnd(index, size) = PageStart(index, size) + size
        BY PageBounds
      <4>2. QED
        BY <4>1, HandleFields
    <3>2. QED
      BY <3>1 DEF Least
  <2>3. QED
    BY <2>1, <2>2, PageBounds, HandleFields
<1> HIDE DEF start, end, slice
<1>2. page = SubSeq(h.rows, start + 1, Least(start + slice, Len(h.rows)))
  BY DEF PageRows, start, slice
<1> HIDE DEF page
<1>3. CASE end > start
  <2>1. Least(start + slice, Len(h.rows)) = end
    BY <1>1, <1>3 DEF Least
  <2>2. \A i \in (start + 1)..end : h.rows[i] \in Nat
    BY <1>1
  <2>3. page \in Seq(Nat) /\ Len(page) = slice
        /\ \A i \in 1..slice : page[i] = h.rows[start + i]
    <3>1. page = SubSeq(h.rows, start + 1, end)
      BY <1>2, <2>1
    <3>2. start + 1 \in Int /\ end \in Int
      BY <1>1
    <3>3. /\ page \in Seq(Nat)
          /\ Len(page) = IF start + 1 <= end THEN end - (start + 1) + 1 ELSE 0
          /\ \A i \in 1..(end - (start + 1) + 1) :
               page[i] = h.rows[start + 1 + i - 1]
      BY <2>2, <3>1, <3>2, SubSeqProperties
    <3>4. end - (start + 1) + 1 = slice
      BY <1>1, <1>3
    <3>5. \A i \in 1..slice : start + 1 + i - 1 = start + i
      BY <1>1
    <3>6. start + 1 <= end
      BY <1>1, <1>3
    <3>7. Len(page) = slice
      BY <3>3, <3>4, <3>6
    <3>8. \A i \in 1..slice : page[i] = h.rows[start + 1 + i - 1]
      BY <3>3, <3>4
    <3>9. \A i \in 1..slice : page[i] = h.rows[start + i]
      BY <3>5, <3>8
    <3>10. QED
      BY <3>3, <3>7, <3>9
  <2>4. page = [i \in 1..slice |-> page[i]]
    BY <2>3, LenProperties
  <2>5. \A i \in 1..slice : page[i] = start + i
    <3>1. \A i \in 1..slice : start + i \in 1..Len(h.rows)
      BY <1>1, <1>3
    <3>2. QED
      BY <1>1, <2>3, <3>1
  <2>6. page = [i \in 1..slice |-> start + i]
    BY <2>4, <2>5
  <2>7. Window(start + 1, end) = [i \in 1..slice |-> start + i]
    BY <1>1, <1>3 DEF Window
  <2>8. QED
    BY <2>3, <2>6, <2>7 DEF start, end, slice, page
<1>4. CASE ~(end > start)
  <2>1. slice = 0 /\ Least(start + slice, Len(h.rows)) < start + 1
    BY <1>1, <1>4 DEF Least
  <2>2. Least(start + slice, Len(h.rows)) \in Int /\ start + 1 \in Int
    BY <1>1 DEF Least
  <2>3. page = << >>
    BY <1>2, <2>1, <2>2, SubSeqEmpty
  <2>4. Window(start + 1, end) = << >>
    BY <1>1, <1>4 DEF Window
  <2>5. QED
    BY <2>1, <2>3, <2>4 DEF start, end, slice, page
<1>5. QED
  BY <1>3, <1>4

\* Once the rows a page needs have been counted, pushing another batch changes
\* nothing in it: if no batch was refused the page's rows are all there, and
\* if one was, no later batch is taken.
LEMMA PageRowsStable ==
  ASSUME NEW h \in Handle, NEW index \in Nat, NEW size \in Nat,
         NEW rows \in Seq(Nat), NEW bytes \in Nat, WellBuffered(h),
         h.buffered_rows >= ReadTarget(index, size)
  PROVE  /\ PageRows(PushBatch(h, rows, bytes), index, size)
              = PageRows(h, index, size)
         /\ SliceLen(PushBatch(h, rows, bytes), index, size)
              = SliceLen(h, index, size)
         /\ PushBatch(h, rows, bytes).buffered_rows >= ReadTarget(index, size)
<1> DEFINE p == PushBatch(h, rows, bytes)
<1> DEFINE start == PageStart(index, size)
<1> DEFINE end == PageEnd(index, size)
<1>1. /\ p \in Handle /\ p.buffered_rows = h.buffered_rows + Len(rows)
      /\ Len(rows) \in Nat /\ h.buffered_rows \in Nat
  BY PushBatchCounts, HandleFields, Appended
<1>2. start \in Nat /\ end = start + size /\ h.buffered_rows >= end + 1
  BY PageBounds DEF ReadTarget
<1>3. p.buffered_rows >= end + 1
  BY <1>1, <1>2
<1>4. /\ SliceLen(h, index, size) = size
      /\ SliceLen(p, index, size) = size
  <2>1. Least(end, h.buffered_rows) = end /\ Least(end, p.buffered_rows) = end
    BY <1>1, <1>2, <1>3 DEF Least
  <2>2. QED
    BY <1>2, <2>1 DEF SliceLen
<1>5. /\ PageRows(h, index, size)
            = SubSeq(h.rows, start + 1, Least(start + size, Len(h.rows)))
      /\ PageRows(p, index, size)
            = SubSeq(p.rows, start + 1, Least(start + size, Len(p.rows)))
      /\ p.buffered_rows >= ReadTarget(index, size)
  BY <1>3, <1>4 DEF PageRows, ReadTarget
<1> HIDE DEF start, end
<1>6. CASE p.rows = h.rows
  BY <1>4, <1>5, <1>6
<1>7. CASE p.rows = h.rows \o rows /\ ~OverBudget(h)
  <2>1. Len(h.rows) = h.buffered_rows
    BY <1>7 DEF WellBuffered, Overflowed
  <2>2. /\ h.rows \in Seq(Nat) /\ Len(h.rows) \in Nat
        /\ Len(p.rows) = Len(h.rows) + Len(rows)
    BY <1>7, HandleFields, Appended
  <2>3. /\ Least(start + size, Len(h.rows)) = end
        /\ Least(start + size, Len(p.rows)) = end
    <3> HIDE DEF p
    <3>1. end <= Len(h.rows) /\ start + size = end
      BY <1>1, <1>2, <2>1
    <3>2. end <= Len(p.rows)
      BY <1>1, <1>2, <2>1, <2>2, <3>1
    <3>3. QED
      BY <1>1, <1>2, <2>2, <3>1, <3>2 DEF Least
  <2>4. SubSeq(h.rows \o rows, start + 1, end) = SubSeq(h.rows, start + 1, end)
    <3>1. CASE size = 0
      <4>1. start + 1 \in Int /\ end \in Int /\ end < start + 1
        BY <1>2, <3>1
      <4>2. QED
        BY <4>1, SubSeqEmpty
    <3>2. CASE size # 0
      <4>1. start + 1 \in 1..Len(h.rows) /\ end \in 1..Len(h.rows)
        BY <1>2, <2>1, <2>2, <3>2
      <4>2. QED
        BY <2>2, <4>1, SubSeqOfConcat1
    <3>3. QED
      BY <3>1, <3>2
  <2>5. QED
    BY <1>4, <1>5, <1>7, <2>3, <2>4
<1>8. QED
  BY <1>6, <1>7, PushBatchCases

\* Every page is a sequence of rows, whatever the buffer lost.
LEMMA PageRowsType ==
  ASSUME NEW h \in Handle, NEW index \in Nat, NEW size \in Nat
  PROVE  PageRows(h, index, size) \in Seq(Nat)
<1> DEFINE first == PageStart(index, size) + 1
<1> DEFINE last == Least(PageStart(index, size) + SliceLen(h, index, size),
                         Len(h.rows))
<1>1. first \in Int /\ last \in Int /\ first >= 1 /\ last <= Len(h.rows)
  <2>1. PageStart(index, size) \in Nat /\ SliceLen(h, index, size) \in Nat
    BY PageBounds
  <2>2. QED
    BY <2>1, HandleFields DEF Least
<1>2. \A i \in first..last : h.rows[i] \in Nat
  <2> HIDE DEF first, last
  <2>1. \A i \in first..last : i \in 1..Len(h.rows)
    BY <1>1, HandleFields
  <2>2. QED
    BY <2>1, HandleFields, ElementOfSeq
<1>3. QED
  BY <1>1, <1>2, SubSeqProperties DEF PageRows

-----------------------------------------------------------------------------
(* Types.                                                                  *)

TypeInv == TypeOK /\ RequestInv

\* A handle starts as a handle.
LEMMA NewHandleType == NewHandle \in Handle
<1>1. << >> \in Seq(Nat)
  BY EmptySeq
<1>2. QED
  BY <1>1 DEF NewHandle, Handle

\* The request of an idle task is a request.
LEMMA NoRequestType == NoRequest \in Request
BY DEF NoRequest, Request

\* An error with one of the daemon's codes is a reply.
LEMMA ErrorType == ASSUME NEW code \in ErrorCodes PROVE Error(code) \in ErrorReply
BY DEF Error, ErrorReply

\* normalize_page_size yields a number for whatever the client asked.
LEMMA NormalPageSizeType ==
  ASSUME NEW size \in Nat \cup {Unset}
  PROVE  NormalPageSize(size) \in Nat
BY PageSizeAssumption DEF NormalPageSize, Least

\* A response leaves the task idle, whatever it says.
LEMMA RespondTypes ==
  ASSUME TypeInv, NEW t \in Tasks,
         NEW r \in {NoReply} \cup ErrorReply \cup PageReply, Respond(t, r)
  PROVE  /\ pc' \in [Tasks -> Points]
         /\ req' \in [Tasks -> Request]
         /\ reply' \in [Tasks -> {NoReply} \cup ErrorReply \cup PageReply]
         /\ RequestInv'
<1>1. /\ pc' = [pc EXCEPT ![t] = "idle"]
      /\ req' = [req EXCEPT ![t] = NoRequest]
      /\ reply' = [reply EXCEPT ![t] = r]
  BY DEF Respond
<1>2. "idle" \in Points
  BY DEF Points
<1>3. QED
  BY <1>1, <1>2, NoRequestType DEF TypeInv, TypeOK, RequestInv

\* Giving back a permit keeps the number of permits a number.
LEMMA ReleaseType == ASSUME TypeInv, ReleasePermit PROVE permits' \in Nat
BY DEF TypeInv, TypeOK, ReleasePermit

\* A failed request removes its session or none: the types hold after it.
LEMMA FailTypes ==
  ASSUME TypeInv, NEW t \in Tasks, NEW code \in ErrorCodes, Fail(t, code)
  PROVE  /\ pc' \in [Tasks -> Points]
         /\ req' \in [Tasks -> Request]
         /\ reply' \in [Tasks -> {NoReply} \cup ErrorReply \cup PageReply]
         /\ RequestInv'
         /\ permits' \in Nat
         /\ sessions' \in [QueryIds -> Session \cup {NoSession}]
<1>1. Respond(t, Error(code)) /\ ReleasePermit
  BY DEF Fail
<1>2. sessions' \in [QueryIds -> Session \cup {NoSession}]
  BY DEF Fail, TypeInv, TypeOK
<1>3. QED
  BY <1>1, <1>2, ErrorType, ReleaseType, RespondTypes

\* A task that holds a handle's lock has a query, a page size and an index.
LEMMA ReaderQuery ==
  ASSUME TypeInv, NEW t \in Tasks, pc[t] = "read"
  PROVE  /\ req[t].query \in QueryIds
         /\ req[t].size \in Nat
         /\ req[t].index \in Nat
BY DEF TypeInv, TypeOK, RequestInv, Request

\* The rows of a batch are a sequence of positions.
LEMMA NextRowsType ==
  ASSUME TypeInv, NEW q \in QueryIds, NEW n \in Nat
  PROVE  /\ NextRows(q, n) \in Seq(Nat)
         /\ Len(NextRows(q, n)) = n
         /\ \A i \in 1..n : NextRows(q, n)[i] = stream[q].yielded + i
<1>1. stream[q].yielded \in Nat
  BY DEF TypeInv, TypeOK, Stream
<1>2. NextRows(q, n) \in [1..n -> Nat]
  BY <1>1 DEF NextRows
<1>3. NextRows(q, n) \in Seq(Nat)
  BY <1>2, SeqDef
<1>4. QED
  BY <1>2, <1>3, LenProperties DEF NextRows

\* A poll that yields a batch changes the handle by push_batch and the
\* stream by the rows of the batch, and nothing of the other queries.
LEMMA PollBatchEffect ==
  ASSUME TypeInv, NEW t \in Tasks, PollBatch(t)
  PROVE  \E n \in Nat, bytes \in Nat :
           LET q == req[t].query
               h == PushBatch(handles[q], NextRows(q, n), bytes)
           IN  /\ h \in Handle
               /\ stream[q].yielded + n \in Nat
               /\ stream' = [stream EXCEPT ![q] = [stream[q] EXCEPT
                                                   !.yielded = @ + n]]
               /\ handles' = [handles EXCEPT ![q] = h]
               /\ stream' \in [QueryIds -> Stream]
               /\ handles' \in [QueryIds -> Handle]
<1> DEFINE q == req[t].query
<1>1. PICK n \in BatchSizes, bytes \in BatchBytes :
        /\ stream' = [stream EXCEPT ![q].yielded = @ + n]
        /\ handles' = [handles EXCEPT ![q] = PushBatch(@, NextRows(q, n), bytes)]
  BY DEF PollBatch
<1>2. n \in Nat /\ bytes \in Nat
  BY StreamAssumption
<1>3. /\ q \in QueryIds /\ handles[q] \in Handle /\ stream[q] \in Stream
      /\ stream[q].yielded \in Nat
  BY ReaderQuery DEF PollBatch, Reading, TypeInv, TypeOK, Stream
<1>4. PushBatch(handles[q], NextRows(q, n), bytes) \in Handle
  BY <1>2, <1>3, NextRowsType, PushBatchCounts
<1>5. [stream[q] EXCEPT !.yielded = @ + n] \in Stream
  BY <1>2, <1>3 DEF Stream
<1>6. /\ stream' \in [QueryIds -> Stream]
      /\ handles' \in [QueryIds -> Handle]
  BY <1>1, <1>4, <1>5 DEF TypeInv, TypeOK
<1>7. /\ stream' = [stream EXCEPT ![q] = [stream[q] EXCEPT !.yielded = @ + n]]
      /\ handles' = [handles EXCEPT
                        ![q] = PushBatch(handles[q], NextRows(q, n), bytes)]
      /\ stream[q].yielded + n \in Nat
  BY <1>1, <1>2, <1>3
<1>8. QED
  BY <1>2, <1>4, <1>6, <1>7

\* The page cut from a handle is a page reply.
LEMMA PageType ==
  ASSUME NEW h \in Handle, NEW r \in Request,
         r.query \in QueryIds, r.size \in Nat, r.index \in Nat
  PROVE  Page(h, r) \in PageReply
<1>1. PageRows(h, r.index, r.size) \in Seq(Nat)
  BY PageRowsType
<1>2. SliceLen(h, r.index, r.size) \in Nat
  BY PageBounds
<1>3. IsLast(h, r.index, r.size) \in BOOLEAN
  BY HandleFields DEF IsLast
<1>4. QED
  BY <1>1, <1>2, <1>3 DEF Page, PageReply

\* Every action keeps the types, and every request's fields fit its point.
LEMMA TypeStep == TypeInv /\ [Next]_vars => TypeInv'
<1> SUFFICES ASSUME TypeInv, [Next]_vars PROVE TypeInv'
  OBVIOUS
<1> USE DEF TypeInv
<1>1. ASSUME NEW t \in Tasks, QueryStart(t) PROVE TypeInv'
  <2> PICK size \in PageSizes, format \in Formats, timeout \in Timeouts :
       \/ /\ PageSizeFails(size)
          /\ Respond(t, Error("invalid_params"))
       \/ /\ ~PageSizeFails(size)
          /\ Accept(t, "ensure",
                    [method |-> "start", query |-> 0, index |-> 0,
                     size |-> NormalPageSize(size), format |-> format,
                     timeout |-> timeout])
    BY <1>1 DEF QueryStart
  <2>1. UNCHANGED <<permits, nextId, sessions, queryVars, lock, told>>
    BY <1>1 DEF QueryStart
  <2>2. CASE Respond(t, Error("invalid_params"))
    <3>1. Error("invalid_params") \in ErrorReply
      BY ErrorType DEF ErrorCodes
    <3>2. QED
      BY <2>1, <2>2, <3>1, RespondTypes DEF TypeOK, queryVars
  <2>3. CASE Accept(t, "ensure",
                    [method |-> "start", query |-> 0, index |-> 0,
                     size |-> NormalPageSize(size), format |-> format,
                     timeout |-> timeout])
    <3>1. NormalPageSize(size) \in Nat
      BY NormalPageSizeType, RequestAssumption
    <3>2. [method |-> "start", query |-> 0, index |-> 0,
           size |-> NormalPageSize(size), format |-> format,
           timeout |-> timeout] \in Request
      BY <3>1 DEF Request
    <3>3. TypeOK'
      BY <2>1, <2>3, <3>2 DEF TypeOK, Accept, queryVars, Points
    <3>4. RequestInv'
      BY <2>3, <3>1 DEF TypeOK, RequestInv, Accept
    <3>5. QED
      BY <3>3, <3>4
  <2>4. QED
    BY <2>2, <2>3
<1>2. ASSUME NEW t \in Tasks, EnsureFails(t) \/ StartRejected(t) \/ PageRejected(t)
      PROVE  TypeInv'
  <2>1. PICK code \in ErrorCodes : Respond(t, Error(code))
    BY <1>2 DEF EnsureFails, StartRejected, PageRejected, ErrorCodes
  <2>2. UNCHANGED <<permits, nextId, sessions, queryVars, lock, told>>
    BY <1>2 DEF EnsureFails, StartRejected, PageRejected
  <2>3. QED
    BY <2>1, <2>2, ErrorType, RespondTypes DEF TypeOK, queryVars
<1>3. ASSUME NEW t \in Tasks, StartAdmitted(t) PROVE TypeInv'
  <2>1. /\ pc' = [pc EXCEPT ![t] = "plan"]
        /\ req' = [req EXCEPT ![t].query = nextId]
        /\ permits > 0 /\ permits' = permits - 1
        /\ nextId <= MaxQueries /\ nextId' = nextId + 1
        /\ pc[t] = "ensure"
        /\ UNCHANGED <<reply, sessions, handles, stream, cancelled, lock, told>>
    BY <1>3 DEF StartAdmitted, AcquirePermit, queryVars
  <2>2. nextId \in QueryIds /\ nextId' \in 1..(MaxQueries + 1) /\ permits' \in Nat
    BY <2>1, RequestAssumption DEF TypeOK, QueryIds
  <2>3. [req[t] EXCEPT !.query = nextId] \in Request
    <3>1. req[t] \in Request /\ nextId \in Nat
      BY <2>2, RequestAssumption DEF TypeOK, QueryIds
    <3>2. QED
      BY <3>1 DEF Request
  <2>4. TypeOK'
    BY <2>1, <2>2, <2>3 DEF TypeOK, Points
  <2>5. RequestInv'
    BY <2>1, <2>2 DEF TypeOK, RequestInv, Request
  <2>6. QED
    BY <2>4, <2>5
<1>4. ASSUME NEW t \in Tasks, PlanFails(t) \/ PageNotFound(t)
      PROVE  TypeInv'
  <2>1. PICK code \in ErrorCodes : Respond(t, Error(code))
    BY <1>4 DEF PlanFails, PageNotFound, ErrorCodes
  <2>2. ReleasePermit /\ UNCHANGED <<nextId, sessions, queryVars, lock, told>>
    BY <1>4 DEF PlanFails, PageNotFound
  <2>3. QED
    BY <2>1, <2>2, ErrorType, ReleaseType, RespondTypes DEF TypeOK, queryVars
<1>5. ASSUME NEW t \in Tasks, PlanSucceeds(t) PROVE TypeInv'
  <2>1. [size |-> req[t].size, format |-> req[t].format] \in Session
    BY <1>5 DEF PlanSucceeds, TypeOK, RequestInv, Request, Session
  <2>2. TypeOK'
    BY <1>5, <2>1 DEF PlanSucceeds, TypeOK, Points, queryVars
  <2>3. RequestInv'
    BY <1>5 DEF PlanSucceeds, TypeOK, RequestInv
  <2>4. QED
    BY <2>2, <2>3
<1>6. ASSUME NEW t \in Tasks, QueryPage(t) PROVE TypeInv'
  <2>1. PICK q \in QueryIds, index \in PageIndexes, size \in PageSizes,
             format \in Formats :
          Accept(t, "find", [method |-> "page", query |-> q, index |-> index,
                             size |-> size, format |-> format,
                             timeout |-> "none"])
    BY <1>6 DEF QueryPage
  <2>2. [method |-> "page", query |-> q, index |-> index, size |-> size,
         format |-> format, timeout |-> "none"] \in Request
    BY RequestAssumption DEF Request, QueryIds
  <2>3. /\ permits > 0 /\ permits' = permits - 1
        /\ UNCHANGED <<nextId, sessions, handles, stream, cancelled, lock, told>>
    BY <1>6 DEF QueryPage, AcquirePermit, queryVars
  <2>4. TypeOK'
    BY <2>1, <2>2, <2>3 DEF TypeOK, Accept, Points
  <2>5. RequestInv'
    BY <2>1 DEF TypeOK, RequestInv, Accept
  <2>6. QED
    BY <2>4, <2>5
<1>7. ASSUME NEW t \in Tasks, PageFound(t) PROVE TypeInv'
  <2> DEFINE session == sessions[req[t].query]
  <2>1. /\ pc[t] = "find" /\ session # NoSession
        /\ pc' = [pc EXCEPT ![t] = "wait"]
        /\ req' = [req EXCEPT ![t] = Resolved(req[t], session)]
        /\ UNCHANGED <<reply, permits, nextId, sessions, handles, stream,
                       cancelled, lock, told>>
    BY <1>7 DEF PageFound, queryVars
  <2>2. req[t].query \in QueryIds /\ session \in Session
    BY <2>1 DEF TypeOK, RequestInv
  <2>3. Resolved(req[t], session) \in Request
        /\ Resolved(req[t], session).size \in Nat
        /\ Resolved(req[t], session).query = req[t].query
    BY <2>2, NormalPageSizeType DEF TypeOK, Request, Session, Resolved
  <2>4. TypeOK'
    BY <2>1, <2>3 DEF TypeOK, Points
  <2>5. RequestInv'
    BY <2>1, <2>2, <2>3 DEF TypeOK, RequestInv
  <2>6. QED
    BY <2>4, <2>5
<1>8. ASSUME NEW t \in Tasks, LockRefused(t) PROVE TypeInv'
  <2>1. PICK code \in ErrorCodes : Fail(t, code)
    BY <1>8 DEF LockRefused, ErrorCodes
  <2>2. UNCHANGED <<handles, stream, lock, nextId, cancelled, told>>
    BY <1>8 DEF LockRefused, Fail
  <2>3. QED
    BY <2>1, <2>2, FailTypes DEF TypeOK
<1>9. ASSUME NEW t \in Tasks, LockTaken(t) PROVE TypeInv'
  <2>1. TypeOK'
    BY <1>9 DEF LockTaken, TypeOK, Points, queryVars
  <2>2. RequestInv'
    BY <1>9 DEF LockTaken, TypeOK, RequestInv
  <2>3. QED
    BY <2>1, <2>2
<1>10. ASSUME NEW t \in Tasks, PollBatch(t) PROVE TypeInv'
  <2>1. req[t].query \in QueryIds
    BY <1>10, ReaderQuery DEF PollBatch, Reading
  <2>2. stream' \in [QueryIds -> Stream] /\ handles' \in [QueryIds -> Handle]
    BY <1>10, <2>1, PollBatchEffect DEF TypeOK
  <2>3. CASE UNCHANGED <<taskVars, permits, nextId, sessions, cancelled, lock, told>>
    BY <2>2, <2>3 DEF TypeOK, RequestInv, taskVars
  <2>4. CASE Fail(t, "over_budget") /\ Unlock(t)
    <3>1. lock' \in [QueryIds -> Tasks \cup {NoTask}]
      BY <2>4 DEF Unlock, TypeOK
    <3>2. "over_budget" \in ErrorCodes
      BY DEF ErrorCodes
    <3>3. UNCHANGED <<nextId, cancelled, told>>
      BY <2>4 DEF Fail
    <3>4. QED
      BY <2>2, <2>4, <3>1, <3>2, <3>3, FailTypes DEF TypeOK
  <2>5. QED
    BY <1>10, <2>3, <2>4 DEF PollBatch
<1>11. ASSUME NEW t \in Tasks,
              \/ PollError(t) \/ ReadCancelled(t) \/ ReadTimesOut(t)
              \/ EncodingFails(t)
       PROVE  TypeInv'
  <2>1. PICK code \in ErrorCodes : Fail(t, code)
    BY <1>11 DEF PollError, ReadCancelled, ReadTimesOut, EncodingFails, ErrorCodes
  <2>2. Unlock(t) /\ UNCHANGED handles
    BY <1>11 DEF PollError, ReadCancelled, ReadTimesOut, EncodingFails
  <2>3. lock' \in [QueryIds -> Tasks \cup {NoTask}]
    BY <2>2 DEF Unlock, TypeOK
  <2>4. stream' \in [QueryIds -> Stream]
    <3>1. \/ UNCHANGED stream
          \/ stream' = [stream EXCEPT ![req[t].query].failed = TRUE]
      BY <1>11 DEF PollError, ReadCancelled, ReadTimesOut, EncodingFails
    <3>2. \A q \in QueryIds : [stream[q] EXCEPT !.failed = TRUE] \in Stream
      BY DEF TypeOK, Stream
    <3>3. QED
      BY <3>1, <3>2 DEF TypeOK
  <2>5. UNCHANGED <<nextId, cancelled, told>>
    BY <2>1 DEF Fail
  <2>6. QED
    BY <2>1, <2>2, <2>3, <2>4, <2>5, FailTypes DEF TypeOK
<1>12. ASSUME NEW t \in Tasks, PollEnd(t) PROVE TypeInv'
  <2>1. stream' \in [QueryIds -> Stream]
    BY <1>12 DEF PollEnd, TypeOK, Stream
  <2>2. handles' \in [QueryIds -> Handle]
    BY <1>12 DEF PollEnd, TypeOK, Handle
  <2>3. QED
    BY <1>12, <2>1, <2>2 DEF PollEnd, TypeOK, RequestInv, taskVars
<1>13. ASSUME NEW t \in Tasks, PageReturned(t) PROVE TypeInv'
  <2> DEFINE q == req[t].query
  <2>1. q \in QueryIds /\ req[t].size \in Nat /\ req[t].index \in Nat
    BY <1>13, ReaderQuery DEF PageReturned
  <2>2. Page(handles[q], req[t]) \in PageReply
    BY <2>1, PageType DEF TypeOK
  <2>3. /\ Respond(t, Page(handles[q], req[t]))
        /\ ReleasePermit /\ Unlock(t)
        /\ told' = IF req[t].method = "start" THEN told \cup {q} ELSE told
        /\ UNCHANGED <<nextId, sessions, handles, stream, cancelled>>
    BY <1>13 DEF PageReturned, queryVars
  <2>4. lock' \in [QueryIds -> Tasks \cup {NoTask}] /\ told' \in SUBSET QueryIds
    BY <2>1, <2>3 DEF Unlock, TypeOK
  <2>5. QED
    BY <2>2, <2>3, <2>4, ReleaseType, RespondTypes DEF TypeOK
<1>14. ASSUME NEW q \in QueryIds, QueryCancel(q) PROVE TypeInv'
  BY <1>14 DEF QueryCancel, TypeOK, RequestInv, taskVars
<1>15. CASE UNCHANGED vars
  BY <1>15 DEF vars, TypeOK, RequestInv
<1>16. QED
  BY <1>1, <1>2, <1>3, <1>4, <1>5, <1>6, <1>7, <1>8, <1>9, <1>10, <1>11, <1>12,
     <1>13, <1>14, <1>15 DEF Next, Client, Step

\* The types hold when the daemon starts.
LEMMA TypeInit == Init => TypeInv
<1> SUFFICES ASSUME Init PROVE TypeInv
  OBVIOUS
<1>1. TypeOK
  BY NewHandleType, NoRequestType, PermitsAssumption, RequestAssumption
  DEF Init, TypeOK, Points, Stream
<1>2. RequestInv
  BY DEF Init, RequestInv
<1>3. QED
  BY <1>1, <1>2 DEF TypeInv

\* Types and requests are inductive together.
LEMMA TypeAlways == Spec => []TypeInv
<1>1. QED
  BY TypeInit, TypeStep, PTL DEF Spec

\* Every variable of the service keeps its type, for any number of tasks,
\* queries and permits, and for every stream.
THEOREM TypeCorrect == Spec => []TypeOK
<1>1. TypeInv => TypeOK
  BY DEF TypeInv
<1>2. QED
  BY <1>1, TypeAlways, PTL

-----------------------------------------------------------------------------
(* Permits.                                                                *)

\* What a task's move between the points does to the tasks that hold a
\* permit: taking one, giving it back, or keeping things as they are.
LEMMA HoldersMove ==
  ASSUME TypeInv, PermitAccounting, NEW t \in Tasks, NEW p \in Points,
         pc' = [pc EXCEPT ![t] = p],
         \/ /\ pc[t] \notin WithPermit /\ p \in WithPermit
            /\ permits > 0 /\ permits' = permits - 1
         \/ /\ pc[t] \in WithPermit /\ p \notin WithPermit
            /\ permits' = permits + 1
         \/ /\ pc[t] \in WithPermit <=> p \in WithPermit
            /\ permits' = permits
  PROVE  PermitAccounting'
<1>1. pc \in [Tasks -> Points] /\ permits \in Nat /\ MaxPermits \in Nat
  BY PermitsAssumption DEF TypeInv, TypeOK
<1>2. Holders \subseteq Tasks /\ IsFiniteSet(Holders)
  BY PermitsAssumption, FS_Subset DEF Holders
<1>3. Cardinality(Holders) \in Nat /\ permits + Cardinality(Holders) = MaxPermits
  BY <1>2, FS_CardinalityType DEF PermitAccounting
<1>4. \A u \in Tasks : pc'[u] = IF u = t THEN p ELSE pc[u]
  BY <1>1
<1>5. CASE pc[t] \notin WithPermit /\ p \in WithPermit
  <2>1. Holders' = Holders \cup {t} /\ t \notin Holders
    BY <1>4, <1>5 DEF Holders
  <2>2. Cardinality(Holders') = Cardinality(Holders) + 1
    BY <1>2, <2>1, FS_AddElement
  <2>3. permits' = permits - 1
    BY <1>5
  <2>4. QED
    BY <1>1, <1>3, <2>2, <2>3 DEF PermitAccounting
<1>6. CASE pc[t] \in WithPermit /\ p \notin WithPermit
  <2>1. Holders' = Holders \ {t} /\ t \in Holders
    BY <1>4, <1>6 DEF Holders
  <2>2. Cardinality(Holders') = Cardinality(Holders) - 1
    BY <1>2, <2>1, FS_RemoveElement
  <2>3. permits' = permits + 1
    BY <1>6
  <2>4. QED
    BY <1>1, <1>3, <2>2, <2>3 DEF PermitAccounting
<1>7. CASE (pc[t] \in WithPermit <=> p \in WithPermit)
  <2>1. Holders' = Holders
    BY <1>4, <1>7 DEF Holders
  <2>2. permits' = permits
    BY <1>7
  <2>3. QED
    BY <2>1, <2>2 DEF PermitAccounting
<1>8. QED
  BY <1>5, <1>6, <1>7

\* Every action moves the permits as it moves the tasks that hold them.
LEMMA PermitStep ==
  TypeInv /\ PermitAccounting /\ [Next]_vars => PermitAccounting'
<1> SUFFICES ASSUME TypeInv, PermitAccounting, [Next]_vars
             PROVE  PermitAccounting'
  OBVIOUS
<1>1. ASSUME NEW t \in Tasks, QueryStart(t) PROVE PermitAccounting'
  <2>1. /\ pc[t] = "idle" /\ UNCHANGED permits
        /\ \/ pc' = [pc EXCEPT ![t] = "idle"]
           \/ pc' = [pc EXCEPT ![t] = "ensure"]
    BY <1>1 DEF QueryStart, Respond, Accept
  <2>2. QED
    BY <2>1, HoldersMove DEF Points, WithPermit
<1>2. ASSUME NEW t \in Tasks, EnsureFails(t) \/ StartRejected(t) \/ PageRejected(t)
      PROVE  PermitAccounting'
  <2>1. /\ pc[t] \in {"idle", "ensure"} /\ UNCHANGED permits
        /\ pc' = [pc EXCEPT ![t] = "idle"]
    BY <1>2 DEF EnsureFails, StartRejected, PageRejected, Respond
  <2>2. QED
    BY <2>1, HoldersMove DEF Points, WithPermit
<1>3. ASSUME NEW t \in Tasks, StartAdmitted(t) \/ QueryPage(t)
      PROVE  PermitAccounting'
  <2>1. /\ pc[t] \in {"idle", "ensure"} /\ permits > 0 /\ permits' = permits - 1
        /\ \/ pc' = [pc EXCEPT ![t] = "plan"]
           \/ pc' = [pc EXCEPT ![t] = "find"]
    BY <1>3 DEF StartAdmitted, QueryPage, AcquirePermit, Accept
  <2>2. QED
    BY <2>1, HoldersMove DEF Points, WithPermit
<1>4. ASSUME NEW t \in Tasks, PlanSucceeds(t) \/ PageFound(t) \/ LockTaken(t)
      PROVE  PermitAccounting'
  <2>1. /\ pc[t] \in {"plan", "find", "wait"} /\ UNCHANGED permits
        /\ \/ pc' = [pc EXCEPT ![t] = "wait"]
           \/ pc' = [pc EXCEPT ![t] = "read"]
    BY <1>4 DEF PlanSucceeds, PageFound, LockTaken
  <2>2. QED
    BY <2>1, HoldersMove DEF Points, WithPermit
<1>5. ASSUME NEW t \in Tasks, pc[t] \in WithPermit, ReleasePermit,
             pc' = [pc EXCEPT ![t] = "idle"]
      PROVE  PermitAccounting'
  BY <1>5, HoldersMove DEF Points, WithPermit, ReleasePermit
<1>6. ASSUME NEW t \in Tasks,
             \/ PlanFails(t) \/ PageNotFound(t) \/ LockRefused(t) \/ PollError(t)
             \/ ReadCancelled(t) \/ ReadTimesOut(t) \/ EncodingFails(t)
             \/ PageReturned(t)
      PROVE  PermitAccounting'
  <2>1. pc[t] \in WithPermit /\ ReleasePermit /\ pc' = [pc EXCEPT ![t] = "idle"]
    BY <1>6 DEF PlanFails, PageNotFound, LockRefused, PollError, ReadCancelled,
                ReadTimesOut, EncodingFails, PageReturned, Reading, Fail,
                Respond, WithPermit
  <2>2. QED
    BY <1>5, <2>1
<1>7. ASSUME NEW t \in Tasks, PollBatch(t) PROVE PermitAccounting'
  <2>1. CASE UNCHANGED <<taskVars, permits>>
    BY <2>1 DEF PermitAccounting, Holders, taskVars
  <2>2. CASE Fail(t, "over_budget")
    <3>1. pc[t] \in WithPermit /\ ReleasePermit /\ pc' = [pc EXCEPT ![t] = "idle"]
      BY <1>7, <2>2 DEF PollBatch, Reading, Fail, Respond, WithPermit
    <3>2. QED
      BY <1>5, <3>1
  <2>3. QED
    BY <1>7, <2>1, <2>2 DEF PollBatch
<1>8. ASSUME NEW t \in Tasks, PollEnd(t) PROVE PermitAccounting'
  BY <1>8 DEF PollEnd, PermitAccounting, Holders, taskVars
<1>9. ASSUME NEW q \in QueryIds, QueryCancel(q) PROVE PermitAccounting'
  BY <1>9 DEF QueryCancel, PermitAccounting, Holders, taskVars
<1>10. CASE UNCHANGED vars
  BY <1>10 DEF vars, PermitAccounting, Holders
<1>11. QED
  BY <1>1, <1>2, <1>3, <1>4, <1>6, <1>7, <1>8, <1>9, <1>10 DEF Next, Client, Step

\* No way through the handlers loses a permit or gives one back twice, however
\* many tasks and permits there are.
THEOREM PermitsAccounted == Spec => []PermitAccounting
<1>1. Init => PermitAccounting
  <2> SUFFICES ASSUME Init PROVE PermitAccounting
    OBVIOUS
  <2>1. Holders = {}
    BY DEF Init, Holders, WithPermit
  <2>2. Cardinality(Holders) = 0
    BY <2>1, FS_EmptySet
  <2>3. QED
    BY <2>2, PermitsAssumption DEF Init, PermitAccounting
<1>2. QED
  BY <1>1, PermitStep, TypeAlways, PTL DEF Spec

-----------------------------------------------------------------------------
(* Locks.                                                                  *)

\* A task that leaves the reading point and unlocks its handle.
LEMMA UnlockMove ==
  ASSUME TypeInv, LockHeldByReader, NEW t \in Tasks, pc[t] = "read",
         NEW r, Respond(t, r), Unlock(t)
  PROVE  LockHeldByReader'
<1>1. /\ pc' = [pc EXCEPT ![t] = "idle"]
      /\ req' = [req EXCEPT ![t] = NoRequest]
      /\ lock' = [lock EXCEPT ![req[t].query] = NoTask]
  BY DEF Respond, Unlock
<1>2. req[t].query \in QueryIds /\ lock[req[t].query] = t
  BY ReaderQuery DEF LockHeldByReader
<1>3. ASSUME NEW q \in QueryIds, NEW u \in Tasks
      PROVE  lock'[q] = u <=> pc'[u] = "read" /\ req'[u].query = q
  <2>1. CASE u = t
    BY <1>1, <1>2, <2>1, RequestAssumption
    DEF LockHeldByReader, TypeInv, TypeOK
  <2>2. CASE u # t
    BY <1>1, <1>2, <2>2, RequestAssumption
    DEF LockHeldByReader, TypeInv, TypeOK
  <2>3. QED
    BY <2>1, <2>2
<1>4. QED
  BY <1>3 DEF LockHeldByReader

\* A task that neither was nor will be reading, and touches no lock.
LEMMA OffLockMove ==
  ASSUME TypeInv, LockHeldByReader, NEW t \in Tasks, pc[t] # "read",
         NEW p, p # "read", NEW r,
         pc' = [pc EXCEPT ![t] = p], req' = [req EXCEPT ![t] = r],
         UNCHANGED lock
  PROVE  LockHeldByReader'
<1>1. ASSUME NEW q \in QueryIds, NEW u \in Tasks
      PROVE  lock'[q] = u <=> pc'[u] = "read" /\ req'[u].query = q
  <2>1. CASE u = t
    BY <2>1 DEF LockHeldByReader, TypeInv, TypeOK
  <2>2. CASE u # t
    BY <2>2 DEF LockHeldByReader, TypeInv, TypeOK
  <2>3. QED
    BY <2>1, <2>2
<1>2. QED
  BY <1>1 DEF LockHeldByReader

\* Every action that takes or leaves a lock enters or leaves the reading point.
LEMMA LockStep ==
  TypeInv /\ LockHeldByReader /\ [Next]_vars => LockHeldByReader'
<1> SUFFICES ASSUME TypeInv, LockHeldByReader, [Next]_vars
             PROVE  LockHeldByReader'
  OBVIOUS
<1>1. ASSUME NEW t \in Tasks,
             \/ QueryStart(t) \/ EnsureFails(t) \/ StartRejected(t)
             \/ StartAdmitted(t) \/ PlanFails(t) \/ PlanSucceeds(t)
             \/ PageRejected(t) \/ QueryPage(t) \/ PageNotFound(t)
             \/ PageFound(t) \/ LockRefused(t)
      PROVE  LockHeldByReader'
  <2>1. pc[t] # "read" /\ UNCHANGED lock
    BY <1>1 DEF QueryStart, EnsureFails, StartRejected, StartAdmitted,
                PlanFails, PlanSucceeds, PageRejected, QueryPage, PageNotFound,
                PageFound, LockRefused
  <2>2. req = [req EXCEPT ![t] = req[t]]
    BY DEF TypeInv, TypeOK
  <2>3. \E r : req' = [req EXCEPT ![t] = r]
    BY <1>1, <2>2 DEF QueryStart, EnsureFails, StartRejected, StartAdmitted,
                PlanFails, PlanSucceeds, PageRejected, QueryPage, PageNotFound,
                PageFound, LockRefused, Fail, Respond, Accept
  <2>4. \E p : p # "read" /\ pc' = [pc EXCEPT ![t] = p]
    BY <1>1 DEF QueryStart, EnsureFails, StartRejected, StartAdmitted,
                PlanFails, PlanSucceeds, PageRejected, QueryPage, PageNotFound,
                PageFound, LockRefused, Fail, Respond, Accept
  <2>5. QED
    BY <2>1, <2>3, <2>4, OffLockMove
<1>2. ASSUME NEW t \in Tasks, LockTaken(t) PROVE LockHeldByReader'
  <2>1. /\ pc[t] = "wait" /\ lock[req[t].query] = NoTask
        /\ lock' = [lock EXCEPT ![req[t].query] = t]
        /\ pc' = [pc EXCEPT ![t] = "read"] /\ UNCHANGED req
    BY <1>2 DEF LockTaken
  <2>2. req[t].query \in QueryIds /\ lock[req[t].query] \notin Tasks
    BY <2>1, RequestAssumption DEF TypeInv, RequestInv
  <2>3. ASSUME NEW q \in QueryIds, NEW u \in Tasks
        PROVE  lock'[q] = u <=> pc'[u] = "read" /\ req'[u].query = q
    <3>1. CASE u = t
      BY <2>1, <2>2, <3>1 DEF LockHeldByReader, TypeInv, TypeOK
    <3>2. CASE u # t
      BY <2>1, <2>2, <3>2 DEF LockHeldByReader, TypeInv, TypeOK
    <3>3. QED
      BY <3>1, <3>2
  <2>4. QED
    BY <2>3 DEF LockHeldByReader
<1>3. ASSUME NEW t \in Tasks,
             \/ PollError(t) \/ ReadCancelled(t) \/ ReadTimesOut(t)
             \/ EncodingFails(t) \/ PageReturned(t)
      PROVE  LockHeldByReader'
  <2>1. pc[t] = "read" /\ Unlock(t) /\ \E r : Respond(t, r)
    BY <1>3 DEF PollError, ReadCancelled, ReadTimesOut, EncodingFails,
                PageReturned, Reading, Fail
  <2>2. QED
    BY <2>1, UnlockMove
<1>4. ASSUME NEW t \in Tasks, PollBatch(t) PROVE LockHeldByReader'
  <2>1. CASE UNCHANGED <<taskVars, lock>>
    BY <2>1 DEF LockHeldByReader, taskVars
  <2>2. CASE Fail(t, "over_budget") /\ Unlock(t)
    BY <1>4, <2>2, UnlockMove DEF PollBatch, Reading, Fail
  <2>3. QED
    BY <1>4, <2>1, <2>2 DEF PollBatch
<1>5. ASSUME NEW t \in Tasks, PollEnd(t) PROVE LockHeldByReader'
  BY <1>5 DEF PollEnd, LockHeldByReader, taskVars
<1>6. ASSUME NEW q \in QueryIds, QueryCancel(q) PROVE LockHeldByReader'
  BY <1>6 DEF QueryCancel, LockHeldByReader, taskVars
<1>7. CASE UNCHANGED vars
  BY <1>7 DEF vars, LockHeldByReader
<1>8. QED
  BY <1>1, <1>2, <1>3, <1>4, <1>5, <1>6, <1>7 DEF Next, Client, Step

\* A handle is locked by the one task that reads it, and by none after that
\* task has answered.
THEOREM LockCorrect == Spec => []LockHeldByReader
<1>1. Init => LockHeldByReader
  BY RequestAssumption DEF Init, LockHeldByReader
<1>2. QED
  BY <1>1, LockStep, TypeAlways, PTL DEF Spec

\* A task that finds its query cancelled when it gets the lock does not read.
THEOREM CancelledNeverRead == Spec => CancelledNotRead
<1>1. ASSUME TypeInv, [Next]_vars, NEW q \in QueryIds, cancelled[q]
      PROVE  lock'[q] \in {lock[q], NoTask}
  <2>1. CASE UNCHANGED lock
    BY <2>1
  <2>2. ASSUME NEW t \in Tasks, Unlock(t) PROVE lock'[q] \in {lock[q], NoTask}
    BY <1>1, <2>2 DEF Unlock, TypeInv, TypeOK
  <2>3. ASSUME NEW t \in Tasks, LockTaken(t) PROVE lock'[q] = lock[q]
    <3>1. lock' = [lock EXCEPT ![req[t].query] = t] /\ ~cancelled[req[t].query]
      BY <2>3 DEF LockTaken, ReadRefused
    <3>2. QED
      BY <1>1, <3>1 DEF TypeInv, TypeOK
  <2>4. ASSUME NEW t \in Tasks, Step(t) PROVE lock'[q] \in {lock[q], NoTask}
    BY <2>1, <2>2, <2>3, <2>4
    DEF Step, EnsureFails, StartRejected, StartAdmitted, PlanFails,
        PlanSucceeds, PageNotFound, PageFound, LockRefused, PollBatch,
        PollError, PollEnd, ReadCancelled, ReadTimesOut, EncodingFails,
        PageReturned
  <2>5. ASSUME NEW t \in Tasks, Client(t) PROVE lock' = lock
    BY <2>5 DEF Client, QueryStart, PageRejected, QueryPage
  <2>6. ASSUME NEW p \in QueryIds, QueryCancel(p) PROVE lock' = lock
    BY <2>6 DEF QueryCancel
  <2>7. QED
    BY <1>1, <2>1, <2>4, <2>5, <2>6 DEF Next, vars
<1>2. TypeInv /\ [Next]_vars =>
        [\A q \in QueryIds : cancelled[q] => lock'[q] \in {lock[q], NoTask}]_vars
  BY <1>1
<1>3. QED
  BY <1>2, TypeAlways, PTL DEF Spec, CancelledNotRead

-----------------------------------------------------------------------------
(* Sessions.                                                               *)

\* The task t is about to tell its client about the session q.
Telling(t, q) == /\ pc[t] \in {"wait", "read"}
                 /\ req[t].method = "start"
                 /\ req[t].query = q

\* A session is inserted with a task that will tell its client, and that task
\* tells the client or takes the session away.
LEMMA OrphanStep ==
  TypeInv /\ NoOrphanSession /\ [Next]_vars => NoOrphanSession'
<1> SUFFICES ASSUME TypeInv, NoOrphanSession, [Next]_vars,
                    NEW q \in QueryIds, sessions'[q] # NoSession
             PROVE  q \in told' \/ \E t \in Tasks : Telling(t, q)'
  BY DEF NoOrphanSession, Telling
\* A step that adds no session and leaves the tasks that are telling alone.
<1>1. ASSUME sessions[q] # NoSession, told \subseteq told',
             \A u \in Tasks : Telling(u, q) => Telling(u, q)' \/ q \in told'
      PROVE  q \in told' \/ \E t \in Tasks : Telling(t, q)'
  BY <1>1 DEF NoOrphanSession, Telling
<1>2. ASSUME NEW t \in Tasks, NEW p, NEW r,
             pc' = [pc EXCEPT ![t] = p], req' = [req EXCEPT ![t] = r],
             UNCHANGED <<sessions, told>>,
             pc[t] \notin {"wait", "read"}
      PROVE  q \in told' \/ \E u \in Tasks : Telling(u, q)'
  <2>1. \A u \in Tasks : Telling(u, q) => Telling(u, q)'
    BY <1>2 DEF Telling, TypeInv, TypeOK
  <2>2. QED
    BY <1>1, <1>2, <2>1
<1>3. ASSUME NEW t \in Tasks, NEW code, Fail(t, code)
      PROVE  q \in told' \/ \E u \in Tasks : Telling(u, q)'
  <2>1. /\ pc' = [pc EXCEPT ![t] = "idle"]
        /\ req' = [req EXCEPT ![t] = NoRequest]
        /\ UNCHANGED told
        /\ sessions' = IF req[t].method = "start"
                       THEN [sessions EXCEPT ![req[t].query] = NoSession]
                       ELSE sessions
    BY <1>3 DEF Fail, Respond
  <2>2. ~Telling(t, q) /\ sessions[q] # NoSession
    BY <2>1 DEF Telling, TypeInv, TypeOK
  <2>3. \A u \in Tasks : Telling(u, q) => Telling(u, q)'
    BY <2>1, <2>2 DEF Telling, TypeInv, TypeOK
  <2>4. QED
    BY <1>1, <2>1, <2>2, <2>3
<1>4. ASSUME UNCHANGED <<taskVars, sessions, told>>
      PROVE  q \in told' \/ \E u \in Tasks : Telling(u, q)'
  BY <1>1, <1>4 DEF Telling, taskVars
<1>5. ASSUME NEW t \in Tasks,
             \/ QueryStart(t) \/ EnsureFails(t) \/ StartRejected(t)
             \/ StartAdmitted(t) \/ PlanFails(t) \/ PageRejected(t)
             \/ QueryPage(t) \/ PageNotFound(t) \/ PageFound(t)
      PROVE  q \in told' \/ \E u \in Tasks : Telling(u, q)'
  <2>1. pc[t] \notin {"wait", "read"} /\ UNCHANGED <<sessions, told>>
    BY <1>5 DEF QueryStart, EnsureFails, StartRejected, StartAdmitted,
                PlanFails, PageRejected, QueryPage, PageNotFound, PageFound
  <2>2. \E p : pc' = [pc EXCEPT ![t] = p]
    BY <1>5 DEF QueryStart, EnsureFails, StartRejected, StartAdmitted,
                PlanFails, PageRejected, QueryPage, PageNotFound, PageFound,
                Respond, Accept
  <2>3. \E r : req' = [req EXCEPT ![t] = r]
    BY <1>5 DEF QueryStart, EnsureFails, StartRejected, StartAdmitted,
                PlanFails, PageRejected, QueryPage, PageNotFound, PageFound,
                Respond, Accept
  <2>4. QED
    BY <1>2, <2>1, <2>2, <2>3
<1>6. ASSUME NEW t \in Tasks, PlanSucceeds(t)
      PROVE  q \in told' \/ \E u \in Tasks : Telling(u, q)'
  <2>1. /\ pc[t] = "plan" /\ pc' = [pc EXCEPT ![t] = "wait"]
        /\ sessions' = [sessions EXCEPT ![req[t].query] =
                          [size |-> req[t].size, format |-> req[t].format]]
        /\ UNCHANGED <<req, told>>
    BY <1>6 DEF PlanSucceeds
  <2>2. CASE q = req[t].query
    <3>1. Telling(t, q)'
      BY <2>1, <2>2 DEF Telling, TypeInv, TypeOK, RequestInv
    <3>2. QED
      BY <3>1
  <2>3. CASE q # req[t].query
    <3>1. sessions[q] # NoSession
      BY <2>1, <2>3 DEF TypeInv, TypeOK
    <3>2. \A u \in Tasks : Telling(u, q) => Telling(u, q)'
      BY <2>1, <2>3 DEF Telling, TypeInv, TypeOK
    <3>3. QED
      BY <1>1, <2>1, <3>1, <3>2
  <2>4. QED
    BY <2>2, <2>3
<1>7. ASSUME NEW t \in Tasks, LockTaken(t)
      PROVE  q \in told' \/ \E u \in Tasks : Telling(u, q)'
  <2>1. \A u \in Tasks : Telling(u, q) => Telling(u, q)'
    BY <1>7 DEF LockTaken, Telling, TypeInv, TypeOK
  <2>2. UNCHANGED <<sessions, told>>
    BY <1>7 DEF LockTaken
  <2>3. QED
    BY <1>1, <2>1, <2>2
<1>8. ASSUME NEW t \in Tasks, PageReturned(t)
      PROVE  q \in told' \/ \E u \in Tasks : Telling(u, q)'
  <2>1. /\ pc' = [pc EXCEPT ![t] = "idle"]
        /\ req' = [req EXCEPT ![t] = NoRequest]
        /\ told' = IF req[t].method = "start" THEN told \cup {req[t].query}
                   ELSE told
        /\ UNCHANGED sessions
    BY <1>8 DEF PageReturned, Respond
  <2>2. ASSUME NEW u \in Tasks, Telling(u, q)
        PROVE  Telling(u, q)' \/ q \in told'
    <3>1. CASE u = t
      BY <2>1, <2>2, <3>1 DEF Telling
    <3>2. CASE u # t
      BY <2>1, <2>2, <3>2 DEF Telling, TypeInv, TypeOK
    <3>3. QED
      BY <3>1, <3>2
  <2>3. QED
    BY <1>1, <2>1, <2>2
<1>9. ASSUME NEW t \in Tasks,
             \/ LockRefused(t) \/ PollError(t) \/ ReadCancelled(t)
             \/ ReadTimesOut(t) \/ EncodingFails(t)
      PROVE  q \in told' \/ \E u \in Tasks : Telling(u, q)'
  BY <1>3, <1>9 DEF LockRefused, PollError, ReadCancelled, ReadTimesOut,
                    EncodingFails
<1>10. ASSUME NEW t \in Tasks, PollBatch(t) \/ PollEnd(t)
       PROVE  q \in told' \/ \E u \in Tasks : Telling(u, q)'
  BY <1>3, <1>4, <1>10 DEF PollBatch, PollEnd, taskVars
<1>11. ASSUME NEW p \in QueryIds, QueryCancel(p)
       PROVE  q \in told' \/ \E u \in Tasks : Telling(u, q)'
  <2>1. sessions[q] # NoSession
    BY <1>11 DEF QueryCancel, TypeInv, TypeOK
  <2>2. QED
    BY <1>1, <1>11, <2>1 DEF QueryCancel, Telling, taskVars
<1>12. CASE UNCHANGED vars
  BY <1>4, <1>12 DEF vars, taskVars
<1>13. QED
  BY <1>5, <1>6, <1>7, <1>8, <1>9, <1>10, <1>11, <1>12 DEF Next, Client, Step

\* Every session in the table has a client that knows it or is about to.
THEOREM NoOrphans == Spec => []NoOrphanSession
<1>1. Init => NoOrphanSession
  BY DEF Init, NoOrphanSession
<1>2. QED
  BY <1>1, OrphanStep, TypeAlways, PTL DEF Spec

-----------------------------------------------------------------------------
(* Pages.                                                                  *)

\* What a step does to the handle and the stream of a query: nothing, a batch
\* that push_batch takes or refuses, an error, or the end of the stream.
LEMMA HandleEffect ==
  ASSUME TypeInv, HandleInv, [Next]_vars, NEW q \in QueryIds
  PROVE  \/ handles'[q] = handles[q] /\ stream'[q] = stream[q]
         \/ /\ handles'[q] = handles[q]
            /\ stream'[q] = [stream[q] EXCEPT !.failed = TRUE]
         \/ /\ ~stream[q].ended
            /\ handles'[q] = [handles[q] EXCEPT !.terminal = TRUE]
            /\ stream'[q] = [stream[q] EXCEPT !.ended = TRUE]
            /\ UNCHANGED reply
         \/ /\ ~stream[q].ended
            /\ \E n \in Nat, bytes \in Nat :
                 /\ handles'[q] = PushBatch(handles[q], NextRows(q, n), bytes)
                 /\ stream'[q] = [stream[q] EXCEPT !.yielded = @ + n]
<1>1. CASE UNCHANGED <<handles, stream>>
  BY <1>1
<1>2. ASSUME NEW t \in Tasks, PollBatch(t) \/ PollEnd(t), req[t].query = q
      PROVE  ~stream[q].ended
  BY <1>2 DEF PollBatch, PollEnd, Reading, ReadDone, ReadComplete, HandleInv
<1>3. ASSUME NEW t \in Tasks, PollBatch(t), req[t].query = q
      PROVE  /\ ~stream[q].ended
             /\ \E n \in Nat, bytes \in Nat :
                 /\ handles'[q] = PushBatch(handles[q], NextRows(q, n), bytes)
                 /\ stream'[q] = [stream[q] EXCEPT !.yielded = @ + n]
  BY <1>2, <1>3, PollBatchEffect DEF TypeInv, TypeOK
<1>4. ASSUME NEW t \in Tasks, PollBatch(t) \/ PollEnd(t) \/ PollError(t),
             req[t].query # q
      PROVE  handles'[q] = handles[q] /\ stream'[q] = stream[q]
  BY <1>4 DEF PollBatch, PollEnd, PollError, TypeInv, TypeOK
<1>5. ASSUME NEW t \in Tasks, PollEnd(t), req[t].query = q
      PROVE  /\ ~stream[q].ended
             /\ handles'[q] = [handles[q] EXCEPT !.terminal = TRUE]
             /\ stream'[q] = [stream[q] EXCEPT !.ended = TRUE]
             /\ UNCHANGED reply
  BY <1>2, <1>5 DEF PollEnd, TypeInv, TypeOK, taskVars
<1>6. ASSUME NEW t \in Tasks, PollError(t), req[t].query = q
      PROVE  /\ handles'[q] = handles[q]
             /\ stream'[q] = [stream[q] EXCEPT !.failed = TRUE]
  BY <1>6 DEF PollError, TypeInv, TypeOK
<1>7. ASSUME NEW t \in Tasks, Step(t)
      PROVE  UNCHANGED <<handles, stream>>
             \/ PollBatch(t) \/ PollEnd(t) \/ PollError(t)
  BY <1>7 DEF Step, EnsureFails, StartRejected, StartAdmitted, PlanFails,
        PlanSucceeds, PageNotFound, PageFound, LockRefused, LockTaken,
        ReadCancelled, ReadTimesOut, EncodingFails, PageReturned, queryVars
<1>8. ASSUME NEW t \in Tasks, Client(t) PROVE UNCHANGED <<handles, stream>>
  BY <1>8 DEF Client, QueryStart, PageRejected, QueryPage, queryVars
<1>9. ASSUME NEW p \in QueryIds, QueryCancel(p) PROVE UNCHANGED <<handles, stream>>
  BY <1>9 DEF QueryCancel
<1>10. CASE UNCHANGED vars
  BY <1>1, <1>10 DEF vars
<1>11. QED
  BY <1>1, <1>3, <1>4, <1>5, <1>6, <1>7, <1>8, <1>9, <1>10 DEF Next

\* Every action keeps the counters in step with the stream and the buffer well
\* formed.
LEMMA HandleStep == TypeInv /\ HandleInv /\ [Next]_vars => HandleInv'
<1> SUFFICES ASSUME TypeInv, HandleInv, [Next]_vars, NEW q \in QueryIds
             PROVE  /\ handles'[q].buffered_rows = stream'[q].yielded
                    /\ handles'[q].terminal = stream'[q].ended
                    /\ WellBuffered(handles'[q])
  BY DEF HandleInv
<1>1. /\ handles[q] \in Handle /\ stream[q] \in Stream
      /\ handles[q].buffered_rows = stream[q].yielded
      /\ handles[q].terminal = stream[q].ended
      /\ WellBuffered(handles[q])
  BY DEF TypeInv, TypeOK, HandleInv
<1>2. CASE handles'[q] = handles[q] /\ stream'[q] = stream[q]
  BY <1>1, <1>2
<1>3. CASE /\ handles'[q] = handles[q]
           /\ stream'[q] = [stream[q] EXCEPT !.failed = TRUE]
  BY <1>1, <1>3 DEF Stream
<1>4. CASE /\ handles'[q] = [handles[q] EXCEPT !.terminal = TRUE]
           /\ stream'[q] = [stream[q] EXCEPT !.ended = TRUE]
  BY <1>1, <1>4 DEF Stream, Handle, WellBuffered, Overflowed, OverBudget
<1>5. ASSUME NEW n \in Nat, NEW bytes \in Nat,
             handles'[q] = PushBatch(handles[q], NextRows(q, n), bytes),
             stream'[q] = [stream[q] EXCEPT !.yielded = @ + n]
      PROVE  /\ handles'[q].buffered_rows = stream'[q].yielded
             /\ handles'[q].terminal = stream'[q].ended
             /\ WellBuffered(handles'[q])
  <2>1. /\ NextRows(q, n) \in Seq(Nat) /\ Len(NextRows(q, n)) = n
        /\ \A i \in 1..n : NextRows(q, n)[i] = handles[q].buffered_rows + i
    BY <1>1, NextRowsType
  <2>2. WellBuffered(handles'[q])
    BY <1>1, <1>5, <2>1, PushBatchBuffers
  <2>3. /\ handles'[q].buffered_rows = handles[q].buffered_rows + n
        /\ handles'[q].terminal = handles[q].terminal
    BY <1>1, <1>5, <2>1, PushBatchCounts
  <2>4. stream'[q].yielded = stream[q].yielded + n /\ stream'[q].ended = stream[q].ended
    BY <1>1, <1>5 DEF Stream
  <2>5. QED
    BY <1>1, <2>2, <2>3, <2>4
<1>6. QED
  BY <1>2, <1>3, <1>4, <1>5, HandleEffect

\* The counters follow the stream and the buffer is well formed, always.
THEOREM HandleCorrect == Spec => []HandleInv
<1>1. Init => HandleInv
  <2> SUFFICES ASSUME Init, NEW q \in QueryIds
               PROVE  /\ handles[q].buffered_rows = stream[q].yielded
                      /\ handles[q].terminal = stream[q].ended
                      /\ WellBuffered(handles[q])
    BY DEF HandleInv
  <2>1. Len(<< >>) = 0
    BY EmptySeq
  <2>2. WellBuffered(NewHandle)
    BY <2>1, LimitsAssumption DEF WellBuffered, Overflowed, NewHandle
  <2>3. QED
    BY <2>2 DEF Init, NewHandle
<1>2. QED
  BY <1>1, HandleStep, TypeAlways, PTL DEF Spec

\* The memory of a query is bounded, whatever its stream yields and however
\* often its pages are asked for.
THEOREM Bounded == Spec => []BufferBounded
<1>1. HandleInv => BufferBounded
  BY DEF HandleInv, BufferBounded, WellBuffered
<1>2. QED
  BY <1>1, HandleCorrect, PTL

\* The page a client last received is the page the handle would return now,
\* and the rows it needed have been counted.
PageInv ==
  \A t \in Tasks : reply[t].kind = "page" =>
    LET r == reply[t]
        h == handles[r.query]
    IN  /\ ReadComplete(h, ReadTarget(r.index, r.size))
        /\ r = Page(h, r)

\* Neither the end of the stream nor another batch changes a page that has
\* been returned.
LEMMA PageKept ==
  ASSUME TypeInv, HandleInv, [Next]_vars, NEW r \in PageReply,
         ReadComplete(handles[r.query], ReadTarget(r.index, r.size))
  PROVE  /\ ReadComplete(handles'[r.query], ReadTarget(r.index, r.size))
         /\ Page(handles'[r.query], r) = Page(handles[r.query], r)
<1> DEFINE q == r.query
<1> DEFINE h == handles[q]
<1> DEFINE p == handles'[q]
<1>1. /\ q \in QueryIds /\ r.index \in Nat /\ r.size \in Nat
      /\ h \in Handle /\ stream[q] \in Stream
      /\ h.terminal = stream[q].ended /\ WellBuffered(h)
  BY DEF TypeInv, TypeOK, HandleInv, PageReply
<1>2. ~stream[q].ended => h.buffered_rows >= ReadTarget(r.index, r.size)
  BY <1>1 DEF ReadComplete
<1>3. CASE p = h
  BY <1>3
<1>4. CASE ~stream[q].ended /\ p = [h EXCEPT !.terminal = TRUE]
  <2>1. /\ p.rows = h.rows /\ p.buffered_rows = h.buffered_rows /\ p.terminal
        /\ ~h.terminal
    BY <1>1, <1>4 DEF Handle
  <2>2. /\ PageEnd(r.index, r.size) \in Nat /\ h.buffered_rows \in Nat
        /\ h.buffered_rows > PageEnd(r.index, r.size)
    <3>1. /\ PageStart(r.index, r.size) \in Nat
          /\ PageEnd(r.index, r.size) = PageStart(r.index, r.size) + r.size
      BY <1>1, PageBounds
    <3>2. QED
      BY <1>1, <1>2, <1>4, <3>1, HandleFields DEF ReadTarget
  <2>3. ~(Least(PageEnd(r.index, r.size), h.buffered_rows) >= h.buffered_rows)
    BY <2>2 DEF Least
  <2>4. IsLast(p, r.index, r.size) = FALSE /\ IsLast(h, r.index, r.size) = FALSE
    BY <2>1, <2>3 DEF IsLast
  <2>5. QED
    BY <2>1, <2>4 DEF ReadComplete, Page, PageRows, SliceLen
<1>5. ASSUME NEW n \in Nat, NEW bytes \in Nat, ~stream[q].ended,
             p = PushBatch(h, NextRows(q, n), bytes)
      PROVE  /\ ReadComplete(p, ReadTarget(r.index, r.size))
             /\ Page(p, r) = Page(h, r)
  <2>1. NextRows(q, n) \in Seq(Nat)
    BY <1>1, NextRowsType
  <2>2. /\ PageRows(p, r.index, r.size) = PageRows(h, r.index, r.size)
        /\ SliceLen(p, r.index, r.size) = SliceLen(h, r.index, r.size)
        /\ p.buffered_rows >= ReadTarget(r.index, r.size)
    BY <1>1, <1>2, <1>5, <2>1, PageRowsStable
  <2>3. p.terminal = FALSE /\ h.terminal = FALSE
    <3>1. PushBatch(h, NextRows(q, n), bytes).terminal = h.terminal
      BY <1>1, <2>1, PushBatchCounts
    <3>2. h.terminal = FALSE
      BY <1>1, <1>5, HandleFields
    <3>3. QED
      BY <1>5, <3>1, <3>2
  <2>4. IsLast(p, r.index, r.size) = IsLast(h, r.index, r.size)
    BY <2>3 DEF IsLast
  <2>5. QED
    BY <2>2, <2>4 DEF ReadComplete, Page
<1>6. QED
  BY <1>1, <1>3, <1>4, <1>5, HandleEffect, ZenonT(60)

\* A page is returned as it is cut, and no later step would cut it otherwise.
LEMMA PageStep ==
  TypeInv /\ HandleInv /\ PageInv /\ [Next]_vars => PageInv'
<1> SUFFICES ASSUME TypeInv, HandleInv, PageInv, [Next]_vars, NEW t \in Tasks,
                    reply'[t].kind = "page"
             PROVE  LET r == reply'[t]
                        h == handles'[r.query]
                    IN  /\ ReadComplete(h, ReadTarget(r.index, r.size))
                        /\ r = Page(h, r)
  BY DEF PageInv
<1>1. CASE reply'[t] = reply[t]
  <2>1. reply[t] \in PageReply
    BY <1>1 DEF TypeInv, TypeOK, NoReply, ErrorReply, PageReply
  <2>2. QED
    BY <1>1, <2>1, PageKept DEF PageInv
<1>2. CASE reply'[t] # reply[t]
  <2>1. ASSUME NEW u \in Tasks, NEW r, r.kind # "page", Respond(u, r)
        PROVE  FALSE
    BY <1>2, <2>1 DEF Respond, TypeInv, TypeOK
  <2>2. ASSUME NEW code PROVE Error(code).kind # "page"
    BY DEF Error
  <2>3. ASSUME NEW u \in Tasks, NEW p, NEW r, Accept(u, p, r) PROVE FALSE
    BY <1>2, <2>3 DEF Accept, NoReply, TypeInv, TypeOK
  <2>4. ~UNCHANGED reply
    BY <1>2
  <2>5. ASSUME NEW u \in Tasks, Client(u) PROVE FALSE
    BY <2>1, <2>2, <2>3, <2>5 DEF Client, QueryStart, PageRejected, QueryPage
  <2>6. ASSUME NEW u \in Tasks, Step(u) PROVE PageReturned(u)
    BY <2>1, <2>2, <2>4, <2>6
    DEF Step, EnsureFails, StartRejected, StartAdmitted, PlanFails,
        PlanSucceeds, PageNotFound, PageFound, LockRefused, LockTaken,
        PollBatch, PollError, PollEnd, ReadCancelled, ReadTimesOut,
        EncodingFails, Fail, taskVars
  <2>7. PICK u \in Tasks : PageReturned(u)
    BY <2>4, <2>5, <2>6 DEF Next, QueryCancel, vars, taskVars
  <2>8. /\ pc[u] = "read" /\ ReadDone(u)
        /\ reply' = [reply EXCEPT ![u] = Page(handles[req[u].query], req[u])]
        /\ UNCHANGED handles
    BY <2>7 DEF PageReturned, Respond, queryVars
  <2>9. reply'[t] = Page(handles[req[u].query], req[u])
    BY <1>2, <2>8 DEF TypeInv, TypeOK
  <2>10. QED
    BY <2>8, <2>9 DEF ReadDone, Page
<1>3. QED
  BY <1>1, <1>2

\* The three inductive invariants together.
LEMMA PageAlways == Spec => [](TypeInv /\ HandleInv /\ PageInv)
<1>1. Init => PageInv
  BY DEF Init, PageInv, NoReply
<1>2. QED
  BY <1>1, PageStep, TypeAlways, HandleCorrect, PTL DEF Spec

\* A page cut from a handle that has counted the rows it needs, and that lost
\* none, is exact.
LEMMA CutPageExact ==
  ASSUME TypeInv, HandleInv, NEW r,
         r.query \in QueryIds, r.index \in Nat, r.size \in Nat,
         ReadComplete(handles[r.query], ReadTarget(r.index, r.size)),
         ~Overflowed(handles[r.query])
  PROVE  PageIsExact(Page(handles[r.query], r))
<1> DEFINE h == handles[r.query]
<1> DEFINE end == PageEnd(r.index, r.size)
<1> DEFINE all == stream[r.query].yielded
<1> DEFINE p == Page(h, r)
<1>1. /\ h \in Handle /\ WellBuffered(h)
      /\ h.buffered_rows = all /\ all \in Nat
      /\ h.terminal = stream[r.query].ended
  BY DEF HandleInv, TypeInv, TypeOK, Stream
<1>2. /\ p.rows = PageRows(h, r.index, r.size)
      /\ p.rows_returned = SliceLen(h, r.index, r.size)
      /\ p.is_last = IsLast(h, r.index, r.size)
      /\ p.query = r.query /\ p.index = r.index /\ p.size = r.size
  BY DEF Page
<1>3. /\ p.rows = Window(PageStart(r.index, r.size) + 1, Least(end, all))
      /\ p.rows_returned = Len(p.rows)
  BY <1>1, <1>2, PageRowsExact
<1>4. end \in Nat
  <2>1. /\ PageStart(r.index, r.size) \in Nat
        /\ PageEnd(r.index, r.size) = PageStart(r.index, r.size) + r.size
    BY <1>1, PageBounds
  <2>2. QED
    BY <2>1
<1>5. stream[r.query].ended \/ all >= end + 1
  BY <1>1 DEF ReadComplete, ReadTarget
<1>6. p.is_last <=> stream[r.query].ended /\ Least(end, all) >= all
  BY <1>1, <1>2 DEF IsLast
<1> HIDE DEF end, all, p
<1>7. IF p.is_last THEN stream[r.query].ended /\ end >= all ELSE end < all
  BY <1>1, <1>4, <1>5, <1>6 DEF Least
<1>8. PageIsExact(p)
  BY <1>2, <1>3, <1>7 DEF PageIsExact, PageHolds, end, all
<1>9. QED
  BY <1>8 DEF p

\* Unless its buffer overflowed, every page of a query holds exactly its rows.
THEOREM Exact == Spec => []ExactPages
<1>1. ASSUME TypeInv, HandleInv, PageInv, NEW t \in Tasks,
             reply[t].kind = "page", ~Overflowed(handles[reply[t].query])
      PROVE  PageIsExact(reply[t])
  <2> DEFINE r == reply[t]
  <2>1. r \in PageReply
    BY <1>1 DEF TypeInv, TypeOK, NoReply, ErrorReply
  <2>2. r.query \in QueryIds /\ r.index \in Nat /\ r.size \in Nat
    BY <2>1 DEF PageReply
  <2>3. /\ ReadComplete(handles[r.query], ReadTarget(r.index, r.size))
        /\ r = Page(handles[r.query], r)
    BY <1>1 DEF PageInv
  <2> HIDE DEF r
  <2>4. PageIsExact(Page(handles[r.query], r))
    BY <1>1, <2>2, <2>3, CutPageExact DEF r
  <2>5. QED
    BY <2>3, <2>4 DEF r
<1>2. TypeInv /\ HandleInv /\ PageInv => ExactPages
  BY <1>1 DEF ExactPages
<1>3. QED
  BY <1>2, PageAlways, PTL

\* Two answers to the same page request agree, overflow or not.
THEOREM Repeatable == Spec => []RepeatablePages
<1>1. PageInv => RepeatablePages
  BY DEF PageInv, RepeatablePages, Page
<1>2. QED
  BY <1>1, PageAlways, PTL

-----------------------------------------------------------------------------
(* Ids and sessions.                                                       *)

\* An id is planned by one task at most.  It has been given out then, and
\* nobody has its session or serves it yet.
PlanInv ==
  /\ \A t \in Tasks : pc[t] = "plan" => req[t].query < nextId
  /\ \A t, u \in Tasks :
       pc[t] = "plan" /\ pc[u] = "plan" /\ req[t].query = req[u].query => t = u
  /\ \A q \in QueryIds : sessions[q] # NoSession => ~Unplanned(q)
  /\ \A t \in Tasks : pc[t] \in {"wait", "read"} => ~Unplanned(req[t].query)

\* A step of one task that does not start to plan makes no id unplanned.
LEMMA StaysPlanned ==
  ASSUME TypeInv, NEW t \in Tasks, NEW p, NEW r, NEW q \in QueryIds,
         pc' = [pc EXCEPT ![t] = p], req' = [req EXCEPT ![t] = r],
         p # "plan", nextId' = nextId, ~Unplanned(q)
  PROVE  ~Unplanned(q)'
BY DEF Unplanned, TypeInv, TypeOK

\* A step of one task that does not start to plan, and that waits for a handle
\* only if its query has been planned, keeps the invariant.
LEMMA MoveKeepsPlan ==
  ASSUME TypeInv, PlanInv, NEW t \in Tasks, NEW p, NEW r \in Request,
         pc' = [pc EXCEPT ![t] = p], req' = [req EXCEPT ![t] = r],
         p # "plan", p \in {"wait", "read"} => r.query \in QueryIds /\ ~Unplanned(r.query),
         nextId' = nextId,
         \A q \in QueryIds : sessions'[q] # NoSession => sessions[q] # NoSession
  PROVE  PlanInv'
<1>1. \A u \in Tasks : pc'[u] = "plan" => pc[u] = "plan" /\ req'[u] = req[u]
  BY DEF TypeInv, TypeOK
<1>2. \A u \in Tasks : pc'[u] = "plan" => req'[u].query < nextId'
  BY <1>1 DEF PlanInv
<1>3. \A u, v \in Tasks :
        pc'[u] = "plan" /\ pc'[v] = "plan" /\ req'[u].query = req'[v].query => u = v
  BY <1>1 DEF PlanInv
<1>4. \A q \in QueryIds : sessions'[q] # NoSession => ~Unplanned(q)'
  BY StaysPlanned DEF PlanInv
<1>5. ASSUME NEW u \in Tasks, pc'[u] \in {"wait", "read"}
      PROVE  ~Unplanned(req[u].query)'
  <2>1. req'[u].query \in QueryIds /\ ~Unplanned(req'[u].query)
    BY <1>5 DEF PlanInv, TypeInv, TypeOK, RequestInv
  <2>2. ASSUME NEW q \in QueryIds, ~Unplanned(q) PROVE ~Unplanned(q)'
    BY <2>2, StaysPlanned
  <2>3. PICK q \in QueryIds : q = req'[u].query
    BY <2>1
  <2>4. ~Unplanned(q)'
    BY <2>1, <2>2, <2>3
  <2>5. QED
    BY <2>3, <2>4 DEF Unplanned
<1>6. QED
  BY <1>2, <1>3, <1>4, <1>5 DEF PlanInv

\* A response leaves the task idle.
LEMMA RespondKeepsPlan ==
  ASSUME TypeInv, PlanInv, NEW t \in Tasks, NEW r, Respond(t, r),
         nextId' = nextId,
         \A q \in QueryIds : sessions'[q] # NoSession => sessions[q] # NoSession
  PROVE  PlanInv'
BY MoveKeepsPlan, NoRequestType DEF Respond

\* Nor does a step without any task matter that opens no session.
LEMMA IdleKeepsPlan ==
  ASSUME TypeInv, PlanInv, UNCHANGED <<pc, req, nextId>>,
         \A q \in QueryIds : sessions'[q] # NoSession => sessions[q] # NoSession
  PROVE  PlanInv'
BY DEF PlanInv, Unplanned

\* Planning starts under a new id, and a session is opened by the one task
\* that has planned it.
LEMMA PlanStep == TypeInv /\ PlanInv /\ [Next]_vars => PlanInv'
<1> SUFFICES ASSUME TypeInv, PlanInv, [Next]_vars PROVE PlanInv'
  OBVIOUS
<1>1. ASSUME NEW t \in Tasks, Client(t) PROVE PlanInv'
  <2>1. UNCHANGED <<nextId, sessions>>
    BY <1>1 DEF Client, QueryStart, PageRejected, QueryPage
  <2>2. CASE \E r : Respond(t, r)
    BY <2>1, <2>2, RespondKeepsPlan
  <2>3. ASSUME NEW p \in {"ensure", "find"}, NEW r, Accept(t, p, r)
        PROVE  PlanInv'
    <3>1. r \in Request
      <4>1. req' \in [Tasks -> Request]
        BY TypeStep DEF TypeInv, TypeOK
      <4>2. QED
        BY <2>3, <4>1 DEF Accept, TypeInv, TypeOK
    <3>2. QED
      BY <2>1, <2>3, <3>1, MoveKeepsPlan DEF Accept
  <2>4. QED
    BY <1>1, <2>2, <2>3 DEF Client, QueryStart, PageRejected, QueryPage
<1>2. ASSUME NEW t \in Tasks,
             \/ EnsureFails(t) \/ StartRejected(t) \/ PlanFails(t)
             \/ PageNotFound(t) \/ PageReturned(t)
      PROVE  PlanInv'
  <2>1. /\ \E r : Respond(t, r)
        /\ UNCHANGED <<nextId, sessions>>
    BY <1>2 DEF EnsureFails, StartRejected, PlanFails, PageNotFound, PageReturned
  <2>2. QED
    BY <2>1, RespondKeepsPlan
<1>3. ASSUME NEW t \in Tasks, NEW code, Fail(t, code) PROVE PlanInv'
  <2>1. Respond(t, Error(code)) /\ UNCHANGED nextId
    BY <1>3 DEF Fail
  <2>2. \A q \in QueryIds : sessions'[q] # NoSession => sessions[q] # NoSession
    BY <1>3 DEF Fail, TypeInv, TypeOK
  <2>3. QED
    BY <2>1, <2>2, RespondKeepsPlan
<1>4. ASSUME NEW t \in Tasks,
             \/ LockRefused(t) \/ PollError(t) \/ ReadCancelled(t)
             \/ ReadTimesOut(t) \/ EncodingFails(t)
      PROVE  PlanInv'
  BY <1>3, <1>4 DEF LockRefused, PollError, ReadCancelled, ReadTimesOut,
                    EncodingFails
<1>5. ASSUME NEW t \in Tasks, PollBatch(t) \/ PollEnd(t) PROVE PlanInv'
  BY <1>3, <1>5, IdleKeepsPlan DEF PollBatch, PollEnd, taskVars
<1>6. ASSUME NEW t \in Tasks, LockTaken(t) PROVE PlanInv'
  <2>1. /\ pc[t] = "wait" /\ pc' = [pc EXCEPT ![t] = "read"]
        /\ req' = [req EXCEPT ![t] = req[t]]
        /\ UNCHANGED <<nextId, sessions>>
    BY <1>6 DEF LockTaken, TypeInv, TypeOK
  <2>2. /\ req[t] \in Request /\ req[t].query \in QueryIds
        /\ ~Unplanned(req[t].query)
    BY <2>1 DEF TypeInv, TypeOK, RequestInv, PlanInv
  <2>3. QED
    BY <2>1, <2>2, MoveKeepsPlan
<1>7. ASSUME NEW t \in Tasks, PageFound(t) PROVE PlanInv'
  <2> DEFINE r == Resolved(req[t], sessions[req[t].query])
  <2>1. /\ pc[t] = "find" /\ pc' = [pc EXCEPT ![t] = "wait"]
        /\ req' = [req EXCEPT ![t] = r]
        /\ sessions[req[t].query] # NoSession
        /\ UNCHANGED <<nextId, sessions>>
    BY <1>7 DEF PageFound
  <2>2. req[t].query \in QueryIds /\ ~Unplanned(req[t].query)
    BY <2>1 DEF TypeInv, TypeOK, RequestInv, PlanInv
  <2>3. r.query = req[t].query
    BY DEF Resolved
  <2>4. r \in Request
    <3>1. req' \in [Tasks -> Request]
      BY TypeStep DEF TypeInv, TypeOK
    <3>2. QED
      BY <2>1, <3>1 DEF TypeInv, TypeOK
  <2> HIDE DEF r
  <2>5. QED
    BY <2>1, <2>2, <2>3, <2>4, MoveKeepsPlan
<1>8. ASSUME NEW t \in Tasks, StartAdmitted(t) PROVE PlanInv'
  <2>1. /\ pc[t] = "ensure" /\ pc' = [pc EXCEPT ![t] = "plan"]
        /\ req' = [req EXCEPT ![t].query = nextId]
        /\ nextId \in QueryIds /\ nextId' = nextId + 1
        /\ UNCHANGED sessions
    BY <1>8, RequestAssumption DEF StartAdmitted, TypeInv, TypeOK, QueryIds
  <2>2. nextId \in Nat /\ req'[t].query = nextId
        /\ pc'[t] = "plan"
        /\ \A u \in Tasks \ {t} : pc'[u] = pc[u] /\ req'[u] = req[u]
    BY <2>1 DEF TypeInv, TypeOK, Request, QueryIds
  <2>3. \A u \in Tasks : pc[u] = "plan" => req[u].query < nextId /\ req[u].query \in Nat
    BY DEF PlanInv, TypeInv, TypeOK, RequestInv, QueryIds
  <2>4. \A u \in Tasks : pc'[u] = "plan" => req'[u].query < nextId'
    BY <2>1, <2>2, <2>3
  <2>5. \A u, v \in Tasks :
          pc'[u] = "plan" /\ pc'[v] = "plan" /\ req'[u].query = req'[v].query => u = v
    BY <2>2, <2>3 DEF PlanInv
  <2>6. ASSUME NEW q \in QueryIds, ~Unplanned(q) PROVE ~Unplanned(q)'
    <3>1. q < nextId /\ q \in Nat
      BY <2>2, <2>6 DEF Unplanned, QueryIds
    <3>2. \A u \in Tasks : pc[u] = "plan" => req[u].query # q
      BY <2>6 DEF Unplanned
    <3>3. ~(q >= nextId')
      BY <2>1, <2>2, <3>1
    <3>4. \A u \in Tasks : pc'[u] = "plan" => req'[u].query # q
      BY <2>2, <3>1, <3>2
    <3>5. QED
      BY <3>3, <3>4 DEF Unplanned
  <2>7. \A q \in QueryIds : sessions'[q] # NoSession => ~Unplanned(q)'
    BY <2>1, <2>6 DEF PlanInv
  <2>8. ASSUME NEW u \in Tasks, pc'[u] \in {"wait", "read"}
        PROVE  ~Unplanned(req[u].query)'
    <3>1. u # t /\ pc'[u] = pc[u] /\ req'[u] = req[u]
      BY <2>2, <2>8
    <3>2. PICK q \in QueryIds : q = req'[u].query /\ ~Unplanned(q)
      BY <2>8, <3>1 DEF PlanInv, TypeInv, TypeOK, RequestInv
    <3>3. ~Unplanned(q)'
      BY <2>6, <3>2
    <3>4. QED
      BY <3>2, <3>3 DEF Unplanned
  <2>9. QED
    BY <2>4, <2>5, <2>7, <2>8 DEF PlanInv
<1>9. ASSUME NEW t \in Tasks, PlanSucceeds(t) PROVE PlanInv'
  <2>1. /\ pc[t] = "plan" /\ pc' = [pc EXCEPT ![t] = "wait"]
        /\ sessions' = [sessions EXCEPT ![req[t].query] =
                          [size |-> req[t].size, format |-> req[t].format]]
        /\ UNCHANGED <<req, nextId>>
    BY <1>9 DEF PlanSucceeds
  <2>2. \A u \in Tasks : pc'[u] = "plan" => pc[u] = "plan" /\ u # t
    BY <2>1 DEF TypeInv, TypeOK
  <2>3. ASSUME NEW q, ~Unplanned(q) PROVE ~Unplanned(q)'
    BY <2>1, <2>2, <2>3 DEF Unplanned
  <2>4. ~Unplanned(req[t].query)'
    <3>1. req[t].query < nextId /\ req[t].query \in Nat /\ nextId \in Nat
      BY <2>1 DEF PlanInv, TypeInv, TypeOK, RequestInv, QueryIds
    <3>2. \A u \in Tasks : pc'[u] = "plan" => req'[u].query # req[t].query
      BY <2>1, <2>2 DEF PlanInv
    <3>3. QED
      BY <2>1, <3>1, <3>2 DEF Unplanned
  <2>5. \A q \in QueryIds : sessions'[q] # NoSession => ~Unplanned(q)'
    BY <2>1, <2>3, <2>4 DEF PlanInv, TypeInv, TypeOK
  <2>6. ASSUME NEW u \in Tasks, pc'[u] \in {"wait", "read"}
        PROVE  ~Unplanned(req[u].query)'
    BY <2>1, <2>3, <2>4, <2>6 DEF PlanInv, TypeInv, TypeOK
  <2>7. QED
    BY <2>1, <2>2, <2>5, <2>6 DEF PlanInv
<1>10. ASSUME NEW q \in QueryIds, QueryCancel(q) PROVE PlanInv'
  <2>1. /\ UNCHANGED <<pc, req, nextId>>
        /\ sessions' = [sessions EXCEPT ![q] = NoSession]
    BY <1>10 DEF QueryCancel, taskVars
  <2>2. QED
    BY <2>1, IdleKeepsPlan DEF TypeInv, TypeOK
<1>11. CASE UNCHANGED vars
  BY <1>11, IdleKeepsPlan DEF vars
<1>12. QED
  BY <1>1, <1>2, <1>4, <1>5, <1>6, <1>7, <1>8, <1>9, <1>10, <1>11 DEF Next, Step

\* A request that is under way has not been answered, and a query_start asks
\* for the first page.
UnderwayInv ==
  /\ \A t \in Tasks : pc[t] # "idle" => reply[t] = NoReply
  /\ \A t \in Tasks : pc[t] \in {"ensure", "plan"} => req[t].index = 0

\* A task is idle when it answers, and forgets the answer when it goes on.
LEMMA UnderwayStep == TypeInv /\ UnderwayInv /\ [Next]_vars => UnderwayInv'
<1> SUFFICES ASSUME TypeInv, UnderwayInv, [Next]_vars PROVE UnderwayInv'
  OBVIOUS
<1>1. ASSUME NEW t \in Tasks, NEW r, Respond(t, r) PROVE UnderwayInv'
  BY <1>1 DEF Respond, UnderwayInv, TypeInv, TypeOK
<1>2. ASSUME NEW t \in Tasks, NEW p, NEW r, Accept(t, p, r),
             p # "find" => r.index = 0
      PROVE  UnderwayInv'
  BY <1>2 DEF Accept, UnderwayInv, TypeInv, TypeOK
<1>3. ASSUME NEW t \in Tasks, NEW p, NEW r, pc[t] # "idle",
             pc' = [pc EXCEPT ![t] = p], req' = [req EXCEPT ![t] = r],
             p = "plan" => r.index = 0, p # "ensure", UNCHANGED reply
      PROVE  UnderwayInv'
  BY <1>3 DEF UnderwayInv, TypeInv, TypeOK
<1>4. CASE UNCHANGED <<pc, req, reply>>
  BY <1>4 DEF UnderwayInv
<1>5. ASSUME NEW t \in Tasks, Client(t) PROVE UnderwayInv'
  BY <1>1, <1>2, <1>5 DEF Client, QueryStart, PageRejected, QueryPage
<1>6. ASSUME NEW t \in Tasks, NEW code, Fail(t, code) PROVE UnderwayInv'
  BY <1>1, <1>6 DEF Fail
<1>7. ASSUME NEW t \in Tasks,
             \/ EnsureFails(t) \/ StartRejected(t) \/ PlanFails(t)
             \/ PageNotFound(t) \/ PageReturned(t)
      PROVE  UnderwayInv'
  BY <1>1, <1>7 DEF EnsureFails, StartRejected, PlanFails, PageNotFound,
                    PageReturned
<1>8. ASSUME NEW t \in Tasks, StartAdmitted(t) PROVE UnderwayInv'
  <2>1. /\ pc[t] = "ensure" /\ pc' = [pc EXCEPT ![t] = "plan"]
        /\ req' = [req EXCEPT ![t] = [req[t] EXCEPT !.query = nextId]]
        /\ UNCHANGED reply
    BY <1>8 DEF StartAdmitted
  <2>2. [req[t] EXCEPT !.query = nextId].index = 0
    <3>1. req[t] \in Request /\ req[t].index = 0
      BY <2>1 DEF UnderwayInv, TypeInv, TypeOK
    <3>2. QED
      BY <3>1 DEF Request
  <2>3. QED
    BY <1>3, <2>1, <2>2
<1>9. ASSUME NEW t \in Tasks, PlanSucceeds(t) \/ LockTaken(t)
      PROVE  UnderwayInv'
  <2>1. /\ pc[t] # "idle" /\ req' = [req EXCEPT ![t] = req[t]]
        /\ \E p \in {"wait", "read"} : pc' = [pc EXCEPT ![t] = p]
        /\ UNCHANGED reply
    BY <1>9 DEF PlanSucceeds, LockTaken, TypeInv, TypeOK
  <2>2. QED
    BY <1>3, <2>1
<1>10. ASSUME NEW t \in Tasks, PageFound(t) PROVE UnderwayInv'
  BY <1>3, <1>10 DEF PageFound
<1>11. ASSUME NEW t \in Tasks,
              \/ LockRefused(t) \/ PollBatch(t) \/ PollError(t) \/ PollEnd(t)
              \/ ReadCancelled(t) \/ ReadTimesOut(t) \/ EncodingFails(t)
       PROVE  UnderwayInv'
  BY <1>4, <1>6, <1>11 DEF LockRefused, PollBatch, PollError, PollEnd,
                ReadCancelled, ReadTimesOut, EncodingFails, taskVars
<1>12. ASSUME NEW q \in QueryIds, QueryCancel(q) PROVE UnderwayInv'
  BY <1>4, <1>12 DEF QueryCancel, taskVars
<1>13. QED
  BY <1>4, <1>5, <1>7, <1>8, <1>9, <1>10, <1>11, <1>12 DEF Next, Step, vars

\* The invariants the simulation rests on.
PromiseInv == TypeInv /\ HandleInv /\ PlanInv /\ UnderwayInv

\* They hold of every behaviour of the service.
LEMMA PromiseAlways == Spec => []PromiseInv
<1>1. Init => PlanInv /\ UnderwayInv
  BY DEF Init, PlanInv, UnderwayInv, Unplanned, QueryIds
<1>2. TypeInv /\ PlanInv /\ UnderwayInv /\ [Next]_vars => (PlanInv /\ UnderwayInv)'
  BY PlanStep, UnderwayStep
<1>3. QED
  BY <1>1, <1>2, TypeAlways, HandleCorrect, PTL DEF Spec, PromiseInv

-----------------------------------------------------------------------------
(* What the parts of the abstract state are, and how they change.          *)

\* A request that is served is not nothing.
LEMMA RequestIsSome ==
  ASSUME NEW q, NEW i, NEW n
  PROVE  [query |-> q, index |-> i, size |-> n] # NoReply
<1>1. "query" \in DOMAIN [query |-> q, index |-> i, size |-> n]
  OBVIOUS
<1>2. "query" \notin DOMAIN NoReply
  BY DEF NoReply
<1>3. QED
  BY <1>1, <1>2

\* A step of one task changes what that task serves, and no more.
LEMMA ServingMove ==
  ASSUME TypeInv, NEW t \in Tasks, NEW p, NEW r,
         pc' = [pc EXCEPT ![t] = p], req' = [req EXCEPT ![t] = r]
  PROVE  Serving' = [Serving EXCEPT ![t] = Served(t)']
BY DEF Serving, Served, TypeInv, TypeOK

\* A task that is not reading before or after a step serves nothing.
LEMMA ServingKept ==
  ASSUME TypeInv, NEW t \in Tasks, NEW p, NEW r,
         pc' = [pc EXCEPT ![t] = p], req' = [req EXCEPT ![t] = r],
         pc[t] \notin {"wait", "read"}, p \notin {"wait", "read"}
  PROVE  Serving' = Serving
BY DEF Serving, Served, TypeInv, TypeOK

\* An answer that is not a page is no page.
LEMMA AnsweredMove ==
  ASSUME TypeInv, NEW t \in Tasks, NEW r, reply' = [reply EXCEPT ![t] = r]
  PROVE  Answered' = [Answered EXCEPT
                        ![t] = IF r.kind = "page" THEN r ELSE NoReply]
BY DEF Answered, PageOf, TypeInv, TypeOK

\* A session keeps its state if it stays in the table, or out of it, and is
\* planned as it was.
LEMMA SessionsKept ==
  ASSUME UNCHANGED sessions,
         \A q \in QueryIds :
           sessions[q] = NoSession => (Unplanned(q)' <=> Unplanned(q))
  PROVE  SessionStates' = SessionStates
BY DEF SessionStates, SessionState

\* A step of a task that neither plans nor begins to plan keeps the plans.
LEMMA UnplannedKept ==
  ASSUME TypeInv, NEW t \in Tasks, NEW p, NEW r, NEW q \in QueryIds,
         pc' = [pc EXCEPT ![t] = p], req' = [req EXCEPT ![t] = r],
         pc[t] # "plan", p # "plan", nextId' = nextId
  PROVE  Unplanned(q)' <=> Unplanned(q)
BY DEF Unplanned, TypeInv, TypeOK

\* The results are those of the handles and the streams.
LEMMA ResultsKept ==
  ASSUME UNCHANGED <<handles, stream>>
  PROVE  Results' = Results
BY DEF Results, Known

-----------------------------------------------------------------------------
(* Every step of the service is a step of the promise, or none.            *)

\* A task at rest, or not yet serving, that goes on or gives up.
LEMMA AsideStep ==
  ASSUME TypeInv, NEW t \in Tasks, NEW p, NEW r, NEW a,
         pc' = [pc EXCEPT ![t] = p], req' = [req EXCEPT ![t] = r],
         reply' = [reply EXCEPT ![t] = a], a.kind # "page",
         pc[t] \in {"idle", "ensure", "find"},
         p \in {"idle", "ensure", "find"},
         UNCHANGED <<nextId, sessions, handles, stream>>
  PROVE  Promise!Forget(t)
<1>1. Serving' = Serving /\ Serving[t] = NoReply
  BY ServingKept DEF Serving, Served
<1>2. SessionStates' = SessionStates
  BY SessionsKept, UnplannedKept
<1>3. Answered' = [Answered EXCEPT ![t] = NoReply]
  BY AnsweredMove
<1>4. QED
  BY <1>1, <1>2, <1>3, ResultsKept DEF Promise!Forget

\* A client's request, and one that ends before it is served.
LEMMA ForgetStep ==
  ASSUME TypeInv, NEW t \in Tasks,
         \/ Client(t) \/ EnsureFails(t) \/ StartRejected(t) \/ PageNotFound(t)
  PROVE  Promise!Forget(t)
<1>1. /\ UNCHANGED <<nextId, sessions, handles, stream>>
      /\ pc[t] \in {"idle", "ensure", "find"}
  BY DEF Client, QueryStart, PageRejected, QueryPage, EnsureFails,
         StartRejected, PageNotFound, queryVars
<1>2. ASSUME NEW code, Respond(t, Error(code)) PROVE Promise!Forget(t)
  <2>1. Error(code).kind # "page"
    BY DEF Error
  <2>2. QED
    BY <1>1, <1>2, <2>1, AsideStep DEF Respond
<1>3. ASSUME NEW p \in {"ensure", "find"}, NEW r, Accept(t, p, r)
      PROVE  Promise!Forget(t)
  <2>1. NoReply.kind # "page"
    BY DEF NoReply
  <2>2. QED
    BY <1>1, <1>3, <2>1, AsideStep DEF Accept
<1>4. QED
  BY <1>2, <1>3 DEF Client, QueryStart, PageRejected, QueryPage, EnsureFails,
                    StartRejected, PageNotFound

\* Taking a permit and an id opens nothing yet.
LEMMA AdmittedStep ==
  ASSUME PromiseInv, NEW t \in Tasks, StartAdmitted(t)
  PROVE  UNCHANGED <<SessionStates, Serving, Results, Answered>>
<1>1. /\ pc[t] = "ensure" /\ pc' = [pc EXCEPT ![t] = "plan"]
      /\ req' = [req EXCEPT ![t] = [req[t] EXCEPT !.query = nextId]]
      /\ nextId' = nextId + 1 /\ nextId \in QueryIds /\ nextId \in Nat
      /\ UNCHANGED <<reply, sessions, handles, stream>>
  BY RequestAssumption
  DEF StartAdmitted, PromiseInv, TypeInv, TypeOK, QueryIds, queryVars
<1>2. req'[t].query = nextId
  <2>1. req[t] \in Request /\ req'[t] = [req[t] EXCEPT !.query = nextId]
    BY <1>1 DEF PromiseInv, TypeInv, TypeOK
  <2>2. QED
    BY <2>1 DEF Request
<1>3. /\ pc'[t] = "plan"
      /\ \A u \in Tasks \ {t} : pc'[u] = pc[u] /\ req'[u] = req[u]
  BY <1>1 DEF PromiseInv, TypeInv, TypeOK
<1>4. ASSUME NEW q \in QueryIds PROVE Unplanned(q)' <=> Unplanned(q)
  <2>1. q \in Nat
    BY DEF QueryIds
  <2>2. CASE q = nextId
    BY <1>1, <1>2, <1>3, <2>1, <2>2 DEF Unplanned
  <2>3. CASE q # nextId
    <3>1. q >= nextId' <=> q >= nextId
      BY <1>1, <2>1, <2>3
    <3>2. \A u \in Tasks : (pc'[u] = "plan" /\ req'[u].query = q)
                             <=> (pc[u] = "plan" /\ req[u].query = q)
      BY <1>1, <1>2, <1>3, <2>3
    <3>3. QED
      BY <3>1, <3>2 DEF Unplanned
  <2>4. QED
    BY <2>2, <2>3
<1>5. SessionStates' = SessionStates
  BY <1>1, <1>4, SessionsKept
<1>6. Serving' = Serving
  BY <1>1, ServingKept, ZenonT(60) DEF PromiseInv
<1>7. Answered' = Answered
  BY <1>1 DEF Answered, PageOf
<1>8. QED
  BY <1>1, <1>5, <1>6, <1>7, ResultsKept

\* How the plans change when a task ends its planning: its query is planned,
\* and the others are as they were.
LEMMA PlannedNow ==
  ASSUME PromiseInv, NEW t \in Tasks, NEW p, NEW r, pc[t] = "plan", p # "plan",
         pc' = [pc EXCEPT ![t] = p], req' = [req EXCEPT ![t] = r],
         UNCHANGED nextId, NEW q, q = req[t].query
  PROVE  /\ q \in QueryIds
         /\ sessions[q] = NoSession
         /\ Unplanned(q) /\ ~Unplanned(q)'
         /\ \A o \in QueryIds \ {q} : Unplanned(o)' <=> Unplanned(o)
<1>1. q \in QueryIds /\ q \in Nat /\ nextId \in Nat /\ q < nextId
  BY DEF PromiseInv, PlanInv, TypeInv, TypeOK, RequestInv, QueryIds
<1>2. Unplanned(q)
  BY DEF Unplanned
<1>3. sessions[q] = NoSession
  BY <1>1, <1>2 DEF PromiseInv, PlanInv
<1>4. /\ pc'[t] # "plan"
      /\ \A u \in Tasks \ {t} : pc'[u] = pc[u] /\ req'[u] = req[u]
  BY DEF PromiseInv, TypeInv, TypeOK
<1>5. ~Unplanned(q)'
  <2>1. \A u \in Tasks : ~(pc'[u] = "plan" /\ req'[u].query = q)
    BY <1>4 DEF PromiseInv, PlanInv
  <2>2. QED
    BY <1>1, <2>1 DEF Unplanned
<1>6. ASSUME NEW o \in QueryIds \ {q} PROVE Unplanned(o)' <=> Unplanned(o)
  BY <1>4, <1>6 DEF Unplanned
<1>7. QED
  BY <1>1, <1>2, <1>3, <1>5, <1>6

\* A query that cannot be planned is closed before it was open.
LEMMA PlanFailsStep ==
  ASSUME PromiseInv, NEW t \in Tasks, PlanFails(t)
  PROVE  Promise!Close(req[t].query)
<1> PICK q : q = req[t].query
  OBVIOUS
<1>1. /\ pc[t] = "plan" /\ pc' = [pc EXCEPT ![t] = "idle"]
      /\ req' = [req EXCEPT ![t] = NoRequest]
      /\ UNCHANGED <<nextId, sessions, handles, stream>>
  BY DEF PlanFails, Respond, queryVars
<1>2. \E code : reply' = [reply EXCEPT ![t] = Error(code)]
  BY DEF PlanFails, Respond
<1>3. /\ q \in QueryIds /\ sessions[q] = NoSession
      /\ SessionState(q) = "unused" /\ SessionState(q)' = "closed"
      /\ \A o \in QueryIds \ {q} : SessionState(o)' = SessionState(o)
  <2>1. /\ q \in QueryIds /\ sessions[q] = NoSession
        /\ Unplanned(q) /\ ~Unplanned(q)'
        /\ \A o \in QueryIds \ {q} : Unplanned(o)' <=> Unplanned(o)
    BY <1>1, PlannedNow
  <2>2. UNCHANGED sessions
    BY <1>1
  <2>3. QED
    BY <2>1, <2>2 DEF SessionState
<1>4. Serving' = Serving
  <2>1. /\ TypeInv /\ pc[t] \notin {"wait", "read"}
        /\ pc' = [pc EXCEPT ![t] = "idle"] /\ req' = [req EXCEPT ![t] = NoRequest]
    BY <1>1 DEF PromiseInv
  <2>2. QED
    BY <2>1 DEF Serving, Served, TypeInv, TypeOK
<1>5. Answered' = Answered
  <2>1. reply[t] = NoReply
    BY <1>1 DEF PromiseInv, UnderwayInv
  <2>2. Answered[t] = NoReply
    BY <2>1 DEF Answered, PageOf, NoReply
  <2>3. Answered' = [Answered EXCEPT ![t] = NoReply]
    BY <1>2, AnsweredMove DEF PromiseInv, Error
  <2>4. QED
    BY <2>2, <2>3 DEF Answered
<1>6. /\ SessionStates[q] # "closed"
      /\ SessionStates' = [SessionStates EXCEPT ![q] = "closed"]
  BY <1>3 DEF SessionStates
<1>7. QED
  BY <1>1, <1>3, <1>4, <1>5, <1>6, ResultsKept DEF Promise!Close

\* A query that is planned is opened, and its first page is served.
LEMMA PlanSucceedsStep ==
  ASSUME PromiseInv, NEW t \in Tasks, PlanSucceeds(t)
  PROVE  Promise!Open(t, req[t].query)
<1> DEFINE q == req[t].query
<1>1. /\ pc[t] = "plan" /\ pc' = [pc EXCEPT ![t] = "wait"]
      /\ sessions' = [sessions EXCEPT ![q] =
                        [size |-> req[t].size, format |-> req[t].format]]
      /\ UNCHANGED <<req, nextId, handles, stream, reply>>
      /\ req' = [req EXCEPT ![t] = req[t]]
  BY DEF PlanSucceeds, queryVars, PromiseInv, TypeInv, TypeOK
<1>2. sessions'[q] # NoSession /\ q \in QueryIds
  <2>1. [size |-> req[t].size, format |-> req[t].format] \in Session
    BY <1>1 DEF PromiseInv, TypeInv, TypeOK, RequestInv, Request, Session
  <2>2. QED
    BY <1>1, <2>1, NoSessionAssumption
    DEF PromiseInv, TypeInv, TypeOK, RequestInv
<1>3. /\ SessionState(q) = "unused"
      /\ \A o \in QueryIds \ {q} : SessionState(o)' = SessionState(o)
  BY <1>1, PlannedNow DEF SessionState, PromiseInv, TypeInv, TypeOK
<1>4. SessionState(q)' = "open"
  BY <1>1, <1>2 DEF SessionState
<1>5. /\ SessionStates[q] = "unused"
      /\ SessionStates' = [SessionStates EXCEPT ![q] = "open"]
  BY <1>1, <1>2, <1>3, <1>4 DEF SessionStates
<1>6. Promise!Serve(t, q) /\ Serving'[t].index = 0
  <2>1. /\ Serving[t] = NoReply
        /\ Serving' = [Serving EXCEPT ![t] = Served(t)']
    BY <1>1, ServingMove DEF PromiseInv, Serving, Served
  <2>2. pc'[t] = "wait" /\ req[t].index = 0
    BY <1>1 DEF PromiseInv, TypeInv, TypeOK, UnderwayInv
  <2>3. Served(t)' = [query |-> q, index |-> 0, size |-> req[t].size]
    BY <1>1, <2>2 DEF Served
  <2>4. Serving'[t] = Served(t)'
    BY DEF Serving
  <2>5. Serving'[t] # NoReply
    BY <2>3, <2>4, RequestIsSome
  <2>6. Serving'[t].query = q /\ Serving'[t].index = 0
    BY <2>3, <2>4
  <2>7. Serving' = [Serving EXCEPT ![t] = Serving'[t]]
    BY <2>1, <2>4
  <2>8. QED
    BY <2>1, <2>5, <2>6, <2>7 DEF Promise!Serve
<1>7. Answered' = Answered
  BY <1>1 DEF Answered, PageOf
<1>8. QED
  BY <1>1, <1>5, <1>6, <1>7, ResultsKept DEF Promise!Open

\* A request that finds its session is served.
LEMMA PageFoundStep ==
  ASSUME PromiseInv, NEW t \in Tasks, PageFound(t)
  PROVE  Promise!Request(t, req[t].query)
<1> DEFINE q == req[t].query
<1>1. /\ pc[t] = "find" /\ pc' = [pc EXCEPT ![t] = "wait"]
      /\ req' = [req EXCEPT ![t] = Resolved(req[t], sessions[q])]
      /\ sessions[q] # NoSession /\ q \in QueryIds
      /\ UNCHANGED <<nextId, sessions, handles, stream, reply>>
  BY DEF PageFound, queryVars, PromiseInv, TypeInv, TypeOK, RequestInv
<1>2. SessionStates' = SessionStates
  BY <1>1, SessionsKept, UnplannedKept DEF PromiseInv
<1>3. SessionStates[q] = "open"
  BY <1>1 DEF SessionStates, SessionState
<1>4. Promise!Serve(t, q)
  <2>1. /\ Serving[t] = NoReply
        /\ Serving' = [Serving EXCEPT ![t] = Served(t)']
    BY <1>1, ServingMove DEF PromiseInv, Serving, Served
  <2>2. pc'[t] = "wait" /\ req'[t] = Resolved(req[t], sessions[q])
    BY <1>1 DEF PromiseInv, TypeInv, TypeOK
  <2>3. req'[t].query = q
    BY <2>2 DEF Resolved
  <2>4. /\ Serving'[t] = [query |-> q, index |-> req'[t].index, size |-> req'[t].size]
    BY <2>2, <2>3 DEF Serving, Served
  <2>5. Serving'[t] # NoReply
    BY <2>4, RequestIsSome
  <2>6. QED
    BY <2>1, <2>4, <2>5 DEF Promise!Serve, Serving
<1>5. Answered' = Answered
  BY <1>1 DEF Answered, PageOf
<1>6. QED
  BY <1>1, <1>2, <1>3, <1>4, <1>5, ResultsKept DEF Promise!Request

\* The request a task serves, and the query it is for.
LEMMA ServedQuery ==
  ASSUME TypeInv, NEW t \in Tasks, pc[t] \in {"wait", "read"}
  PROVE  /\ Serving[t] = [query |-> req[t].query, index |-> req[t].index,
                          size |-> req[t].size]
         /\ Serving[t] # NoReply
         /\ Serving[t].query = req[t].query
         /\ req[t].query \in QueryIds
<1>1. Serving[t] = [query |-> req[t].query, index |-> req[t].index,
                    size |-> req[t].size]
  BY DEF Serving, Served
<1>2. req[t].query \in QueryIds
  BY DEF TypeInv, TypeOK, RequestInv
<1>3. QED
  BY <1>1, <1>2, RequestIsSome

\* A request that fails is refused, whatever it pulled before.
LEMMA RefuseStep ==
  ASSUME PromiseInv, NEW t \in Tasks, pc[t] \in {"wait", "read"},
         NEW code, Fail(t, code), NEW q, q = req[t].query,
         \/ UNCHANGED Results
         \/ Promise!Grow(q) /\ ~Results'[q].intact
  PROVE  Promise!Refuse(t)
<1>1. /\ pc' = [pc EXCEPT ![t] = "idle"]
      /\ req' = [req EXCEPT ![t] = NoRequest]
      /\ reply' = [reply EXCEPT ![t] = Error(code)]
      /\ UNCHANGED nextId
  BY DEF Fail, Respond
<1>2. Serving[t] # NoReply /\ Serving[t].query = q /\ q \in QueryIds
  BY ServedQuery DEF PromiseInv
<1>3. Serving' = [Serving EXCEPT ![t] = NoReply]
  BY <1>1 DEF PromiseInv, TypeInv, TypeOK, Serving, Served
<1>4. Answered' = [Answered EXCEPT ![t] = NoReply]
  <2>1. Error(code).kind # "page"
    BY DEF Error
  <2>2. Answered' = [Answered EXCEPT
                       ![t] = IF Error(code).kind = "page" THEN Error(code)
                              ELSE NoReply]
    BY <1>1, AnsweredMove DEF PromiseInv
  <2>3. QED
    BY <2>1, <2>2
<1>5. \A o \in QueryIds : Unplanned(o)' <=> Unplanned(o)
  BY <1>1, UnplannedKept DEF PromiseInv
<1>6. CASE req[t].method # "start"
  <2>1. UNCHANGED sessions
    BY <1>6 DEF Fail
  <2>2. SessionStates' = SessionStates
    BY <1>5, <2>1, SessionsKept
  <2>3. QED
    BY <1>2, <1>3, <1>4, <2>2 DEF Promise!Refuse
<1>7. CASE req[t].method = "start"
  <2>1. sessions' = [sessions EXCEPT ![q] = NoSession]
    BY <1>7 DEF Fail
  <2>2. ~Unplanned(q)
    BY <1>2 DEF PromiseInv, PlanInv
  <2>3. /\ SessionState(q)' = "closed"
        /\ \A o \in QueryIds \ {q} : SessionState(o)' = SessionState(o)
    BY <1>2, <1>5, <2>1, <2>2 DEF SessionState, PromiseInv, TypeInv, TypeOK
  <2>4. SessionStates' = [SessionStates EXCEPT ![q] = "closed"]
    BY <1>2, <2>3 DEF SessionStates
  <2>5. QED
    BY <1>2, <1>3, <1>4, <2>4 DEF Promise!Refuse
<1>8. QED
  BY <1>6, <1>7

\* What becomes of the known results when one handle and its stream change.
LEMMA ResultsMove ==
  ASSUME TypeInv, NEW q \in QueryIds, NEW h, NEW s,
         handles' = [handles EXCEPT ![q] = h], stream' = [stream EXCEPT ![q] = s]
  PROVE  /\ Results' = [Results EXCEPT ![q] = Results'[q]]
         /\ Results'[q] = [rows |-> s.yielded, ended |-> s.ended,
                           intact |-> ~Overflowed(h)]
BY DEF Results, Known, TypeInv, TypeOK

\* Of a known result, whether it is intact.
LEMMA IntactField ==
  ASSUME NEW r, NEW a, NEW b, NEW h,
         r = [rows |-> a, ended |-> b, intact |-> ~Overflowed(h)]
  PROVE  r.intact <=> ~Overflowed(h)
BY Zenon

\* A handle that a batch was refused by stays so, and becomes so by refusing.
LEMMA OverflowKept ==
  ASSUME NEW h \in Handle, NEW rows \in Seq(Nat), NEW bytes \in Nat,
         WellBuffered(h), Overflowed(h) \/ PushFails(h, rows, bytes)
  PROVE  Overflowed(PushBatch(h, rows, bytes))
<1> DEFINE p == PushBatch(h, rows, bytes)
<1>1. /\ p.buffered_rows = h.buffered_rows + Len(rows)
      /\ Len(h.rows) <= h.buffered_rows
      /\ Len(rows) \in Nat /\ Len(h.rows) \in Nat /\ h.buffered_rows \in Nat
      /\ rows = << >> <=> Len(rows) = 0
  BY PushBatchCounts, HandleFields, Appended DEF WellBuffered
<1>2. CASE rows = << >> /\ p = h
  BY <1>2 DEF PushFails
<1>3. CASE rows # << >> /\ p.rows = h.rows
  BY <1>1, <1>3 DEF Overflowed
<1>4. CASE p.rows = h.rows \o rows /\ ~OverBudget(h) /\ rows # << >>
           /\ p.buffered_rows <= MaxBufferedRows
           /\ p.buffered_bytes <= MaxBufferedBytes
  <2>1. ~Overflowed(h)
    BY <1>4 DEF WellBuffered
  <2>2. PushFails(h, rows, bytes)
    BY <2>1
  <2>3. p = Counted(h, h.rows, rows, bytes)
    BY <1>4, <2>2 DEF PushBatch
  <2>4. p.rows = h.rows
    BY <2>3 DEF Counted
  <2>5. QED
    BY <1>3, <1>4, <2>4
<1>5. QED
  BY <1>2, <1>3, <1>4, PushBatchCases

\* A batch continues the result, and a refused one spoils it.
LEMMA BatchStep ==
  ASSUME PromiseInv, NEW t \in Tasks, PollBatch(t)
  PROVE  Promise!Fetch(t) \/ Promise!Refuse(t)
<1> PICK q : q = req[t].query
  OBVIOUS
<1>1. PICK n \in BatchSizes, bytes \in BatchBytes :
        /\ stream' = [stream EXCEPT ![q] = [stream[q] EXCEPT !.yielded = @ + n]]
        /\ handles' = [handles EXCEPT ![q] =
                         PushBatch(handles[q], NextRows(q, n), bytes)]
        /\ \/ UNCHANGED <<taskVars, nextId, sessions>>
           \/ PushFails(handles[q], NextRows(q, n), bytes) /\ Fail(t, "over_budget")
  BY DEF PollBatch
<1> DEFINE h == handles[q]
           p == PushBatch(h, NextRows(q, n), bytes)
           s == [stream[q] EXCEPT !.yielded = @ + n]
<1>2. /\ pc[t] = "read" /\ q \in QueryIds /\ n \in Nat /\ bytes \in Nat
      /\ Serving[t] # NoReply /\ Serving[t].query = q
  BY StreamAssumption, ServedQuery DEF PollBatch, Reading, PromiseInv
<1>3. /\ h \in Handle /\ stream[q] \in Stream /\ WellBuffered(h)
      /\ NextRows(q, n) \in Seq(Nat)
      /\ stream[q].yielded \in Nat
      /\ h.terminal = stream[q].ended
  BY <1>2, NextRowsType DEF PromiseInv, TypeInv, TypeOK, HandleInv, Stream
<1>4. ~stream[q].ended
  BY <1>3 DEF PollBatch, Reading, ReadDone, ReadComplete
<1>5. s.yielded = stream[q].yielded + n /\ s.ended = stream[q].ended
  BY <1>3 DEF Stream
<1>6. /\ Overflowed(h) => Overflowed(p)
      /\ PushFails(h, NextRows(q, n), bytes) => Overflowed(p)
  BY <1>2, <1>3, OverflowKept
<1>7. handles' = [handles EXCEPT ![q] = p] /\ stream' = [stream EXCEPT ![q] = s]
  BY <1>1
<1>8. Results[q] = [rows |-> stream[q].yielded, ended |-> stream[q].ended,
                    intact |-> ~Overflowed(h)]
  BY <1>2 DEF Results, Known
<1> HIDE DEF h, p, s
<1>9. /\ Results' = [Results EXCEPT ![q] = Results'[q]]
      /\ Results'[q] = [rows |-> s.yielded, ended |-> s.ended,
                        intact |-> ~Overflowed(p)]
  BY <1>2, <1>7, ResultsMove DEF PromiseInv
<1>10. Promise!Grow(q)
  <2>1. Results'[q].intact => Results[q].intact
    <3>1. Results'[q].intact <=> ~Overflowed(p)
      BY <1>9, IntactField
    <3>2. Results[q].intact <=> ~Overflowed(h)
      BY <1>8, IntactField
    <3>3. QED
      BY <1>6, <3>1, <3>2
  <2>2. Results'[q].rows >= Results[q].rows /\ ~Results[q].ended /\ ~Results'[q].ended
    BY <1>2, <1>3, <1>4, <1>5, <1>8, <1>9
  <2>3. QED
    BY <1>9, <2>1, <2>2 DEF Promise!Grow, Promise!Continues
<1>11. CASE UNCHANGED <<taskVars, nextId, sessions>>
  <2>1. UNCHANGED <<SessionStates, Serving, Answered>>
    BY <1>11 DEF SessionStates, SessionState, Unplanned, Serving, Served,
                 Answered, PageOf, taskVars
  <2>2. QED
    BY <1>2, <1>10, <2>1 DEF Promise!Fetch
<1>12. CASE PushFails(h, NextRows(q, n), bytes) /\ Fail(t, "over_budget")
  <2>1. Results'[q].intact <=> ~Overflowed(p)
    BY <1>9, IntactField
  <2>2. ~Results'[q].intact
    BY <1>6, <1>12, <2>1
  <2>3. QED
    BY <1>2, <1>10, <1>12, <2>2, RefuseStep
<1>13. QED
  BY <1>1, <1>11, <1>12 DEF h

\* The end of the stream ends the result.
LEMMA EndStep ==
  ASSUME PromiseInv, NEW t \in Tasks, PollEnd(t)
  PROVE  Promise!Fetch(t)
<1> PICK q : q = req[t].query
  OBVIOUS
<1> DEFINE h == handles[q]
           p == [h EXCEPT !.terminal = TRUE]
           s == [stream[q] EXCEPT !.ended = TRUE]
<1>1. /\ handles' = [handles EXCEPT ![q] = p]
      /\ stream' = [stream EXCEPT ![q] = s]
      /\ UNCHANGED <<taskVars, nextId, sessions>>
  BY DEF PollEnd
<1>2. q \in QueryIds /\ Serving[t] # NoReply /\ Serving[t].query = q
  BY ServedQuery DEF PollEnd, Reading, PromiseInv
<1>3. h \in Handle /\ stream[q] \in Stream /\ h.terminal = stream[q].ended
  BY <1>2 DEF PromiseInv, TypeInv, TypeOK, HandleInv
<1>4. ~stream[q].ended
  BY <1>3 DEF PollEnd, Reading, ReadDone, ReadComplete
<1>5. /\ s.yielded = stream[q].yielded /\ s.ended = TRUE
      /\ stream[q].yielded \in Nat
      /\ Overflowed(p) <=> Overflowed(h)
  BY <1>3 DEF Stream, Handle, Overflowed
<1>6. Results[q] = [rows |-> stream[q].yielded, ended |-> stream[q].ended,
                    intact |-> ~Overflowed(h)]
  BY <1>2 DEF Results, Known
<1> HIDE DEF h, p, s
<1>7. /\ Results' = [Results EXCEPT ![q] = Results'[q]]
      /\ Results'[q] = [rows |-> s.yielded, ended |-> s.ended,
                        intact |-> ~Overflowed(p)]
  BY <1>1, <1>2, ResultsMove DEF PromiseInv
<1>8. Promise!Grow(q)
  <2>1. Results'[q].intact <=> ~Overflowed(p)
    BY <1>7, IntactField
  <2>2. Results[q].intact <=> ~Overflowed(h)
    BY <1>6, IntactField
  <2>3. Results'[q].rows = Results[q].rows /\ Results[q].rows \in Nat /\ ~Results[q].ended
    BY <1>4, <1>5, <1>6, <1>7
  <2>4. QED
    BY <1>5, <1>7, <2>1, <2>2, <2>3 DEF Promise!Grow, Promise!Continues
<1>9. UNCHANGED <<SessionStates, Serving, Answered>>
  BY <1>1 DEF SessionStates, SessionState, Unplanned, Serving, Served,
              Answered, PageOf, taskVars
<1>10. QED
  BY <1>2, <1>8, <1>9 DEF Promise!Fetch

\* The ways to fail that pull no rows.
LEMMA FailStep ==
  ASSUME PromiseInv, NEW t \in Tasks,
         \/ LockRefused(t) \/ PollError(t) \/ ReadCancelled(t)
         \/ ReadTimesOut(t) \/ EncodingFails(t)
  PROVE  Promise!Refuse(t)
<1>1. /\ pc[t] \in {"wait", "read"}
      /\ \E code : Fail(t, code)
  BY DEF LockRefused, PollError, ReadCancelled, ReadTimesOut, EncodingFails,
         Reading
<1>2. CASE UNCHANGED <<handles, stream>>
  BY <1>1, <1>2, RefuseStep, ResultsKept
<1>3. CASE PollError(t)
  <2>1. /\ UNCHANGED handles
        /\ stream' = [stream EXCEPT ![req[t].query].failed = TRUE]
    BY <1>3 DEF PollError
  <2>2. \A q \in QueryIds : stream'[q].yielded = stream[q].yielded
                            /\ stream'[q].ended = stream[q].ended
    BY <2>1 DEF PromiseInv, TypeInv, TypeOK, Stream
  <2>3. Results' = Results
    BY <2>1, <2>2 DEF Results, Known
  <2>4. QED
    BY <1>1, <2>3, RefuseStep
<1>4. QED
  BY <1>2, <1>3 DEF LockRefused, ReadCancelled, ReadTimesOut, EncodingFails

\* The promise and the service mean the same by a page that holds its rows.
LEMMA SamePages ==
  ASSUME NEW p, NEW known, NEW ended
  PROVE  Promise!PageHolds(p, known, ended) <=> PageHolds(p, known, ended)
BY DEF Promise!PageHolds, Promise!PageEnd, Promise!PageStart, Promise!Window,
       Promise!Least, PageHolds, PageEnd, PageStart, Window, Least

\* A page is returned that answers the request.
LEMMA AnswerStep ==
  ASSUME PromiseInv, NEW t \in Tasks, PageReturned(t)
  PROVE  Promise!Answer(t)
<1> DEFINE r == req[t]
           page == Page(handles[r.query], r)
<1>1. /\ pc[t] = "read" /\ ReadDone(t)
      /\ pc' = [pc EXCEPT ![t] = "idle"]
      /\ req' = [req EXCEPT ![t] = NoRequest]
      /\ reply' = [reply EXCEPT ![t] = page]
      /\ UNCHANGED <<nextId, sessions, handles, stream>>
  BY DEF PageReturned, Respond, queryVars
<1>2. /\ Serving[t] = [query |-> r.query, index |-> r.index, size |-> r.size]
      /\ Serving[t] # NoReply
      /\ r.query \in QueryIds /\ r.index \in Nat /\ r.size \in Nat
  BY <1>1, ServedQuery, ReaderQuery DEF PromiseInv
<1>3. Serving' = [Serving EXCEPT ![t] = NoReply]
  BY <1>1 DEF PromiseInv, TypeInv, TypeOK, Serving, Served
<1>4. SessionStates' = SessionStates
  BY <1>1, SessionsKept, UnplannedKept DEF PromiseInv
<1>5. /\ page.kind = "page" /\ page.query = r.query
      /\ page.index = r.index /\ page.size = r.size
  BY DEF Page
<1>6. ~Overflowed(handles[r.query]) =>
        PageHolds(page, stream[r.query].yielded, stream[r.query].ended)
  <2>1. ReadComplete(handles[r.query], ReadTarget(r.index, r.size))
    BY <1>1 DEF ReadDone
  <2>2. ASSUME ~Overflowed(handles[r.query]) PROVE PageIsExact(page)
    BY <1>2, <2>1, <2>2, CutPageExact DEF PromiseInv
  <2>3. QED
    BY <1>5, <2>2 DEF PageIsExact
<1>7. Results[r.query] =
        [rows |-> stream[r.query].yielded, ended |-> stream[r.query].ended,
         intact |-> ~Overflowed(handles[r.query])]
  BY <1>2 DEF Results, Known
<1>8. Results[r.query].intact <=> ~Overflowed(handles[r.query])
  BY <1>7, IntactField
<1> HIDE DEF page, r
<1>9. Answered' = [Answered EXCEPT ![t] = page] /\ Answered'[t] = page
  <2>1. Answered' = [Answered EXCEPT ![t] = IF page.kind = "page" THEN page
                                            ELSE NoReply]
    BY <1>1, AnsweredMove DEF PromiseInv
  <2>2. QED
    BY <1>5, <2>1 DEF Answered
<1>10. Promise!Answers(Answered'[t], Serving[t], Results[Serving[t].query])
  <2>1. page # NoReply
    BY <1>5 DEF NoReply
  <2>2. /\ Serving[t].query = r.query /\ Serving[t].index = r.index
        /\ Serving[t].size = r.size
    BY <1>2
  <2>3. /\ Results[r.query].rows = stream[r.query].yielded
        /\ Results[r.query].ended = stream[r.query].ended
    BY <1>7
  <2>4. Results[r.query].intact =>
          PageHolds(page, Results[r.query].rows, Results[r.query].ended)
    BY <1>6, <1>8, <2>3
  <2>5. Results[r.query].intact =>
          Promise!PageHolds(page, Results[r.query].rows, Results[r.query].ended)
    BY <2>4, SamePages
  <2>6. QED
    BY <1>5, <1>9, <2>1, <2>2, <2>5 DEF Promise!Answers
<1>11. QED
  BY <1>1, <1>2, <1>3, <1>4, <1>9, <1>10, ResultsKept DEF Promise!Answer

\* A cancellation closes the session.
LEMMA CancelStep ==
  ASSUME PromiseInv, NEW q \in QueryIds, QueryCancel(q)
  PROVE  Promise!Close(q)
<1>1. /\ sessions[q] # NoSession
      /\ sessions' = [sessions EXCEPT ![q] = NoSession]
      /\ UNCHANGED <<pc, req, reply, nextId, handles, stream>>
  BY DEF QueryCancel, taskVars
<1>2. \A o \in QueryIds : Unplanned(o)' <=> Unplanned(o)
  BY <1>1 DEF Unplanned
<1>3. ~Unplanned(q) /\ SessionState(q) = "open"
  BY <1>1 DEF PromiseInv, PlanInv, SessionState
<1>4. /\ SessionState(q)' = "closed"
      /\ \A o \in QueryIds \ {q} : SessionState(o)' = SessionState(o)
  BY <1>1, <1>2, <1>3 DEF SessionState, PromiseInv, TypeInv, TypeOK
<1>5. /\ SessionStates[q] # "closed"
      /\ SessionStates' = [SessionStates EXCEPT ![q] = "closed"]
  BY <1>3, <1>4 DEF SessionStates
<1>6. UNCHANGED <<Serving, Answered>>
  BY <1>1 DEF Serving, Served, Answered, PageOf
<1>7. QED
  BY <1>1, <1>5, <1>6, ResultsKept DEF Promise!Close

\* Taking a lock changes nothing that a client can tell.
LEMMA LockedStep ==
  ASSUME PromiseInv, NEW t \in Tasks, LockTaken(t)
  PROVE  UNCHANGED <<SessionStates, Serving, Results, Answered>>
<1>1. /\ pc[t] = "wait" /\ pc' = [pc EXCEPT ![t] = "read"]
      /\ UNCHANGED <<req, reply, nextId, sessions, handles, stream>>
      /\ req' = [req EXCEPT ![t] = req[t]]
  BY DEF LockTaken, queryVars, PromiseInv, TypeInv, TypeOK
<1>2. SessionStates' = SessionStates
  BY <1>1, SessionsKept, UnplannedKept DEF PromiseInv
<1>3. Serving' = Serving
  BY <1>1 DEF Serving, Served, PromiseInv, TypeInv, TypeOK
<1>4. Answered' = Answered
  BY <1>1 DEF Answered, PageOf
<1>5. QED
  BY <1>1, <1>2, <1>3, <1>4, ResultsKept

\* Every step of the service is one of the promise, or changes nothing in it.
LEMMA PromiseStep == PromiseInv /\ [Next]_vars => [Promise!Next]_(Promise!vars)
<1> SUFFICES ASSUME PromiseInv, [Next]_vars
             PROVE  Promise!Next \/ UNCHANGED <<SessionStates, Serving, Results,
                                                Answered>>
  BY DEF Promise!vars
<1>1. ASSUME NEW t \in Tasks, Client(t) PROVE Promise!Next
  BY <1>1, ForgetStep DEF PromiseInv, Promise!Next
<1>2. ASSUME NEW t \in Tasks, Step(t)
      PROVE  \/ Promise!Next
             \/ UNCHANGED <<SessionStates, Serving, Results, Answered>>
  <2>1. CASE EnsureFails(t) \/ StartRejected(t) \/ PageNotFound(t)
    BY <2>1, ForgetStep DEF PromiseInv, Promise!Next
  <2>2. CASE StartAdmitted(t)
    BY <2>2, AdmittedStep
  <2>3. CASE PlanFails(t)
    <3>1. pc[t] = "plan"
      BY <2>3 DEF PlanFails
    <3>2. req[t].query \in QueryIds
      BY <3>1 DEF PromiseInv, TypeInv, RequestInv
    <3>3. QED
      BY <2>3, <3>2, PlanFailsStep DEF Promise!Next
  <2>4. CASE PlanSucceeds(t) \/ PageFound(t)
    <3>1. req[t].query \in QueryIds
      BY <2>4 DEF PlanSucceeds, PageFound, PromiseInv, TypeInv, RequestInv
    <3>2. QED
      BY <2>4, <3>1, PlanSucceedsStep, PageFoundStep DEF Promise!Next
  <2>5. CASE LockTaken(t)
    BY <2>5, LockedStep
  <2>6. CASE PollBatch(t) \/ PollEnd(t)
    BY <2>6, BatchStep, EndStep DEF Promise!Next
  <2>7. CASE \/ LockRefused(t) \/ PollError(t) \/ ReadCancelled(t)
             \/ ReadTimesOut(t) \/ EncodingFails(t)
    BY <2>7, FailStep DEF Promise!Next
  <2>8. CASE PageReturned(t)
    BY <2>8, AnswerStep DEF Promise!Next
  <2>9. QED
    BY <1>2, <2>1, <2>2, <2>3, <2>4, <2>5, <2>6, <2>7, <2>8 DEF Step
<1>3. ASSUME NEW q \in QueryIds, QueryCancel(q) PROVE Promise!Next
  BY <1>3, CancelStep DEF Promise!Next
<1>4. CASE UNCHANGED vars
  <2>1. UNCHANGED <<pc, req, reply, nextId, sessions, handles, stream>>
    BY <1>4 DEF vars
  <2>2. UNCHANGED <<SessionStates, Serving, Answered>>
    BY <2>1 DEF SessionStates, SessionState, Unplanned, Serving, Served,
                Answered, PageOf
  <2>3. QED
    BY <2>1, <2>2, ResultsKept
<1>5. QED
  BY <1>1, <1>2, <1>3, <1>4 DEF Next

\* The service starts as the promise does.
LEMMA PromiseInit == Init => Promise!Init
<1> SUFFICES ASSUME Init PROVE Promise!Init
  OBVIOUS
<1>1. \A q \in QueryIds : sessions[q] = NoSession /\ Unplanned(q)
  BY DEF Init, Unplanned, QueryIds
<1>2. SessionStates = [q \in QueryIds |-> "unused"]
  BY <1>1 DEF SessionStates, SessionState
<1>3. Serving = [t \in Tasks |-> NoReply]
  BY DEF Init, Serving, Served
<1>4. Answered = [t \in Tasks |-> NoReply]
  BY DEF Init, Answered, PageOf, NoReply
<1>5. Results = [q \in QueryIds |-> [rows |-> 0, ended |-> FALSE, intact |-> TRUE]]
  <2>1. ~Overflowed(NewHandle)
    BY EmptySeq DEF Overflowed, NewHandle
  <2>2. \A q \in QueryIds : Known(q) = [rows |-> 0, ended |-> FALSE, intact |-> TRUE]
    BY <2>1 DEF Init, Known
  <2>3. QED
    BY <2>2 DEF Results
<1>6. QED
  BY <1>2, <1>3, <1>4, <1>5 DEF Promise!Init

\* The paged-query service of the daemon, with its tasks, permits, locks and
\* cancellations, implements the promise.
THEOREM Implements == Spec => PromiseKept
<1>1. QED
  BY PromiseInit, PromiseStep, PromiseAlways, PTL
  DEF Spec, PromiseKept, Promise!Spec
=============================================================================
