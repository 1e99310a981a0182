----------------------------- MODULE FixedWidth -----------------------------
(***************************************************************************)
(* Fixed-width files of qsql-core: a layout is validated when the file is  *)
(* registered, and FixedWidthExec streams the file in batches, cutting the *)
(* projected fields out of every line.  What a scan yields must not depend *)
(* on how its lines fall into batches.                                     *)
(*                                                                         *)
(* A line is a sequence of bytes of these kinds, without its terminator:   *)
(*   "1" a digit, "x" a letter, " " white space, "h" and "t" the two bytes *)
(*   of one character;                                                     *)
(* or Unreadable, where read_line fails.                                   *)
(***************************************************************************)
EXTENDS Integers, Sequences, FiniteSets

CONSTANTS
  Files,        \* external: data files, sequences of lines
  Layouts,      \* deserialised layouts, sequences of fields
  Projections,  \* projections a query may ask for, sequences of field numbers
  Limits,       \* limits a query may ask for
  NoLimit,
  BatchSize,    \* FixedWidthExec::BATCH_SIZE
  Wrap,         \* 2^64: offsets are computed modulo it
  Unreadable

ASSUME BoundsAssumption == BatchSize \in Nat \ {0} /\ Wrap \in Nat \ {0} /\ NoLimit \notin Nat

\* FixedWidthField, the name left out.
Fields ==
  [start : Nat, length : Nat, type : STRING, nullable : BOOLEAN, trim : BOOLEAN]

Bytes == {"1", "x", " ", "h", "t"}

ASSUME FilesAssumption ==
  \A f \in Files : f \in Seq(Seq(Bytes) \cup {Unreadable})

ASSUME UnreadableAssumption == Unreadable # <<>>

ASSUME LayoutsAssumption == Layouts \subseteq Seq(Fields)

ASSUME RequestsAssumption == Projections \subseteq Seq(Nat) /\ Limits \subseteq Nat \cup {NoLimit}

VARIABLES
  pc,          \* "unregistered", "refused", "registered", "scanning" or "ended"
  file,        \* external: the data file
  layout,      \* the provider's layout
  projection,  \* the scan's projection
  limit,       \* the scan's limit
  position,    \* the lines read by the scan
  rows,        \* history: the rows emitted
  done,        \* StreamState.done
  outcome      \* how the scan ended: "none" yet, "end", "error" or "panic"

vars == <<pc, file, layout, projection, limit, position, rows, done, outcome>>

-----------------------------------------------------------------------------
(* Layouts.                                                                *)

End(f) == (f.start + f.length) % Wrap

Overlap(a, b) == a.start < End(b) /\ b.start < End(a)

\* sql_type_to_arrow knows more types than the scan can parse.
Known(type) == type \in {"VARCHAR", "INTEGER", "BOOLEAN", "DATE"}

Supported(type) == type \in {"VARCHAR", "INTEGER", "BOOLEAN"}

\* A faulty form of Overlaps.
OverlapsNext(fields) == \E i \in 1..Len(fields) - 1 : Overlap(fields[i], fields[i + 1])

Overlaps(fields) == \E i, j \in DOMAIN fields : i < j /\ Overlap(fields[i], fields[j])

Valid(fields) ==
  /\ fields # <<>>
  /\ \A i \in DOMAIN fields : fields[i].length > 0 /\ Known(fields[i].type)
  /\ ~Overlaps(fields)

-----------------------------------------------------------------------------
(* Cells.                                                                  *)

Null == "null"

Utf8(bytes) ==
  \A i \in DOMAIN bytes :
    /\ bytes[i] = "h" => i < Len(bytes) /\ bytes[i + 1] = "t"
    /\ bytes[i] = "t" => i > 1 /\ bytes[i - 1] = "h"

TrimBlanks(bytes) ==
  LET solid == {i \in DOMAIN bytes : bytes[i] # " "}
  IN IF solid = {} THEN <<>>
     ELSE SubSeq(bytes, CHOOSE i \in solid : \A j \in solid : i <= j,
                       CHOOSE i \in solid : \A j \in solid : j <= i)

Slice(line, f) ==
  LET bytes == SubSeq(line, f.start + 1, End(f))
  IN IF f.trim \/ f.type # "VARCHAR" THEN TrimBlanks(bytes) ELSE bytes

\* How cutting a field out of a line ends; a slice whose end is before its start panics.
Sliced(line, f) ==
  IF Len(line) < End(f) THEN "error"
  ELSE IF End(f) < f.start THEN "panic"
  ELSE IF ~Utf8(SubSeq(line, f.start + 1, End(f))) THEN "error"
  ELSE IF Slice(line, f) = <<>> /\ ~f.nullable THEN "error"
  ELSE "ok"

\* A cell that parses: the slice, or NULL if it is blank.
CellOf(line, f) == IF Slice(line, f) = <<>> THEN Null ELSE Slice(line, f)

Parses(cell, type) ==
  cell # Null =>
    CASE type = "INTEGER" -> \A i \in DOMAIN cell : cell[i] = "1"
      [] type = "BOOLEAN" -> cell = <<"1">>
      [] OTHER -> TRUE

\* Things are done in turn up to the first that fails.
FirstFailure(outcomes) ==
  IF \A i \in DOMAIN outcomes : outcomes[i] = "ok" THEN "ok"
  ELSE outcomes[CHOOSE i \in DOMAIN outcomes :
                  outcomes[i] # "ok" /\ \A j \in 1..i - 1 : outcomes[j] = "ok"]

\* Every line is sliced before any is parsed.
ColumnOutcome(lines, f) ==
  LET sliced == FirstFailure([i \in DOMAIN lines |-> Sliced(lines[i], f)])
  IN IF sliced # "ok" THEN sliced
     ELSE IF Supported(f.type) /\ \A i \in DOMAIN lines : Parses(CellOf(lines[i], f), f.type)
     THEN "ok" ELSE "error"

\* A faulty form of BuildBatch.
BuildEveryColumn(lines) ==
  LET built == FirstFailure([c \in DOMAIN layout |-> ColumnOutcome(lines, layout[c])])
  IN IF built = "ok" /\ projection = <<>> THEN "error" ELSE built

\* Columns are built in turn; a RecordBatch needs one to know its number of rows.
BuildBatch(lines) ==
  LET built == FirstFailure([c \in DOMAIN projection |->
                               ColumnOutcome(lines, layout[projection[c]])])
  IN IF built = "ok" /\ projection = <<>> THEN "error" ELSE built

RowOf(line) == [c \in DOMAIN projection |-> CellOf(line, layout[projection[c]])]

RowsOf(lines) == [i \in DOMAIN lines |-> RowOf(lines[i])]

-----------------------------------------------------------------------------
(* Registration and scans.                                                 *)

Init ==
  /\ pc = "unregistered"
  /\ file \in Files
  /\ layout = <<>> /\ projection = <<>> /\ limit = NoLimit
  /\ position = 0 /\ rows = <<>> /\ done = FALSE /\ outcome = "none"

\* The layout file is read and validated, or cannot be.
Register ==
  /\ pc = "unregistered"
  /\ \/ \E fields \in Layouts :
          /\ Valid(fields)
          /\ layout' = fields /\ pc' = "registered"
     \/ /\ pc' = "refused"
        /\ UNCHANGED layout
  /\ UNCHANGED <<file, projection, limit, position, rows, done, outcome>>

\* scan() and execute(): a new stream at the start of the file.
Scan ==
  /\ pc = "registered"
  /\ pc' = "scanning"
  /\ projection' \in {p \in Projections : \A c \in DOMAIN p : p[c] \in DOMAIN layout}
  /\ limit' \in Limits
  /\ UNCHANGED <<file, layout, position, rows, done, outcome>>

\* execute() cannot open the file: there is no stream.
OpenFails ==
  /\ pc = "registered"
  /\ pc' = "refused"
  /\ UNCHANGED <<file, layout, projection, limit, position, rows, done, outcome>>

RemainingForBatch == IF limit = NoLimit THEN BatchSize ELSE limit \* a faulty form of Remaining

\* With no limit it is the largest number, of which a batch takes BATCH_SIZE.
Remaining == IF limit = NoLimit THEN BatchSize ELSE limit - Len(rows)

Target == IF Remaining < BatchSize THEN Remaining ELSE BatchSize

\* The lines of a text from line a to line b that are not empty.
FullLines(text, a, b) ==
  LET upTo[n \in 0..Len(text)] ==
        IF n < a THEN <<>>
        ELSE IF text[n] = <<>> THEN upTo[n - 1] ELSE Append(upTo[n - 1], text[n])
  IN upTo[b]

Batch(n) == FullLines(file, position + 1, n)

\* The lines are read to line n, where the batch is complete or the file ends.
StopsAt(n) ==
  /\ n \in position..Len(file)
  /\ Len(Batch(n)) = Target \/ n = Len(file)
  /\ \A m \in position..n - 1 : Len(Batch(m)) < Target

ReadsPastEnd(n) == Len(Batch(n)) < Target

\* A faulty form of StreamEnds.
StreamEndsIfDone ==
  /\ pc = "scanning" /\ done
  /\ pc' = "ended" /\ outcome' = "end" /\ done' = TRUE
  /\ UNCHANGED <<file, layout, projection, limit, position, rows>>

\* The limit is reached, or the stream was done: there is no next batch.
StreamEnds ==
  /\ pc = "scanning"
  /\ done \/ Remaining = 0
  /\ pc' = "ended" /\ outcome' = "end" /\ done' = TRUE
  /\ UNCHANGED <<file, layout, projection, limit, position, rows>>

\* The end of the file comes before the first line of the batch.
FileEnds ==
  /\ pc = "scanning" /\ ~done /\ Remaining > 0
  /\ StopsAt(Len(file)) /\ Batch(Len(file)) = <<>>
  /\ pc' = "ended" /\ outcome' = "end" /\ done' = TRUE /\ position' = Len(file)
  /\ UNCHANGED <<file, layout, projection, limit, rows>>

\* A line cannot be read: the lines read before it in this batch are dropped.
ReadFails ==
  /\ pc = "scanning" /\ ~done /\ Remaining > 0
  /\ \E n \in position..Len(file) : \E i \in position + 1..n :
       /\ StopsAt(n)
       /\ file[i] = Unreadable /\ \A j \in position + 1..i - 1 : file[j] # Unreadable
       /\ position' = i
  /\ pc' = "ended" /\ outcome' = "error" /\ done' = TRUE
  /\ UNCHANGED <<file, layout, projection, limit, rows>>

\* The lines of a batch are read and become its columns, or an error or a panic.
NextBatch ==
  /\ pc = "scanning" /\ ~done /\ Remaining > 0
  /\ \E n \in position..Len(file) :
       LET lines == Batch(n)
           built == BuildBatch(lines)
       IN /\ StopsAt(n) /\ lines # <<>>
          /\ \A i \in position + 1..n : file[i] # Unreadable
          /\ position' = n
          /\ IF built = "ok"
             THEN /\ rows' = rows \o RowsOf(lines)
                  /\ done' = ReadsPastEnd(n)
                  /\ UNCHANGED <<pc, outcome>>
             ELSE /\ pc' = "ended" /\ outcome' = built /\ done' = TRUE
                  /\ UNCHANGED rows
  /\ UNCHANGED <<file, layout, projection, limit>>

Next == Register \/ Scan \/ OpenFails \/ StreamEnds \/ FileEnds \/ ReadFails \/ NextBatch

\* A scan that is polled goes on; nothing is claimed of queries that stop reading.
Fairness == WF_vars(StreamEnds \/ FileEnds \/ ReadFails \/ NextBatch)

Spec == Init /\ [][Next]_vars /\ Fairness

-----------------------------------------------------------------------------
(* Properties.                                                             *)

\* The lines a scan is asked for.
Wanted ==
  LET full == FullLines(file, 1, Len(file))
  IN IF limit = NoLimit \/ limit >= Len(full) THEN full ELSE SubSeq(full, 1, limit)

Fits(f) == f.start + f.length < Wrap

\* A line that every projected column can be read from.
Good(line) ==
  /\ line # Unreadable
  /\ \A c \in DOMAIN projection :
       LET f == layout[projection[c]]
       IN Sliced(line, f) = "ok" /\ Supported(f.type) /\ Parses(CellOf(line, f), f.type)

\* What a scan has yielded is a prefix of the lines it was asked for, cell by
\* cell, and when it ends without an error it is all of them: no line is lost,
\* repeated or read past the limit where batches, blank lines, the limit and the
\* end of the file meet (fixed_width.rs:443-508).
ScanIsExact ==
  /\ Len(rows) <= Len(Wanted)
  /\ \A i \in DOMAIN rows : Good(Wanted[i]) /\ rows[i] = RowOf(Wanted[i])
  /\ outcome = "end" => Len(rows) = Len(Wanted)

\* A scan of columns fails only for a line it was asked for that one of these
\* columns cannot be read from, never for a column it leaves out or a line beyond
\* the limit, and it panics only where an offset overflows (fixed_width.rs:511-605).
FailsForCause ==
  /\ outcome = "error" /\ projection # <<>> => \E i \in DOMAIN Wanted : ~Good(Wanted[i])
  /\ outcome = "panic" => \E c \in DOMAIN projection : ~Fits(layout[projection[c]])

\* In a layout that was accepted no byte of a line belongs to two columns, if its
\* offsets do not overflow (fixed_width.rs:153-189).
ColumnsDisjoint ==
  (\A i \in DOMAIN layout : Fits(layout[i])) =>
    \A i, j \in DOMAIN layout :
      i # j => (layout[i].start + 1..End(layout[i])) \cap (layout[j].start + 1..End(layout[j])) = {}

\* A scan that is polled comes to an end, at the limit, the end of the file or an
\* error (the unfold of fixed_width.rs:411-413 goes on while next_batch is Some).
ScanEnds == pc = "scanning" ~> pc = "ended"
=============================================================================
