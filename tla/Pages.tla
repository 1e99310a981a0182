-------------------------------- MODULE Pages --------------------------------
(***************************************************************************)
(* Pages of a result whose rows are named by their positions 1, 2, 3, ...  *)
(* Page number "index" of "size" rows, counted from 0, is a window of it.  *)
(***************************************************************************)
EXTENDS Naturals, Sequences

Least(a, b) == IF a <= b THEN a ELSE b

PageStart(index, size) == index * size

PageEnd(index, size) == (index + 1) * size

\* The positions first, first + 1, ... last of a result.
Window(first, last) ==
  [i \in 1..(IF last < first THEN 0 ELSE last + 1 - first) |-> first + i - 1]

\* The page p holds exactly its rows of a result of which "known" rows are
\* known, and all of them if it has "ended".  A page that says it is the last
\* one reaches the end of the result; one that says it is not is full, and
\* there is a row after it.
PageHolds(p, known, ended) ==
  LET end == PageEnd(p.index, p.size)
  IN  /\ p.rows = Window(PageStart(p.index, p.size) + 1, Least(end, known))
      /\ p.rows_returned = Len(p.rows)
      /\ IF p.is_last THEN ended /\ end >= known ELSE end < known
=============================================================================
