--------------------------- MODULE FixedWidthProofs ---------------------------
(***************************************************************************)
(* Fixed-width files, for layouts of any number of fields and files of any *)
(* length.  What the validation is worth: it compares every two fields,    *)
(* and a layout is only ever one that was accepted.  And the scans: what   *)
(* has been emitted are the first full lines of what has been read, so     *)
(* that neither a batch's end nor a blank line loses or repeats any.       *)
(***************************************************************************)
EXTENDS FixedWidth, SequenceTheorems, WellFoundedInduction, TLAPS

\* The provider has no layout yet, or one that was accepted.
Accepted == layout = <<>> \/ (layout \in Layouts /\ ~Overlaps(layout))

\* An end that fits is the end.
LEMMA EndFits ==
  ASSUME NEW f, f.start \in Nat, f.length \in Nat, Fits(f)
  PROVE  End(f) = f.start + f.length
<1>. DEFINE e == f.start + f.length
<1>1. e \in 0..Wrap - 1 /\ Wrap \in Nat \ {0}
  BY BoundsAssumption DEF Fits
<1>. HIDE DEF e
<1>2. e % Wrap = e
  BY <1>1
<1>. QED
  BY <1>2 DEF End, e

\* Fields that do not overlap have no byte in common.
LEMMA NoOverlap ==
  ASSUME NEW a, NEW b, End(a) \in Nat, End(b) \in Nat, a.start \in Nat, b.start \in Nat,
         ~Overlap(a, b)
  PROVE  (a.start + 1..End(a)) \cap (b.start + 1..End(b)) = {}
BY DEF Overlap

\* Overlap does not depend on which field comes first.
LEMMA OverlapSymmetric == \A a, b : Overlap(a, b) <=> Overlap(b, a)
BY DEF Overlap

LEMMA AcceptedStep == Accepted /\ [Next]_vars => Accepted'
<1>. SUFFICES ASSUME Accepted, [Next]_vars PROVE Accepted'
  OBVIOUS
<1>1. CASE Register
  BY <1>1 DEF Accepted, Register, Valid
<1>2. CASE layout' = layout
  BY <1>2 DEF Accepted
<1>. QED
  BY <1>1, <1>2
     DEF Next, vars, Scan, OpenFails, StreamEnds, FileEnds, ReadFails, NextBatch

\* No byte of a line belongs to two columns of a layout that was accepted, however
\* many fields it has and in whatever order they are written, if no offset overflows.
THEOREM ColumnsAreDisjoint == Spec => []ColumnsDisjoint
<1>1. Init => Accepted
  BY DEF Init, Accepted
<1>2. Accepted => ColumnsDisjoint
  <2>. SUFFICES ASSUME Accepted, \A k \in DOMAIN layout : Fits(layout[k]),
                       NEW i \in DOMAIN layout, NEW j \in DOMAIN layout, i # j
                PROVE  (layout[i].start + 1..End(layout[i]))
                         \cap (layout[j].start + 1..End(layout[j])) = {}
    BY DEF ColumnsDisjoint
  <2>1. layout \in Layouts /\ ~Overlaps(layout)
    BY DEF Accepted
  <2>2. \A k \in DOMAIN layout :
          k \in Nat /\ layout[k].start \in Nat /\ layout[k].length \in Nat
    <3>1. layout \in Seq(Fields)
      BY <2>1, LayoutsAssumption
    <3>2. \A k \in DOMAIN layout : k \in Nat /\ layout[k] \in Fields
      BY <3>1
    <3>. QED
      BY <3>2 DEF Fields
  <2>3. \A k \in DOMAIN layout : End(layout[k]) = layout[k].start + layout[k].length
    BY <2>2, EndFits
  <2>4. ~Overlap(layout[i], layout[j])
    <3>1. i < j \/ j < i
      BY <2>2
    <3>. QED
      BY <2>1, <3>1, OverlapSymmetric DEF Overlaps
  <2>. QED
    BY <2>2, <2>3, <2>4, NoOverlap
<1>. QED
  BY <1>1, <1>2, AcceptedStep, PTL DEF Spec

-----------------------------------------------------------------------------
(* Induction over the naturals, for what is defined by recursion.          *)

Below == {p \in Nat \X Nat : p[1] < p[2]}

\* A set of naturals that is not empty has a least member.
LEMMA LeastMember ==
  ASSUME NEW S \in SUBSET Nat, S # {}
  PROVE  \E n \in S : \A m \in S : n <= m
<1>1. IsWellFoundedOn(Below, Nat)
  <2>1. OpToRel(<, Nat) = Below
    BY Zenon DEF OpToRel, Below
  <2>. QED
    BY ONLY <2>1, NatLessThanWellFounded, Zenon
<1>2. PICK n \in S : \A m \in S : ~(<<m, n>> \in Below)
  BY <1>1, WFMin
<1>3. ASSUME NEW m \in S, ~(n <= m) PROVE FALSE
  <2>1. <<m, n>> \in Below
    BY <1>3 DEF Below
  <2>. QED
    BY <1>2, <2>1
<1>. QED
  BY <1>3

\* What holds of zero, and of the successor of whatever it holds of, holds of all.
LEMMA Induct ==
  ASSUME NEW S \in SUBSET Nat, 0 \in S, \A n \in S : n + 1 \in S
  PROVE  S = Nat
<1>. SUFFICES ASSUME Nat \ S # {} PROVE FALSE
  OBVIOUS
<1>1. PICK n \in Nat \ S : \A m \in Nat \ S : n <= m
  <2>1. Nat \ S \in SUBSET Nat
    OBVIOUS
  <2>. QED
    BY <2>1, LeastMember
<1>2. n # 0 /\ n - 1 \in Nat
  BY <1>1
<1>3. n - 1 \in S
  BY <1>1, <1>2
<1>. QED
  BY <1>1, <1>2, <1>3

-----------------------------------------------------------------------------
(* The lines of a text that are not empty.                                 *)

Line == Seq(Bytes) \cup {Unreadable}

\* The recursion of FullLines.
FullStep(text, a, g, n) ==
  IF n < a THEN <<>>
  ELSE IF text[n] = <<>> THEN g[n - 1] ELSE Append(g[n - 1], text[n])

\* There is a function that obeys it.
LEMMA FullExists ==
  ASSUME NEW text, NEW a \in Nat \ {0}
  PROVE  \A k \in Nat : \E g : g = [n \in 0..k |-> FullStep(text, a, g, n)]
<1>. DEFINE T == {k \in Nat : \E g : g = [n \in 0..k |-> FullStep(text, a, g, n)]}
<1>1. 0 \in T
  <2>. DEFINE g == [n \in 0..0 |-> <<>>]
  <2>1. g = [n \in 0..0 |-> FullStep(text, a, g, n)]
    BY DEF FullStep
  <2>. QED
    BY <2>1
<1>2. ASSUME NEW k \in T PROVE k + 1 \in T
  <2>1. PICK g : g = [n \in 0..k |-> FullStep(text, a, g, n)]
    OBVIOUS
  <2>. DEFINE h == [n \in 0..k + 1 |-> IF n <= k THEN g[n] ELSE FullStep(text, a, g, n)]
  <2>2. ASSUME NEW n \in 0..k + 1 PROVE h[n] = FullStep(text, a, h, n)
    <3>1. FullStep(text, a, h, n) = FullStep(text, a, g, n)
      <4>1. CASE n < a
        BY <4>1 DEF FullStep
      <4>2. CASE ~(n < a)
        <5>1. n - 1 \in 0..k + 1 /\ n - 1 <= k
          BY <4>2
        <5>2. h[n - 1] = g[n - 1]
          BY <5>1
        <5>. QED
          BY <5>2 DEF FullStep
      <4>. QED
        BY <4>1, <4>2
    <3>. QED
      BY <2>1, <3>1
  <2>3. h = [n \in 0..k + 1 |-> FullStep(text, a, h, n)]
    BY <2>2
  <2>4. \E f : f = [n \in 0..k + 1 |-> FullStep(text, a, f, n)]
    <3>. HIDE DEF h
    <3>. QED
      BY <2>3
  <2>. QED
    BY <2>4
<1>3. T = Nat
  <2>. HIDE DEF T
  <2>1. T \in SUBSET Nat
    BY DEF T
  <2>. QED
    BY <1>1, <1>2, <2>1, Induct
<1>. QED
  BY <1>3

\* The lines up to line n are those up to the line before, and line n if it is
\* not empty.
LEMMA FullNext ==
  ASSUME NEW text \in Seq(Line), NEW a \in Nat \ {0}, NEW n \in 0..Len(text)
  PROVE  FullLines(text, a, n) =
           IF n < a THEN <<>>
           ELSE IF text[n] = <<>> THEN FullLines(text, a, n - 1)
           ELSE Append(FullLines(text, a, n - 1), text[n])
<1>. DEFINE IsG(g) == g = [i \in 0..Len(text) |-> FullStep(text, a, g, i)]
            upTo == CHOOSE g : IsG(g)
<1>1. Len(text) \in Nat
  OBVIOUS
<1>2. IsG(upTo)
  BY <1>1, FullExists
<1>3. \A m : FullLines(text, a, m) = upTo[m]
  BY DEF FullLines, FullStep
<1>4. upTo[n] = FullStep(text, a, upTo, n)
  BY <1>2
<1>. HIDE DEF upTo
<1>5. FullLines(text, a, n) = FullStep(text, a, upTo, n)
  BY <1>3, <1>4
<1>. QED
  BY <1>3, <1>5 DEF FullStep

\* The lines are lines of the text, and are as many as those up to the line before
\* or one more.
LEMMA FullType ==
  ASSUME NEW text \in Seq(Line), NEW a \in Nat \ {0}
  PROVE  \A n \in 0..Len(text) :
           /\ FullLines(text, a, n) \in Seq(Line)
           /\ \A k \in 1..Len(FullLines(text, a, n)) :
                \E i \in a..n : FullLines(text, a, n)[k] = text[i]
<1>. DEFINE P(n) == /\ FullLines(text, a, n) \in Seq(Line)
                    /\ \A k \in 1..Len(FullLines(text, a, n)) :
                         \E i \in a..n : FullLines(text, a, n)[k] = text[i]
            T == {n \in Nat : n <= Len(text) => P(n)}
<1>0. Len(text) \in Nat
  OBVIOUS
<1>1. ASSUME NEW n \in 0..Len(text), n < a PROVE P(n)
  <2>1. FullLines(text, a, n) = <<>>
    BY <1>1, FullNext
  <2>. QED
    BY <2>1
<1>2. 0 \in T
  BY <1>0, <1>1
<1>3. ASSUME NEW n \in T PROVE n + 1 \in T
  <2>. SUFFICES ASSUME n + 1 <= Len(text), a <= n + 1 PROVE P(n + 1)
    <3>1. n + 1 \in Nat /\ (n + 1 <= Len(text) => n + 1 \in 0..Len(text))
      BY <1>0
    <3>2. CASE a <= n + 1
      BY <3>1, <3>2
    <3>3. CASE n + 1 < a
      BY <1>1, <3>1, <3>3
    <3>. QED
      BY <3>1, <3>2, <3>3
  <2>. DEFINE s == FullLines(text, a, n)
              e == text[n + 1]
  <2>1. P(n) /\ n \in Nat /\ n + 1 \in 1..Len(text) /\ n + 1 \in 0..Len(text)
    BY <1>0
  <2>2. FullLines(text, a, n + 1) = IF e = <<>> THEN s ELSE Append(s, e)
    <3>1. ~(n + 1 < a) /\ (n + 1) - 1 = n
      BY <2>1
    <3>. QED
      BY <2>1, <3>1, FullNext
  <2>3. CASE e = <<>>
    BY <2>1, <2>2, <2>3
  <2>4. CASE e # <<>>
    <3>1. s \in Seq(Line) /\ e \in Line
      BY <2>1, ElementOfSeq
    <3>2. /\ Append(s, e) \in Seq(Line) /\ Len(Append(s, e)) = Len(s) + 1
          /\ \A k \in 1..Len(s) : Append(s, e)[k] = s[k]
          /\ Append(s, e)[Len(s) + 1] = e /\ Len(s) \in Nat
      BY <3>1, AppendProperties, LenProperties
    <3>3. ASSUME NEW k \in 1..Len(s) + 1
          PROVE  \E i \in a..n + 1 : Append(s, e)[k] = text[i]
      <4>1. CASE k = Len(s) + 1
        <5>1. n + 1 \in a..n + 1
          BY <2>1
        <5>. QED
          BY <3>2, <4>1, <5>1
      <4>2. CASE k # Len(s) + 1
        <5>1. k \in 1..Len(s)
          BY <3>2, <4>2
        <5>2. PICK i \in a..n : s[k] = text[i]
          BY <2>1, <5>1
        <5>3. i \in a..n + 1
          BY <2>1
        <5>. QED
          BY <3>2, <5>1, <5>2, <5>3
      <4>. QED
        BY <4>1, <4>2
    <3>. QED
      BY <2>2, <2>4, <3>2, <3>3
  <2>. QED
    BY <2>3, <2>4
<1>4. T = Nat
  <2>. HIDE DEF T
  <2>1. T \in SUBSET Nat
    BY DEF T
  <2>. QED
    BY <1>2, <1>3, <2>1, Induct
<1>. QED
  BY <1>0, <1>4

\* What is appended to a concatenation is appended to its second part.
LEMMA AppendConcat ==
  ASSUME NEW s \in Seq(Line), NEW t \in Seq(Line), NEW e \in Line
  PROVE  Append(s \o t, e) = s \o Append(t, e)
<1>1. /\ <<e>> \in Seq(Line) /\ s \o t \in Seq(Line)
      /\ Append(s \o t, e) = (s \o t) \o <<e>> /\ Append(t, e) = t \o <<e>>
  BY ConcatProperties, AppendIsConcat
<1>. QED
  BY <1>1, ConcatAssociative

\* The lines up to line n are those up to line m and those after it.
LEMMA FullSplit ==
  ASSUME NEW text \in Seq(Line), NEW m \in 0..Len(text)
  PROVE  \A n \in m..Len(text) :
           FullLines(text, 1, n) = FullLines(text, 1, m) \o FullLines(text, m + 1, n)
<1>. DEFINE P(n) == FullLines(text, 1, n) = FullLines(text, 1, m) \o FullLines(text, m + 1, n)
            T == {n \in Nat : m + n <= Len(text) => P(m + n)}
<1>0. /\ Len(text) \in Nat /\ m \in Nat /\ m + 1 \in Nat \ {0} /\ 1 \in Nat \ {0}
      /\ FullLines(text, 1, m) \in Seq(Line)
  <2>1. 1 \in Nat \ {0} /\ m \in Nat
    OBVIOUS
  <2>. QED
    BY <2>1, FullType
<1>1. 0 \in T
  <2>1. FullLines(text, m + 1, m) = <<>>
    BY <1>0, FullNext
  <2>2. P(m)
    BY <1>0, <2>1, ConcatEmptySeq
  <2>. QED
    BY <1>0, <2>2
<1>2. ASSUME NEW k \in T PROVE k + 1 \in T
  <2>. SUFFICES ASSUME m + (k + 1) <= Len(text) PROVE P(m + (k + 1))
    OBVIOUS
  <2>. DEFINE n == m + k
              s == FullLines(text, 1, m)
              t == FullLines(text, m + 1, n)
              e == text[n + 1]
  <2>1. /\ n \in Nat /\ n + 1 = m + (k + 1) /\ n + 1 \in 0..Len(text) /\ n \in 0..Len(text)
        /\ n + 1 \in 1..Len(text) /\ (n + 1) - 1 = n /\ ~(n + 1 < m + 1) /\ ~(n + 1 < 1)
    BY <1>0
  <2>. HIDE DEF n
  <2>2. FullLines(text, 1, n) = s \o t
    BY <1>0, <2>1 DEF n
  <2>3. FullLines(text, 1, n + 1) = IF e = <<>> THEN s \o t ELSE Append(s \o t, e)
    <3>1. FullLines(text, 1, n + 1) = IF e = <<>> THEN FullLines(text, 1, n)
                                     ELSE Append(FullLines(text, 1, n), e)
      BY <1>0, <2>1, FullNext, ZenonT(60)
    <3>. QED
      BY <2>2, <3>1
  <2>4. FullLines(text, m + 1, n + 1) = IF e = <<>> THEN t ELSE Append(t, e)
    BY <1>0, <2>1, FullNext, ZenonT(60)
  <2>5. s \in Seq(Line) /\ t \in Seq(Line) /\ e \in Line
    BY <1>0, <2>1, FullType, ElementOfSeq
  <2>6. Append(s \o t, e) = s \o Append(t, e)
    BY <2>5, AppendConcat
  <2>. QED
    BY <2>1, <2>3, <2>4, <2>6
<1>3. T = Nat
  <2>. HIDE DEF T
  <2>1. T \in SUBSET Nat
    BY DEF T
  <2>. QED
    BY <1>1, <1>2, <2>1, Induct
<1>4. ASSUME NEW n \in m..Len(text) PROVE P(n)
  <2>1. n - m \in Nat /\ m + (n - m) = n
    BY <1>0
  <2>2. m + (n - m) <= Len(text) => P(m + (n - m))
    BY <1>3, <2>1
  <2>. QED
    BY <2>1, <2>2
<1>. QED
  BY <1>4

-----------------------------------------------------------------------------
(* What fails, and for which line.                                         *)

\* The first failure is a failure, if there is one.
LEMMA FirstFailureCause ==
  ASSUME NEW n \in Nat, NEW outcomes, DOMAIN outcomes = 1..n
  PROVE  \/ FirstFailure(outcomes) = "ok" /\ \A i \in 1..n : outcomes[i] = "ok"
         \/ \E i \in 1..n : outcomes[i] # "ok" /\ FirstFailure(outcomes) = outcomes[i]
<1>. DEFINE failed == {i \in 1..n : outcomes[i] # "ok"}
            First(i) == outcomes[i] # "ok" /\ \A j \in 1..i - 1 : outcomes[j] = "ok"
<1>1. CASE failed = {}
  BY <1>1 DEF FirstFailure
<1>2. CASE failed # {}
  <2>1. PICK i \in failed : \A j \in failed : i <= j
    <3>1. failed \in SUBSET Nat
      OBVIOUS
    <3>. HIDE DEF failed
    <3>. QED
      BY <1>2, <3>1, LeastMember
  <2>2. i \in 1..n /\ First(i)
    <3>1. ASSUME NEW j \in 1..i - 1 PROVE outcomes[j] = "ok"
      <4>1. j \in 1..n /\ ~(i <= j)
        BY <3>1
      <4>. QED
        BY <2>1, <4>1
    <3>. QED
      BY <2>1, <3>1
  <2>3. FirstFailure(outcomes) = outcomes[CHOOSE k \in 1..n : First(k)]
    BY <1>2 DEF FirstFailure
  <2>4. (CHOOSE k \in 1..n : First(k)) \in 1..n /\ First(CHOOSE k \in 1..n : First(k))
    BY <2>2
  <2>. QED
    BY <2>3, <2>4
<1>. QED
  BY <1>1, <1>2

\* A field can be read from a line.
Reads(line, f) ==
  Sliced(line, f) = "ok" /\ Supported(f.type) /\ Parses(CellOf(line, f), f.type)

\* A column is built if its field can be read from every line; a panic is that of
\* a line.
LEMMA ColumnCause ==
  ASSUME NEW lines \in Seq(Line), lines # <<>>, NEW f
  PROVE  /\ ColumnOutcome(lines, f) \in {"ok", "error", "panic"}
         /\ ColumnOutcome(lines, f) = "ok" => \A i \in DOMAIN lines : Reads(lines[i], f)
         /\ ColumnOutcome(lines, f) # "ok" => \E i \in DOMAIN lines : ~Reads(lines[i], f)
         /\ ColumnOutcome(lines, f) = "panic" =>
              \E i \in DOMAIN lines : Sliced(lines[i], f) = "panic"
<1>. DEFINE outcomes == [i \in DOMAIN lines |-> Sliced(lines[i], f)]
            sliced == FirstFailure(outcomes)
            parsed == Supported(f.type)
                      /\ \A i \in DOMAIN lines : Parses(CellOf(lines[i], f), f.type)
<1>1. Len(lines) \in Nat /\ Len(lines) # 0 /\ DOMAIN lines = 1..Len(lines)
  BY LenProperties, EmptySeq
<1>2. ColumnOutcome(lines, f) = IF sliced # "ok" THEN sliced ELSE IF parsed THEN "ok" ELSE "error"
  BY DEF ColumnOutcome
<1>3. \A i \in DOMAIN lines : outcomes[i] = Sliced(lines[i], f)
  OBVIOUS
<1>4. DOMAIN outcomes = 1..Len(lines)
  BY <1>1
<1>5. \A line : Sliced(line, f) \in {"ok", "error", "panic"}
  BY DEF Sliced
<1>. HIDE DEF outcomes
<1>6. CASE sliced = "ok" /\ \A i \in 1..Len(lines) : outcomes[i] = "ok"
  <2>1. ColumnOutcome(lines, f) = IF parsed THEN "ok" ELSE "error"
    BY <1>2, <1>6
  <2>2. \A i \in DOMAIN lines :
          Reads(lines[i], f) <=> Supported(f.type) /\ Parses(CellOf(lines[i], f), f.type)
    BY <1>1, <1>3, <1>6 DEF Reads
  <2>3. 1 \in DOMAIN lines
    BY <1>1
  <2>4. parsed <=> \A i \in DOMAIN lines : Reads(lines[i], f)
    BY <2>2, <2>3
  <2>. QED
    BY <2>1, <2>4
<1>7. CASE \E i \in 1..Len(lines) : outcomes[i] # "ok" /\ sliced = outcomes[i]
  <2>1. PICK i \in 1..Len(lines) : outcomes[i] # "ok" /\ sliced = outcomes[i]
    BY <1>7
  <2>2. ColumnOutcome(lines, f) = Sliced(lines[i], f) /\ Sliced(lines[i], f) # "ok"
    BY <1>1, <1>2, <1>3, <2>1
  <2>. QED
    BY <1>1, <1>5, <2>2 DEF Reads
<1>. QED
  BY <1>1, <1>4, <1>6, <1>7, FirstFailureCause

\* A batch is built if every line is good, and only then if it has a column; it
\* panics only if an offset overflows.
LEMMA BatchCause ==
  ASSUME NEW lines \in Seq(Line), lines # <<>>, \A i \in DOMAIN lines : lines[i] # Unreadable,
         projection \in Seq(Nat),
         \A c \in DOMAIN projection : layout[projection[c]] \in Fields
  PROVE  /\ BuildBatch(lines) \in {"ok", "error", "panic"}
         /\ BuildBatch(lines) = "ok" => \A i \in DOMAIN lines : Good(lines[i])
         /\ BuildBatch(lines) # "ok" /\ projection # <<>> =>
              \E i \in DOMAIN lines : ~Good(lines[i])
         /\ BuildBatch(lines) = "panic" =>
              \E c \in DOMAIN projection : ~Fits(layout[projection[c]])
<1>. DEFINE column(c) == layout[projection[c]]
            outcomes == [c \in DOMAIN projection |-> ColumnOutcome(lines, column(c))]
            built == FirstFailure(outcomes)
<1>1. Len(projection) \in Nat /\ DOMAIN projection = 1..Len(projection)
  BY LenProperties
<1>2. BuildBatch(lines) = IF built = "ok" /\ projection = <<>> THEN "error" ELSE built
  BY DEF BuildBatch
<1>3. \A c \in DOMAIN projection : outcomes[c] = ColumnOutcome(lines, column(c))
  OBVIOUS
<1>4. DOMAIN outcomes = 1..Len(projection)
  BY <1>1
<1>5. \A i \in DOMAIN lines :
        Good(lines[i]) <=> \A c \in DOMAIN projection : Reads(lines[i], column(c))
  BY DEF Good, Reads
<1>6. ASSUME NEW c \in DOMAIN projection, NEW line, Sliced(line, column(c)) = "panic"
      PROVE  ~Fits(column(c))
  <2>1. End(column(c)) < column(c).start
    BY <1>6 DEF Sliced
  <2>2. column(c).start \in Nat /\ column(c).length \in Nat
    BY DEF Fields
  <2>. HIDE DEF column
  <2>3. Fits(column(c)) => End(column(c)) = column(c).start + column(c).length
    BY <2>2, EndFits
  <2>. QED
    BY <2>1, <2>2, <2>3
<1>. HIDE DEF outcomes, column
<1>7. CASE built = "ok" /\ \A c \in 1..Len(projection) : outcomes[c] = "ok"
  <2>1. \A c \in DOMAIN projection : ColumnOutcome(lines, column(c)) = "ok"
    BY <1>1, <1>3, <1>7
  <2>2. \A i \in DOMAIN lines : Good(lines[i])
    BY <1>5, <2>1, ColumnCause
  <2>. QED
    BY <1>2, <1>7, <2>2
<1>8. CASE \E c \in 1..Len(projection) : outcomes[c] # "ok" /\ built = outcomes[c]
  <2>1. PICK c \in 1..Len(projection) : outcomes[c] # "ok" /\ built = outcomes[c]
    BY <1>8
  <2>2. /\ c \in DOMAIN projection
        /\ BuildBatch(lines) = ColumnOutcome(lines, column(c)) /\ BuildBatch(lines) # "ok"
    BY <1>1, <1>2, <1>3, <2>1
  <2>3. \E i \in DOMAIN lines : ~Reads(lines[i], column(c))
    BY <2>2, ColumnCause
  <2>4. \E i \in DOMAIN lines : ~Good(lines[i])
    BY <1>5, <2>2, <2>3
  <2>5. BuildBatch(lines) = "panic" => ~Fits(column(c))
    BY <1>6, <2>2, ColumnCause
  <2>6. BuildBatch(lines) \in {"ok", "error", "panic"}
    BY <2>2, ColumnCause
  <2>. QED
    BY <2>2, <2>4, <2>5, <2>6 DEF column
<1>. QED
  BY <1>1, <1>4, <1>7, <1>8, FirstFailureCause

-----------------------------------------------------------------------------
(* Scans.                                                                  *)

\* The rows that lines may become.
Cells == {RowOf(line) : line \in Line}

\* A scan has a file, columns of an accepted layout, and a place in the file.
ScanType ==
  /\ file \in Seq(Line)
  /\ layout \in Seq(Fields)
  /\ projection \in Seq(Nat) /\ \A c \in DOMAIN projection : projection[c] \in DOMAIN layout
  /\ limit \in Nat \cup {NoLimit}
  /\ position \in 0..Len(file)
  /\ rows \in Seq(Cells)

\* Before a scan nothing has been read; a scan has yielded every line up to its
\* position that is not empty, and is done only if it has yielded them all.
Progress ==
  /\ pc \in {"unregistered", "registered", "refused"} =>
       position = 0 /\ rows = <<>> /\ ~done /\ outcome = "none"
  /\ pc \in {"unregistered", "registered"} => projection = <<>>
  /\ pc = "unregistered" => layout = <<>>
  /\ pc = "scanning" =>
       /\ outcome = "none"
       /\ Len(rows) = Len(FullLines(file, 1, position))
       /\ done => Len(rows) = Len(Wanted)

ScanInv == ScanType /\ Progress /\ ScanIsExact /\ FailsForCause

\* What a scan is asked for are the first lines of the file that are not empty, as
\* many as the limit allows.
LEMMA WantedLines ==
  ASSUME ScanType
  PROVE  LET all == FullLines(file, 1, Len(file))
         IN /\ all \in Seq(Line) /\ Len(all) \in Nat
            /\ Wanted \in Seq(Line) /\ Len(Wanted) <= Len(all)
            /\ \A k \in 1..Len(Wanted) : Wanted[k] = all[k]
            /\ limit = NoLimit => Len(Wanted) = Len(all)
            /\ limit # NoLimit => /\ Len(Wanted) <= limit
                                  /\ limit <= Len(all) => Len(Wanted) = limit
<1>. DEFINE all == FullLines(file, 1, Len(file))
<1>1. Len(file) \in 0..Len(file) /\ 1 \in Nat \ {0} /\ file \in Seq(Line)
  BY LenProperties DEF ScanType
<1>2. all \in Seq(Line) /\ Len(all) \in Nat
  BY <1>1, FullType, LenProperties
<1>. HIDE DEF all
<1>3. Wanted = IF limit = NoLimit \/ limit >= Len(all) THEN all ELSE SubSeq(all, 1, limit)
  BY DEF Wanted, all
<1>4. CASE limit = NoLimit
  BY <1>2, <1>3, <1>4, BoundsAssumption DEF all
<1>5. CASE limit # NoLimit /\ limit >= Len(all)
  BY <1>2, <1>3, <1>5 DEF all, ScanType
<1>6. CASE limit # NoLimit /\ ~(limit >= Len(all))
  <2>1. limit \in Nat /\ limit <= Len(all) /\ Wanted = SubSeq(all, 1, limit)
    BY <1>2, <1>3, <1>6 DEF ScanType
  <2>2. /\ SubSeq(all, 1, limit) \in Seq(Line) /\ Len(SubSeq(all, 1, limit)) = limit
        /\ \A k \in 1..limit : SubSeq(all, 1, limit)[k] = all[k]
    <3>1. 1 \in 1..Len(all) + 1 /\ limit \in 0..Len(all) /\ \A k \in 1..limit : k \in 1..Len(all)
      BY <1>2, <2>1
    <3>2. limit = 0 => SubSeq(all, 1, limit) = <<>>
      BY SubSeqProperties, <1>2
    <3>. QED
      BY <1>2, <2>1, <3>1
  <2>. QED
    BY <1>2, <1>6, <2>1, <2>2 DEF all
<1>. QED
  BY <1>4, <1>5, <1>6

\* A batch up to line n is what follows in the file; if it is no longer than it
\* may be, it is what a scan is asked for next.
LEMMA BatchIsNext ==
  ASSUME ScanType, Progress, pc = "scanning", NEW n \in position..Len(file)
  PROVE  LET all == FullLines(file, 1, Len(file))
         IN /\ Batch(n) \in Seq(Line) /\ Len(Batch(n)) \in Nat /\ Len(rows) \in Nat
            /\ Len(FullLines(file, 1, n)) = Len(rows) + Len(Batch(n))
            /\ Len(rows) + Len(Batch(n)) <= Len(all)
            /\ n = Len(file) => Len(rows) + Len(Batch(n)) = Len(all)
            /\ Len(Batch(n)) <= Target /\ Len(rows) <= Len(Wanted) =>
                 /\ Len(rows) + Len(Batch(n)) <= Len(Wanted)
                 /\ \A k \in 1..Len(Batch(n)) : Wanted[Len(rows) + k] = Batch(n)[k]
<1>. DEFINE all == FullLines(file, 1, Len(file))
            before == FullLines(file, 1, position)
            upTo == FullLines(file, 1, n)
            after == FullLines(file, n + 1, Len(file))
            batch == Batch(n)
<1>1. /\ file \in Seq(Line) /\ Len(file) \in Nat /\ position \in 0..Len(file)
      /\ n \in 0..Len(file) /\ n \in Nat /\ position \in Nat /\ Len(file) \in n..Len(file)
      /\ Len(file) \in 0..Len(file)
      /\ position + 1 \in Nat \ {0} /\ n + 1 \in Nat \ {0} /\ 1 \in Nat \ {0}
      /\ Len(rows) \in Nat /\ Len(rows) = Len(before)
  BY LenProperties DEF ScanType, Progress
<1>2. before \in Seq(Line) /\ upTo \in Seq(Line) /\ all \in Seq(Line)
  BY <1>1, FullType
<1>3. batch \in Seq(Line) /\ after \in Seq(Line)
  BY <1>1, FullType DEF Batch
<1>4. upTo = before \o batch
  BY <1>1, FullSplit DEF Batch
<1>5. all = upTo \o after
  BY <1>1, FullSplit
<1>6. n = Len(file) => all = upTo
  OBVIOUS
<1>. HIDE DEF all, before, upTo, after, batch
<1>7. /\ Len(batch) \in Nat /\ Len(after) \in Nat
      /\ Len(upTo) = Len(rows) + Len(batch)
      /\ Len(all) = Len(rows) + Len(batch) + Len(after)
  BY <1>1, <1>2, <1>3, <1>4, <1>5, LenProperties, ConcatProperties
<1>8. ASSUME NEW k \in 1..Len(batch) PROVE all[Len(rows) + k] = batch[k]
  <2>1. /\ Len(rows) + k \in 1..Len(before) + Len(batch)
        /\ Len(rows) + k \in 1..Len(upTo) + Len(after)
        /\ Len(rows) + k <= Len(upTo) /\ ~(Len(rows) + k <= Len(before))
        /\ (Len(rows) + k) - Len(before) = k
    BY <1>1, <1>7
  <2>2. all[Len(rows) + k] = upTo[Len(rows) + k]
    BY <1>2, <1>3, <1>5, <2>1, ConcatProperties
  <2>3. upTo[Len(rows) + k] = batch[(Len(rows) + k) - Len(before)]
    BY <1>2, <1>3, <1>4, <2>1, ConcatProperties
  <2>. QED
    BY <2>1, <2>2, <2>3
<1>9. ASSUME Len(batch) <= Target, Len(rows) <= Len(Wanted)
      PROVE  /\ Len(rows) + Len(batch) <= Len(Wanted)
             /\ \A k \in 1..Len(batch) : Wanted[Len(rows) + k] = batch[k]
  <2>1. /\ Len(Wanted) \in Nat /\ \A k \in 1..Len(Wanted) : Wanted[k] = all[k]
        /\ limit = NoLimit => Len(Wanted) = Len(all)
        /\ limit # NoLimit => /\ Len(Wanted) <= limit
                              /\ limit <= Len(all) => Len(Wanted) = limit
        /\ limit # NoLimit /\ limit > Len(all) => Len(Wanted) = Len(all)
    BY WantedLines, LenProperties DEF all, Wanted
  <2>2. limit # NoLimit => limit \in Nat /\ Len(batch) <= limit - Len(rows)
    <3>. SUFFICES ASSUME limit # NoLimit PROVE limit \in Nat /\ Len(batch) <= limit - Len(rows)
      OBVIOUS
    <3>1. limit \in Nat /\ Remaining = limit - Len(rows)
      BY DEF ScanType, Remaining
    <3>2. Target <= Remaining /\ Target \in Int /\ Remaining \in Int
      BY <1>1, <3>1, BoundsAssumption DEF Target
    <3>. QED
      BY <1>7, <1>9, <3>1, <3>2
  <2>3. Len(rows) + Len(batch) <= Len(Wanted)
    BY <1>1, <1>7, <2>1, <2>2
  <2>4. \A k \in 1..Len(batch) : Len(rows) + k \in 1..Len(Wanted)
    BY <1>1, <1>7, <2>1, <2>3
  <2>. QED
    BY <1>8, <2>1, <2>3, <2>4
<1>10. Len(rows) + Len(batch) <= Len(all) /\ (n = Len(file) => Len(rows) + Len(batch) = Len(all))
  BY <1>1, <1>6, <1>7
<1>. QED
  BY <1>1, <1>3, <1>7, <1>9, <1>10 DEF all, upTo, batch

\* A batch is no longer than it may be.
LEMMA BatchFits ==
  ASSUME ScanType, Progress, pc = "scanning", Remaining > 0,
         NEW n \in position..Len(file), StopsAt(n),
         NEW i \in position..n
  PROVE  Len(Batch(i)) <= Target
<1>1. /\ file \in Seq(Line) /\ Len(file) \in Nat /\ position \in 0..Len(file)
      /\ position + 1 \in Nat \ {0} /\ i \in 0..Len(file) /\ i \in position..Len(file)
  BY LenProperties DEF ScanType
<1>2. Target \in Int /\ Target > 0
  <2>1. Len(rows) \in Nat
    BY LenProperties DEF ScanType
  <2>. QED
    BY <2>1, BoundsAssumption DEF Target, Remaining, ScanType
<1>3. Len(Batch(i)) \in Nat
  BY <1>1, FullType, LenProperties DEF Batch
<1>4. CASE i < n
  <2>1. i \in position..n - 1
    BY <1>1, <1>4
  <2>. QED
    BY <1>2, <1>3, <2>1 DEF StopsAt
<1>5. CASE i = position
  <2>1. Batch(i) = <<>>
    BY <1>1, <1>5, FullNext DEF Batch
  <2>. QED
    BY <1>2, <2>1
<1>6. CASE i = n /\ i # position
  <2>1. i - 1 \in position..n - 1 /\ i - 1 \in 0..Len(file) /\ ~(i < position + 1)
    BY <1>1, <1>6
  <2>2. Len(Batch(i - 1)) < Target
    BY <2>1 DEF StopsAt
  <2>3. Batch(i) = IF file[i] = <<>> THEN Batch(i - 1) ELSE Append(Batch(i - 1), file[i])
    BY <1>1, <2>1, FullNext DEF Batch
  <2>4. Batch(i - 1) \in Seq(Line) /\ file[i] \in Line
    BY <1>1, <2>1, FullType, ElementOfSeq DEF Batch
  <2>5. Len(Batch(i)) <= Len(Batch(i - 1)) + 1 /\ Len(Batch(i - 1)) \in Nat
    BY <2>3, <2>4, AppendProperties, LenProperties
  <2>. QED
    BY <1>2, <1>3, <2>2, <2>5
<1>. QED
  BY <1>1, <1>4, <1>5, <1>6

\* The state a scan is in when it reads on.
Reading == pc = "scanning" /\ ~done /\ Remaining > 0

\* The batch that is read is asked for: nothing of it is beyond the limit.
LEMMA BatchWanted ==
  ASSUME ScanInv, Reading, NEW n \in position..Len(file), StopsAt(n),
         NEW i \in position..n
  PROVE  /\ Len(rows) + Len(Batch(i)) <= Len(Wanted)
         /\ \A k \in 1..Len(Batch(i)) : Wanted[Len(rows) + k] = Batch(i)[k]
<1>1. i \in position..Len(file)
  BY LenProperties DEF ScanInv, ScanType
<1>2. ScanType /\ Progress /\ Len(rows) <= Len(Wanted) /\ pc = "scanning" /\ Remaining > 0
  BY DEF ScanInv, ScanIsExact, Reading
<1>3. Len(Batch(i)) <= Target
  BY <1>2, BatchFits
<1>. QED
  BY <1>1, <1>2, <1>3, BatchIsNext

\* A scan that reads past the end of the file without another line has yielded all.
LEMMA EndIsEnd ==
  ASSUME ScanInv, Reading, NEW n \in position..Len(file), StopsAt(n), Len(Batch(n)) < Target
  PROVE  Len(rows) + Len(Batch(n)) = Len(Wanted)
<1>1. n = Len(file)
  <2>1. Target \in Int /\ Len(Batch(n)) \in Nat
    <3>1. Len(rows) \in Nat /\ ScanType /\ Progress /\ pc = "scanning"
      BY LenProperties DEF ScanType, ScanInv, Reading
    <3>. QED
      BY <3>1, BoundsAssumption, BatchIsNext DEF Target, Remaining, ScanType
  <2>. QED
    BY <2>1 DEF StopsAt
<1>2. n \in position..n
  BY LenProperties DEF ScanInv, ScanType
<1>3. ScanType /\ Progress /\ pc = "scanning"
  BY DEF ScanInv, Reading
<1>4. Len(rows) + Len(Batch(n)) <= Len(Wanted)
  BY <1>2, BatchWanted
<1>5. /\ Len(Wanted) <= Len(FullLines(file, 1, Len(file)))
      /\ Len(rows) + Len(Batch(n)) = Len(FullLines(file, 1, Len(file)))
      /\ Len(Wanted) \in Nat /\ Len(rows) + Len(Batch(n)) \in Nat
  BY <1>1, <1>3, WantedLines, BatchIsNext, LenProperties
<1>. QED
  BY <1>4, <1>5

\* What a scan is asked for, and which lines are good, is settled when it begins.
LEMMA SettledBy ==
  ASSUME UNCHANGED <<file, layout, projection, limit>>
  PROVE  /\ Wanted' = Wanted /\ Cells' = Cells
         /\ \A line : Good(line)' = Good(line) /\ RowOf(line)' = RowOf(line)
BY DEF Wanted, Cells, Good, RowOf

LEMMA ScanInit == Init => ScanInv
<1>. SUFFICES ASSUME Init PROVE ScanInv
  OBVIOUS
<1>1. file \in Seq(Line) /\ Len(file) \in Nat
  BY FilesAssumption, LenProperties DEF Init, Line
<1>2. <<>> \in Seq(Fields) /\ <<>> \in Seq(Nat) /\ <<>> \in Seq(Cells) /\ Len(<<>>) = 0
  BY EmptySeq
<1>3. ScanType
  BY <1>1, <1>2 DEF Init, ScanType
<1>4. Len(Wanted) \in Nat
  BY <1>3, WantedLines, LenProperties
<1>. QED
  BY <1>2, <1>3, <1>4 DEF Init, ScanInv, Progress, ScanIsExact, FailsForCause

\* The lines a scan that begins is asked for are a number of lines.
LEMMA WantedPrimed == ScanType' => Len(Wanted') \in Nat
<1>. SUFFICES ASSUME ScanType' PROVE Len(Wanted') \in Nat
  OBVIOUS
<1>. DEFINE all == FullLines(file', 1, Len(file'))
<1>1. all \in Seq(Line) /\ Len(all) \in Nat
  <2>1. Len(file') \in 0..Len(file') /\ 1 \in Nat \ {0} /\ file' \in Seq(Line)
    BY LenProperties DEF ScanType
  <2>. QED
    BY <2>1, FullType, LenProperties
<1>2. Wanted' = IF limit' = NoLimit \/ limit' >= Len(all) THEN all ELSE SubSeq(all, 1, limit')
  BY DEF Wanted
<1>. HIDE DEF all
<1>3. CASE limit' = NoLimit \/ limit' >= Len(all)
  BY <1>1, <1>2, <1>3
<1>4. CASE ~(limit' = NoLimit \/ limit' >= Len(all))
  <2>1. limit' \in Nat /\ Wanted' = SubSeq(all, 1, limit')
    BY <1>2, <1>4 DEF ScanType
  <2>2. 1 \in 1..Len(all) + 1 /\ limit' \in 0..Len(all) /\ \A k \in 1..limit' : k \in 1..Len(all)
    BY <1>1, <1>4, <2>1
  <2>3. SubSeq(all, 1, limit') \in Seq(Line)
    BY <1>1, <2>2
  <2>. QED
    BY <2>1, <2>3, LenProperties
<1>. QED
  BY <1>3, <1>4

\* Before a scan begins there is nothing to get wrong.
LEMMA BeforeScan ==
  ASSUME ScanInv, pc \in {"unregistered", "registered"}, Register \/ Scan \/ OpenFails
  PROVE  ScanInv'
<1>1. /\ position = 0 /\ rows = <<>> /\ done = FALSE /\ outcome = "none" /\ projection = <<>>
      /\ file \in Seq(Line) /\ layout \in Seq(Fields) /\ Len(file) \in Nat
      /\ UNCHANGED <<file, position, rows, done, outcome>>
  <2>1. UNCHANGED <<file, position, rows, done, outcome>>
    BY DEF Register, Scan, OpenFails
  <2>2. ~done /\ done \in BOOLEAN => done = FALSE
    OBVIOUS
  <2>. QED
    BY <2>1, LenProperties DEF ScanInv, ScanType, Progress
<1>2. /\ layout' \in Seq(Fields)
      /\ projection' \in Seq(Nat)
      /\ \A c \in DOMAIN projection' : projection'[c] \in DOMAIN layout'
      /\ limit' \in Nat \cup {NoLimit}
  <2>1. CASE Register
    BY <1>1, <2>1, LayoutsAssumption, EmptySeq DEF Register, ScanInv, ScanType
  <2>2. CASE Scan
    BY <1>1, <2>2, RequestsAssumption DEF Scan
  <2>3. CASE OpenFails
    BY <1>1, <2>3 DEF OpenFails, ScanInv, ScanType
  <2>. QED
    BY <2>1, <2>2, <2>3
<1>3. ScanType'
  <2>1. <<>> \in Seq(Cells')
    BY EmptySeq
  <2>. QED
    BY <1>1, <1>2, <2>1 DEF ScanType
<1>4. Len(Wanted') \in Nat
  BY <1>3, WantedPrimed
<1>5. Progress'
  <2>1. Len(FullLines(file, 1, 0)) = 0 /\ Len(<<>>) = 0
    <3>1. 0 \in 0..Len(file) /\ 1 \in Nat \ {0}
      BY <1>1
    <3>. QED
      BY <1>1, <3>1, FullNext
  <2>. QED
    BY <1>1, <2>1 DEF Progress, Register, Scan, OpenFails, ScanInv
<1>6. ScanIsExact' /\ FailsForCause'
  BY <1>1, <1>4 DEF ScanIsExact, FailsForCause
<1>. QED
  BY <1>3, <1>5, <1>6 DEF ScanInv

\* A stream that ends has yielded all.
LEMMA StreamEndsStep ==
  ASSUME ScanInv, StreamEnds PROVE ScanInv'
<1>1. /\ pc = "scanning" /\ pc' = "ended" /\ outcome' = "end"
      /\ UNCHANGED <<file, layout, projection, limit, position, rows>>
  BY DEF StreamEnds
<1>2. Len(rows) = Len(Wanted)
  <2>1. CASE done
    BY <1>1, <2>1 DEF ScanInv, Progress
  <2>2. CASE Remaining = 0
    <3>1. limit \in Nat /\ limit # NoLimit /\ limit = Len(rows)
      <4>1. Len(rows) \in Nat
        BY LenProperties DEF ScanInv, ScanType
      <4>. QED
        BY <2>2, <4>1, BoundsAssumption DEF Remaining, ScanInv, ScanType
    <3>2. Len(Wanted) <= limit /\ Len(Wanted) \in Nat
      BY <3>1, WantedLines, LenProperties DEF ScanInv
    <3>. QED
      BY <3>1, <3>2 DEF ScanInv, ScanIsExact
  <2>. QED
    BY <2>1, <2>2 DEF StreamEnds
<1>3. Wanted' = Wanted /\ Cells' = Cells /\ \A l : Good(l)' = Good(l) /\ RowOf(l)' = RowOf(l)
  BY <1>1, SettledBy
<1>. QED
  BY <1>1, <1>2, <1>3 DEF ScanInv, ScanType, Progress, ScanIsExact, FailsForCause

\* So has one that comes to the end of the file.
LEMMA FileEndsStep ==
  ASSUME ScanInv, FileEnds PROVE ScanInv'
<1>1. /\ pc = "scanning" /\ pc' = "ended" /\ outcome' = "end" /\ position' = Len(file)
      /\ UNCHANGED <<file, layout, projection, limit, rows>>
      /\ Len(file) \in position..Len(file) /\ Len(file) \in 0..Len(file)
  BY LenProperties DEF FileEnds, StopsAt, ScanInv, ScanType
<1>2. Len(rows) = Len(Wanted)
  <2>1. Reading /\ StopsAt(Len(file)) /\ Len(Batch(Len(file))) = 0 /\ Len(rows) \in Nat
    BY EmptySeq, LenProperties DEF FileEnds, Reading, ScanInv, ScanType
  <2>2. Len(Batch(Len(file))) < Target
    BY <2>1, BoundsAssumption DEF Target, Remaining, ScanInv, ScanType, Reading
  <2>3. Len(rows) + Len(Batch(Len(file))) = Len(Wanted)
    BY <1>1, <2>1, <2>2, EndIsEnd
  <2>. QED
    BY <2>1, <2>3
<1>3. Wanted' = Wanted /\ Cells' = Cells /\ \A l : Good(l)' = Good(l) /\ RowOf(l)' = RowOf(l)
  BY <1>1, SettledBy
<1>. QED
  BY <1>1, <1>2, <1>3 DEF ScanInv, ScanType, Progress, ScanIsExact, FailsForCause

\* A line that cannot be read is one the scan was asked for.
LEMMA ReadFailsStep ==
  ASSUME ScanInv, ReadFails PROVE ScanInv'
<1>1. /\ pc = "scanning" /\ pc' = "ended" /\ outcome' = "error" /\ Reading
      /\ UNCHANGED <<file, layout, projection, limit, rows>>
  BY DEF ReadFails, Reading
<1>2. PICK n \in position..Len(file) : \E i \in position + 1..n :
         StopsAt(n) /\ file[i] = Unreadable /\ position' = i
  BY DEF ReadFails
<1>3. PICK i \in position + 1..n : StopsAt(n) /\ file[i] = Unreadable /\ position' = i
  BY <1>2
<1>4. /\ file \in Seq(Line) /\ Len(file) \in Nat /\ position \in 0..Len(file)
      /\ i \in position..n /\ i \in 0..Len(file) /\ i - 1 \in 0..Len(file)
      /\ position + 1 \in Nat \ {0} /\ ~(i < position + 1)
  BY LenProperties DEF ScanInv, ScanType
<1>5. Batch(i) = Append(Batch(i - 1), Unreadable)
  BY <1>3, <1>4, FullNext, UnreadableAssumption DEF Batch
<1>6. Batch(i - 1) \in Seq(Line) /\ Unreadable \in Line
  BY <1>4, FullType DEF Batch, Line
<1>7. Len(Batch(i)) \in Nat \ {0} /\ Batch(i)[Len(Batch(i))] = Unreadable
  BY <1>5, <1>6, AppendProperties, LenProperties
<1>8. /\ Len(rows) + Len(Batch(i)) <= Len(Wanted)
      /\ \A k \in 1..Len(Batch(i)) : Wanted[Len(rows) + k] = Batch(i)[k]
  BY <1>1, <1>3, <1>4, BatchWanted
<1>9. \E k \in DOMAIN Wanted : ~Good(Wanted[k])
  <2>1. Len(rows) \in Nat /\ Wanted \in Seq(Line)
    BY WantedLines, LenProperties DEF ScanInv, ScanType
  <2>2. Len(Batch(i)) \in 1..Len(Batch(i))
    BY <1>7
  <2>3. Len(rows) + Len(Batch(i)) \in DOMAIN Wanted
    BY <1>7, <1>8, <2>1
  <2>4. Wanted[Len(rows) + Len(Batch(i))] = Unreadable
    BY <1>7, <1>8, <2>2
  <2>. QED
    BY <2>3, <2>4 DEF Good
<1>10. Wanted' = Wanted /\ Cells' = Cells /\ \A l : Good(l)' = Good(l) /\ RowOf(l)' = RowOf(l)
  BY <1>1, SettledBy
<1>. QED
  BY <1>1, <1>3, <1>4, <1>9, <1>10
     DEF ScanInv, ScanType, Progress, ScanIsExact, FailsForCause

\* A batch becomes the rows of the lines that follow, or fails for one of them.
LEMMA NextBatchStep ==
  ASSUME ScanInv, NextBatch PROVE ScanInv'
<1>1. /\ pc = "scanning" /\ Reading
      /\ UNCHANGED <<file, layout, projection, limit>>
  BY DEF NextBatch, Reading
<1>2. PICK n \in position..Len(file) :
        LET lines == Batch(n)
            built == BuildBatch(lines)
        IN /\ StopsAt(n) /\ lines # <<>>
           /\ \A i \in position + 1..n : file[i] # Unreadable
           /\ position' = n
           /\ IF built = "ok"
              THEN /\ rows' = rows \o RowsOf(lines)
                   /\ done' = ReadsPastEnd(n)
                   /\ UNCHANGED <<pc, outcome>>
              ELSE /\ pc' = "ended" /\ outcome' = built /\ done' = TRUE
                   /\ UNCHANGED rows
  BY DEF NextBatch
<1>. DEFINE lines == Batch(n)
            built == BuildBatch(lines)
<1>3. /\ file \in Seq(Line) /\ Len(file) \in Nat /\ position \in 0..Len(file)
      /\ n \in 0..Len(file) /\ position + 1 \in Nat \ {0} /\ n \in position..n
      /\ rows \in Seq(Cells) /\ Len(rows) \in Nat
      /\ layout \in Seq(Fields) /\ projection \in Seq(Nat)
      /\ ScanType /\ Progress /\ Len(rows) <= Len(Wanted)
  BY LenProperties DEF ScanInv, ScanType, ScanIsExact
<1>4. /\ lines \in Seq(Line) /\ Len(lines) \in Nat /\ lines # <<>>
      /\ \A k \in DOMAIN lines : lines[k] # Unreadable
  <2>1. lines \in Seq(Line) /\ \A k \in 1..Len(lines) : \E i \in position + 1..n : lines[k] = file[i]
    BY <1>3, FullType DEF Batch
  <2>2. DOMAIN lines = 1..Len(lines) /\ Len(lines) \in Nat
    BY <2>1, LenProperties
  <2>. QED
    BY <1>2, <2>1, <2>2
<1>5. /\ Len(rows) + Len(lines) <= Len(Wanted)
      /\ \A k \in 1..Len(lines) : Wanted[Len(rows) + k] = lines[k]
  BY <1>1, <1>2, <1>3, BatchWanted
<1>6. Len(FullLines(file, 1, n)) = Len(rows) + Len(lines)
  BY <1>1, <1>3, BatchIsNext
<1>7. Len(lines) < Target => Len(rows) + Len(lines) = Len(Wanted)
  BY <1>1, <1>2, EndIsEnd
<1>8. Wanted \in Seq(Line) /\ Len(Wanted) \in Nat /\ DOMAIN Wanted = 1..Len(Wanted)
  BY <1>3, WantedLines, LenProperties
<1>9. /\ built \in {"ok", "error", "panic"}
      /\ built = "ok" => \A k \in DOMAIN lines : Good(lines[k])
      /\ built # "ok" /\ projection # <<>> => \E k \in DOMAIN lines : ~Good(lines[k])
      /\ built = "panic" => \E c \in DOMAIN projection : ~Fits(layout[projection[c]])
  <2>1. \A c \in DOMAIN projection : layout[projection[c]] \in Fields
    BY <1>3 DEF ScanType
  <2>. QED
    BY <1>3, <1>4, <2>1, BatchCause
<1>10. Wanted' = Wanted /\ Cells' = Cells /\ \A l : Good(l)' = Good(l) /\ RowOf(l)' = RowOf(l)
  BY <1>1, SettledBy
<1>11. CASE built = "ok"
  <2>1. /\ rows' = rows \o RowsOf(lines) /\ done' = (Len(lines) < Target)
        /\ pc' = pc /\ outcome' = outcome /\ position' = n
    BY <1>2, <1>11 DEF ReadsPastEnd
  <2>2. /\ RowsOf(lines) \in Seq(Cells) /\ Len(RowsOf(lines)) = Len(lines)
        /\ \A k \in 1..Len(lines) : RowsOf(lines)[k] = RowOf(lines[k])
    <3>1. DOMAIN lines = 1..Len(lines) /\ \A k \in 1..Len(lines) : lines[k] \in Line
      BY <1>4, LenProperties, ElementOfSeq
    <3>2. RowsOf(lines) = [k \in 1..Len(lines) |-> RowOf(lines[k])]
      BY <3>1 DEF RowsOf
    <3>3. \A k \in 1..Len(lines) : RowOf(lines[k]) \in Cells
      BY <3>1 DEF Cells
    <3>4. RowsOf(lines) \in [1..Len(lines) -> Cells]
      BY <3>2, <3>3
    <3>. QED
      BY <1>4, <3>2, <3>4
  <2>3. /\ rows' \in Seq(Cells) /\ Len(rows') = Len(rows) + Len(lines)
        /\ DOMAIN rows' = 1..Len(rows) + Len(lines)
        /\ \A k \in 1..Len(rows) + Len(lines) :
             rows'[k] = IF k <= Len(rows) THEN rows[k] ELSE RowsOf(lines)[k - Len(rows)]
    <3>1. rows' \in Seq(Cells) /\ Len(rows') = Len(rows) + Len(lines)
      <4>. DEFINE more == RowsOf(lines)
      <4>1. rows' = rows \o more /\ more \in Seq(Cells) /\ Len(more) = Len(lines)
        BY <2>1, <2>2
      <4>. HIDE DEF more
      <4>2. rows \in Seq(Cells)
        BY <1>3
      <4>3. rows \o more \in Seq(Cells) /\ Len(rows \o more) = Len(rows) + Len(more)
        BY <4>1, <4>2, ConcatProperties
      <4>. QED
        BY <4>1, <4>3
    <3>2. DOMAIN rows' = 1..Len(rows')
      BY <3>1, LenProperties
    <3>. QED
      BY <1>3, <2>1, <2>2, <3>1, <3>2, ConcatProperties
  <2>4. ASSUME NEW k \in DOMAIN rows'
        PROVE  Good(Wanted[k]) /\ rows'[k] = RowOf(Wanted[k])
    <3>1. CASE k <= Len(rows)
      <4>1. k \in DOMAIN rows
        BY <1>3, <2>3, <3>1
      <4>. QED
        BY <2>3, <3>1, <4>1 DEF ScanInv, ScanIsExact
    <3>2. CASE ~(k <= Len(rows))
      <4>1. /\ k - Len(rows) \in 1..Len(lines) /\ k - Len(rows) \in DOMAIN lines
            /\ Len(rows) + (k - Len(rows)) = k
        BY <1>3, <1>4, <2>3, <3>2
      <4>2. Wanted[k] = lines[k - Len(rows)]
        BY <1>5, <4>1
      <4>. QED
        BY <1>9, <1>11, <2>2, <2>3, <3>2, <4>1, <4>2
    <3>. QED
      BY <3>1, <3>2
  <2>5. ScanType'
    BY <1>1, <1>3, <1>10, <2>1, <2>3 DEF ScanType
  <2>6. Progress'
    BY <1>1, <1>6, <1>7, <1>10, <2>1, <2>3 DEF Progress, ScanInv
  <2>7. ScanIsExact'
    BY <1>1, <1>5, <1>10, <2>1, <2>3, <2>4 DEF ScanIsExact, ScanInv, Progress
  <2>8. FailsForCause'
    BY <1>1, <1>10, <2>1 DEF FailsForCause, ScanInv, Progress
  <2>. QED
    BY <2>5, <2>6, <2>7, <2>8 DEF ScanInv
<1>12. CASE built # "ok"
  <2>1. /\ pc' = "ended" /\ outcome' = built /\ rows' = rows /\ position' = n
        /\ built \in {"error", "panic"}
    BY <1>2, <1>9, <1>12
  <2>2. projection # <<>> => \E k \in DOMAIN Wanted : ~Good(Wanted[k])
    <3>. SUFFICES ASSUME projection # <<>> PROVE \E k \in DOMAIN Wanted : ~Good(Wanted[k])
      OBVIOUS
    <3>1. PICK k \in DOMAIN lines : ~Good(lines[k])
      BY <1>9, <1>12
    <3>2. k \in 1..Len(lines) /\ Len(rows) + k \in DOMAIN Wanted
      BY <1>3, <1>4, <1>5, <1>8
    <3>. QED
      BY <1>5, <3>1, <3>2
  <2>3. ScanType' /\ Progress'
    BY <1>1, <1>3, <1>10, <2>1 DEF ScanType, Progress
  <2>4. ScanIsExact'
    BY <1>1, <1>10, <2>1 DEF ScanIsExact, ScanInv
  <2>5. FailsForCause'
    BY <1>1, <1>9, <1>10, <2>1, <2>2 DEF FailsForCause
  <2>. QED
    BY <2>3, <2>4, <2>5 DEF ScanInv
<1>. QED
  BY <1>11, <1>12

LEMMA ScanStep == ScanInv /\ [Next]_vars => ScanInv'
<1>. SUFFICES ASSUME ScanInv, [Next]_vars PROVE ScanInv'
  OBVIOUS
<1>1. CASE Register \/ Scan \/ OpenFails
  BY <1>1, BeforeScan DEF Register, Scan, OpenFails
<1>2. CASE StreamEnds \/ FileEnds \/ ReadFails \/ NextBatch
  BY <1>2, StreamEndsStep, FileEndsStep, ReadFailsStep, NextBatchStep
<1>3. CASE UNCHANGED vars
  <2>1. /\ UNCHANGED <<file, layout, projection, limit>>
        /\ UNCHANGED <<pc, position, rows, done, outcome>>
    BY <1>3 DEF vars
  <2>2. Wanted' = Wanted /\ Cells' = Cells /\ \A l : Good(l)' = Good(l) /\ RowOf(l)' = RowOf(l)
    BY <2>1, SettledBy
  <2>. QED
    BY <2>1, <2>2 DEF ScanInv, ScanType, Progress, ScanIsExact, FailsForCause
<1>. QED
  BY <1>1, <1>2, <1>3 DEF Next

LEMMA ScanAlways == Spec => []ScanInv
BY ScanInit, ScanStep, PTL DEF Spec

\* Whatever the file, the layout, the columns, the limit and the size of a batch,
\* what a scan has yielded is a prefix of the lines it was asked for, and all of
\* them when it ends without an error.
THEOREM ScanIsAlwaysExact == Spec => []ScanIsExact
<1>1. ScanInv => ScanIsExact
  BY DEF ScanInv
<1>. QED
  BY <1>1, ScanAlways, PTL

\* A scan only ever fails for a line it was asked for, and only panics where an
\* offset overflows.
THEOREM FailsForCauseAlways == Spec => []FailsForCause
<1>1. ScanInv => FailsForCause
  BY DEF ScanInv
<1>. QED
  BY <1>1, ScanAlways, PTL
=============================================================================
