------------------------- MODULE DaemonClientProofs -------------------------
(***************************************************************************)
(* The framing of the JSON-RPC client, for any number of daemons and       *)
(* requests and bodies of any length: what a daemon has written, is        *)
(* writing and what the client holds of it is a sequence of whole frames,  *)
(* until a daemon is cut off or the bytes of two daemons meet.             *)
(***************************************************************************)
EXTENDS DaemonClient, SequenceTheorems, WellFoundedInduction, TLAPS

-----------------------------------------------------------------------------
(* Sequences of frames.                                                    *)

USE DEF HeaderSize

\* The last unit of a frame.
Ends(u) == u.part = HeaderSize + u.length

\* A unit of a frame is followed by the next, and the last one by another header.
Follows(u, v) ==
  IF Ends(u) THEN v.part = 1
  ELSE v = [id |-> u.id, part |-> u.part + 1, length |-> u.length]

\* A sequence of units begins with a frame and goes on with frames.
Chained(s) ==
  /\ s # << >> => s[1].part = 1
  /\ \A i \in 1..Len(s) - 1 : Follows(s[i], s[i + 1])

\* A sequence of units ends with the end of a frame.
Whole(s) == s # << >> => Ends(s[Len(s)])

Framed(s) == Chained(s) /\ Whole(s)

-----------------------------------------------------------------------------
(* The invariant.                                                          *)

\* What the client holds of a process's output.
Held(p) == IF buffer # << >> /\ sentTo[buffer[1].id] = p THEN buffer ELSE << >>

\* The bytes of a process that were not yet taken off as frames.
Stream(p) == Held(p) \o (pipe[p] \o writing[p])

ClientType ==
  /\ process \in Procs \cup {NoProcess} /\ started \in 0..MaxStarts
  /\ stdin \in [Procs -> Seq(Ids)]
  /\ inbox \in [Procs -> SUBSET Ids]
  /\ writing \in [Procs -> Seq(Unit)]
  /\ pipe \in [Procs -> Seq(Unit)]
  /\ buffer \in Seq(Unit)
  /\ requests \in 0..MaxRequests
  /\ sentTo \in [Ids -> Procs \cup {NoProcess}]
  /\ cut \in BOOLEAN

\* A response to request i may only come from the process it was sent to.
SentTo(i, p) == i \in 1..requests /\ sentTo[i] = p

\* Every process works at requests that were sent to it.
Owned ==
  /\ \A i \in 1..requests : sentTo[i] \in Procs
  /\ \A p \in Procs :
       /\ \A k \in DOMAIN stdin[p] : SentTo(stdin[p][k], p)
       /\ \A i \in inbox[p] : SentTo(i, p)
       /\ \A k \in DOMAIN writing[p] : SentTo(writing[p][k].id, p)
       /\ \A k \in DOMAIN pipe[p] : SentTo(pipe[p][k].id, p)
  /\ \A k \in DOMAIN buffer : buffer[k].id \in 1..requests

\* While no daemon was cut off, every response was understood, the client holds
\* no frame it has not taken off, and every process's output consists of frames.
Kept ==
  /\ ClientType
  /\ Owned
  /\ lost = {}
  /\ FrameEnd(buffer) = 0
  /\ \A p \in Procs : Framed(Stream(p))

FramingInv == ~cut => Kept

-----------------------------------------------------------------------------
(* What keeps a sequence of frames one.                                    *)

\* The fields of a unit are numbers.
LEMMA UnitFields ==
  ASSUME NEW u \in Unit
  PROVE  /\ u.id \in Ids /\ u.part \in Nat \ {0} /\ u.length \in Nat \ {0}
         /\ u.length \in 1..MaxBody
         /\ u = [id |-> u.id, part |-> u.part, length |-> u.length]
BY BoundsAssumption DEF Unit

\* The units of a concatenation.
LEMMA ConcatUnits ==
  ASSUME NEW s \in Seq(Unit), NEW t \in Seq(Unit)
  PROVE  /\ s \o t \in Seq(Unit) /\ Len(s) \in Nat /\ Len(t) \in Nat
         /\ Len(s \o t) = Len(s) + Len(t)
         /\ \A i \in 1..Len(s) : (s \o t)[i] = s[i]
         /\ \A i \in 1..Len(t) : (s \o t)[Len(s) + i] = t[i]
         /\ s = << >> <=> Len(s) = 0
         /\ t = << >> <=> Len(t) = 0
         /\ s \o t = << >> <=> Len(s) = 0 /\ Len(t) = 0
<1>1. Len(s) \in Nat /\ Len(t) \in Nat /\ s \o t \in Seq(Unit) /\ Len(s \o t) = Len(s) + Len(t)
  BY ConcatProperties, LenProperties
<1>2. \A i \in 1..Len(s) + Len(t) :
        (s \o t)[i] = IF i <= Len(s) THEN s[i] ELSE t[i - Len(s)]
  BY ConcatProperties
<1>3. \A i \in 1..Len(s) : (s \o t)[i] = s[i]
  BY <1>1, <1>2
<1>4. ASSUME NEW i \in 1..Len(t) PROVE (s \o t)[Len(s) + i] = t[i]
  <2>1. Len(s) + i \in 1..Len(s) + Len(t) /\ ~(Len(s) + i <= Len(s)) /\ (Len(s) + i) - Len(s) = i
    BY <1>1
  <2>. QED
    BY <1>2, <2>1
<1>. QED
  BY <1>1, <1>3, <1>4, EmptySeq

\* Frames followed by frames are frames.
LEMMA FramedConcat ==
  ASSUME NEW s \in Seq(Unit), NEW t \in Seq(Unit), Framed(s), Framed(t)
  PROVE  Framed(s \o t)
<1>. DEFINE st == s \o t
<1>1. /\ Len(s) \in Nat /\ Len(t) \in Nat /\ Len(st) = Len(s) + Len(t)
      /\ \A i \in 1..Len(s) : st[i] = s[i]
      /\ \A i \in 1..Len(t) : st[Len(s) + i] = t[i]
      /\ s = << >> <=> Len(s) = 0
      /\ t = << >> <=> Len(t) = 0
      /\ st = << >> <=> Len(s) = 0 /\ Len(t) = 0
  BY ConcatUnits
<1>. HIDE DEF st
<1>2. ASSUME NEW i \in 1..Len(st) - 1
      PROVE  Follows(st[i], st[i + 1])
  <2>1. CASE i < Len(s)
    <3>1. i \in 1..Len(s) - 1 /\ i \in 1..Len(s) /\ i + 1 \in 1..Len(s)
      BY <1>1, <2>1
    <3>2. st[i] = s[i] /\ st[i + 1] = s[i + 1]
      BY <1>1, <3>1
    <3>. QED
      BY <3>1, <3>2 DEF Framed, Chained
  <2>2. CASE i = Len(s)
    <3>1. /\ i \in 1..Len(s) /\ 1 \in 1..Len(t) /\ s # << >> /\ t # << >> /\ i + 1 = Len(s) + 1
      BY <1>1, <2>2
    <3>2. st[i] = s[i] /\ st[i + 1] = t[1]
      BY <1>1, <3>1
    <3>3. Ends(s[i]) /\ t[1].part = 1
      BY <2>2, <3>1 DEF Framed, Chained, Whole
    <3>. QED
      BY <3>2, <3>3 DEF Follows
  <2>3. CASE i > Len(s)
    <3>. DEFINE j == i - Len(s)
    <3>1. /\ j \in 1..Len(t) - 1 /\ j \in 1..Len(t) /\ j + 1 \in 1..Len(t)
          /\ i = Len(s) + j /\ i + 1 = Len(s) + (j + 1)
      BY <1>1, <2>3
    <3>. HIDE DEF j
    <3>2. st[i] = t[j] /\ st[i + 1] = t[j + 1]
      BY <1>1, <3>1
    <3>. QED
      BY <3>1, <3>2 DEF Framed, Chained
  <2>. QED
    BY <1>1, <2>1, <2>2, <2>3
<1>3. st # << >> => st[1].part = 1
  <2>1. CASE Len(s) > 0
    <3>1. 1 \in 1..Len(s) /\ s # << >>
      BY <1>1, <2>1
    <3>. QED
      BY <1>1, <3>1 DEF Framed, Chained
  <2>2. CASE Len(s) = 0 /\ Len(t) > 0
    <3>1. 1 \in 1..Len(t) /\ t # << >> /\ Len(s) + 1 = 1
      BY <1>1, <2>2
    <3>2. st[1] = t[1]
      BY <1>1, <3>1
    <3>. QED
      BY <3>1, <3>2 DEF Framed, Chained
  <2>. QED
    BY <1>1, <2>1, <2>2
<1>4. st # << >> => Ends(st[Len(st)])
  <2>1. CASE Len(t) > 0
    <3>1. Len(t) \in 1..Len(t) /\ t # << >>
      BY <1>1, <2>1
    <3>2. st[Len(st)] = t[Len(t)]
      BY <1>1, <3>1
    <3>. QED
      BY <3>1, <3>2 DEF Framed, Whole
  <2>2. CASE Len(t) = 0 /\ Len(s) > 0
    <3>1. Len(s) \in 1..Len(s) /\ s # << >> /\ Len(st) = Len(s)
      BY <1>1, <2>2
    <3>2. st[Len(st)] = s[Len(s)]
      BY <1>1, <3>1
    <3>. QED
      BY <3>1, <3>2 DEF Framed, Whole
  <2>. QED
    BY <1>1, <2>1, <2>2
<1>. QED
  BY <1>2, <1>3, <1>4 DEF Framed, Chained, Whole, st

\* What frames begin with are parts of frames, and frames if what follows begins
\* with a header.
LEMMA FramedPrefix ==
  ASSUME NEW s \in Seq(Unit), NEW t \in Seq(Unit), Framed(s \o t)
  PROVE  Chained(s) /\ ((t # << >> => t[1].part = 1) => Whole(s))
<1>. DEFINE st == s \o t
<1>1. /\ Len(s) \in Nat /\ Len(t) \in Nat /\ Len(st) = Len(s) + Len(t)
      /\ \A i \in 1..Len(s) : st[i] = s[i]
      /\ \A i \in 1..Len(t) : st[Len(s) + i] = t[i]
      /\ s = << >> <=> Len(s) = 0
      /\ t = << >> <=> Len(t) = 0
      /\ st = << >> <=> Len(s) = 0 /\ Len(t) = 0
      /\ Framed(st)
  BY ConcatUnits
<1>. HIDE DEF st
<1>2. ASSUME NEW i \in 1..Len(s) - 1
      PROVE  Follows(s[i], s[i + 1])
  <2>1. i \in 1..Len(st) - 1 /\ i \in 1..Len(s) /\ i + 1 \in 1..Len(s)
    BY <1>1
  <2>2. st[i] = s[i] /\ st[i + 1] = s[i + 1]
    BY <1>1, <2>1
  <2>. QED
    BY <1>1, <2>1, <2>2 DEF Framed, Chained
<1>3. s # << >> => s[1].part = 1
  <2>. SUFFICES ASSUME s # << >> PROVE s[1].part = 1
    OBVIOUS
  <2>1. 1 \in 1..Len(s) /\ st # << >>
    BY <1>1
  <2>. QED
    BY <1>1, <2>1 DEF Framed, Chained
<1>4. ASSUME t # << >> => t[1].part = 1, s # << >>
      PROVE  Ends(s[Len(s)])
  <2>1. Len(s) \in 1..Len(s) /\ st # << >> /\ s[Len(s)] = st[Len(s)] /\ s[Len(s)] \in Unit
    BY <1>1, <1>4, ElementOfSeq
  <2>2. CASE t = << >>
    <3>1. Len(st) = Len(s)
      BY <1>1, <2>2
    <3>. QED
      BY <1>1, <2>1, <3>1 DEF Framed, Whole
  <2>3. CASE t # << >>
    <3>1. 1 \in 1..Len(t) /\ Len(s) \in 1..Len(st) - 1
      BY <1>1, <2>1, <2>3
    <3>2. Follows(st[Len(s)], st[Len(s) + 1])
      BY <1>1, <3>1 DEF Framed, Chained
    <3>3. Follows(s[Len(s)], t[1]) /\ t[1].part = 1
      BY <1>1, <1>4, <2>1, <2>3, <3>1, <3>2
    <3>4. s[Len(s)].part \in Nat \ {0}
      BY <2>1, UnitFields
    <3>. QED
      BY <3>3, <3>4 DEF Follows
  <2>. QED
    BY <2>2, <2>3
<1>. QED
  BY <1>2, <1>3, <1>4 DEF Chained, Whole

\* What is left of frames once whole frames have been taken off are frames.
LEMMA FramedSuffix ==
  ASSUME NEW s \in Seq(Unit), NEW t \in Seq(Unit), Framed(s \o t), Whole(s)
  PROVE  Framed(t)
<1>. DEFINE st == s \o t
<1>1. /\ Len(s) \in Nat /\ Len(t) \in Nat /\ Len(st) = Len(s) + Len(t)
      /\ \A i \in 1..Len(s) : st[i] = s[i]
      /\ \A i \in 1..Len(t) : st[Len(s) + i] = t[i]
      /\ s = << >> <=> Len(s) = 0
      /\ t = << >> <=> Len(t) = 0
      /\ st = << >> <=> Len(s) = 0 /\ Len(t) = 0
      /\ Framed(st)
  BY ConcatUnits
<1>. HIDE DEF st
<1>2. ASSUME NEW i \in 1..Len(t) - 1
      PROVE  Follows(t[i], t[i + 1])
  <2>1. /\ Len(s) + i \in 1..Len(st) - 1 /\ i \in 1..Len(t) /\ i + 1 \in 1..Len(t)
        /\ (Len(s) + i) + 1 = Len(s) + (i + 1)
    BY <1>1
  <2>2. st[Len(s) + i] = t[i] /\ st[(Len(s) + i) + 1] = t[i + 1]
    BY <1>1, <2>1
  <2>. QED
    BY <1>1, <2>1, <2>2 DEF Framed, Chained
<1>3. ASSUME t # << >> PROVE t[1].part = 1
  <2>1. 1 \in 1..Len(t) /\ st # << >> /\ t[1] = st[Len(s) + 1]
    BY <1>1, <1>3
  <2>2. CASE s = << >>
    <3>1. Len(s) + 1 = 1
      BY <1>1, <2>2
    <3>. QED
      BY <1>1, <2>1, <3>1 DEF Framed, Chained
  <2>3. CASE s # << >>
    <3>1. Len(s) \in 1..Len(s) /\ Len(s) \in 1..Len(st) - 1
      BY <1>1, <1>3, <2>3
    <3>2. Ends(st[Len(s)])
      BY <1>1, <2>3, <3>1 DEF Whole
    <3>3. Follows(st[Len(s)], st[Len(s) + 1])
      BY <1>1, <3>1 DEF Framed, Chained
    <3>. QED
      BY <2>1, <3>2, <3>3 DEF Follows
  <2>. QED
    BY <2>2, <2>3
<1>4. ASSUME t # << >> PROVE Ends(t[Len(t)])
  <2>1. Len(t) \in 1..Len(t) /\ st # << >> /\ Len(st) = Len(s) + Len(t)
    BY <1>1, <1>4
  <2>. QED
    BY <1>1, <2>1 DEF Framed, Whole
<1>. QED
  BY <1>2, <1>3, <1>4 DEF Framed, Chained, Whole

-----------------------------------------------------------------------------
(* Induction over the naturals, for what is defined by recursion.          *)

Below == {p \in Nat \X Nat : p[1] < p[2]}

\* A set of naturals that is not empty has a least member.
LEMMA LeastMember ==
  ASSUME NEW S \in SUBSET Nat, S # {}
  PROVE  \E n \in S : \A m \in S : n <= m
<1>1. IsWellFoundedOn(Below, Nat)
  <2>1. OpToRel(<, Nat) = Below
    BY Zenon DEF OpToRel, Below
  <2>. QED
    BY ONLY <2>1, NatLessThanWellFounded, Zenon
<1>2. PICK n \in S : \A m \in S : ~(<<m, n>> \in Below)
  BY <1>1, WFMin
<1>3. ASSUME NEW m \in S, ~(n <= m) PROVE FALSE
  <2>1. <<m, n>> \in Below
    BY <1>3 DEF Below
  <2>. QED
    BY <1>2, <2>1
<1>. QED
  BY <1>3

\* What holds of zero, and of the successor of whatever it holds of, holds of all.
LEMMA Induct ==
  ASSUME NEW S \in SUBSET Nat, 0 \in S, \A n \in S : n + 1 \in S
  PROVE  S = Nat
<1>. SUFFICES ASSUME Nat \ S # {} PROVE FALSE
  OBVIOUS
<1>1. PICK n \in Nat \ S : \A m \in Nat \ S : n <= m
  <2>1. Nat \ S \in SUBSET Nat
    OBVIOUS
  <2>. QED
    BY <2>1, LeastMember
<1>2. n # 0 /\ n - 1 \in Nat
  BY <1>1
<1>3. n - 1 \in S
  BY <1>1, <1>2
<1>. QED
  BY <1>1, <1>2, <1>3

-----------------------------------------------------------------------------
(* processBuffer.                                                          *)

\* From a header on there is a frame, as far as the sequence goes.
LEMMA Run ==
  ASSUME NEW s \in Seq(Unit), Chained(s), NEW i \in 1..Len(s), s[i].part = 1
  PROVE  \A j \in 0..HeaderSize + s[i].length - 1 :
           i + j <= Len(s) =>
             s[i + j] = [id |-> s[i].id, part |-> j + 1, length |-> s[i].length]
<1>. DEFINE P(j) == j < HeaderSize + s[i].length /\ i + j <= Len(s) =>
                      s[i + j] = [id |-> s[i].id, part |-> j + 1, length |-> s[i].length]
            T == {j \in Nat : P(j)}
<1>0. s[i] \in Unit /\ Len(s) \in Nat /\ s[i].length \in Nat /\ i \in Nat
  BY ElementOfSeq, LenProperties, UnitFields
<1>1. 0 \in T
  <2>1. i + 0 = i /\ s[i] = [id |-> s[i].id, part |-> 1, length |-> s[i].length]
    BY <1>0, UnitFields
  <2>. QED
    BY <2>1
<1>2. ASSUME NEW j \in T PROVE j + 1 \in T
  <2>. SUFFICES ASSUME j + 1 < HeaderSize + s[i].length, i + (j + 1) <= Len(s)
                PROVE  s[i + (j + 1)]
                         = [id |-> s[i].id, part |-> (j + 1) + 1, length |-> s[i].length]
    OBVIOUS
  <2>1. /\ j \in Nat /\ j < HeaderSize + s[i].length /\ i + j <= Len(s)
        /\ j + 1 # HeaderSize + s[i].length
        /\ i + j \in 1..Len(s) - 1 /\ (i + j) + 1 = i + (j + 1)
    BY <1>0
  <2>2. s[i + j] = [id |-> s[i].id, part |-> j + 1, length |-> s[i].length]
    BY <2>1
  <2>3. Follows(s[i + j], s[i + (j + 1)])
    BY <2>1 DEF Chained
  <2>. QED
    BY <2>1, <2>2, <2>3 DEF Follows, Ends
<1>3. T = Nat
  <2>. HIDE DEF T
  <2>1. T \in SUBSET Nat
    BY DEF T
  <2>. QED
    BY <1>1, <1>2, <2>1, Induct
<1>4. \A j \in Nat : P(j)
  BY <1>3
<1>. QED
  BY <1>0, <1>4

\* The parts of what is chained: its first units are those of a header.
LEMMA HeaderFirst ==
  ASSUME NEW s \in Seq(Unit), Chained(s), s # << >>
  PROVE  /\ Len(s) \in Nat \ {0} /\ s[1] \in Unit /\ s[1].length \in Nat \ {0}
         /\ s[1].part = 1
         /\ \A j \in 1..HeaderSize + s[1].length :
              j <= Len(s) => s[j] = [id |-> s[1].id, part |-> j, length |-> s[1].length]
         /\ StartsHeader(s) <=> Len(s) >= 2
         /\ HasHeader(s) <=> Len(s) >= HeaderSize
<1>1. /\ Len(s) \in Nat \ {0} /\ 1 \in 1..Len(s) /\ s[1] \in Unit
      /\ s[1].length \in Nat \ {0} /\ s[1].part = 1
  BY LenProperties, EmptySeq, ElementOfSeq, UnitFields DEF Chained
<1>2. \A k \in 0..HeaderSize + s[1].length - 1 :
        1 + k <= Len(s) => s[1 + k] = [id |-> s[1].id, part |-> k + 1, length |-> s[1].length]
  BY <1>1, Run
<1>3. ASSUME NEW j \in 1..HeaderSize + s[1].length, j <= Len(s)
      PROVE  s[j] = [id |-> s[1].id, part |-> j, length |-> s[1].length]
  <2>1. j - 1 \in 0..HeaderSize + s[1].length - 1 /\ 1 + (j - 1) = j /\ (j - 1) + 1 = j
    BY <1>1
  <2>. QED
    BY <1>2, <1>3, <2>1
<1>4. /\ Len(s) >= 2 => s[2].part = 2
      /\ Len(s) >= HeaderSize => s[3].part = 3 /\ s[4].part = 4
  <2>1. {2, 3, 4} \subseteq 1..HeaderSize + s[1].length
    BY <1>1
  <2>2. ASSUME NEW j \in {2, 3, 4}, Len(s) >= j PROVE s[j].part = j
    <3>1. s[j] = [id |-> s[1].id, part |-> j, length |-> s[1].length]
      BY <1>1, <1>3, <2>1, <2>2
    <3>. QED
      BY <3>1
  <2>3. Len(s) >= 4 => Len(s) >= 3
    BY <1>1
  <2>. QED
    BY <2>2, <2>3
<1>. QED
  BY <1>1, <1>3, <1>4 DEF StartsHeader, HasHeader, IsNewline

\* The end of a frame or a line is within the bytes.
LEMMA FrameEndType ==
  ASSUME NEW bytes \in Seq(Unit)
  PROVE  FrameEnd(bytes) \in 0..Len(bytes)
<1>1. Len(bytes) \in Nat /\ (bytes = << >> <=> Len(bytes) = 0) /\ DOMAIN bytes = 1..Len(bytes)
  BY LenProperties, EmptySeq
<1>2. LineEnd(bytes) \in 0..Len(bytes)
  <2>. DEFINE newlines == {i \in DOMAIN bytes : IsNewline(bytes[i])}
  <2>1. newlines \in SUBSET Nat /\ newlines \subseteq 1..Len(bytes)
    BY <1>1
  <2>2. LineEnd(bytes) = IF newlines = {} THEN 0
                         ELSE CHOOSE i \in newlines : \A j \in newlines : i <= j
    BY DEF LineEnd
  <2>. HIDE DEF newlines
  <2>3. newlines # {} => \E i \in newlines : \A j \in newlines : i <= j
    BY <2>1, LeastMember
  <2>4. newlines # {} => (CHOOSE i \in newlines : \A j \in newlines : i <= j) \in newlines
    BY <2>3
  <2>5. CASE newlines = {}
    BY <1>1, <2>2, <2>5
  <2>6. CASE newlines # {}
    <3>1. LineEnd(bytes) \in newlines
      BY <2>2, <2>4, <2>6
    <3>2. LineEnd(bytes) \in 1..Len(bytes)
      BY <2>1, <3>1, Zenon
    <3>. QED
      BY <1>1, <3>2
  <2>. QED
    BY <2>5, <2>6
<1>3. ASSUME HasHeader(bytes)
      PROVE  bytes[2].length \in Nat
  <2>1. 2 \in 1..Len(bytes)
    BY <1>1, <1>3 DEF HasHeader
  <2>. QED
    BY <2>1, ElementOfSeq, UnitFields
<1>. QED
  BY <1>1, <1>2, <1>3 DEF FrameEnd

Left(bytes, m) == SubSeq(bytes, m + 1, Len(bytes))

\* What is left is a part of the bytes.
LEMMA LeftType ==
  ASSUME NEW bytes \in Seq(Unit), NEW m \in 0..Len(bytes)
  PROVE  /\ Left(bytes, m) \in Seq(Unit)
         /\ Len(Left(bytes, m)) = Len(bytes) - m
         /\ \A i \in 1..Len(bytes) - m : Left(bytes, m)[i] = bytes[m + i]
<1>1. Len(bytes) \in Nat /\ m + 1 \in 1..Len(bytes) + 1
  BY LenProperties
<1>2. CASE m = Len(bytes)
  BY <1>1, <1>2, EmptySeq DEF Left
<1>3. CASE m < Len(bytes)
  BY <1>1, <1>3, SubSeqProperties DEF Left
<1>. QED
  BY <1>1, <1>2, <1>3

\* The recursion of ProcessBuffer.
ProcessStep(bytes, g, m) ==
  IF FrameEnd(Left(bytes, m)) = 0 THEN [frames |-> {}, rest |-> Left(bytes, m)]
  ELSE [g[m + FrameEnd(Left(bytes, m))] EXCEPT
          !.frames = @ \cup {SubSeq(Left(bytes, m), 1, FrameEnd(Left(bytes, m)))}]

\* There is a function that obeys it.
LEMMA ProcessExists ==
  ASSUME NEW bytes \in Seq(Unit)
  PROVE  \E g : g = [m \in 0..Len(bytes) |-> ProcessStep(bytes, g, m)]
<1>. DEFINE n == Len(bytes)
            Upper(k) == n - k..n
            T == {k \in Nat : k <= n =>
                    \E g : g = [m \in Upper(k) |-> ProcessStep(bytes, g, m)]}
<1>0. n \in Nat
  BY LenProperties
<1>1. \A m \in 0..n : FrameEnd(Left(bytes, m)) \in 0..n - m
  BY FrameEndType, LeftType
<1>. HIDE DEF n
<1>2. 0 \in T
  <2>. DEFINE g == [m \in Upper(0) |-> [frames |-> {}, rest |-> Left(bytes, m)]]
  <2>1. ASSUME NEW m \in Upper(0)
        PROVE  ProcessStep(bytes, g, m) = [frames |-> {}, rest |-> Left(bytes, m)]
    <3>1. m \in 0..n /\ n - m = 0
      BY <1>0
    <3>2. FrameEnd(Left(bytes, m)) = 0
      BY <1>1, <3>1
    <3>. QED
      BY <3>2 DEF ProcessStep
  <2>2. g = [m \in Upper(0) |-> ProcessStep(bytes, g, m)]
    BY <2>1
  <2>3. \E f : f = [m \in Upper(0) |-> ProcessStep(bytes, f, m)]
    <3>. HIDE DEF g
    <3>. QED
      BY <2>2
  <2>. QED
    BY <2>3
<1>3. ASSUME NEW k \in T PROVE k + 1 \in T
  <2>. SUFFICES ASSUME k + 1 <= n
                PROVE  \E g : g = [m \in Upper(k + 1) |-> ProcessStep(bytes, g, m)]
    OBVIOUS
  <2>1. PICK g : g = [m \in Upper(k) |-> ProcessStep(bytes, g, m)]
    BY <1>0
  <2>. DEFINE h == [m \in Upper(k + 1) |->
                      IF m \in Upper(k) THEN g[m] ELSE ProcessStep(bytes, g, m)]
  <2>2. ASSUME NEW m \in Upper(k + 1) PROVE h[m] = ProcessStep(bytes, h, m)
    <3>. DEFINE end == FrameEnd(Left(bytes, m))
    <3>1. m \in 0..n /\ end \in 0..n - m
      <4>1. m \in 0..n
        BY <1>0
      <4>. QED
        BY <1>1, <4>1
    <3>. HIDE DEF end
    <3>2. end # 0 => m + end \in Upper(k) /\ m + end \in Upper(k + 1)
      BY <1>0, <3>1
    <3>3. end # 0 => h[m + end] = g[m + end]
      BY <3>2
    <3>4. ProcessStep(bytes, h, m) = ProcessStep(bytes, g, m)
      <4>. HIDE DEF h
      <4>. QED
        BY <3>3 DEF ProcessStep, end
    <3>. QED
      BY <2>1, <3>4
  <2>3. h = [m \in Upper(k + 1) |-> ProcessStep(bytes, h, m)]
    BY <2>2
  <2>4. \E f : f = [m \in Upper(k + 1) |-> ProcessStep(bytes, f, m)]
    <3>. HIDE DEF h
    <3>. QED
      BY <2>3
  <2>. QED
    BY <2>4
<1>4. T = Nat
  <2>. HIDE DEF T
  <2>1. T \in SUBSET Nat
    BY DEF T
  <2>. QED
    BY <1>2, <1>3, <2>1, Induct
<1>5. \E g : g = [m \in Upper(n) |-> ProcessStep(bytes, g, m)]
  <2>1. n \in T
    <3>. HIDE DEF T
    <3>. QED
      BY <1>0, <1>4
  <2>2. n <= n
    BY <1>0
  <2>. QED
    BY <2>1, <2>2
<1>6. Upper(n) = 0..Len(bytes)
  BY <1>0 DEF n
<1>. QED
  BY <1>5, <1>6

\* After m units, the client waits for more bytes, or takes a frame off the front.
LEMMA ProcessNext ==
  ASSUME NEW bytes \in Seq(Unit)
  PROVE  \E g : /\ ProcessBuffer(bytes) = g[0]
                /\ \A m \in 0..Len(bytes) : g[m] = ProcessStep(bytes, g, m)
<1>. DEFINE IsG(g) == g = [m \in 0..Len(bytes) |-> ProcessStep(bytes, g, m)]
            after == CHOOSE g : IsG(g)
<1>1. IsG(after)
  BY ProcessExists
<1>2. ProcessBuffer(bytes) = after[0]
  BY DEF ProcessBuffer, ProcessStep, Left
<1>3. \A m \in 0..Len(bytes) : after[m] = ProcessStep(bytes, after, m)
  BY <1>1
<1>. HIDE DEF after
<1>. QED
  BY <1>2, <1>3

\* The bytes end, at m, between two frames.
Between(bytes, m) == m = 0 \/ Ends(bytes[m])

\* Of frames, however they are cut, the client takes off whole frames, and waits
\* for the rest of the last one.
LEMMA ProcessFrames ==
  ASSUME NEW bytes \in Seq(Unit), Chained(bytes)
  PROVE  LET got == ProcessBuffer(bytes)
         IN /\ \A f \in got.frames : ~Garbled(f)
            /\ FrameEnd(got.rest) = 0
            /\ \E m \in 0..Len(bytes) : got.rest = Left(bytes, m) /\ Between(bytes, m)
<1>1. PICK g : /\ ProcessBuffer(bytes) = g[0]
               /\ \A m \in 0..Len(bytes) : g[m] = ProcessStep(bytes, g, m)
  BY ProcessNext
<1>. DEFINE n == Len(bytes)
            Good(m) == /\ g[m].rest \in {Left(bytes, r) : r \in {q \in 0..n : Between(bytes, q)}}
                       /\ FrameEnd(g[m].rest) = 0
                       /\ \A f \in g[m].frames : ~Garbled(f)
                       /\ g[m] = [frames |-> g[m].frames, rest |-> g[m].rest]
            T == {k \in Nat : \A m \in 0..n : n - m <= k /\ Between(bytes, m) => Good(m)}
<1>2. n \in Nat
  BY LenProperties
<1>3. ASSUME NEW m \in 0..n, Between(bytes, m), FrameEnd(Left(bytes, m)) = 0
      PROVE  Good(m)
  <2>1. g[m] = [frames |-> {}, rest |-> Left(bytes, m)]
    BY <1>1, <1>3 DEF ProcessStep
  <2>. QED
    BY <1>3, <2>1
<1>4. ASSUME NEW m \in 0..n, Between(bytes, m), FrameEnd(Left(bytes, m)) # 0
      PROVE  LET end == FrameEnd(Left(bytes, m))
             IN /\ end \in 1..n - m
                /\ Between(bytes, m + end)
                /\ ~Garbled(SubSeq(Left(bytes, m), 1, end))
  <2>. DEFINE left == Left(bytes, m)
              end == FrameEnd(left)
  <2>1. /\ left \in Seq(Unit) /\ Len(left) = n - m
        /\ \A i \in 1..n - m : left[i] = bytes[m + i]
    BY LeftType
  <2>2. end \in 0..n - m /\ end # 0
    BY <1>4, <2>1, FrameEndType
  <2>3. m \in Nat /\ m + 1 \in 1..n /\ 1 \in 1..n - m
    BY <1>2, <2>2
  <2>4. left # << >> /\ left[1] = bytes[m + 1] /\ left[1] \in Unit
    BY <2>1, <2>3, ElementOfSeq, EmptySeq
  <2>5. bytes[m + 1].part = 1
    <3>1. CASE m = 0
      <4>1. bytes # << >>
        BY <1>2, <2>3, EmptySeq
      <4>. QED
        BY <3>1, <4>1 DEF Chained
    <3>2. CASE m # 0
      <4>1. m \in 1..n - 1
        BY <1>2, <2>3, <3>2
      <4>2. Follows(bytes[m], bytes[m + 1])
        BY <4>1 DEF Chained
      <4>. QED
        BY <1>4, <3>2, <4>2 DEF Between, Follows
    <3>. QED
      BY <3>1, <3>2
  <2>. DEFINE u == bytes[m + 1]
  <2>6. u.id \in Ids /\ u.length \in 1..MaxBody /\ u.length \in Nat \ {0}
    BY <2>4, UnitFields
  <2>7. Chained(left)
    <3>1. ASSUME NEW i \in 1..Len(left) - 1 PROVE Follows(left[i], left[i + 1])
      <4>1. /\ i \in 1..n - m /\ i + 1 \in 1..n - m /\ m + i \in 1..n - 1
            /\ (m + i) + 1 = m + (i + 1)
        BY <1>2, <2>1, <2>3
      <4>2. Follows(bytes[m + i], bytes[(m + i) + 1])
        BY <4>1 DEF Chained
      <4>. HIDE DEF left
      <4>. QED
        BY <2>1, <4>1, <4>2
    <3>. QED
      BY <2>4, <2>5, <3>1 DEF Chained
  <2>. HIDE DEF left
  <2>8. /\ \A j \in 1..HeaderSize + u.length :
             j <= Len(left) => left[j] = [id |-> u.id, part |-> j, length |-> u.length]
        /\ StartsHeader(left) <=> Len(left) >= 2
        /\ HasHeader(left) <=> Len(left) >= HeaderSize
    BY <2>1, <2>4, <2>7, HeaderFirst
  <2>. HIDE DEF u
  <2>9. end = HeaderSize + u.length /\ n - m >= HeaderSize + u.length
    <3>1. Len(left) \in Nat \ {0} /\ Len(left) = n - m
      BY <2>1, <2>4, EmptySeq, LenProperties
    <3>2. CASE Len(left) >= HeaderSize
      <4>1. HasHeader(left) /\ left[2].length = u.length
        <5>1. 2 \in 1..HeaderSize + u.length /\ 2 <= Len(left)
          BY <2>6, <3>1, <3>2
        <5>2. left[2] = [id |-> u.id, part |-> 2, length |-> u.length]
          BY <2>8, <5>1
        <5>. QED
          BY <2>8, <3>2, <5>2
      <4>2. end = IF Len(left) >= HeaderSize + u.length THEN HeaderSize + u.length ELSE 0
        BY <4>1 DEF FrameEnd
      <4>. HIDE DEF end
      <4>. QED
        BY <2>2, <3>1, <4>2
    <3>3. CASE Len(left) < HeaderSize /\ Len(left) >= 2
      <4>1. ~HasHeader(left) /\ StartsHeader(left)
        BY <2>8, <3>1, <3>3
      <4>. QED
        BY <2>2, <4>1 DEF FrameEnd
    <3>4. CASE Len(left) = 1
      <4>1. ~HasHeader(left) /\ ~StartsHeader(left)
        BY <2>8, <3>4
      <4>2. DOMAIN left = {1} /\ ~IsNewline(left[1])
        <5>1. DOMAIN left = 1..1
          BY <2>1, <3>4, LenProperties
        <5>. QED
          BY <2>4, <2>5, <5>1 DEF IsNewline, u
      <4>3. LineEnd(left) = 0
        BY <4>2 DEF LineEnd
      <4>. QED
        BY <2>2, <4>1, <4>3 DEF FrameEnd
    <3>. QED
      BY <3>1, <3>2, <3>3, <3>4
  <2>10. Between(bytes, m + end)
    <3>1. /\ HeaderSize + u.length \in 1..HeaderSize + u.length
          /\ HeaderSize + u.length <= Len(left) /\ HeaderSize + u.length \in 1..n - m
      BY <1>2, <2>1, <2>3, <2>6, <2>9
    <3>2. left[HeaderSize + u.length]
            = [id |-> u.id, part |-> HeaderSize + u.length, length |-> u.length]
      BY <2>8, <3>1
    <3>3. bytes[m + end] = left[HeaderSize + u.length]
      BY <2>1, <2>9, <3>1
    <3>4. Ends(bytes[m + end])
      BY <3>2, <3>3 DEF Ends
    <3>. QED
      BY <3>4 DEF Between
  <2>11. ~Garbled(SubSeq(left, 1, end))
    <3>. DEFINE frame == SubSeq(left, 1, end)
    <3>1. /\ frame \in Seq(Unit) /\ Len(frame) = end
          /\ \A i \in 1..end : frame[i] = left[i]
      <4>1. end \in 1..Len(left) /\ 1 \in 1..Len(left) + 1 /\ Len(left) \in Nat
        BY <2>1, <2>2, LenProperties
      <4>. HIDE DEF end
      <4>. QED
        BY <2>1, <4>1, SubSeqProperties
    <3>. HIDE DEF frame
    <3>2. \A i \in 1..HeaderSize + u.length :
            frame[i] = [id |-> u.id, part |-> i, length |-> u.length]
      <4>1. \A i \in 1..HeaderSize + u.length : i <= Len(left) /\ i \in 1..end
        BY <2>1, <2>6, <2>9
      <4>. QED
        BY <2>8, <3>1, <4>1
    <3>3. HasHeader(frame)
      <4>1. /\ {1, 2, 3, 4} \subseteq 1..HeaderSize + u.length
            /\ Len(frame) >= HeaderSize /\ Len(frame) >= 2
        BY <2>6, <2>9, <3>1
      <4>2. ASSUME NEW i \in {1, 2, 3, 4} PROVE frame[i].part = i
        <5>1. frame[i] = [id |-> u.id, part |-> i, length |-> u.length]
          BY <3>2, <4>1
        <5>. QED
          BY <5>1
      <4>. QED
        BY <4>1, <4>2 DEF HasHeader, StartsHeader, IsNewline
    <3>4. Text(frame) = Left(frame, HeaderSize)
      BY <3>3 DEF Text, Left
    <3>5. /\ Left(frame, HeaderSize) \in Seq(Unit)
          /\ Len(Left(frame, HeaderSize)) = u.length
          /\ \A i \in 1..u.length : Left(frame, HeaderSize)[i] = frame[HeaderSize + i]
      <4>1. HeaderSize \in 0..Len(frame) /\ Len(frame) - HeaderSize = u.length
        BY <2>6, <2>9, <3>1
      <4>. QED
        BY <3>1, <4>1, LeftType
    <3>6. \A i \in 1..u.length :
            Text(frame)[i] = [id |-> u.id, part |-> HeaderSize + i, length |-> u.length]
      <4>1. \A i \in 1..u.length : HeaderSize + i \in 1..HeaderSize + u.length
        BY <2>6
      <4>. QED
        BY <3>2, <3>4, <3>5, <4>1
    <3>7. Text(frame) = Body(u.id, u.length)
      <4>1. Text(frame) = [i \in 1..u.length |-> Text(frame)[i]]
        BY <3>4, <3>5, LenProperties
      <4>. QED
        BY <3>6, <4>1 DEF Body
    <3>8. /\ Text(frame) # << >>
          /\ Text(frame)[1] = [id |-> u.id, part |-> HeaderSize + 1, length |-> u.length]
      <4>1. 1 \in 1..u.length /\ Len(Text(frame)) # 0
        BY <2>6, <3>4, <3>5
      <4>. QED
        BY <3>6, <4>1, EmptySeq
    <3>9. Parses(Text(frame))
      BY <3>7, <3>8 DEF Parses
    <3>. QED
      BY <3>9 DEF Garbled, frame
  <2>. QED
    BY <2>2, <2>10, <2>11 DEF left
<1>. HIDE DEF n
<1>5. 0 \in T
  <2>. SUFFICES ASSUME NEW m \in 0..n, n - m <= 0, Between(bytes, m) PROVE Good(m)
    OBVIOUS
  <2>1. FrameEnd(Left(bytes, m)) = 0
    BY <1>2, <1>4
  <2>. QED
    BY <1>3, <2>1
<1>6. ASSUME NEW k \in T PROVE k + 1 \in T
  <2>. SUFFICES ASSUME NEW m \in 0..n, n - m <= k + 1, Between(bytes, m),
                       FrameEnd(Left(bytes, m)) # 0
                PROVE  Good(m)
    BY <1>3
  <2>. DEFINE end == FrameEnd(Left(bytes, m))
  <2>1. /\ end \in 1..n - m /\ Between(bytes, m + end)
        /\ ~Garbled(SubSeq(Left(bytes, m), 1, end))
    BY <1>4
  <2>. HIDE DEF end
  <2>2. m + end \in 0..n /\ n - (m + end) <= k
    BY <1>2, <2>1
  <2>3. Good(m + end)
    BY <2>1, <2>2
  <2>4. g[m] = [g[m + end] EXCEPT !.frames = @ \cup {SubSeq(Left(bytes, m), 1, end)}]
    BY <1>1 DEF ProcessStep, end, n
  <2>5. g[m] = [frames |-> g[m + end].frames \cup {SubSeq(Left(bytes, m), 1, end)},
                rest |-> g[m + end].rest]
    BY <2>3, <2>4
  <2>6. /\ g[m].rest = g[m + end].rest
        /\ g[m].frames = g[m + end].frames \cup {SubSeq(Left(bytes, m), 1, end)}
        /\ g[m] = [frames |-> g[m].frames, rest |-> g[m].rest]
    BY <2>5
  <2>7. \A f \in g[m].frames : ~Garbled(f)
    BY <2>1, <2>3, <2>6
  <2>. QED
    BY <2>3, <2>6, <2>7
<1>7. T = Nat
  <2>. HIDE DEF T
  <2>1. T \in SUBSET Nat
    BY DEF T
  <2>. QED
    BY <1>5, <1>6, <2>1, Induct
<1>8. Good(0)
  <2>1. n \in T
    <3>. HIDE DEF T
    <3>. QED
      BY <1>2, <1>7
  <2>2. 0 \in 0..n /\ n - 0 <= n /\ Between(bytes, 0)
    BY <1>2 DEF Between
  <2>. HIDE DEF Good
  <2>. QED
    BY <2>1, <2>2
<1>. QED
  BY <1>1, <1>8 DEF n

-----------------------------------------------------------------------------
(* Sequences put together and taken apart.                                 *)

LEMMA Assoc ==
  ASSUME NEW s \in Seq(Unit), NEW t \in Seq(Unit), NEW u \in Seq(Unit)
  PROVE  (s \o t) \o u = s \o (t \o u)
BY ConcatAssociative

\* A sequence is its first k units and the others.
LEMMA Parts ==
  ASSUME NEW s \in Seq(Unit), NEW k \in 0..Len(s)
  PROVE  /\ SubSeq(s, 1, k) \in Seq(Unit) /\ SubSeq(s, k + 1, Len(s)) \in Seq(Unit)
         /\ Len(SubSeq(s, 1, k)) = k
         /\ \A i \in 1..k : SubSeq(s, 1, k)[i] = s[i]
         /\ SubSeq(s, 1, k) \o SubSeq(s, k + 1, Len(s)) = s
<1>. DEFINE a == SubSeq(s, 1, k)
            b == SubSeq(s, k + 1, Len(s))
<1>1. Len(s) \in Nat
  BY LenProperties
<1>2. /\ b \in Seq(Unit) /\ Len(b) = Len(s) - k
      /\ \A i \in 1..Len(s) - k : b[i] = s[k + i]
  BY LeftType DEF Left
<1>3. /\ a \in Seq(Unit) /\ Len(a) = k
      /\ \A i \in 1..k : a[i] = s[i]
  <2>1. k \in 0..Len(s) /\ 1 \in 1..Len(s) + 1 /\ k \in Nat
    BY <1>1
  <2>. QED
    BY <2>1, <1>1, SubSeqProperties
<1>. HIDE DEF a, b
<1>4. /\ a \o b \in Seq(Unit) /\ Len(a \o b) = Len(s)
      /\ \A i \in 1..Len(a) : (a \o b)[i] = a[i]
      /\ \A i \in 1..Len(b) : (a \o b)[Len(a) + i] = b[i]
  BY <1>1, <1>2, <1>3, ConcatUnits
<1>5. ASSUME NEW i \in 1..Len(s) PROVE (a \o b)[i] = s[i]
  <2>1. CASE i <= k
    BY <1>3, <1>4, <2>1
  <2>2. CASE ~(i <= k)
    <3>. DEFINE j == i - k
    <3>1. j \in 1..Len(s) - k /\ k + j = i
      BY <1>1, <2>2
    <3>. HIDE DEF j
    <3>. QED
      BY <1>2, <1>3, <1>4, <3>1
  <2>. QED
    BY <2>1, <2>2
<1>6. a \o b = s
  BY <1>4, <1>5, SeqEqual
<1>. QED
  BY <1>2, <1>3, <1>6 DEF a, b

\* A unit that is written goes from what is being written to the pipe.
LEMMA UnitMoves ==
  ASSUME NEW q \in Seq(Unit), NEW w \in Seq(Unit), w # << >>
  PROVE  /\ Append(q, Head(w)) \in Seq(Unit) /\ Tail(w) \in Seq(Unit)
         /\ Append(q, Head(w)) \o Tail(w) = q \o w
<1>1. /\ Len(w) \in Nat \ {0} /\ 1 \in 0..Len(w) /\ 1 \in 1..Len(w)
  BY LenProperties, EmptySeq
<1>2. Head(w) \in Unit /\ Head(w) = w[1] /\ Tail(w) \in Seq(Unit) /\ Tail(w) = SubSeq(w, 2, Len(w))
  BY HeadTailProperties, TailIsSubSeq
<1>3. /\ SubSeq(w, 1, 1) \o SubSeq(w, 1 + 1, Len(w)) = w
      /\ SubSeq(w, 1, 1) \in Seq(Unit) /\ Len(SubSeq(w, 1, 1)) = 1
      /\ SubSeq(w, 1, 1)[1] = w[1]
  BY <1>1, Parts
<1>4. SubSeq(w, 1, 1) = <<Head(w)>>
  <2>. DEFINE a == SubSeq(w, 1, 1)
  <2>1. a \in Seq(Unit) /\ Len(a) = 1 /\ a[1] = Head(w)
    BY <1>2, <1>3
  <2>. HIDE DEF a
  <2>2. <<Head(w)>> \in Seq(Unit) /\ Len(<<Head(w)>>) = 1 /\ <<Head(w)>>[1] = Head(w)
    BY <1>2
  <2>3. a = <<Head(w)>>
    BY <2>1, <2>2, SeqEqual
  <2>. QED
    BY <2>3 DEF a
<1>5. <<Head(w)>> \o Tail(w) = w /\ <<Head(w)>> \in Seq(Unit)
  BY <1>2, <1>3, <1>4
<1>6. Append(q, Head(w)) = q \o <<Head(w)>> /\ Append(q, Head(w)) \in Seq(Unit)
  BY <1>2, AppendIsConcat, AppendProperties
<1>7. (q \o <<Head(w)>>) \o Tail(w) = q \o (<<Head(w)>> \o Tail(w))
  BY <1>2, <1>5, Assoc
<1>. QED
  BY <1>2, <1>5, <1>6, <1>7

\* A response's frame is a frame.
LEMMA FrameFramed ==
  ASSUME NEW i \in Ids, NEW length \in 1..MaxBody
  PROVE  Frame(i, length) \in Seq(Unit) /\ Framed(Frame(i, length))
<1>. DEFINE f == Frame(i, length)
            u(k) == [id |-> i, part |-> k, length |-> length]
<1>1. /\ length \in Nat \ {0} /\ HeaderSize + length \in Nat /\ MaxBody \in Nat
      /\ f = [k \in 1..HeaderSize + length |-> u(k)]
  BY BoundsAssumption DEF Frame
<1>2. \A k \in 1..HeaderSize + length : u(k) \in Unit
  BY <1>1 DEF Unit
<1>3. f \in [1..HeaderSize + length -> Unit]
  BY <1>1, <1>2
<1>4. f \in Seq(Unit) /\ Len(f) = HeaderSize + length
  BY <1>1, <1>3
<1>5. \A k \in 1..HeaderSize + length : f[k] = u(k)
  BY <1>1
<1>. HIDE DEF f
<1>6. ASSUME NEW k \in 1..Len(f) - 1 PROVE Follows(f[k], f[k + 1])
  <2>1. k \in 1..HeaderSize + length /\ k + 1 \in 1..HeaderSize + length /\ k # HeaderSize + length
    BY <1>1, <1>4
  <2>3. f[k] = u(k) /\ f[k + 1] = u(k + 1)
    BY <1>5, <2>1
  <2>2. /\ f[k].id = i /\ f[k].part = k /\ f[k].length = length
        /\ f[k + 1] = [id |-> i, part |-> k + 1, length |-> length]
    BY <2>1, <2>3
  <2>. QED
    BY <2>1, <2>2 DEF Follows, Ends
<1>7. f[1].part = 1 /\ Ends(f[Len(f)])
  <2>1. 1 \in 1..HeaderSize + length /\ HeaderSize + length \in 1..HeaderSize + length
    BY <1>1
  <2>. QED
    BY <1>4, <1>5, <2>1 DEF Ends
<1>. QED
  BY <1>4, <1>6, <1>7 DEF Framed, Chained, Whole, f

-----------------------------------------------------------------------------
(* Steps that leave the bytes where they are, or a daemon takes.           *)

\* What a process's stream is made of.
LEMMA StreamParts ==
  ASSUME ClientType, NEW p \in Procs
  PROVE  /\ pipe[p] \in Seq(Unit) /\ writing[p] \in Seq(Unit) /\ Held(p) \in Seq(Unit)
         /\ pipe[p] \o writing[p] \in Seq(Unit)
         /\ Held(p) \o pipe[p] \in Seq(Unit)
         /\ Stream(p) = (Held(p) \o pipe[p]) \o writing[p]
<1>1. pipe[p] \in Seq(Unit) /\ writing[p] \in Seq(Unit) /\ Held(p) \in Seq(Unit)
  BY EmptySeq DEF ClientType, Held
<1>2. pipe[p] \o writing[p] \in Seq(Unit) /\ Held(p) \o pipe[p] \in Seq(Unit)
  BY <1>1, ConcatProperties
<1>. QED
  BY <1>1, <1>2, Assoc DEF Stream

LEMMA InitKept == Init => Kept
<1>. SUFFICES ASSUME Init PROVE Kept
  OBVIOUS
<1>1. << >> \in Seq(Unit) /\ << >> \in Seq(Ids) /\ Len(<< >>) = 0 /\ MaxRequests \in Nat
      /\ MaxStarts \in Nat
  BY EmptySeq, BoundsAssumption
<1>2. ClientType
  <2>1. process \in Procs \cup {NoProcess} /\ started \in 0..MaxStarts /\ requests \in 0..MaxRequests
    BY <1>1 DEF Init
  <2>2. /\ stdin \in [Procs -> Seq(Ids)] /\ inbox \in [Procs -> SUBSET Ids]
        /\ writing \in [Procs -> Seq(Unit)] /\ pipe \in [Procs -> Seq(Unit)]
        /\ buffer \in Seq(Unit) /\ sentTo \in [Ids -> Procs \cup {NoProcess}] /\ cut \in BOOLEAN
    BY <1>1 DEF Init
  <2>. QED
    BY <2>1, <2>2 DEF ClientType
<1>3. Owned
  BY <1>1 DEF Init, Owned
<1>4. FrameEnd(buffer) = 0 /\ lost = {}
  BY <1>1 DEF Init, FrameEnd, HasHeader, StartsHeader, LineEnd
<1>5. ASSUME NEW p \in Procs PROVE Framed(Stream(p))
  <2>1. Held(p) = << >> /\ pipe[p] = << >> /\ writing[p] = << >>
    BY DEF Init, Held
  <2>2. Stream(p) = << >>
    BY <2>1, <1>1, ConcatEmptySeq DEF Stream
  <2>. QED
    BY <1>1, <2>2 DEF Framed, Chained, Whole
<1>. QED
  BY <1>2, <1>3, <1>4, <1>5 DEF Kept

\* Steps of the requests: no byte is written or read.
LEMMA BytesStay ==
  ASSUME Kept, UNCHANGED <<writing, pipe, buffer, lost, cut>>,
         ClientType', Owned',
         \A i \in 1..requests : sentTo'[i] = sentTo[i]
  PROVE  Kept'
<1>1. \A p \in Procs : Held(p)' = Held(p)
  <2>1. buffer # << >> => 1 \in DOMAIN buffer
    BY EmptySeq, LenProperties DEF Kept, ClientType
  <2>2. buffer # << >> => sentTo'[buffer[1].id] = sentTo[buffer[1].id]
    BY <2>1 DEF Kept, Owned
  <2>. QED
    BY <2>2 DEF Held
<1>2. \A p \in Procs : Stream(p)' = Stream(p)
  BY <1>1 DEF Stream
<1>. QED
  BY <1>2 DEF Kept

\* The request that is sent, read, answered or given up is the process's own.
LEMMA RequestSteps ==
  ASSUME Kept,
         \/ \E p \in Procs : ReadRequest(p) \/ Close(p)
         \/ SendRequest \/ Restart
         \/ \E i \in Ids : WriteFails(i)
  PROVE  Kept'
<1>1. CASE \E p \in Procs : ReadRequest(p)
  <2>1. PICK p \in Procs : ReadRequest(p)
    BY <1>1
  <2>2. /\ stdin[p] \in Seq(Ids) /\ stdin[p] # << >>
        /\ stdin' = [stdin EXCEPT ![p] = Tail(@)]
        /\ inbox' = [inbox EXCEPT ![p] = @ \cup {Head(stdin[p])}]
        /\ UNCHANGED <<process, started, writing, pipe, buffer, requests, sentTo, lost, cut>>
    BY <2>1 DEF ReadRequest, Kept, ClientType
  <2>3. /\ Head(stdin[p]) = stdin[p][1] /\ 1 \in DOMAIN stdin[p]
        /\ Head(stdin[p]) \in Ids /\ Tail(stdin[p]) \in Seq(Ids)
        /\ DOMAIN Tail(stdin[p]) = 1..Len(Tail(stdin[p]))
        /\ \A k \in DOMAIN Tail(stdin[p]) :
             k + 1 \in DOMAIN stdin[p] /\ Tail(stdin[p])[k] = stdin[p][k + 1]
    <3>1. Len(stdin[p]) \in Nat \ {0} /\ DOMAIN stdin[p] = 1..Len(stdin[p])
      BY <2>2, EmptySeq, LenProperties
    <3>2. /\ Tail(stdin[p]) \in Seq(Ids) /\ Len(Tail(stdin[p])) = Len(stdin[p]) - 1
          /\ \A k \in 1..Len(Tail(stdin[p])) : Tail(stdin[p])[k] = stdin[p][k + 1]
          /\ Head(stdin[p]) \in Ids
      BY <2>2, HeadTailProperties
    <3>3. DOMAIN Tail(stdin[p]) = 1..Len(Tail(stdin[p]))
      BY <3>2, LenProperties
    <3>. QED
      BY <2>2, <3>1, <3>2, <3>3
  <2>4. ClientType'
    BY <2>2, <2>3 DEF Kept, ClientType
  <2>5. Owned'
    <3>1. \A q \in Procs : \A k \in DOMAIN stdin'[q] : SentTo(stdin'[q][k], q)
      BY <2>2, <2>3 DEF Kept, ClientType, Owned
    <3>2. \A q \in Procs : \A i \in inbox'[q] : SentTo(i, q)
      BY <2>2, <2>3 DEF Kept, ClientType, Owned
    <3>3. \A q \in Procs, i \in Ids : SentTo(i, q)' = SentTo(i, q)
      BY <2>2 DEF SentTo
    <3>. QED
      BY <2>2, <3>1, <3>2 DEF Kept, Owned, SentTo
  <2>. QED
    BY <2>2, <2>4, <2>5, BytesStay
<1>2. CASE \/ \E p \in Procs : Close(p)
           \/ Restart
           \/ \E i \in Ids : WriteFails(i)
  <2>1. /\ UNCHANGED <<stdin, inbox, writing, pipe, buffer, requests, sentTo, lost, cut>>
        /\ process' \in Procs \cup {NoProcess} /\ started' \in 0..MaxStarts
    <3>1. CASE \E p \in Procs : Close(p)
      BY <3>1 DEF Close, Kept, ClientType
    <3>2. CASE \E i \in Ids : WriteFails(i)
      BY <3>2 DEF WriteFails, Kept, ClientType, daemonVars
    <3>3. CASE Restart
      <4>1. started' \in Procs /\ started' \in 0..MaxStarts /\ process' = started'
        BY <3>3, BoundsAssumption DEF Restart, Kept, ClientType, Procs
      <4>. QED
        BY <3>3, <4>1 DEF Restart
    <3>. QED
      BY <1>2, <3>1, <3>2, <3>3
  <2>2. ClientType' /\ Owned'
    BY <2>1 DEF Kept, ClientType, Owned, SentTo
  <2>. QED
    BY <2>1, <2>2, BytesStay
<1>3. CASE SendRequest
  <2>0. PICK i : i = requests + 1
    OBVIOUS
  <2>1. /\ process \in Procs /\ i \in Ids /\ requests' = i
        /\ sentTo' = [sentTo EXCEPT ![i] = process]
        /\ stdin' \in {stdin, [stdin EXCEPT ![process] = Append(@, i)]}
        /\ UNCHANGED <<process, started, inbox, writing, pipe, buffer, lost, cut>>
    BY <1>3, <2>0 DEF SendRequest, Kept, ClientType
  <2>2. /\ requests \in Nat /\ MaxRequests \in Nat /\ Ids = 1..MaxRequests
        /\ requests' \in 0..MaxRequests /\ ~(i \in 1..requests) /\ 1..requests' = (1..requests) \cup {i}
        /\ 1..requests \subseteq Ids
    BY <2>0, <2>1, BoundsAssumption DEF Kept, ClientType, Ids
  <2>3. /\ \A k \in 1..requests : sentTo'[k] = sentTo[k]
        /\ sentTo'[i] = process
    BY <2>1, <2>2 DEF Kept, ClientType
  <2>4. /\ stdin' \in [Procs -> Seq(Ids)]
        /\ \A p \in Procs : \A k \in DOMAIN stdin'[p] :
             \/ k \in DOMAIN stdin[p] /\ stdin'[p][k] = stdin[p][k]
             \/ stdin'[p][k] = i /\ p = process
    <3>1. CASE stdin' = stdin
      BY <3>1 DEF Kept, ClientType
    <3>2. CASE stdin' = [stdin EXCEPT ![process] = Append(@, i)]
      <4>. DEFINE s == stdin[process]
      <4>1. /\ s \in Seq(Ids) /\ Append(s, i) \in Seq(Ids) /\ Len(Append(s, i)) = Len(s) + 1
            /\ \A k \in 1..Len(s) : Append(s, i)[k] = s[k]
            /\ Append(s, i)[Len(s) + 1] = i /\ Len(s) \in Nat /\ DOMAIN s = 1..Len(s)
        BY <2>1, AppendProperties, LenProperties DEF Kept, ClientType
      <4>2. DOMAIN Append(s, i) = 1..Len(s) + 1
        BY <4>1, LenProperties
      <4>3. \A k \in DOMAIN Append(s, i) :
              (k \in DOMAIN s /\ Append(s, i)[k] = s[k]) \/ Append(s, i)[k] = i
        BY <4>1, <4>2
      <4>. QED
        BY <2>1, <3>2, <4>1, <4>3 DEF Kept, ClientType
    <3>. QED
      BY <2>1, <3>1, <3>2
  <2>5. ClientType'
    BY <2>1, <2>2, <2>4 DEF Kept, ClientType
  <2>6. \A p \in Procs : \A k : SentTo(k, p) => SentTo(k, p)'
    BY <2>1, <2>2, <2>3 DEF SentTo
  <2>7. SentTo(i, process)'
    BY <2>1, <2>2, <2>3 DEF SentTo
  <2>8. Owned'
    <3>1. \A k \in 1..requests' : sentTo'[k] \in Procs
      BY <2>1, <2>2, <2>3 DEF Kept, Owned
    <3>2. \A p \in Procs : \A k \in DOMAIN stdin'[p] : SentTo(stdin[p][k], p)'
      BY <2>4, <2>6, <2>7, <2>1 DEF Kept, Owned
    <3>3. \A p \in Procs : /\ \A k \in inbox'[p] : SentTo(k, p)'
                           /\ \A k \in DOMAIN writing'[p] : SentTo(writing[p][k].id, p)'
                           /\ \A k \in DOMAIN pipe'[p] : SentTo(pipe[p][k].id, p)'
      BY <2>1, <2>6 DEF Kept, Owned
    <3>4. \A k \in DOMAIN buffer' : buffer'[k].id \in 1..requests'
      BY <2>1, <2>2 DEF Kept, Owned
    <3>. QED
      BY <3>1, <3>2, <3>3, <3>4 DEF Owned
  <2>. QED
    BY <2>1, <2>3, <2>5, <2>8, BytesStay
<1>. QED
  BY <1>1, <1>2, <1>3

\* A daemon only touches its own bytes.
LEMMA OneStream ==
  ASSUME Kept, UNCHANGED <<buffer, requests, sentTo, lost>>, ClientType', Owned',
         NEW p \in Procs, Framed(Held(p) \o (pipe'[p] \o writing'[p])),
         \A q \in Procs \ {p} : pipe'[q] = pipe[q] /\ writing'[q] = writing[q]
  PROVE  Kept'
<1>1. \A q \in Procs : Held(q)' = Held(q)
  BY DEF Held
<1>2. ASSUME NEW q \in Procs PROVE Framed(Stream(q))'
  <2>1. CASE q = p
    <3>1. Stream(q)' = Held(p) \o (pipe'[p] \o writing'[p])
      BY <1>1, <2>1 DEF Stream
    <3>. QED
      BY <3>1 DEF Framed, Chained, Whole
  <2>2. CASE q # p
    <3>1. Stream(q)' = Stream(q)
      BY <1>1, <2>2 DEF Stream
    <3>. QED
      BY <3>1 DEF Kept, Framed, Chained, Whole
  <2>. QED
    BY <2>1, <2>2
<1>3. FrameEnd(buffer)' = 0
  BY DEF Kept, FrameEnd, LineEnd, HasHeader, StartsHeader, IsNewline
<1>. QED
  BY <1>2, <1>3 DEF Kept

\* A response is begun between two others.
LEMMA AnswerStep ==
  ASSUME Kept, NEW p \in Procs, Answer(p)
  PROVE  Kept'
<1>1. PICK i \in inbox[p], length \in 1..MaxBody :
        /\ inbox' = [inbox EXCEPT ![p] = @ \ {i}]
        /\ writing' = [writing EXCEPT ![p] = Frame(i, length)]
  BY DEF Answer
<1>2. /\ writing[p] = << >>
      /\ UNCHANGED <<process, started, stdin, pipe, buffer, requests, sentTo, lost, cut>>
  BY DEF Answer
<1>3. i \in Ids /\ SentTo(i, p)
  BY DEF Kept, ClientType, Owned
<1>4. /\ Frame(i, length) \in Seq(Unit) /\ Framed(Frame(i, length))
      /\ \A k \in DOMAIN Frame(i, length) : Frame(i, length)[k].id = i
  <2>1. \A k \in DOMAIN Frame(i, length) : Frame(i, length)[k].id = i
    BY DEF Frame
  <2>. QED
    BY <1>3, <2>1, FrameFramed
<1>5. /\ pipe'[p] = pipe[p] /\ writing'[p] = Frame(i, length)
      /\ \A q \in Procs \ {p} : pipe'[q] = pipe[q] /\ writing'[q] = writing[q]
  BY <1>1, <1>2 DEF Kept, ClientType
<1>6. ClientType'
  BY <1>1, <1>2, <1>4 DEF Kept, ClientType
<1>7. Owned'
  <2>1. \A q \in Procs : \A k \in DOMAIN writing'[q] : SentTo(writing'[q][k].id, q)
    BY <1>3, <1>4, <1>5 DEF Kept, Owned
  <2>2. \A q \in Procs : \A k \in inbox'[q] : SentTo(k, q)
    BY <1>1 DEF Kept, ClientType, Owned
  <2>. QED
    BY <1>2, <2>1, <2>2 DEF Kept, Owned, SentTo
<1>8. Framed(Held(p) \o (pipe[p] \o Frame(i, length)))
  <2>1. /\ Held(p) \in Seq(Unit) /\ pipe[p] \in Seq(Unit) /\ Held(p) \o pipe[p] \in Seq(Unit)
        /\ Stream(p) = (Held(p) \o pipe[p]) \o writing[p]
    BY StreamParts DEF Kept
  <2>2. Framed(Held(p) \o pipe[p])
    <3>1. (Held(p) \o pipe[p]) \o << >> = Held(p) \o pipe[p]
      BY <2>1, ConcatEmptySeq
    <3>. QED
      BY <1>2, <2>1, <3>1 DEF Kept
  <2>3. Framed((Held(p) \o pipe[p]) \o Frame(i, length))
    BY <1>4, <2>1, <2>2, FramedConcat
  <2>. QED
    BY <1>4, <2>1, <2>3, Assoc
<1>. QED
  BY <1>2, <1>5, <1>6, <1>7, <1>8, OneStream

\* A unit that is written leaves the process's bytes as they are.
LEMMA WriteStep ==
  ASSUME Kept, NEW p \in Procs, WriteResponse(p)
  PROVE  Kept'
<1>. DEFINE w == writing[p]
            u == Head(writing[p])
<1>1. /\ w # << >>
      /\ writing' = [writing EXCEPT ![p] = Tail(w)]
      /\ pipe' = [pipe EXCEPT ![p] = Append(pipe[p], u)]
      /\ UNCHANGED <<process, started, stdin, inbox, buffer, requests, sentTo, lost, cut>>
  BY DEF WriteResponse, Kept, ClientType
<1>2. /\ w \in Seq(Unit) /\ pipe[p] \in Seq(Unit)
      /\ Append(pipe[p], u) \in Seq(Unit) /\ Tail(w) \in Seq(Unit)
      /\ Append(pipe[p], u) \o Tail(w) = pipe[p] \o w
  BY <1>1, UnitMoves DEF Kept, ClientType
<1>3. /\ pipe'[p] = Append(pipe[p], u) /\ writing'[p] = Tail(w)
      /\ \A q \in Procs \ {p} : pipe'[q] = pipe[q] /\ writing'[q] = writing[q]
  BY <1>1 DEF Kept, ClientType
<1>4. ClientType'
  BY <1>1, <1>2 DEF Kept, ClientType
<1>5. /\ \A k \in DOMAIN Tail(w) : SentTo(Tail(w)[k].id, p)
      /\ SentTo(u.id, p)
  <2>1. Len(w) \in Nat \ {0} /\ DOMAIN w = 1..Len(w)
    BY <1>1, <1>2, EmptySeq, LenProperties
  <2>2. /\ Len(Tail(w)) = Len(w) - 1 /\ u = w[1]
        /\ \A k \in 1..Len(Tail(w)) : Tail(w)[k] = w[k + 1]
        /\ DOMAIN Tail(w) = 1..Len(Tail(w))
    BY <1>1, <1>2, HeadTailProperties, LenProperties
  <2>3. \A k \in DOMAIN w : SentTo(w[k].id, p)
    BY DEF Kept, Owned
  <2>. HIDE DEF w, u
  <2>4. 1 \in DOMAIN w /\ \A k \in DOMAIN Tail(w) : k + 1 \in DOMAIN w /\ Tail(w)[k] = w[k + 1]
    BY <2>1, <2>2
  <2>. QED
    BY <2>2, <2>3, <2>4
<1>6. \A k \in DOMAIN Append(pipe[p], u) : SentTo(Append(pipe[p], u)[k].id, p)
  <2>1. u \in Unit
    BY <1>1, <1>2, HeadTailProperties
  <2>. HIDE DEF u
  <2>2. /\ DOMAIN pipe[p] = 1..Len(pipe[p]) /\ Len(pipe[p]) \in Nat
        /\ DOMAIN Append(pipe[p], u) = 1..Len(pipe[p]) + 1
        /\ \A k \in 1..Len(pipe[p]) : Append(pipe[p], u)[k] = pipe[p][k]
        /\ Append(pipe[p], u)[Len(pipe[p]) + 1] = u
    BY <1>2, <2>1, AppendProperties, LenProperties
  <2>3. \A k \in DOMAIN pipe[p] : SentTo(pipe[p][k].id, p)
    BY DEF Kept, Owned
  <2>. QED
    BY <1>5, <2>2, <2>3
<1>7. Owned'
  <2>1. \A q \in Procs : \A k \in DOMAIN writing'[q] : SentTo(writing'[q][k].id, q)
    BY <1>3, <1>5 DEF Kept, Owned
  <2>2. \A q \in Procs : \A k \in DOMAIN pipe'[q] : SentTo(pipe'[q][k].id, q)
    BY <1>3, <1>6 DEF Kept, Owned
  <2>. QED
    BY <1>1, <2>1, <2>2 DEF Kept, Owned, SentTo
<1>8. Framed(Held(p) \o (pipe'[p] \o writing'[p]))
  BY <1>2, <1>3 DEF Kept, Stream
<1>. QED
  BY <1>1, <1>3, <1>4, <1>7, <1>8, OneStream

\* A daemon that exits between two frames leaves frames.
LEMMA ExitStep ==
  ASSUME Kept, ~cut', NEW p \in Procs, Exit(p)
  PROVE  Kept'
<1>1. /\ stdin' = [stdin EXCEPT ![p] = << >>]
      /\ inbox' = [inbox EXCEPT ![p] = {}]
      /\ writing' = [writing EXCEPT ![p] = << >>]
      /\ UNCHANGED <<process, started, pipe, buffer, requests, sentTo, lost>>
      /\ ~(writing[p] # << >> /\ Head(writing[p]).part > 1)
      /\ cut' \in BOOLEAN
  BY DEF Exit, Kept, ClientType
<1>2. /\ pipe'[p] = pipe[p] /\ writing'[p] = << >> /\ stdin'[p] = << >> /\ inbox'[p] = {}
      /\ \A q \in Procs \ {p} : /\ pipe'[q] = pipe[q] /\ writing'[q] = writing[q]
                                /\ stdin'[q] = stdin[q] /\ inbox'[q] = inbox[q]
  BY <1>1 DEF Kept, ClientType
<1>3. ClientType'
  BY <1>1, EmptySeq DEF Kept, ClientType
<1>4. Owned'
  <2>1. DOMAIN << >> = {}
    OBVIOUS
  <2>2. \A q \in Procs :
          /\ \A k \in DOMAIN stdin'[q] : SentTo(stdin'[q][k], q)
          /\ \A k \in inbox'[q] : SentTo(k, q)
          /\ \A k \in DOMAIN writing'[q] : SentTo(writing'[q][k].id, q)
    BY <1>2, <2>1 DEF Kept, Owned
  <2>. QED
    BY <1>1, <2>2 DEF Kept, Owned, SentTo
<1>5. /\ Held(p) \in Seq(Unit) /\ pipe[p] \in Seq(Unit) /\ writing[p] \in Seq(Unit)
      /\ Held(p) \o pipe[p] \in Seq(Unit)
      /\ Framed((Held(p) \o pipe[p]) \o writing[p])
  BY StreamParts DEF Kept
<1>6. writing[p] # << >> => writing[p][1].part = 1
  <2>. HAVE writing[p] # << >>
  <2>1. Head(writing[p]) = writing[p][1] /\ Head(writing[p]) \in Unit
    BY <1>5, HeadTailProperties
  <2>. QED
    BY <1>1, <2>1, UnitFields
<1>7. Framed(Held(p) \o pipe[p])
  BY <1>5, <1>6, FramedPrefix DEF Framed
<1>8. Framed(Held(p) \o (pipe'[p] \o writing'[p]))
  BY <1>2, <1>5, <1>7, ConcatEmptySeq
<1>. QED
  BY <1>1, <1>2, <1>3, <1>4, <1>8, OneStream

\* What the client holds is a part of one frame.
LEMMA OneFrameHeld ==
  ASSUME Kept, buffer # << >>
  PROVE  /\ Len(buffer) \in Nat \ {0} /\ DOMAIN buffer = 1..Len(buffer)
         /\ \A k \in 1..Len(buffer) : buffer[k].id = buffer[1].id
         /\ sentTo[buffer[1].id] \in Procs
<1>1. /\ buffer \in Seq(Unit) /\ Len(buffer) \in Nat \ {0} /\ DOMAIN buffer = 1..Len(buffer)
      /\ FrameEnd(buffer) = 0 /\ buffer[1] \in Unit
  BY EmptySeq, LenProperties, ElementOfSeq DEF Kept, ClientType
<1>2. sentTo[buffer[1].id] \in Procs
  BY <1>1 DEF Kept, Owned
<1>. DEFINE q == sentTo[buffer[1].id]
            t == pipe[q] \o writing[q]
<1>3. Held(q) = buffer
  BY DEF Held
<1>4. t \in Seq(Unit)
  BY <1>2, StreamParts DEF Kept
<1>5. Framed(buffer \o t)
  BY <1>2, <1>3 DEF Kept, Stream
<1>6. Chained(buffer) /\ buffer[1].part = 1
  <2>1. Chained(buffer)
    <3>. HIDE DEF t
    <3>. QED
      BY <1>1, <1>4, <1>5, FramedPrefix
  <2>. QED
    BY <2>1 DEF Chained
<1>7. /\ buffer[1].length \in Nat \ {0}
      /\ \A j \in 1..HeaderSize + buffer[1].length :
           j <= Len(buffer) =>
             buffer[j] = [id |-> buffer[1].id, part |-> j, length |-> buffer[1].length]
      /\ HasHeader(buffer) <=> Len(buffer) >= HeaderSize
  BY <1>1, <1>6, HeaderFirst
<1>8. Len(buffer) <= HeaderSize + buffer[1].length
  <2>1. CASE HasHeader(buffer)
    <3>1. 2 \in 1..HeaderSize + buffer[1].length /\ 2 <= Len(buffer)
      BY <1>7, <2>1 DEF HasHeader
    <3>2. buffer[2] = [id |-> buffer[1].id, part |-> 2, length |-> buffer[1].length]
      BY <1>7, <3>1
    <3>. QED
      BY <1>1, <1>7, <2>1, <3>2 DEF FrameEnd
  <2>2. CASE ~HasHeader(buffer)
    BY <1>1, <1>7, <2>2
  <2>. QED
    BY <2>1, <2>2
<1>9. \A k \in 1..Len(buffer) : k \in 1..HeaderSize + buffer[1].length /\ k <= Len(buffer)
  BY <1>1, <1>7, <1>8
<1>10. ASSUME NEW k \in 1..Len(buffer) PROVE buffer[k].id = buffer[1].id
  <2>1. buffer[k] = [id |-> buffer[1].id, part |-> k, length |-> buffer[1].length]
    BY <1>7, <1>9
  <2>. QED
    BY <2>1
<1>. QED
  BY <1>1, <1>2, <1>10

\* When frames arrive, in part, all that is taken off is understood, and what is
\* left, with what is still to come, consists of frames again.
LEMMA ReadFrames ==
  ASSUME NEW bytes \in Seq(Unit), NEW t \in Seq(Unit), Framed(bytes \o t)
  PROVE  LET got == ProcessBuffer(bytes)
         IN /\ \A f \in got.frames : ~Garbled(f)
            /\ FrameEnd(got.rest) = 0
            /\ got.rest \in Seq(Unit) /\ Framed(got.rest \o t)
            /\ \A i \in DOMAIN got.rest : \E j \in DOMAIN bytes : got.rest[i] = bytes[j]
<1>. DEFINE got == ProcessBuffer(bytes)
<1>1. Chained(bytes)
  BY FramedPrefix
<1>2. /\ \A f \in got.frames : ~Garbled(f)
      /\ FrameEnd(got.rest) = 0
      /\ \E m \in 0..Len(bytes) : got.rest = Left(bytes, m) /\ Between(bytes, m)
  BY <1>1, ProcessFrames
<1>. HIDE DEF got
<1>3. PICK m \in 0..Len(bytes) : got.rest = Left(bytes, m) /\ Between(bytes, m)
  BY <1>2
<1>. DEFINE d == SubSeq(bytes, 1, m)
            r == Left(bytes, m)
<1>4. /\ d \in Seq(Unit) /\ Len(d) = m /\ r \in Seq(Unit)
      /\ \A i \in 1..m : d[i] = bytes[i]
      /\ d \o r = bytes
  BY Parts DEF Left
<1>5. Whole(d)
  <2>. HIDE DEF d
  <2>. SUFFICES ASSUME d # << >> PROVE Ends(d[Len(d)])
    BY DEF Whole
  <2>1. m \in 1..m /\ m # 0
    BY <1>4, EmptySeq, LenProperties
  <2>. QED
    BY <1>3, <1>4, <2>1 DEF Between
<1>. HIDE DEF d
<1>6. Len(bytes) \in Nat /\ DOMAIN bytes = 1..Len(bytes) /\ DOMAIN r = 1..Len(bytes) - m
  BY <1>4, LeftType, LenProperties
<1>7. \A i \in DOMAIN r : m + i \in DOMAIN bytes /\ r[i] = bytes[m + i]
  <2>1. \A i \in 1..Len(bytes) - m : r[i] = bytes[m + i]
    BY LeftType
  <2>. HIDE DEF r
  <2>. QED
    BY <1>6, <2>1
<1>. HIDE DEF r
<1>8. Framed(d \o (r \o t)) /\ r \o t \in Seq(Unit)
  BY <1>4, Assoc, ConcatProperties
<1>9. Framed(r \o t)
  BY <1>4, <1>5, <1>8, FramedSuffix
<1>10. got.rest = r
  BY <1>3 DEF r
<1>. QED
  BY <1>2, <1>4, <1>7, <1>9, <1>10 DEF got

\* Unless the bytes of two daemons meet, a chunk goes on where the client stopped,
\* and only whole responses are taken off.
LEMMA DataStep ==
  ASSUME Kept, ~cut', NEW p \in Procs, Data(p)
  PROVE  Kept'
<1>1. \E k, got :
        /\ k \in 1..Len(pipe[p])
        /\ got = ProcessBuffer(buffer \o SubSeq(pipe[p], 1, k))
        /\ pipe' = [pipe EXCEPT ![p] = SubSeq(pipe[p], k + 1, Len(pipe[p]))]
        /\ buffer' = got.rest
        /\ lost' = lost \cup UNION {{f[i].id : i \in DOMAIN f} :
                                      f \in {g \in got.frames : Garbled(g)}}
        /\ ~(buffer # << >> /\ sentTo[buffer[Len(buffer)].id] # p)
        /\ cut' \in BOOLEAN
        /\ UNCHANGED <<process, started, stdin, inbox, writing, requests, sentTo>>
  BY DEF Data, Kept, ClientType
<1>2. PICK k, got :
        /\ k \in 1..Len(pipe[p])
        /\ got = ProcessBuffer(buffer \o SubSeq(pipe[p], 1, k))
        /\ pipe' = [pipe EXCEPT ![p] = SubSeq(pipe[p], k + 1, Len(pipe[p]))]
        /\ buffer' = got.rest
        /\ lost' = lost \cup UNION {{f[i].id : i \in DOMAIN f} :
                                      f \in {g \in got.frames : Garbled(g)}}
        /\ ~(buffer # << >> /\ sentTo[buffer[Len(buffer)].id] # p)
        /\ cut' \in BOOLEAN
        /\ UNCHANGED <<process, started, stdin, inbox, writing, requests, sentTo>>
  BY <1>1
<1>. DEFINE a == SubSeq(pipe[p], 1, k)
            b == SubSeq(pipe[p], k + 1, Len(pipe[p]))
            w == writing[p]
            bytes == buffer \o a
<1>3. /\ pipe[p] \in Seq(Unit) /\ w \in Seq(Unit) /\ buffer \in Seq(Unit)
      /\ Len(pipe[p]) \in Nat /\ k \in 0..Len(pipe[p]) /\ DOMAIN pipe[p] = 1..Len(pipe[p])
  BY <1>2, LenProperties DEF Kept, ClientType
<1>4. /\ a \in Seq(Unit) /\ b \in Seq(Unit) /\ a \o b = pipe[p]
      /\ Len(a) = k /\ \A i \in 1..k : a[i] = pipe[p][i]
      /\ Len(b) = Len(pipe[p]) - k
      /\ \A i \in 1..Len(pipe[p]) - k : b[i] = pipe[p][k + i]
  BY <1>3, Parts, LeftType DEF Left
<1>5. \A i \in DOMAIN pipe[p] : SentTo(pipe[p][i].id, p)
  BY DEF Kept, Owned
<1>. HIDE DEF a, b, w
<1>6. buffer # << >> => \A i \in DOMAIN buffer : SentTo(buffer[i].id, p)
  <2>. HAVE buffer # << >>
  <2>1. /\ Len(buffer) \in Nat \ {0} /\ DOMAIN buffer = 1..Len(buffer)
        /\ \A i \in 1..Len(buffer) : buffer[i].id = buffer[1].id
    BY OneFrameHeld
  <2>2. sentTo[buffer[Len(buffer)].id] = p /\ Len(buffer) \in 1..Len(buffer)
    BY <1>2, <2>1
  <2>3. \A i \in DOMAIN buffer : buffer[i].id \in 1..requests
    BY DEF Kept, Owned
  <2>. QED
    BY <2>1, <2>2, <2>3 DEF SentTo
<1>7. Held(p) = buffer
  <2>1. buffer # << >> => 1 \in DOMAIN buffer
    BY <1>3, EmptySeq, LenProperties
  <2>. QED
    BY <1>6, <2>1 DEF Held, SentTo
<1>8. \A q \in Procs \ {p} : Held(q) = << >>
  <2>1. buffer # << >> => 1 \in DOMAIN buffer
    BY <1>3, EmptySeq, LenProperties
  <2>. QED
    BY <1>6, <2>1 DEF Held, SentTo
<1>9. bytes \in Seq(Unit) /\ b \o w \in Seq(Unit) /\ Framed(bytes \o (b \o w))
  <2>1. bytes \in Seq(Unit) /\ b \o w \in Seq(Unit)
    BY <1>3, <1>4, ConcatProperties DEF w
  <2>2. Framed(buffer \o ((a \o b) \o w))
    BY <1>4, <1>7 DEF Kept, Stream, w
  <2>3. (a \o b) \o w = a \o (b \o w) /\ buffer \o (a \o (b \o w)) = (buffer \o a) \o (b \o w)
    <3>1. w \in Seq(Unit)
      BY <1>3 DEF w
    <3>. QED
      BY <1>3, <1>4, <2>1, <3>1, Assoc, ZenonT(60)
  <2>. QED
    BY <2>1, <2>2, <2>3
<1>10. \A i \in DOMAIN bytes : SentTo(bytes[i].id, p)
  <2>1. /\ Len(buffer) \in Nat /\ Len(bytes) = Len(buffer) + k /\ DOMAIN bytes = 1..Len(bytes)
        /\ DOMAIN buffer = 1..Len(buffer)
        /\ \A i \in 1..Len(buffer) : bytes[i] = buffer[i]
        /\ \A i \in 1..k : bytes[Len(buffer) + i] = a[i]
        /\ buffer = << >> <=> Len(buffer) = 0
    BY <1>3, <1>4, <1>9, ConcatUnits, LenProperties
  <2>. SUFFICES ASSUME NEW i \in DOMAIN bytes PROVE SentTo(bytes[i].id, p)
    OBVIOUS
  <2>. HIDE DEF bytes
  <2>2. CASE i <= Len(buffer)
    BY <1>6, <2>1, <2>2
  <2>3. CASE ~(i <= Len(buffer))
    <3>1. i - Len(buffer) \in 1..k /\ Len(buffer) + (i - Len(buffer)) = i
          /\ i - Len(buffer) \in DOMAIN pipe[p]
      BY <1>3, <2>1, <2>3
    <3>2. bytes[i] = pipe[p][i - Len(buffer)]
      BY <1>4, <2>1, <3>1
    <3>. QED
      BY <1>5, <3>1, <3>2
  <2>. QED
    BY <2>2, <2>3
<1>11. got = ProcessBuffer(bytes)
  BY <1>2 DEF a
<1>. DEFINE r == got.rest
<1>. HIDE DEF bytes
<1>12. /\ \A f \in got.frames : ~Garbled(f)
       /\ FrameEnd(r) = 0
       /\ r \in Seq(Unit) /\ Framed(r \o (b \o w))
       /\ \A i \in DOMAIN r : SentTo(r[i].id, p)
  BY <1>9, <1>10, <1>11, ReadFrames
<1>13. /\ buffer' = r /\ lost' = {} /\ pipe' = [pipe EXCEPT ![p] = b]
       /\ UNCHANGED <<process, started, stdin, inbox, writing, requests, sentTo>>
       /\ cut' \in BOOLEAN
  BY <1>2, <1>12 DEF Kept, b
<1>. HIDE DEF r
<1>14. pipe'[p] = b /\ \A q \in Procs \ {p} : pipe'[q] = pipe[q]
  BY <1>13 DEF Kept, ClientType
<1>15. \A i \in DOMAIN b : SentTo(b[i].id, p)
  <2>1. DOMAIN b = 1..Len(pipe[p]) - k
    BY <1>4, LenProperties
  <2>2. \A i \in DOMAIN b : k + i \in DOMAIN pipe[p] /\ b[i] = pipe[p][k + i]
    BY <1>3, <1>4, <2>1
  <2>. QED
    BY <1>5, <2>2
<1>16. ClientType'
  BY <1>4, <1>12, <1>13 DEF Kept, ClientType
<1>17. Owned'
  <2>1. \A q \in Procs : \A i \in DOMAIN pipe'[q] : SentTo(pipe'[q][i].id, q)
    BY <1>14, <1>15 DEF Kept, Owned
  <2>2. \A i \in DOMAIN buffer' : buffer'[i].id \in 1..requests
    BY <1>12, <1>13 DEF SentTo
  <2>. QED
    BY <1>13, <2>1, <2>2 DEF Kept, Owned, SentTo
<1>18. r # << >> => sentTo[r[1].id] = p
  <2>1. r # << >> => 1 \in DOMAIN r
    BY <1>12, EmptySeq, LenProperties
  <2>. QED
    BY <1>12, <2>1 DEF SentTo
<1>19. ASSUME NEW q \in Procs PROVE Framed(Stream(q))'
  <2>1. CASE q = p
    <3>1. Held(q)' = r
      BY <1>13, <1>18, <2>1 DEF Held
    <3>2. Stream(q)' = r \o (b \o w)
      BY <1>13, <1>14, <2>1, <3>1 DEF Stream, w
    <3>. QED
      BY <1>12, <3>2 DEF Framed, Chained, Whole
  <2>2. CASE q # p
    <3>1. Held(q)' = << >>
      BY <1>13, <1>18, <2>2 DEF Held
    <3>2. Stream(q)' = Stream(q)
      BY <1>8, <1>13, <1>14, <2>2, <3>1 DEF Stream
    <3>. QED
      BY <3>2 DEF Kept, Framed, Chained, Whole
  <2>. QED
    BY <2>1, <2>2
<1>20. FrameEnd(buffer)' = 0
  BY <1>12, <1>13 DEF FrameEnd, LineEnd, HasHeader, StartsHeader, IsNewline
<1>. QED
  BY <1>13, <1>16, <1>17, <1>19, <1>20 DEF Kept

-----------------------------------------------------------------------------
(* The theorem.                                                            *)

\* The invariant says what FramingKept promises.
LEMMA FramingInvInductive ==
  /\ Init => FramingInv
  /\ FramingInv /\ [Next]_vars => FramingInv'
  /\ FramingInv => FramingKept
<1>1. Init => FramingInv
  BY InitKept DEF FramingInv
<1>2. ASSUME FramingInv, [Next]_vars PROVE FramingInv'
  <2>. SUFFICES ASSUME ~cut' PROVE Kept'
    BY DEF FramingInv
  <2>1. CASE UNCHANGED vars
    <3>1. /\ UNCHANGED <<process, started, stdin, inbox, writing, pipe, buffer>>
          /\ UNCHANGED <<requests, sentTo, lost, cut>>
      BY <2>1 DEF vars, daemonVars
    <3>2. Kept
      BY <1>2, <3>1 DEF FramingInv
    <3>3. ClientType' /\ Owned'
      BY <3>1, <3>2 DEF Kept, ClientType, Owned, SentTo
    <3>. QED
      BY <3>1, <3>2, <3>3, BytesStay
  <2>2. CASE Next
    <3>1. ~cut
      BY <2>2 DEF Next, ReadRequest, Answer, WriteResponse, Exit, Data, Close, SendRequest,
        Restart, WriteFails, daemonVars
    <3>2. Kept
      BY <1>2, <3>1 DEF FramingInv
    <3>3. CASE \E p \in Procs : Answer(p) \/ WriteResponse(p) \/ Exit(p) \/ Data(p)
      BY <3>2, <3>3, AnswerStep, WriteStep, ExitStep, DataStep
    <3>4. CASE \/ \E p \in Procs : ReadRequest(p) \/ Close(p)
               \/ SendRequest \/ Restart
               \/ \E i \in Ids : WriteFails(i)
      BY <3>2, <3>4, RequestSteps
    <3>. QED
      BY <2>2, <3>3, <3>4 DEF Next
  <2>. QED
    BY <1>2, <2>1, <2>2
<1>3. FramingInv => FramingKept
  BY DEF FramingInv, Kept, FramingKept
<1>. QED
  BY <1>1, <1>2, <1>3

\* However the responses are ordered and cut into chunks, and whatever daemons
\* come and go, the client fails to understand a response only after a daemon
\* was cut off in one, or the bytes of two daemons met.
THEOREM FramingKeptAlways == Spec => []FramingKept
<1>1. Init => FramingInv
  BY FramingInvInductive
<1>2. FramingInv /\ [Next]_vars => FramingInv'
  BY FramingInvInductive
<1>3. FramingInv => FramingKept
  BY FramingInvInductive
<1>. QED
  BY <1>1, <1>2, <1>3, PTL DEF Spec
=============================================================================
