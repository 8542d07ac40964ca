----------------------------- MODULE Tailer_proofs -----------------------------
(***************************************************************************)
(* The collector against its files, for files of any length, cut anywhere, *)
(* removed, replaced or failing at any step of a poll, and restarts.       *)
(*                                                                         *)
(* First what one reading of a piece of a file gives (RecordsAre) and that *)
(* two readings joined are the reading of both pieces at once, with the    *)
(* header of the first (RecordsResumed).  The invariant adds to what the   *)
(* runs check that a poll's steps come in their order (PollSane), that the *)
(* records taken lie behind the offset (TakenBehind), and that a header    *)
(* kept is the one of the file read (HeaderKept).  The refinement of Feed  *)
(* needs that no file has outgrown the offset of the one it replaced       *)
(* (Unread).                                                               *)
(***************************************************************************)
EXTENDS Tailer, Selection_proofs

-----------------------------------------------------------------------------
(* The greatest of finitely many positions. *)
LEMMA GreatestIs ==
  ASSUME NEW N \in Nat, NEW S, \A x \in S : x \in Nat /\ x <= N, S # {}
  PROVE  Max(S) \in S /\ \A x \in S : x <= Max(S)
<1> DEFINE T == {t \in Nat : \A x \in S : x <= t}
<1>1. N \in T OBVIOUS
<1>2. PICK t \in T : \A u \in T : t <= u BY <1>1, LeastElement
<1>3. t \in S
  <2> SUFFICES ASSUME t \notin S PROVE FALSE OBVIOUS
  <2>1. t \in Nat /\ \A x \in S : x <= t BY <1>2
  <2>2. \A x \in S : x < t BY <2>1
  <2>3. t # 0 BY <2>2
  <2>4. t - 1 \in Nat /\ \A x \in S : x <= t - 1 BY <2>1, <2>2, <2>3
  <2>5. t - 1 \in T BY <2>4
  <2>6. t <= t - 1 BY <1>2, <2>5
  <2> QED BY <2>1, <2>6
<1>4. \A x \in S : t >= x BY <1>2
<1>5. Max(S) \in S /\ \A x \in S : Max(S) >= x BY <1>3, <1>4 DEF Max
<1> QED BY <1>5

LEMMA GreatestOnly ==
  ASSUME NEW S, NEW t \in S, \A x \in S : x \in Nat /\ x <= t
  PROVE  Max(S) = t
<1>1. Max(S) \in S /\ \A x \in S : Max(S) >= x BY DEF Max
<1>2. Max(S) \in Nat /\ t \in Nat /\ Max(S) <= t /\ t <= Max(S) BY <1>1
<1> QED BY <1>2

-----------------------------------------------------------------------------
(* Where a line begins: behind the newline before it, or behind what was   *)
(* read before.                                                            *)
LEMMA NewlinesAre ==
  ASSUME NEW T, NEW c \in Seq(T), NEW from \in Nat
  PROVE  \A i \in Newlines(c, from) :
           i \in Nat /\ from < i /\ i <= Len(c) /\ c[i] = "newline"
<1>1. Len(c) \in Nat OBVIOUS
<1> QED BY <1>1 DEF Newlines

LEMMA LineStartIs ==
  ASSUME NEW T, NEW c \in Seq(T), NEW from \in Nat,
         NEW i \in Newlines(c, from)
  PROVE  /\ LineStart(c, from, i) \in Nat
         /\ from < LineStart(c, from, i) /\ LineStart(c, from, i) <= i
         /\ \A j \in Newlines(c, from) : j < i => j < LineStart(c, from, i)
<1> DEFINE P == {from} \cup {j \in Newlines(c, from) : j < i}
<1>1. i \in Nat /\ from < i BY NewlinesAre
<1>2. \A x \in P : x \in Nat /\ x <= i /\ x < i /\ from <= x
  BY <1>1, NewlinesAre
<1>3. P # {} OBVIOUS
<1> HIDE DEF P
<1>4. Max(P) \in P /\ \A x \in P : x <= Max(P) BY <1>1, <1>2, <1>3, GreatestIs
<1>5. Max(P) \in Nat /\ Max(P) < i /\ from <= Max(P) BY <1>2, <1>4
<1>6. LineStart(c, from, i) = Max(P) + 1 BY DEF LineStart, P
<1>7. \A j \in Newlines(c, from) : j < i => j <= Max(P) /\ j \in Nat
  BY <1>4, NewlinesAre DEF P
<1> QED BY <1>1, <1>5, <1>6, <1>7

(* The complete lines end at the last newline. *)
LEMMA ConsumedIs ==
  ASSUME NEW T, NEW c \in Seq(T), NEW from \in Nat
  PROVE  /\ Consumed(c, from) \in Nat
         /\ from <= Consumed(c, from)
         /\ \A i \in Newlines(c, from) : i <= Consumed(c, from)
         /\ \/ Consumed(c, from) = from /\ Newlines(c, from) = {}
            \/ Consumed(c, from) \in Newlines(c, from)
         /\ from <= Len(c) => Consumed(c, from) <= Len(c)
<1> DEFINE P == {from} \cup Newlines(c, from)
           N == Len(c) + from
<1>1. N \in Nat /\ Len(c) \in Nat OBVIOUS
<1>2. \A x \in P : x \in Nat /\ x <= N /\ from <= x BY <1>1, NewlinesAre
<1>3. P # {} OBVIOUS
<1> HIDE DEF P, N
<1>4. Max(P) \in P /\ \A x \in P : x <= Max(P) BY <1>1, <1>2, <1>3, GreatestIs
<1>5. Max(P) \in Nat /\ from <= Max(P) BY <1>2, <1>4
<1>6. \A i \in Newlines(c, from) : i <= Max(P) BY <1>4 DEF P
<1>7. Max(P) = from => Newlines(c, from) = {}
  BY <1>6, NewlinesAre
<1>8. Max(P) = from \/ Max(P) \in Newlines(c, from) BY <1>4 DEF P
<1>9. Max(P) \in Newlines(c, from) => Max(P) <= Len(c) BY NewlinesAre
<1>10. Consumed(c, from) = Max(P) BY DEF Consumed, P
<1> QED BY <1>1, <1>5, <1>6, <1>7, <1>8, <1>9, <1>10

-----------------------------------------------------------------------------
(* What lies behind a cell does not change the lines before it.            *)
LEMMA CutNewlines ==
  ASSUME NEW T, NEW c \in Seq(T), NEW m \in 0 .. Len(c)
  PROVE  /\ \A i \in 1 .. m : SubSeq(c, 1, m)[i] = c[i]
         /\ Newlines(SubSeq(c, 1, m), 0) = {i \in Newlines(c, 0) : i <= m}
<1>1. Len(c) \in Nat /\ m \in Nat /\ m <= Len(c) OBVIOUS
<1>2. /\ Len(SubSeq(c, 1, m)) = m
      /\ \A i \in 1 .. m : SubSeq(c, 1, m)[i] = c[i]
  OBVIOUS
<1>3. ASSUME NEW i
      PROVE  i \in 1 .. m <=> i \in 1 .. Len(c) /\ i <= m
  BY <1>1
<1>4. Newlines(SubSeq(c, 1, m), 0)
        = {i \in 1 .. m : SubSeq(c, 1, m)[i] = "newline"}
  BY <1>2 DEF Newlines
<1>5. Newlines(c, 0) = {i \in 1 .. Len(c) : c[i] = "newline"}
  BY DEF Newlines
<1> QED BY <1>2, <1>3, <1>4, <1>5

LEMMA CutLines ==
  ASSUME NEW T, NEW c \in Seq(T), NEW m \in 0 .. Len(c),
         NEW i \in Newlines(c, 0), i <= m
  PROVE  /\ LineStart(SubSeq(c, 1, m), 0, i) = LineStart(c, 0, i)
         /\ Readable(SubSeq(c, 1, m), 0, i) <=> Readable(c, 0, i)
<1> DEFINE d == SubSeq(c, 1, m)
<1>1. /\ \A j \in 1 .. m : d[j] = c[j]
      /\ Newlines(d, 0) = {j \in Newlines(c, 0) : j <= m}
  BY CutNewlines
<1>2. m \in Nat /\ i \in Nat BY NewlinesAre
<1>3. \A j \in Newlines(c, 0) : j < i => j <= m BY <1>2, NewlinesAre
<1> HIDE DEF d
<1>4. {j \in Newlines(d, 0) : j < i} = {j \in Newlines(c, 0) : j < i}
  BY <1>1, <1>3
<1>5. LineStart(d, 0, i) = LineStart(c, 0, i) BY <1>4 DEF LineStart
<1>6. LineStart(c, 0, i) \in Nat /\ 0 < LineStart(c, 0, i)
  BY LineStartIs
<1>7. \A j \in LineStart(c, 0, i) .. i : j \in 1 .. m BY <1>2, <1>6
<1>8. Readable(d, 0, i) <=> Readable(c, 0, i)
  BY <1>1, <1>5, <1>7 DEF Readable
<1> QED BY <1>5, <1>8 DEF d

LEMMA CutReadable ==
  ASSUME NEW T, NEW c \in Seq(T), NEW m \in 0 .. Len(c)
  PROVE  ReadableLines(SubSeq(c, 1, m), 0) = {i \in ReadableLines(c, 0) : i <= m}
<1>1. Newlines(SubSeq(c, 1, m), 0) = {i \in Newlines(c, 0) : i <= m}
  BY CutNewlines
<1>2. \A i \in Newlines(c, 0) :
        i <= m => (Readable(SubSeq(c, 1, m), 0, i) <=> Readable(c, 0, i))
  BY CutLines
<1> QED BY <1>1, <1>2 DEF ReadableLines

(* Reading on behind a complete line finds the lines that follow it.       *)
LineEnd(c, n) == n = 0 \/ c[n] = "newline"

LEMMA ResumeLines ==
  ASSUME NEW T, NEW c \in Seq(T), NEW n \in 0 .. Len(c), LineEnd(c, n),
         NEW i \in Newlines(c, n)
  PROVE  /\ i \in Newlines(c, 0)
         /\ LineStart(c, n, i) = LineStart(c, 0, i)
         /\ Readable(c, n, i) <=> Readable(c, 0, i)
<1>1. n \in Nat /\ Len(c) \in Nat /\ n <= Len(c) OBVIOUS
<1>2. Newlines(c, n) = {j \in Newlines(c, 0) : n < j}
  BY <1>1 DEF Newlines
<1>3. i \in Newlines(c, 0) BY <1>2
<1>4. n = 0 \/ n \in Newlines(c, 0) BY <1>1 DEF LineEnd, Newlines
<1>5. i \in Nat /\ n < i BY <1>1, NewlinesAre
<1>6. \A j \in Newlines(c, 0) : j \in Nat /\ 0 < j BY NewlinesAre
<1>7. LineStart(c, n, i) = LineStart(c, 0, i)
  <2> DEFINE P == {n} \cup {j \in Newlines(c, n) : j < i}
             Q == {0} \cup {j \in Newlines(c, 0) : j < i}
  <2>1. \A x \in P : x \in Nat /\ x <= i /\ n <= x
    BY <1>1, <1>2, <1>5, <1>6
  <2>2. Max(P) \in P /\ \A x \in P : x <= Max(P)
    BY <1>5, <2>1, GreatestIs
  <2>3. P \subseteq Q BY <1>2, <1>4, <1>5
  <2>4. \A x \in Q : x \in Nat /\ (x \in P \/ x <= n)
    BY <1>1, <1>2, <1>6
  <2> HIDE DEF P, Q
  <2>5. Max(P) \in Q BY <2>2, <2>3
  <2>6. n <= Max(P) /\ Max(P) \in Nat BY <2>1, <2>2
  <2>7. \A x \in Q : x \in Nat /\ x <= Max(P) BY <1>1, <2>2, <2>4, <2>6
  <2>8. Max(Q) = Max(P) BY <2>5, <2>7, GreatestOnly
  <2> QED BY <2>8 DEF LineStart, P, Q
<1>8. Readable(c, n, i) <=> Readable(c, 0, i) BY <1>7 DEF Readable
<1> QED BY <1>3, <1>7, <1>8

LEMMA ResumeReadable ==
  ASSUME NEW T, NEW c \in Seq(T), NEW n \in 0 .. Len(c), LineEnd(c, n)
  PROVE  ReadableLines(c, n) = {i \in ReadableLines(c, 0) : n < i}
<1>1. n \in Nat /\ Len(c) \in Nat /\ n <= Len(c) OBVIOUS
<1>2. Newlines(c, n) = {j \in Newlines(c, 0) : n < j}
  BY <1>1 DEF Newlines
<1>3. \A i \in Newlines(c, n) : Readable(c, n, i) <=> Readable(c, 0, i)
  BY ResumeLines
<1> QED BY <1>2, <1>3 DEF ReadableLines

-----------------------------------------------------------------------------
(* The header is the first readable line, wherever a read was cut.         *)
First(S) == {i \in S : \A j \in S : i <= j}

LEMMA FirstIs ==
  ASSUME NEW S, \A i \in S : i \in Nat, S # {}
  PROVE  \E i \in S : First(S) = {i}
<1>1. S \in SUBSET Nat OBVIOUS
<1>2. PICK i \in S : \A j \in S : i <= j BY <1>1, LeastElement
<1>3. \A j \in First(S) : j = i BY <1>2 DEF First
<1>4. i \in First(S) BY <1>2 DEF First
<1> QED BY <1>3, <1>4

LEMMA ReadableAre ==
  ASSUME NEW T, NEW c \in Seq(T), NEW from \in Nat
  PROVE  \A i \in ReadableLines(c, from) :
           /\ i \in Newlines(c, from)
           /\ i \in Nat /\ from < i /\ i <= Len(c) /\ i \in 1 .. Len(c)
           /\ LineStart(c, from, i) \in Nat
           /\ from < LineStart(c, from, i) /\ LineStart(c, from, i) < i
           /\ Columns(c, from, i) \in Nat /\ 0 < Columns(c, from, i)
           /\ Columns(c, from, i) < i
<1> SUFFICES ASSUME NEW i \in ReadableLines(c, from)
    PROVE  /\ i \in Newlines(c, from)
           /\ i \in Nat /\ from < i /\ i <= Len(c) /\ i \in 1 .. Len(c)
           /\ LineStart(c, from, i) \in Nat
           /\ from < LineStart(c, from, i) /\ LineStart(c, from, i) < i
           /\ Columns(c, from, i) \in Nat /\ 0 < Columns(c, from, i)
           /\ Columns(c, from, i) < i
  OBVIOUS
<1>1. i \in Newlines(c, from) /\ LineStart(c, from, i) < i
  BY DEF ReadableLines, Readable
<1>2. i \in Nat /\ from < i /\ i <= Len(c) BY <1>1, NewlinesAre
<1>3. LineStart(c, from, i) \in Nat /\ from < LineStart(c, from, i)
  BY <1>1, LineStartIs
<1>4. Len(c) \in Nat OBVIOUS
<1>5. i \in 1 .. Len(c) BY <1>2, <1>4
<1>6. Columns(c, from, i) \in Nat /\ 0 < Columns(c, from, i)
      /\ Columns(c, from, i) < i
  BY <1>1, <1>2, <1>3 DEF Columns
<1> QED BY <1>1, <1>2, <1>3, <1>5, <1>6

LEMMA HeaderLinesAre ==
  ASSUME NEW f, NEW c, NEW from, NEW h
  PROVE  /\ f \in CsvFiles /\ h = NoHeader =>
              HeaderLines(f, c, from, h) = First(ReadableLines(c, from))
         /\ ~(f \in CsvFiles /\ h = NoHeader) =>
              HeaderLines(f, c, from, h) = {}
BY DEF HeaderLines, First

(* The header of the first n cells. *)
HeaderOf(f, k, c, n) == HeaderAfter(f, k, SubSeq(c, 1, n), 0, NoHeader)

LEMMA HeaderResumed ==
  ASSUME NEW f, NEW k \in Nat,
         NEW T, NEW c \in Seq(T), NEW n \in 0 .. Len(c), LineEnd(c, n)
  PROVE  /\ HeaderAfter(f, k, c, n, HeaderOf(f, k, c, n))
              = HeaderAfter(f, k, c, 0, NoHeader)
         /\ HeaderLines(f, c, 0, NoHeader)
              = HeaderLines(f, SubSeq(c, 1, n), 0, NoHeader)
                  \cup HeaderLines(f, c, n, HeaderOf(f, k, c, n))
         /\ ReadableLines(SubSeq(c, 1, n), 0) # {} =>
              HeaderOf(f, k, c, n) = HeaderAfter(f, k, c, 0, NoHeader)
<1> DEFINE d == SubSeq(c, 1, n)
           h == HeaderOf(f, k, c, n)
           R == ReadableLines(c, 0)
           A == ReadableLines(d, 0)
           B == ReadableLines(c, n)
<1>1. n \in Nat /\ Len(c) \in Nat /\ n <= Len(c) OBVIOUS
<1>2. A = {i \in R : i <= n} BY CutReadable
<1>3. B = {i \in R : n < i} BY ResumeReadable
<1>4. \A i \in R : i \in Nat /\ i \in Newlines(c, 0)
                   /\ LineStart(c, 0, i) \in Nat /\ Columns(c, 0, i) \in Nat
  BY ReadableAre
<1>5. \A i \in A : LineStart(d, 0, i) = LineStart(c, 0, i)
                   /\ Columns(d, 0, i) = Columns(c, 0, i)
  BY <1>2, <1>4, CutLines DEF Columns
<1>6. \A i \in B : LineStart(c, n, i) = LineStart(c, 0, i)
                   /\ Columns(c, n, i) = Columns(c, 0, i)
  <2>1. \A i \in B : i \in Newlines(c, n) BY <1>1, ReadableAre
  <2> QED BY <2>1, ResumeLines DEF Columns
<1>7. CASE f \notin CsvFiles
  <2>1. \A x, from, g : HeaderLines(f, x, from, g) = {}
    BY <1>7, HeaderLinesAre
  <2>2. \A x, from, g : HeaderAfter(f, k, x, from, g) = g
    BY <2>1 DEF HeaderAfter
  <2>3. h = NoHeader BY <2>2 DEF HeaderOf
  <2> QED BY <2>1, <2>2, <2>3
<1>8. CASE f \in CsvFiles /\ A = {}
  <2>1. HeaderLines(f, d, 0, NoHeader) = {}
    BY <1>8, HeaderLinesAre DEF First
  <2>2. h = NoHeader BY <2>1 DEF HeaderOf, HeaderAfter
  <2>3. B = R
    <3>1. \A i \in R : ~(i <= n) BY <1>2, <1>8
    <3>2. \A i \in R : n < i BY <1>1, <1>4, <3>1
    <3> QED BY <1>3, <3>2
  <2>4. HeaderLines(f, c, 0, NoHeader) = First(R)
        /\ HeaderLines(f, c, n, h) = First(R)
    BY <1>8, <2>2, <2>3, HeaderLinesAre
  <2> HIDE DEF R, B, h, d
  <2>5. HeaderAfter(f, k, c, n, h) = HeaderAfter(f, k, c, 0, NoHeader)
    <3>1. CASE First(R) = {} BY <2>2, <2>4, <3>1 DEF HeaderAfter
    <3>2. CASE First(R) # {}
      <4> DEFINE i == CHOOSE i \in First(R) : TRUE
      <4>1. i \in B BY <2>3, <3>2 DEF First
      <4> HIDE DEF i
      <4>2. HeaderAfter(f, k, c, n, h)
              = [inc |-> k, start |-> LineStart(c, n, i),
                 columns |-> Columns(c, n, i)]
        BY <2>4, <3>2 DEF HeaderAfter, i
      <4>3. HeaderAfter(f, k, c, 0, NoHeader)
              = [inc |-> k, start |-> LineStart(c, 0, i),
                 columns |-> Columns(c, 0, i)]
        BY <2>4, <3>2 DEF HeaderAfter, i
      <4> QED BY <1>6, <4>1, <4>2, <4>3
    <3> QED BY <3>1, <3>2
  <2> QED BY <1>8, <2>1, <2>4, <2>5 DEF d, h
<1>9. CASE f \in CsvFiles /\ A # {}
  <2>1. PICK i \in A : First(A) = {i}
    <3>1. \A j \in A : j \in Nat BY <1>2, <1>4
    <3> HIDE DEF A
    <3> QED BY <1>9, <3>1, FirstIs
  <2>2. First(R) = {i}
    <3>1. i \in R /\ i <= n /\ i \in Nat BY <1>2, <1>4
    <3>2. \A j \in A : i <= j BY <2>1 DEF First
    <3>3. \A j \in R : i <= j BY <1>1, <1>2, <1>4, <3>1, <3>2
    <3>4. \A j \in First(R) : j = i BY <1>4, <3>1, <3>3 DEF First
    <3>5. i \in First(R) BY <3>1, <3>3 DEF First
    <3> QED BY <3>4, <3>5
  <2>3. HeaderLines(f, d, 0, NoHeader) = {i}
        /\ HeaderLines(f, c, 0, NoHeader) = {i}
    BY <1>9, <2>1, <2>2, HeaderLinesAre
  <2> HIDE DEF R, A, B, d
  <2>4. (CHOOSE j \in {i} : TRUE) = i OBVIOUS
  <2>5. h = [inc |-> k, start |-> LineStart(d, 0, i),
             columns |-> Columns(d, 0, i)]
    BY <2>3, <2>4 DEF HeaderOf, HeaderAfter, d
  <2>6. HeaderAfter(f, k, c, 0, NoHeader)
          = [inc |-> k, start |-> LineStart(c, 0, i),
             columns |-> Columns(c, 0, i)]
    BY <2>3, <2>4 DEF HeaderAfter
  <2> HIDE DEF h
  <2>7. h = HeaderAfter(f, k, c, 0, NoHeader) BY <1>5, <2>5, <2>6
  <2>8. h # NoHeader
    <3>1. LineStart(c, 0, i) \in Nat /\ Columns(c, 0, i) \in Nat
      BY <1>2, <1>4
    <3>2. h \in [inc : Nat, start : Nat, columns : Nat]
      BY <2>6, <2>7, <3>1
    <3> QED BY <3>2, TailerAssumption
  <2>9. HeaderLines(f, c, n, h) = {} BY <2>8, HeaderLinesAre
  <2>10. HeaderAfter(f, k, c, n, h) = h BY <2>9 DEF HeaderAfter
  <2> QED BY <2>3, <2>7, <2>9, <2>10 DEF h, d
<1> QED BY <1>7, <1>8, <1>9

-----------------------------------------------------------------------------
(* A file read in two pieces, cut behind a complete line, gives the same   *)
(* records as the file read at once: _frame carries the header over, and   *)
(* seek(offset) continues at the line behind the last one read.            *)
Resumed(f, k, c, n, d, h) ==
  /\ FramedLines(f, k, c, 0, NoHeader)
       = FramedLines(f, k, d, 0, NoHeader) \cup FramedLines(f, k, c, n, h)
  /\ \A i \in FramedLines(f, k, d, 0, NoHeader) :
       /\ i \in Nat /\ i <= n
       /\ LineStart(d, 0, i) = LineStart(c, 0, i)
       /\ h = HeaderAfter(f, k, c, 0, NoHeader)
  /\ \A i \in FramedLines(f, k, c, n, h) :
       /\ i \in Nat /\ n < i /\ i <= Len(c)
       /\ LineStart(c, n, i) = LineStart(c, 0, i)

LEMMA FramedResumed ==
  ASSUME NEW f, NEW k \in Nat,
         NEW T, NEW c \in Seq(T), NEW n \in 0 .. Len(c), LineEnd(c, n)
  PROVE  Resumed(f, k, c, n, SubSeq(c, 1, n), HeaderOf(f, k, c, n))
<1>a. /\ HeaderAfter(f, k, c, n, HeaderOf(f, k, c, n))
           = HeaderAfter(f, k, c, 0, NoHeader)
      /\ HeaderLines(f, c, 0, NoHeader)
           = HeaderLines(f, SubSeq(c, 1, n), 0, NoHeader)
               \cup HeaderLines(f, c, n, HeaderOf(f, k, c, n))
      /\ ReadableLines(SubSeq(c, 1, n), 0) # {} =>
           HeaderOf(f, k, c, n) = HeaderAfter(f, k, c, 0, NoHeader)
  BY HeaderResumed, Zenon
<1> DEFINE d == SubSeq(c, 1, n)
           h == HeaderOf(f, k, c, n)
           w == HeaderAfter(f, k, c, 0, NoHeader)
           R == ReadableLines(c, 0)
           A == ReadableLines(d, 0)
           B == ReadableLines(c, n)
           HR == HeaderLines(f, c, 0, NoHeader)
           HA == HeaderLines(f, d, 0, NoHeader)
           HB == HeaderLines(f, c, n, h)
<1>1. n \in Nat /\ Len(c) \in Nat /\ n <= Len(c) OBVIOUS
<1>2. A = {i \in R : i <= n} BY CutReadable
<1>3. B = {i \in R : n < i} BY ResumeReadable
<1>4. \A i \in R : i \in Nat /\ i <= Len(c) /\ i \in Newlines(c, 0)
  BY ReadableAre
<1>5. \A i \in A : LineStart(d, 0, i) = LineStart(c, 0, i)
                   /\ Columns(d, 0, i) = Columns(c, 0, i)
  BY <1>2, <1>4, CutLines DEF Columns
<1>6. \A i \in B : LineStart(c, n, i) = LineStart(c, 0, i)
                   /\ Columns(c, n, i) = Columns(c, 0, i)
  <2>1. \A i \in B : i \in Newlines(c, n) BY <1>1, ReadableAre
  <2> QED BY <2>1, ResumeLines DEF Columns
<1>7. HR = HA \cup HB /\ HeaderAfter(f, k, c, n, h) = w
      /\ (A # {} => h = w)
  BY <1>a
<1>8. HA \subseteq A /\ HB \subseteq B
  BY HeaderLinesAre DEF First
<1>9. R = A \cup B /\ A \cap B = {} BY <1>1, <1>2, <1>3, <1>4
<1>10. FramedLines(f, k, c, 0, NoHeader)
         = {i \in R \ HR : f \in CsvFiles => Columns(c, 0, i) = w.columns}
  BY DEF FramedLines
<1>11. FramedLines(f, k, d, 0, NoHeader)
         = {i \in A \ HA : f \in CsvFiles => Columns(d, 0, i) = h.columns}
  BY DEF FramedLines, HeaderOf
<1>12. FramedLines(f, k, c, n, h)
         = {i \in B \ HB : f \in CsvFiles => Columns(c, n, i) = w.columns}
  BY <1>7 DEF FramedLines
<1> HIDE DEF d, h, w, R, A, B, HR, HA, HB
<1>13. R \ HR = (A \ HA) \cup (B \ HB) BY <1>7, <1>8, <1>9
<1>14. \A i \in A : h = w BY <1>7
<1>15. {i \in R \ HR : f \in CsvFiles => Columns(c, 0, i) = w.columns}
         = {i \in A \ HA : f \in CsvFiles => Columns(d, 0, i) = h.columns}
             \cup {i \in B \ HB : f \in CsvFiles => Columns(c, n, i) = w.columns}
  BY <1>5, <1>6, <1>13, <1>14
<1>16. FramedLines(f, k, c, 0, NoHeader)
         = FramedLines(f, k, d, 0, NoHeader) \cup FramedLines(f, k, c, n, h)
  BY <1>10, <1>11, <1>12, <1>15
<1>17. \A i \in FramedLines(f, k, d, 0, NoHeader) :
          i \in Nat /\ i <= n /\ LineStart(d, 0, i) = LineStart(c, 0, i) /\ h = w
  BY <1>2, <1>4, <1>5, <1>11, <1>14
<1>18. \A i \in FramedLines(f, k, c, n, h) :
          i \in Nat /\ n < i /\ i <= Len(c)
          /\ LineStart(c, n, i) = LineStart(c, 0, i)
  BY <1>3, <1>4, <1>6, <1>12
<1>19. Resumed(f, k, c, n, d, h) BY <1>16, <1>17, <1>18 DEF Resumed, w
<1> QED BY <1>19 DEF d, h

ReadInTwo(f, k, c, n) ==
  RecordsOf(f, k, c, 0, NoHeader)
    = RecordsOf(f, k, SubSeq(c, 1, n), 0, NoHeader)
        \o RecordsOf(f, k, c, n, HeaderOf(f, k, c, n))

LEMMA RecordsResumed ==
  ASSUME NEW f, NEW k \in Nat,
         NEW T, NEW c \in Seq(T), NEW n \in 0 .. Len(c), LineEnd(c, n)
  PROVE  ReadInTwo(f, k, c, n)
<1>a. Resumed(f, k, c, n, SubSeq(c, 1, n), HeaderOf(f, k, c, n))
  BY FramedResumed
<1>b. HeaderAfter(f, k, c, n, HeaderOf(f, k, c, n))
        = HeaderAfter(f, k, c, 0, NoHeader)
  BY HeaderResumed, Zenon
<1> DEFINE d == SubSeq(c, 1, n)
           h == HeaderOf(f, k, c, n)
           w == HeaderAfter(f, k, c, 0, NoHeader)
           F == FramedLines(f, k, c, 0, NoHeader)
           A == FramedLines(f, k, d, 0, NoHeader)
           B == FramedLines(f, k, c, n, h)
<1>1. /\ F = A \cup B
      /\ \A i \in A : i \in Nat /\ i <= n /\ h = w
                      /\ LineStart(d, 0, i) = LineStart(c, 0, i)
      /\ \A i \in B : i \in Nat /\ n < i /\ i <= Len(c)
                      /\ LineStart(c, n, i) = LineStart(c, 0, i)
  BY <1>a DEF Resumed
<1>2. HeaderAfter(f, k, c, n, h) = w BY <1>b
<1>3. RecordsOf(f, k, c, 0, NoHeader)
        = [p \in 1 .. Cardinality(F) |->
             [inc |-> k, start |-> LineStart(c, 0, Nth(F, p)),
              end |-> Nth(F, p), header |-> w]]
  BY DEF RecordsOf
<1>4. RecordsOf(f, k, d, 0, NoHeader)
        = [p \in 1 .. Cardinality(A) |->
             [inc |-> k, start |-> LineStart(d, 0, Nth(A, p)),
              end |-> Nth(A, p), header |-> h]]
  BY DEF RecordsOf, HeaderOf
<1>5. RecordsOf(f, k, c, n, h)
        = [p \in 1 .. Cardinality(B) |->
             [inc |-> k, start |-> LineStart(c, n, Nth(B, p)),
              end |-> Nth(B, p), header |-> w]]
  BY <1>2 DEF RecordsOf
<1>6. n \in Nat /\ Len(c) \in Nat /\ n <= Len(c) OBVIOUS
<1> HIDE DEF d, h, w, F, A, B
<1>7. /\ \A a \in A : a \in Nat /\ a <= Len(c)
      /\ \A b \in B : b \in Nat /\ b <= Len(c)
      /\ \A a \in A, b \in B : a < b
  BY <1>1, <1>6
<1>8. /\ Cardinality(A) \in Nat /\ Cardinality(B) \in Nat
      /\ Cardinality(F) = Cardinality(A) + Cardinality(B)
      /\ \A p \in 1 .. Cardinality(A) : Nth(F, p) = Nth(A, p)
      /\ \A p \in 1 .. Cardinality(B) :
           Nth(F, Cardinality(A) + p) = Nth(B, p)
  <2> DEFINE N == Len(c)
  <2>1. N \in Nat BY <1>6
  <2>2. Apart(A, B, N) BY <1>7 DEF Apart
  <2> HIDE DEF N
  <2>3. Enumerated(A, B, A \cup B) BY <2>1, <2>2, NthOfUnion
  <2>4. Enumerated(A, B, F) BY <1>1, <2>3
  <2> QED BY <2>4 DEF Enumerated
<1>9. /\ \A p \in 1 .. Cardinality(A) : Nth(A, p) \in A
      /\ \A p \in 1 .. Cardinality(B) : Nth(B, p) \in B
  BY <1>6, <1>7, NthIs
<1> DEFINE X == RecordsOf(f, k, d, 0, NoHeader)
           Y == RecordsOf(f, k, c, n, h)
           Z == RecordsOf(f, k, c, 0, NoHeader)
           a == Cardinality(A)
           b == Cardinality(B)
<1>10. a \in Nat /\ b \in Nat BY <1>8
<1>11. ASSUME NEW p \in 1 .. a PROVE Z[p] = X[p]
  <2>1. p \in 1 .. Cardinality(F) BY <1>8
  <2>2. Nth(F, p) = Nth(A, p) /\ Nth(A, p) \in A BY <1>8, <1>9
  <2>3. /\ LineStart(d, 0, Nth(A, p)) = LineStart(c, 0, Nth(A, p))
        /\ h = w
    BY <1>1, <2>2
  <2>4. Z[p] = [inc |-> k, start |-> LineStart(c, 0, Nth(F, p)),
                end |-> Nth(F, p), header |-> w]
    BY <1>3, <2>1
  <2>5. X[p] = [inc |-> k, start |-> LineStart(d, 0, Nth(A, p)),
                end |-> Nth(A, p), header |-> h]
    BY <1>4
  <2> HIDE DEF X, Z
  <2> QED BY <2>2, <2>3, <2>4, <2>5
<1>12. ASSUME NEW p \in 1 .. b PROVE Z[a + p] = Y[p]
  <2>1. a + p \in 1 .. Cardinality(F) BY <1>8
  <2>2. Nth(F, a + p) = Nth(B, p) /\ Nth(B, p) \in B BY <1>8, <1>9
  <2>3. LineStart(c, n, Nth(B, p)) = LineStart(c, 0, Nth(B, p))
    BY <1>1, <2>2
  <2> DEFINE q == a + p
  <2> HIDE DEF q
  <2>4. Z[q] = [inc |-> k, start |-> LineStart(c, 0, Nth(F, q)),
                end |-> Nth(F, q), header |-> w]
    BY <1>3, <2>1 DEF q
  <2>5. Y[p] = [inc |-> k, start |-> LineStart(c, n, Nth(B, p)),
                end |-> Nth(B, p), header |-> w]
    BY <1>5
  <2> HIDE DEF Y, Z, a
  <2>6. Z[q] = Y[p] BY <2>2, <2>3, <2>4, <2>5 DEF q
  <2> QED BY <2>6 DEF q
<1>13. DOMAIN X = 1 .. a /\ DOMAIN Y = 1 .. b /\ DOMAIN Z = 1 .. a + b
  BY <1>3, <1>4, <1>5, <1>8
<1>14. X = [p \in 1 .. a |-> X[p]] /\ Y = [p \in 1 .. b |-> Y[p]]
       /\ Z = [p \in 1 .. a + b |-> Z[p]]
  BY <1>3, <1>4, <1>5, <1>8
<1> HIDE DEF X, Y, Z, a, b
<1>15. Joined(X, Y, Z, a, b) BY <1>11, <1>12, <1>14 DEF Joined
<1>16. Z = X \o Y BY <1>10, <1>15, Concatenated
<1> QED BY <1>16 DEF X, Y, Z, d, h, ReadInTwo

(* What is consumed holds every line there is. *)
LEMMA RowsConsumed ==
  ASSUME NEW f, NEW k \in Nat,
         NEW T, NEW c \in Seq(T), NEW m \in 0 .. Len(c),
         \A i \in Newlines(c, 0) : i <= m
  PROVE  /\ RecordsOf(f, k, SubSeq(c, 1, m), 0, NoHeader)
              = RecordsOf(f, k, c, 0, NoHeader)
         /\ HeaderOf(f, k, c, m) = HeaderAfter(f, k, c, 0, NoHeader)
<1> DEFINE d == SubSeq(c, 1, m)
           R == ReadableLines(c, 0)
           F == FramedLines(f, k, c, 0, NoHeader)
           w == HeaderAfter(f, k, c, 0, NoHeader)
<1>1. \A i \in R : i \in Newlines(c, 0) /\ i <= m BY ReadableAre
<1>2. ReadableLines(d, 0) = R BY <1>1, CutReadable
<1>3. \A i \in R : LineStart(d, 0, i) = LineStart(c, 0, i)
                   /\ Columns(d, 0, i) = Columns(c, 0, i)
  BY <1>1, CutLines DEF Columns
<1> HIDE DEF d, R
<1>4. HeaderLines(f, d, 0, NoHeader) = HeaderLines(f, c, 0, NoHeader)
      /\ HeaderLines(f, c, 0, NoHeader) \subseteq R
  BY <1>2 DEF HeaderLines, R
<1>5. HeaderAfter(f, k, d, 0, NoHeader) = w
  BY <1>3, <1>4 DEF HeaderAfter
<1>6. FramedLines(f, k, d, 0, NoHeader) = F /\ F \subseteq R
  BY <1>2, <1>3, <1>4, <1>5 DEF FramedLines, R
<1> HIDE DEF F, w
<1>7. \A p \in 1 .. Cardinality(F) : Nth(F, p) \in F
  <2> DEFINE N == Len(c)
  <2>1. N \in Nat OBVIOUS
  <2>2. \A i \in F : i \in Nat /\ i <= N BY <1>6, ReadableAre DEF R
  <2> HIDE DEF N
  <2> QED BY <2>1, <2>2, NthIs
<1>8. RecordsOf(f, k, d, 0, NoHeader)
        = [p \in 1 .. Cardinality(F) |->
             [inc |-> k, start |-> LineStart(d, 0, Nth(F, p)),
              end |-> Nth(F, p), header |-> w]]
  BY <1>5, <1>6 DEF RecordsOf
<1>9. RecordsOf(f, k, c, 0, NoHeader)
        = [p \in 1 .. Cardinality(F) |->
             [inc |-> k, start |-> LineStart(c, 0, Nth(F, p)),
              end |-> Nth(F, p), header |-> w]]
  BY DEF RecordsOf, F, w
<1>10. \A p \in 1 .. Cardinality(F) :
         LineStart(d, 0, Nth(F, p)) = LineStart(c, 0, Nth(F, p))
  BY <1>3, <1>6, <1>7
<1> QED BY <1>5, <1>8, <1>9, <1>10 DEF d, w, HeaderOf

-----------------------------------------------------------------------------
(* What a read yields: records of the file that is there, of lines behind  *)
(* the offset, in the order of the file.                                   *)
LEMMA HeaderType ==
  ASSUME NEW f, NEW k \in 1 .. MaxFiles, NEW c \in Seq(Cell),
         Len(c) <= MaxCells, NEW from \in Nat,
         NEW h \in Header \cup {NoHeader}
  PROVE  HeaderAfter(f, k, c, from, h) \in Header \cup {NoHeader}
<1> DEFINE first == HeaderLines(f, c, from, h)
           i == CHOOSE i \in first : TRUE
<1>1. first \subseteq ReadableLines(c, from)
  BY DEF HeaderLines
<1>2. CASE first = {} BY <1>2 DEF HeaderAfter
<1>3. CASE first # {}
  <2>1. i \in ReadableLines(c, from) BY <1>1, <1>3
  <2>2. HeaderAfter(f, k, c, from, h)
          = [inc |-> k, start |-> LineStart(c, from, i),
             columns |-> Columns(c, from, i)]
    BY <1>3 DEF HeaderAfter
  <2> HIDE DEF i
  <2>3. /\ i \in Nat /\ i <= Len(c) /\ Len(c) \in Nat
        /\ LineStart(c, from, i) \in Nat /\ Columns(c, from, i) \in Nat
        /\ from < LineStart(c, from, i) /\ LineStart(c, from, i) < i
        /\ 0 < Columns(c, from, i) /\ Columns(c, from, i) < i
    BY <2>1, ReadableAre
  <2>4. LineStart(c, from, i) \in 1 .. MaxCells
        /\ Columns(c, from, i) \in 1 .. MaxCells
    BY <2>3, TailerAssumption
  <2> QED BY <2>2, <2>4 DEF Header
<1> QED BY <1>2, <1>3

Fresh(Y, k, from, to) ==
  /\ Y \in Seq(Record)
  /\ \A n \in 1 .. Len(Y) :
       Y[n].inc = k /\ from < Y[n].end /\ Y[n].end <= to
  /\ \A n \in 1 .. Len(Y) - 1 : Y[n].end < Y[n + 1].end

LEMMA RecordsAre ==
  ASSUME NEW f, NEW k \in 1 .. MaxFiles, NEW c \in Seq(Cell),
         Len(c) <= MaxCells, NEW from \in Nat,
         NEW h \in Header \cup {NoHeader}
  PROVE  Fresh(RecordsOf(f, k, c, from, h), k, from, Consumed(c, from))
<1> DEFINE Y == RecordsOf(f, k, c, from, h)
           F == FramedLines(f, k, c, from, h)
           w == HeaderAfter(f, k, c, from, h)
           N == Len(c)
<1>1. N \in Nat OBVIOUS
<1>2. \A i \in F : i \in ReadableLines(c, from) BY DEF FramedLines
<1>3. \A i \in F :
        /\ i \in Newlines(c, from) /\ i \in Nat /\ i <= N /\ from < i
        /\ LineStart(c, from, i) \in Nat
        /\ from < LineStart(c, from, i) /\ LineStart(c, from, i) < i
  BY <1>2, ReadableAre
<1>4. w \in Header \cup {NoHeader} BY HeaderType
<1>5. Y = [p \in 1 .. Cardinality(F) |->
             [inc |-> k, start |-> LineStart(c, from, Nth(F, p)),
              end |-> Nth(F, p), header |-> w]]
  BY DEF RecordsOf
<1> HIDE DEF Y, F, w
<1>6. N <= MaxCells OBVIOUS
<1> HIDE DEF N
<1>7. Cardinality(F) \in Nat BY <1>1, <1>3, PositionsFinite
<1>8. \A p \in 1 .. Cardinality(F) : Nth(F, p) \in F
  BY <1>1, <1>3, NthIs
<1>9. \A p \in 1 .. Cardinality(F), q \in 1 .. Cardinality(F) :
        p < q => Nth(F, p) < Nth(F, q)
  BY <1>1, <1>3, NthGrows
<1>10. \A p \in 1 .. Cardinality(F) :
         [inc |-> k, start |-> LineStart(c, from, Nth(F, p)),
          end |-> Nth(F, p), header |-> w] \in Record
  <2> SUFFICES ASSUME NEW p \in 1 .. Cardinality(F)
      PROVE  [inc |-> k, start |-> LineStart(c, from, Nth(F, p)),
              end |-> Nth(F, p), header |-> w] \in Record
    OBVIOUS
  <2> DEFINE i == Nth(F, p)
  <2>1. i \in F BY <1>8
  <2> HIDE DEF i
  <2>2. i \in 1 .. MaxCells /\ LineStart(c, from, i) \in 1 .. MaxCells
    BY <1>1, <1>3, <1>6, <2>1, TailerAssumption
  <2>3. [inc |-> k, start |-> LineStart(c, from, i), end |-> i,
         header |-> w] \in Record
    BY <1>4, <2>2 DEF Record
  <2> QED BY <2>3 DEF i
<1>11. Y \in Seq(Record) /\ Len(Y) = Cardinality(F) BY <1>5, <1>7, <1>10
<1>12. \A p \in 1 .. Len(Y) : Y[p].inc = k /\ Y[p].end = Nth(F, p)
  BY <1>5, <1>11
<1>13. \A p \in 1 .. Len(Y) : from < Y[p].end /\ Y[p].end <= Consumed(c, from)
  BY <1>3, <1>8, <1>11, <1>12, ConsumedIs
<1>14. \A p \in 1 .. Len(Y) - 1 : Y[p].end < Y[p + 1].end
  <2> SUFFICES ASSUME NEW p \in 1 .. Len(Y) - 1
      PROVE  Y[p].end < Y[p + 1].end
    OBVIOUS
  <2>1. p \in 1 .. Len(Y) /\ p + 1 \in 1 .. Len(Y) /\ p < p + 1
    BY <1>7, <1>11
  <2> QED BY <1>9, <1>11, <1>12, <2>1
<1>15. Fresh(Y, k, from, Consumed(c, from))
  BY <1>11, <1>12, <1>13, <1>14 DEF Fresh
<1> QED BY <1>15 DEF Y

-----------------------------------------------------------------------------
(* The inductive invariant.                                                *)

Taken(f) == delivered[f] \o batch[f]

(* Files are within the bounds, and the steps of a poll in their order.    *)
PollSane ==
  /\ \A f \in Files :
       Exists(f) => Len(content[f]) <= MaxCells /\ inc[f] \in 1 .. MaxFiles
  /\ \A f \in Files : readFrom[f] <= inc[f]
  /\ pc = "open" => file \in Files /\ batch[file] = <<>> /\ file \notin todo
  /\ pc = "idle" => \A f \in Files : batch[f] = <<>>
  /\ \A f \in todo : batch[f] = <<>>

(* What was taken of the file that is there lies before the offset, and    *)
(* the next read begins at the offset.                                     *)
TakenBehind ==
  \A f \in Files : \A n \in 1 .. Len(Taken(f)) :
    /\ Taken(f)[n].inc <= inc[f]
    /\ Taken(f)[n].inc = inc[f] /\ Exists(f) =>
         /\ Taken(f)[n].end <= offsets[f] /\ offsets[f] <= Len(content[f])
         /\ pc = "open" /\ file = f => pos = offsets[f]

(* The offset and the header are those of one reading of the same cells.   *)
HeaderKept ==
  /\ \A f \in Files :
       /\ offsets[f] = 0 => headers[f] = NoHeader
       /\ Exists(f) /\ readFrom[f] = inc[f] =>
            /\ offsets[f] <= Len(content[f])
            /\ LineEnd(content[f], offsets[f])
            /\ headers[f] = HeaderOf(f, inc[f], content[f], offsets[f])
            /\ pc = "open" /\ file = f => pos = offsets[f]
  /\ pc = "open" /\ pos = 0 => headers[file] = NoHeader

TailInv == TypeOK /\ PollSane /\ OnceInOrder /\ TakenBehind /\ HeaderKept /\ ReadAsAWhole

LEMMA CellsWritten ==
  ASSUME NEW f \in Files, NEW c \in Seq(Cell), NEW cell \in NextCells(f, c)
  PROVE  cell \in Cell
<1>1. c # <<>> => c[Len(c)] \in Cell OBVIOUS
<1>2. c # <<>> /\ c[Len(c)] = "field" => "field" \in Cell BY <1>1
<1> QED BY <1>2 DEF NextCells, Cell

LEMMA OffsetType ==
  ASSUME NEW c \in Seq(Cell), Len(c) <= MaxCells, NEW from \in Position
  PROVE  Consumed(c, from) \in Position /\ from <= Consumed(c, from)
<1>1. from \in Nat /\ from <= MaxCells /\ MaxCells \in Nat /\ Len(c) \in Nat
  BY TailerAssumption DEF Position
<1>2. /\ Consumed(c, from) \in Nat /\ from <= Consumed(c, from)
      /\ \/ Consumed(c, from) = from
         \/ Consumed(c, from) \in Newlines(c, from)
  BY <1>1, ConsumedIs
<1>3. \A i \in Newlines(c, from) : i <= Len(c) BY <1>1, NewlinesAre
<1>4. Consumed(c, from) <= MaxCells BY <1>1, <1>2, <1>3
<1> QED BY <1>1, <1>2, <1>4 DEF Position

LEMMA StartSane == Init => TypeOK /\ PollSane
<1> SUFFICES ASSUME Init PROVE TypeOK /\ PollSane OBVIOUS
<1> USE DEF Init
<1>1. \A f \in Files : ~Exists(f) BY DEF Exists
<1>2. 0 \in Position /\ 0 \in 0 .. MaxFiles /\ 0 \in 0 .. MaxRestarts
  BY TailerAssumption DEF Position
<1>3. <<>> \in Seq(Record) OBVIOUS
<1>4. TypeOK BY <1>2, <1>3 DEF TypeOK
<1>5. PollSane BY <1>1 DEF PollSane
<1> QED BY <1>4, <1>5

LEMMA ReadYields ==
  ASSUME TypeOK, PollSane, Read
  PROVE  /\ file \in Files /\ Exists(file) /\ content[file] \in Seq(Cell)
         /\ Len(content[file]) <= MaxCells
         /\ inc[file] \in 1 .. MaxFiles /\ pos \in Nat
         /\ headers[file] \in Header \cup {NoHeader}
         /\ HeaderAfter(file, inc[file], content[file], pos, headers[file])
              \in Header \cup {NoHeader}
         /\ Fresh(RecordsOf(file, inc[file], content[file], pos, headers[file]),
                  inc[file], pos, Consumed(content[file], pos))
         /\ NewOffset(file) \in Position /\ pos <= NewOffset(file)
<1>1. file \in Files /\ Exists(file) BY DEF Read, PollSane
<1>2. content[file] \in Seq(Cell) BY <1>1 DEF Exists, TypeOK
<1>3. Len(content[file]) <= MaxCells /\ inc[file] \in 1 .. MaxFiles
  BY <1>1 DEF PollSane
<1>4. pos \in Position /\ pos \in Nat BY DEF TypeOK, Position
<1>5. headers[file] \in Header \cup {NoHeader} BY <1>1 DEF TypeOK
<1> QED BY <1>1, <1>2, <1>3, <1>4, <1>5, HeaderType, RecordsAre, OffsetType
        DEF NewOffset

LEMMA TypeStep == TypeOK /\ PollSane /\ [Next]_vars => TypeOK'
<1> SUFFICES ASSUME TypeOK, PollSane, [Next]_vars PROVE TypeOK' OBVIOUS
<1> USE DEF environment, collector
<1>1. ASSUME NEW f \in Files, CreateFile(f) PROVE TypeOK'
  <2>1. inc[f] + 1 \in 0 .. MaxFiles
    BY <1>1, TailerAssumption DEF CreateFile, TypeOK
  <2>2. <<>> \in Seq(Cell) OBVIOUS
  <2> QED BY <1>1, <2>1, <2>2 DEF CreateFile, TypeOK
<1>2. ASSUME NEW f \in Files, WriteCell(f) PROVE TypeOK'
  <2>1. content[f] \in Seq(Cell) BY <1>2 DEF WriteCell, Exists, TypeOK
  <2>2. PICK cell \in NextCells(f, content[f]) :
          content' = [content EXCEPT ![f] = Append(@, cell)]
    BY <1>2 DEF WriteCell
  <2>3. cell \in Cell BY <2>1, CellsWritten
  <2>4. Append(content[f], cell) \in Seq(Cell) BY <2>1, <2>3
  <2>5. content' \in [Files -> Seq(Cell) \cup {NoFile}]
    BY <2>2, <2>4 DEF TypeOK
  <2> QED BY <1>2, <2>5 DEF WriteCell, TypeOK
<1>3. ASSUME NEW f \in Files, RemoveFile(f) PROVE TypeOK'
  BY <1>3 DEF RemoveFile, TypeOK
<1>4. CASE PollBegin BY <1>4 DEF PollBegin, TypeOK
<1>5. ASSUME NEW f \in Files, Stat(f) PROVE TypeOK'
  <2>1. pos' \in Position BY <1>5, TailerAssumption DEF Stat, TypeOK, Position
  <2>2. headers' \in [Files -> Header \cup {NoHeader}]
    BY <1>5 DEF Stat, HeadersAfterStat, TypeOK
  <2> QED BY <1>5, <2>1, <2>2 DEF Stat, TypeOK
<1>6. ASSUME NEW f \in Files, StatFails(f) PROVE TypeOK'
  BY <1>6 DEF StatFails, TypeOK
<1>7. CASE Read
  <2>1. /\ file \in Files
        /\ HeaderAfter(file, inc[file], content[file], pos, headers[file])
             \in Header \cup {NoHeader}
        /\ Fresh(RecordsOf(file, inc[file], content[file], pos, headers[file]),
                 inc[file], pos, Consumed(content[file], pos))
        /\ NewOffset(file) \in Position
    BY <1>7, ReadYields
  <2>2. batch' \in [Files -> Seq(Record)]
    BY <1>7, <2>1 DEF Read, Fresh, TypeOK
  <2>3. headers' \in [Files -> Header \cup {NoHeader}]
    BY <1>7, <2>1 DEF Read, TypeOK
  <2>4. offsets' \in [Files -> Position] BY <1>7, <2>1 DEF Read, TypeOK
  <2>5. readFrom' \in [Files -> 0 .. MaxFiles]
    BY <1>7, <2>1 DEF Read, TypeOK
  <2>6. 0 \in Position BY TailerAssumption DEF Position
  <2> QED BY <1>7, <2>2, <2>3, <2>4, <2>5, <2>6 DEF Read, TypeOK
<1>8. CASE ReadFails
  <2>1. 0 \in Position BY TailerAssumption DEF Position
  <2> QED BY <1>8, <2>1 DEF ReadFails, TypeOK
<1>9. CASE PollEnd
  <2>1. \A f \in Files : delivered[f] \o batch[f] \in Seq(Record)
    BY DEF TypeOK
  <2>2. delivered' \in [Files -> Seq(Record)]
    BY <1>9, <2>1 DEF PollEnd
  <2>3. <<>> \in Seq(Record) OBVIOUS
  <2> QED BY <1>9, <2>2, <2>3 DEF PollEnd, TypeOK
<1>10. CASE Restart
  <2>1. 0 \in Position /\ 0 \in 0 .. MaxFiles
    BY TailerAssumption DEF Position
  <2>2. restarts' \in 0 .. MaxRestarts
    BY <1>10, TailerAssumption DEF Restart, TypeOK
  <2>3. <<>> \in Seq(Record) OBVIOUS
  <2> QED BY <1>10, <2>1, <2>2, <2>3 DEF Restart, TypeOK
<1>11. CASE UNCHANGED vars BY <1>11 DEF vars, TypeOK
<1> QED BY <1>1, <1>2, <1>3, <1>4, <1>5, <1>6, <1>7, <1>8, <1>9, <1>10, <1>11
        DEF Next, Collector, Environment

LEMMA PollStep == TypeOK /\ PollSane /\ [Next]_vars => PollSane'
<1> SUFFICES ASSUME TypeOK, PollSane, [Next]_vars PROVE PollSane' OBVIOUS
<1> USE DEF environment, collector
<1>0. \A f \in Files :
        /\ inc[f] \in Nat /\ readFrom[f] \in Nat /\ inc[f] <= MaxFiles
        /\ Exists(f) => content[f] \in Seq(Cell)
  BY TailerAssumption DEF TypeOK, Exists
<1>1. ASSUME NEW f \in Files, CreateFile(f) PROVE PollSane'
  <2>1. \A g \in Files :
          Exists(g)' => Len(content'[g]) <= MaxCells /\ inc'[g] \in 1 .. MaxFiles
    <3> SUFFICES ASSUME NEW g \in Files, Exists(g)'
        PROVE  Len(content'[g]) <= MaxCells /\ inc'[g] \in 1 .. MaxFiles
      OBVIOUS
    <3>1. CASE g = f
      <4>1. content'[f] = <<>> /\ inc'[f] = inc[f] + 1 /\ inc[f] < MaxFiles
        BY <1>1 DEF CreateFile, TypeOK
      <4>2. Len(<<>>) = 0 OBVIOUS
      <4> QED BY <1>0, <3>1, <4>1, <4>2, TailerAssumption
    <3>2. CASE g # f
      <4>1. content'[g] = content[g] /\ inc'[g] = inc[g]
        BY <1>1, <3>2 DEF CreateFile, TypeOK
      <4> QED BY <4>1 DEF PollSane, Exists
    <3> QED BY <3>1, <3>2
  <2>2. \A g \in Files : readFrom'[g] <= inc'[g]
    BY <1>0, <1>1 DEF CreateFile, PollSane, TypeOK
  <2> QED BY <1>1, <2>1, <2>2 DEF CreateFile, PollSane
<1>2. ASSUME NEW f \in Files, WriteCell(f) PROVE PollSane'
  <2>1. PICK cell \in NextCells(f, content[f]) :
          content' = [content EXCEPT ![f] = Append(@, cell)]
    BY <1>2 DEF WriteCell
  <2>2. Exists(f) /\ Len(content[f]) < MaxCells /\ content[f] \in Seq(Cell)
    BY <1>0, <1>2 DEF WriteCell
  <2>3. Len(Append(content[f], cell)) = Len(content[f]) + 1
        /\ Len(content[f]) \in Nat
    BY <2>2
  <2>4. Len(content'[f]) <= MaxCells
    BY <2>1, <2>2, <2>3, TailerAssumption DEF TypeOK
  <2>5. \A g \in Files : g # f => content'[g] = content[g]
    BY <2>1 DEF TypeOK
  <2>6. \A g \in Files :
          Exists(g)' => Len(content'[g]) <= MaxCells /\ inc'[g] \in 1 .. MaxFiles
    BY <1>2, <2>2, <2>4, <2>5 DEF WriteCell, PollSane, Exists
  <2> QED BY <1>2, <2>6 DEF WriteCell, PollSane
<1>3. ASSUME NEW f \in Files, RemoveFile(f) PROVE PollSane'
  <2>1. \A g \in Files : Exists(g)' => content'[g] = content[g] /\ Exists(g)
    BY <1>3 DEF RemoveFile, TypeOK, Exists
  <2> QED BY <1>3, <2>1 DEF RemoveFile, PollSane
<1>4. CASE PollBegin BY <1>4 DEF PollBegin, PollSane, Exists
<1>5. ASSUME NEW f \in Files, Stat(f) PROVE PollSane'
  BY <1>5 DEF Stat, PollSane, Exists
<1>6. ASSUME NEW f \in Files, StatFails(f) PROVE PollSane'
  BY <1>6 DEF StatFails, PollSane, Exists
<1>7. CASE Read
  <2>1. \A f \in Files : readFrom'[f] <= inc'[f]
    BY <1>0, <1>7 DEF Read, PollSane, TypeOK
  <2>2. \A f \in Files : f # file => batch'[f] = batch[f]
    BY <1>7 DEF Read, TypeOK
  <2> QED BY <1>7, <2>1, <2>2 DEF Read, PollSane, Exists
<1>8. CASE ReadFails BY <1>8 DEF ReadFails, PollSane, Exists
<1>9. CASE PollEnd BY <1>9 DEF PollEnd, PollSane, Exists
<1>10. CASE Restart
  <2>1. \A f \in Files : readFrom'[f] <= inc'[f] BY <1>0, <1>10 DEF Restart
  <2> QED BY <1>10, <2>1 DEF Restart, PollSane, Exists
<1>11. CASE UNCHANGED vars BY <1>11 DEF vars, PollSane, Exists
<1> QED BY <1>1, <1>2, <1>3, <1>4, <1>5, <1>6, <1>7, <1>8, <1>9, <1>10, <1>11
        DEF Next, Collector, Environment

(* What the variables hold holds: _read_new_lines keeps offsets and        *)
(* headers of files in the directory, within the file.                     *)
THEOREM TypeCorrect == Spec => [](TypeOK /\ PollSane)
<1>1. Init => TypeOK /\ PollSane BY StartSane
<1>2. TypeOK /\ PollSane /\ [Next]_vars => (TypeOK /\ PollSane)'
  BY TypeStep, PollStep
<1> QED BY <1>1, <1>2, PTL DEF Spec

-----------------------------------------------------------------------------
(* Only a read takes records, and only a restart forgets them.             *)
LEMMA EmptyTail == ASSUME NEW V, NEW s \in Seq(V) PROVE s \o <<>> = s
OBVIOUS

LEMMA TakenSteady ==
  ASSUME TypeOK, PollSane, [Next]_vars, ~Read, ~Restart
  PROVE  \A f \in Files : Taken(f)' = Taken(f)
<1>1. CASE PollEnd
  <2> SUFFICES ASSUME NEW f \in Files PROVE Taken(f)' = Taken(f) OBVIOUS
  <2>1. delivered[f] \in Seq(Record) /\ batch[f] \in Seq(Record) BY DEF TypeOK
  <2>2. delivered[f] \o batch[f] \in Seq(Record) BY <2>1
  <2>3. Taken(f)' = (delivered[f] \o batch[f]) \o <<>>
    BY <1>1 DEF Taken, PollEnd
  <2> QED BY <2>2, <2>3, EmptyTail DEF Taken
<1>2. CASE ~PollEnd
  <2>1. UNCHANGED <<delivered, batch>>
    BY <1>2 DEF Next, Collector, Environment, CreateFile, WriteCell, RemoveFile,
                PollBegin, Stat, StatFails, ReadFails, vars, environment, collector
  <2> QED BY <2>1 DEF Taken
<1> QED BY <1>1, <1>2

Yield == RecordsOf(file, inc[file], content[file], pos, headers[file])

LEMMA TakenRead ==
  ASSUME TypeOK, PollSane, Read
  PROVE  /\ \A f \in Files :
              Taken(f)' = IF f = file THEN Taken(f) \o Yield ELSE Taken(f)
         /\ \A f \in Files : Taken(f) \in Seq(Record)
         /\ Fresh(Yield, inc[file], pos, Consumed(content[file], pos))
<1>1. file \in Files /\ batch[file] = <<>> BY DEF Read, PollSane
<1>2. \A f \in Files : delivered[f] \in Seq(Record) /\ batch[f] \in Seq(Record)
  BY DEF TypeOK
<1>3. Taken(file) = delivered[file] BY <1>1, <1>2, EmptyTail DEF Taken
<1>4. delivered' = delivered /\ batch' = [batch EXCEPT ![file] = Yield]
  BY DEF Read, Yield
<1>5. ASSUME NEW f \in Files, f = file PROVE Taken(f)' = Taken(f) \o Yield
  <2>1. batch'[f] = Yield BY <1>4, <1>5 DEF TypeOK
  <2>2. delivered'[f] \o batch'[f] = Taken(f) \o Yield
    BY <1>3, <1>4, <1>5, <2>1
  <2> QED BY <2>2 DEF Taken
<1>6. \A f \in Files : f # file => Taken(f)' = Taken(f)
  BY <1>4 DEF Taken, TypeOK
<1>7. Fresh(Yield, inc[file], pos, Consumed(content[file], pos))
  BY ReadYields DEF Yield
<1>8. \A f \in Files : Taken(f) \in Seq(Record) BY <1>2 DEF Taken
<1> QED BY <1>5, <1>6, <1>7, <1>8

LEMMA RestartTaken ==
  ASSUME Restart PROVE \A f \in Files : Len(Taken(f)') = 0
<1>1. \A f \in Files : Taken(f)' = <<>> \o <<>> BY DEF Restart, Taken
<1>2. <<>> \o <<>> = <<>> OBVIOUS
<1> QED BY <1>1, <1>2

LEMMA TakenTypes ==
  ASSUME TypeOK
  PROVE  \A f \in Files :
           /\ Taken(f) \in Seq(Record) /\ Len(Taken(f)) \in Nat
           /\ \A n \in 1 .. Len(Taken(f)) :
                Taken(f)[n].inc \in Nat /\ Taken(f)[n].end \in Nat
                /\ 1 <= Taken(f)[n].end
           /\ inc[f] \in Nat /\ offsets[f] \in Nat
           /\ Exists(f) => content[f] \in Seq(Cell) /\ Len(content[f]) \in Nat
<1> SUFFICES ASSUME NEW f \in Files
    PROVE  /\ Taken(f) \in Seq(Record) /\ Len(Taken(f)) \in Nat
           /\ \A n \in 1 .. Len(Taken(f)) :
                Taken(f)[n].inc \in Nat /\ Taken(f)[n].end \in Nat
                /\ 1 <= Taken(f)[n].end
           /\ inc[f] \in Nat /\ offsets[f] \in Nat
           /\ Exists(f) => content[f] \in Seq(Cell) /\ Len(content[f]) \in Nat
  OBVIOUS
<1>1. delivered[f] \in Seq(Record) /\ batch[f] \in Seq(Record) BY DEF TypeOK
<1>2. Taken(f) \in Seq(Record) BY <1>1 DEF Taken
<1>3. Len(Taken(f)) \in Nat BY <1>2
<1>4. \A n \in 1 .. Len(Taken(f)) : Taken(f)[n] \in Record BY <1>2
<1>5. \A r \in Record : r.inc \in Nat /\ r.end \in Nat /\ 1 <= r.end
  BY TailerAssumption DEF Record
<1>6. inc[f] \in Nat /\ offsets[f] \in Nat
  BY TailerAssumption DEF TypeOK, Position
<1>7. Exists(f) => content[f] \in Seq(Cell) /\ Len(content[f]) \in Nat
  BY DEF Exists, TypeOK
<1> QED BY <1>2, <1>3, <1>4, <1>5, <1>6, <1>7

LEMMA Joining ==
  ASSUME NEW V, NEW S \in Seq(V), NEW Y \in Seq(V)
  PROVE  /\ Len(S \o Y) = Len(S) + Len(Y)
         /\ Len(S) \in Nat /\ Len(Y) \in Nat
         /\ \A n \in 1 .. Len(S) : (S \o Y)[n] = S[n]
         /\ \A n \in 1 .. Len(Y) : (S \o Y)[Len(S) + n] = Y[n]
         /\ \A n \in 1 .. Len(S \o Y) :
              \/ n \in 1 .. Len(S)
              \/ n - Len(S) \in 1 .. Len(Y) /\ (S \o Y)[n] = Y[n - Len(S)]
OBVIOUS

LEMMA OrderStep ==
  TypeOK /\ PollSane /\ OnceInOrder /\ TakenBehind /\ [Next]_vars
    => OnceInOrder'
<1> SUFFICES ASSUME TypeOK, PollSane, OnceInOrder, TakenBehind, [Next]_vars
    PROVE  OnceInOrder'
  OBVIOUS
<1>0. \A f \in Files : \A n \in 1 .. Len(Taken(f)) - 1 :
        Before(Taken(f)[n], Taken(f)[n + 1])
  BY DEF OnceInOrder, Taken
<1>1. SUFFICES ASSUME NEW f \in Files, NEW n \in 1 .. Len(Taken(f)') - 1
      PROVE  Before(Taken(f)'[n], Taken(f)'[n + 1])
  BY DEF OnceInOrder, Taken, Before
<1>2. CASE Restart
  <2>1. Len(Taken(f)') = 0 BY <1>2, RestartTaken
  <2> QED BY <2>1
<1>3. CASE ~Read /\ ~Restart
  <2>1. Taken(f)' = Taken(f) BY <1>3, TakenSteady
  <2> QED BY <1>0, <1>1, <2>1
<1>4. CASE Read
  <2>1. /\ Taken(f)' = IF f = file THEN Taken(f) \o Yield ELSE Taken(f)
        /\ Fresh(Yield, inc[file], pos, Consumed(content[file], pos))
    BY <1>4, TakenRead
  <2>2. CASE f # file BY <1>0, <1>1, <2>1, <2>2
  <2>3. CASE f = file
    <3> DEFINE S == Taken(f)
               Y == Yield
               L == Len(S)
    <3>1. S \in Seq(Record) /\ Y \in Seq(Record)
      BY <2>1, TakenTypes DEF Fresh
    <3>2. /\ \A p \in 1 .. Len(Y) : Y[p].inc = inc[f] /\ pos < Y[p].end
          /\ \A p \in 1 .. Len(Y) - 1 : Y[p].end < Y[p + 1].end
      BY <2>1, <2>3 DEF Fresh
    <3>3. \A p \in 1 .. L :
            S[p].inc <= inc[f] /\ (S[p].inc = inc[f] => S[p].end <= pos)
      BY <1>4, <2>3 DEF TakenBehind, Read
    <3>4. Taken(f)' = S \o Y BY <2>1, <2>3
    <3>5. \A p \in 1 .. L - 1 : Before(S[p], S[p + 1]) BY <1>0
    <3>6. /\ \A p \in 1 .. L : S[p].inc \in Nat /\ S[p].end \in Nat
          /\ \A p \in 1 .. Len(Y) : Y[p].end \in Nat
          /\ inc[f] \in Nat /\ pos \in Nat
      <4>1. \A r \in Record : r.end \in Nat
        BY TailerAssumption DEF Record
      <4>2. \A p \in 1 .. Len(Y) : Y[p] \in Record BY <3>1
      <4>3. pos \in Nat BY TailerAssumption DEF TypeOK, Position
      <4> HIDE DEF Y
      <4> QED BY <4>1, <4>2, <4>3, TakenTypes
    <3> HIDE DEF S, Y
    <3>7. /\ Len(S \o Y) = L + Len(Y) /\ L \in Nat /\ Len(Y) \in Nat
          /\ \A p \in 1 .. L : (S \o Y)[p] = S[p]
          /\ \A p \in 1 .. Len(Y) : (S \o Y)[L + p] = Y[p]
      BY <3>1, Joining
    <3> HIDE DEF L
    <3>8. CASE n < L
      <4>1. n \in 1 .. L - 1 /\ n \in 1 .. L /\ n + 1 \in 1 .. L
        BY <3>4, <3>7, <3>8
      <4> QED BY <3>4, <3>5, <3>7, <4>1
    <3>9. CASE n = L
      <4>1. n \in 1 .. L /\ 1 \in 1 .. Len(Y) BY <3>4, <3>7, <3>9
      <4>2. Taken(f)'[n] = S[n] /\ Taken(f)'[n + 1] = Y[1]
        BY <3>4, <3>7, <3>9, <4>1
      <4>3. Y[1].inc = inc[f] /\ pos < Y[1].end /\ Y[1].end \in Nat
        BY <3>2, <3>6, <4>1
      <4>4. /\ S[n].inc <= inc[f] /\ (S[n].inc = inc[f] => S[n].end <= pos)
            /\ S[n].inc \in Nat /\ S[n].end \in Nat
        BY <3>3, <3>6, <4>1
      <4>5. Before(S[n], Y[1]) BY <3>6, <4>3, <4>4 DEF Before
      <4> QED BY <4>2, <4>5
    <3>10. CASE n > L
      <4> DEFINE m == n - L
      <4>1. m \in 1 .. Len(Y) - 1 /\ m \in 1 .. Len(Y) /\ m + 1 \in 1 .. Len(Y)
            /\ L + m = n /\ L + (m + 1) = n + 1
        BY <3>4, <3>7, <3>10
      <4> HIDE DEF m
      <4>2. Taken(f)'[n] = Y[m] /\ Taken(f)'[n + 1] = Y[m + 1]
        BY <3>4, <3>7, <4>1
      <4>3. Before(Y[m], Y[m + 1]) BY <3>2, <4>1 DEF Before
      <4> QED BY <4>2, <4>3
    <3>11. n \in Nat BY <3>4, <3>7
    <3> QED BY <3>7, <3>8, <3>9, <3>10, <3>11
  <2> QED BY <2>2, <2>3
<1> QED BY <1>2, <1>3, <1>4

LEMMA NewOffsetIs ==
  ASSUME TypeOK, PollSane, Read, NEW c, c = content[file]
  PROVE  /\ NewOffset(file) = Consumed(c, pos)
         /\ NewOffset(file) \in Nat /\ pos \in Nat /\ pos <= NewOffset(file)
         /\ pos <= Len(c) => NewOffset(file) <= Len(c)
         /\ pos < NewOffset(file) => NewOffset(file) <= Len(c)
         /\ pos = NewOffset(file) \/ c[NewOffset(file)] = "newline"
         /\ \A i \in Newlines(c, pos) : i <= NewOffset(file)
         /\ c \in Seq(Cell) /\ Len(c) \in Nat
<1>1. c \in Seq(Cell) /\ pos \in Nat BY ReadYields
<1>2. Len(c) \in Nat BY <1>1
<1>3. NewOffset(file) = Consumed(c, pos) BY DEF NewOffset
<1>4. \A i \in Newlines(c, pos) : i <= Len(c) /\ c[i] = "newline"
  BY <1>1, NewlinesAre
<1> QED BY <1>1, <1>2, <1>3, <1>4, ConsumedIs

LEMMA BehindStep ==
  TypeOK /\ PollSane /\ TakenBehind /\ [Next]_vars => TakenBehind'
<1> SUFFICES ASSUME TypeOK, PollSane, TakenBehind, [Next]_vars
    PROVE  TakenBehind'
  OBVIOUS
<1> USE DEF environment, collector
<1>1. SUFFICES ASSUME NEW f \in Files, NEW n \in 1 .. Len(Taken(f)')
      PROVE  /\ Taken(f)'[n].inc <= inc'[f]
             /\ Taken(f)'[n].inc = inc'[f] /\ Exists(f)' =>
                  /\ Taken(f)'[n].end <= offsets'[f]
                  /\ offsets'[f] <= Len(content'[f])
                  /\ pc' = "open" /\ file' = f => pos' = offsets'[f]
  BY DEF TakenBehind
<1>2. CASE Restart
  <2>1. Len(Taken(f)') = 0 BY <1>2, RestartTaken
  <2> QED BY <2>1
<1>3. CASE ~Read /\ ~Restart
  <2>1. Taken(f)' = Taken(f) /\ n \in 1 .. Len(Taken(f))
    BY <1>3, TakenSteady
  <2> DEFINE r == Taken(f)[n]
  <2>2. /\ r.inc <= inc[f]
        /\ r.inc = inc[f] /\ Exists(f) =>
             /\ r.end <= offsets[f] /\ offsets[f] <= Len(content[f])
             /\ pc = "open" /\ file = f => pos = offsets[f]
    BY <2>1 DEF TakenBehind
  <2>3. /\ r.inc \in Nat /\ inc[f] \in Nat /\ offsets[f] \in Nat
        /\ Exists(f) => content[f] \in Seq(Cell) /\ Len(content[f]) \in Nat
    BY <2>1, TakenTypes
  <2> HIDE DEF r
  <2> SUFFICES /\ r.inc <= inc'[f]
               /\ r.inc = inc'[f] /\ Exists(f)' =>
                    /\ r.end <= offsets'[f]
                    /\ offsets'[f] <= Len(content'[f])
                    /\ pc' = "open" /\ file' = f => pos' = offsets'[f]
    BY <2>1 DEF r
  <2>4. ASSUME NEW g \in Files, CreateFile(g)
        PROVE  /\ r.inc <= inc'[f]
               /\ r.inc = inc'[f] /\ Exists(f)' =>
                    /\ r.end <= offsets'[f]
                    /\ offsets'[f] <= Len(content'[f])
                    /\ pc' = "open" /\ file' = f => pos' = offsets'[f]
    <3>1. CASE g = f
      <4>1. inc'[f] = inc[f] + 1 BY <2>4, <3>1 DEF CreateFile, TypeOK
      <4> QED BY <2>2, <2>3, <4>1
    <3>2. CASE g # f
      <4>1. inc'[f] = inc[f] /\ content'[f] = content[f]
        BY <2>4, <3>2 DEF CreateFile, TypeOK
      <4> QED BY <2>2, <2>4, <4>1 DEF CreateFile, Exists
    <3> QED BY <3>1, <3>2
  <2>5. ASSUME NEW g \in Files, WriteCell(g)
        PROVE  /\ r.inc <= inc'[f]
               /\ r.inc = inc'[f] /\ Exists(f)' =>
                    /\ r.end <= offsets'[f]
                    /\ offsets'[f] <= Len(content'[f])
                    /\ pc' = "open" /\ file' = f => pos' = offsets'[f]
    <3>1. PICK cell \in NextCells(g, content[g]) :
            content' = [content EXCEPT ![g] = Append(@, cell)]
      BY <2>5 DEF WriteCell
    <3>2. CASE g = f
      <4>1. content'[f] = Append(content[f], cell) /\ Exists(f)
        BY <2>5, <3>1, <3>2 DEF WriteCell, TypeOK
      <4>2. Len(content'[f]) = Len(content[f]) + 1 BY <2>3, <4>1
      <4>3. r.inc = inc[f] => offsets[f] <= Len(content'[f])
        BY <2>2, <2>3, <4>1, <4>2
      <4> QED BY <2>2, <2>5, <4>1, <4>3 DEF WriteCell
    <3>3. CASE g # f
      <4>1. content'[f] = content[f] BY <3>1, <3>3 DEF TypeOK
      <4> QED BY <2>2, <2>5, <4>1 DEF WriteCell, Exists
    <3> QED BY <3>2, <3>3
  <2>6. ASSUME NEW g \in Files, RemoveFile(g)
        PROVE  /\ r.inc <= inc'[f]
               /\ r.inc = inc'[f] /\ Exists(f)' =>
                    /\ r.end <= offsets'[f]
                    /\ offsets'[f] <= Len(content'[f])
                    /\ pc' = "open" /\ file' = f => pos' = offsets'[f]
    <3>1. Exists(f)' => content'[f] = content[f] /\ Exists(f)
      BY <2>6 DEF RemoveFile, TypeOK, Exists
    <3> QED BY <2>2, <2>6, <3>1 DEF RemoveFile
  <2>7. ASSUME NEW g \in Files, Stat(g)
        PROVE  /\ r.inc <= inc'[f]
               /\ r.inc = inc'[f] /\ Exists(f)' =>
                    /\ r.end <= offsets'[f]
                    /\ offsets'[f] <= Len(content'[f])
                    /\ pc' = "open" /\ file' = f => pos' = offsets'[f]
    <3>1. r.inc = inc[f] /\ Exists(f) => ~Shrank(f) BY <2>2, <2>3 DEF Shrank
    <3>2. UNCHANGED <<content, inc, offsets>> /\ file' = g
          /\ pos' = IF Shrank(g) THEN 0 ELSE offsets[g]
      BY <2>7 DEF Stat
    <3> QED BY <2>2, <3>1, <3>2 DEF Exists
  <2>8. CASE \/ PollBegin \/ \E g \in Files : StatFails(g)
             \/ ReadFails \/ PollEnd \/ UNCHANGED vars
    <3>1. UNCHANGED <<content, inc, offsets>>
          /\ (pc' = "open" => UNCHANGED <<pc, file, pos>>)
      BY <2>8 DEF PollBegin, StatFails, ReadFails, PollEnd, vars
    <3> QED BY <2>2, <3>1 DEF Exists
  <2> QED BY <1>3, <2>4, <2>5, <2>6, <2>7, <2>8
          DEF Next, Collector, Environment
<1>4. CASE Read
  <2>1. /\ Taken(f)' = IF f = file THEN Taken(f) \o Yield ELSE Taken(f)
        /\ Fresh(Yield, inc[file], pos, Consumed(content[file], pos))
    BY <1>4, TakenRead
  <2>2. UNCHANGED <<content, inc>> /\ pc' = "next" /\ pc = "open"
        /\ offsets' = [offsets EXCEPT ![file] = NewOffset(file)]
    BY <1>4 DEF Read
  <2>3. CASE f # file
    <3>1. offsets'[f] = offsets[f] BY <2>2, <2>3 DEF TypeOK
    <3> QED BY <1>1, <2>1, <2>2, <2>3, <3>1 DEF TakenBehind, Exists
  <2>4. CASE f = file
    <3> DEFINE S == Taken(f)
               Y == Yield
               L == Len(S)
               c == content[f]
               e == NewOffset(f)
    <3>1. S \in Seq(Record) /\ Y \in Seq(Record)
      BY <2>1, TakenTypes DEF Fresh
    <3>2. /\ e = Consumed(c, pos) /\ e \in Nat /\ pos \in Nat /\ pos <= e
          /\ pos <= Len(c) => e <= Len(c)
          /\ pos < e => e <= Len(c)
          /\ Len(c) \in Nat
      BY <1>4, <2>4, NewOffsetIs
    <3>3. \A p \in 1 .. Len(Y) :
            Y[p].inc = inc[f] /\ pos < Y[p].end /\ Y[p].end <= e
      BY <2>1, <2>4, <3>2 DEF Fresh
    <3>4. \A p \in 1 .. L :
            /\ S[p].inc <= inc[f]
            /\ S[p].inc = inc[f] => /\ S[p].end <= pos
                                    /\ pos = offsets[f] /\ offsets[f] <= Len(c)
      BY <1>4, <2>4 DEF TakenBehind, Read
    <3>5. offsets'[f] = e BY <2>2, <2>4 DEF TypeOK
    <3>6. /\ \A p \in 1 .. L : S[p].inc \in Nat /\ S[p].end \in Nat
          /\ inc[f] \in Nat
      BY TakenTypes
    <3>7. \A p \in 1 .. Len(Y) : Y[p].end \in Nat
      <4>1. \A r \in Record : r.end \in Nat BY TailerAssumption DEF Record
      <4>2. \A p \in 1 .. Len(Y) : Y[p] \in Record BY <3>1
      <4> HIDE DEF Y
      <4> QED BY <4>1, <4>2
    <3>8. Taken(f)' = S \o Y BY <2>1, <2>4
    <3> HIDE DEF S, Y, c, e
    <3>9. /\ Len(S \o Y) = L + Len(Y) /\ L \in Nat /\ Len(Y) \in Nat
          /\ \A p \in 1 .. L : (S \o Y)[p] = S[p]
          /\ \A p \in 1 .. Len(Y) : (S \o Y)[L + p] = Y[p]
          /\ \A p \in 1 .. Len(S \o Y) :
               \/ p \in 1 .. L
               \/ p - L \in 1 .. Len(Y) /\ (S \o Y)[p] = Y[p - L]
      BY <3>1, Joining
    <3>10. inc'[f] = inc[f] /\ content'[f] = c BY <2>2 DEF c
    <3> HIDE DEF L
    <3>11. CASE n \in 1 .. L
      <4>1. Taken(f)'[n] = S[n] BY <3>8, <3>9, <3>11
      <4>2. /\ S[n].inc <= inc[f] /\ S[n].end \in Nat
            /\ S[n].inc = inc[f] => S[n].end <= pos /\ pos <= Len(c)
        BY <3>4, <3>6, <3>11
      <4>3. S[n].inc = inc[f] => S[n].end <= e /\ e <= Len(c)
        BY <3>2, <4>2
      <4> QED BY <2>2, <3>5, <3>10, <4>1, <4>2, <4>3
    <3>12. CASE n - L \in 1 .. Len(Y) /\ Taken(f)'[n] = Y[n - L]
      <4> DEFINE m == n - L
      <4>1. m \in 1 .. Len(Y) /\ Taken(f)'[n] = Y[m] BY <3>12
      <4> HIDE DEF m
      <4>2. /\ Y[m].inc = inc[f] /\ pos < Y[m].end /\ Y[m].end <= e
            /\ Y[m].end \in Nat
        BY <3>3, <3>7, <4>1
      <4>3. e <= Len(c) BY <3>2, <4>2
      <4> QED BY <2>2, <3>5, <3>6, <3>10, <4>1, <4>2, <4>3
    <3> QED BY <1>1, <3>8, <3>9, <3>11, <3>12
  <2> QED BY <2>3, <2>4
<1> QED BY <1>2, <1>3, <1>4

LEMMA StartOrdered == Init => OnceInOrder /\ TakenBehind
<1> SUFFICES ASSUME Init PROVE OnceInOrder /\ TakenBehind OBVIOUS
<1>1. <<>> \o <<>> = <<>> /\ Len(<<>>) = 0 OBVIOUS
<1>2. \A f \in Files : Len(delivered[f] \o batch[f]) = 0
  BY <1>1 DEF Init
<1>3. OnceInOrder
  <2>1. \A m \in Nat : m = 0 => 1 .. m - 1 = {} OBVIOUS
  <2>2. \A f \in Files : 1 .. Len(delivered[f] \o batch[f]) - 1 = {}
    BY <1>2, <2>1
  <2> QED BY <2>2 DEF OnceInOrder
<1>4. \A f \in Files : Len(Taken(f)) = 0 BY <1>2 DEF Taken
<1>5. TakenBehind BY <1>4 DEF TakenBehind
<1> QED BY <1>3, <1>5

(* Nothing is handed on twice or out of order: whenever a file is removed, *)
(* replaced or found shorter, and wherever between stat and open that      *)
(* happens, _offsets[path] lies behind every line of the file that was     *)
(* taken, and a read begins there.                                         *)
THEOREM OnceInOrderCorrect == Spec => []OnceInOrder
<1> DEFINE I == TypeOK /\ PollSane /\ OnceInOrder /\ TakenBehind
<1>1. Init => I BY StartSane, StartOrdered
<1>2. I /\ [Next]_vars => I'
  BY TypeStep, PollStep, OrderStep, BehindStep
<1>3. I => OnceInOrder OBVIOUS
<1> HIDE DEF I
<1> QED BY <1>1, <1>2, <1>3, PTL DEF Spec

-----------------------------------------------------------------------------
(* The records of one creation of a file.                                  *)
OfInc(k, S) == Picked(S, {n \in 1 .. Len(S) : S[n].inc = k})

LEMMA OfIncJoined ==
  ASSUME NEW V, NEW S \in Seq(V), NEW Y \in Seq(V), NEW k
  PROVE  OfInc(k, S \o Y) = OfInc(k, S) \o OfInc(k, Y)
<1> DEFINE L == Len(S)
           M == Len(Y)
           T == S \o Y
           I == {n \in 1 .. L : S[n].inc = k}
           J == {n \in 1 .. M : Y[n].inc = k}
           K == {n \in 1 .. Len(T) : T[n].inc = k}
<1>1. /\ Len(T) = L + M /\ L \in Nat /\ M \in Nat
      /\ \A n \in 1 .. L : T[n] = S[n]
      /\ \A n \in 1 .. M : T[L + n] = Y[n]
      /\ \A n \in 1 .. Len(T) :
           \/ n \in 1 .. L
           \/ n - L \in 1 .. M /\ T[n] = Y[n - L]
  BY Joining
<1>2. I \subseteq 1 .. Len(S) /\ J \subseteq 1 .. Len(Y) OBVIOUS
<1> HIDE DEF L, M, T
<1>3. K = I \cup Shifted(J, L)
  <2>1. ASSUME NEW n \in K PROVE n \in I \cup Shifted(J, L)
    <3>1. n \in Nat BY <1>1
    <3>2. CASE n \in 1 .. L BY <1>1, <2>1, <3>2
    <3>3. CASE n - L \in 1 .. M /\ T[n] = Y[n - L]
      <4>1. n - L \in J BY <2>1, <3>3
      <4>2. n = L + (n - L) BY <1>1, <3>1
      <4> QED BY <4>1, <4>2 DEF Shifted
    <3> QED BY <1>1, <2>1, <3>2, <3>3
  <2>2. ASSUME NEW n \in I PROVE n \in K BY <1>1
  <2>3. ASSUME NEW j \in J PROVE L + j \in K
    <3>1. L + j \in 1 .. Len(T) BY <1>1
    <3>2. T[L + j].inc = k BY <1>1
    <3> QED BY <3>1, <3>2
  <2> HIDE DEF I, J, K
  <2> QED BY <2>1, <2>2, <2>3 DEF Shifted
<1> HIDE DEF I, J, K
<1>4. Picked(S \o Y, I \cup Shifted(J, Len(S))) = Picked(S, I) \o Picked(Y, J)
  <2>1. PickedTwo(S, Y, I, J) BY <1>2, PickedJoined, Zenon
  <2> QED BY <2>1 DEF PickedTwo
<1>5. OfInc(k, S \o Y) = Picked(S \o Y, K) BY DEF OfInc, K, T
<1>6. OfInc(k, S) = Picked(S, I) /\ OfInc(k, Y) = Picked(Y, J)
  BY DEF OfInc, I, J, L, M
<1> QED BY <1>3, <1>4, <1>5, <1>6 DEF L

LEMMA OfIncAll ==
  ASSUME NEW V, NEW S \in Seq(V), NEW k, \A n \in 1 .. Len(S) : S[n].inc = k
  PROVE  OfInc(k, S) = S
<1>1. {n \in 1 .. Len(S) : S[n].inc = k} = 1 .. Len(S) OBVIOUS
<1> QED BY <1>1, PickedAll DEF OfInc

LEMMA OfIncNone ==
  ASSUME NEW S, NEW k, \A n \in 1 .. Len(S) : S[n].inc # k
  PROVE  OfInc(k, S) = <<>>
<1>1. {n \in 1 .. Len(S) : S[n].inc = k} = {} OBVIOUS
<1> QED BY <1>1, PickedNone DEF OfInc

LEMMA OfIncType ==
  ASSUME NEW V, NEW S \in Seq(V), NEW k PROVE OfInc(k, S) \in Seq(V)
<1> DEFINE I == {n \in 1 .. Len(S) : S[n].inc = k}
           N == Len(S)
<1>1. N \in Nat /\ \A i \in I : i \in Nat /\ i <= N OBVIOUS
<1>2. \A i \in I : S[i] \in V OBVIOUS
<1> HIDE DEF I, N
<1>3. Cardinality(I) \in Nat BY <1>1, PositionsFinite
<1>4. \A n \in 1 .. Cardinality(I) : Nth(I, n) \in I BY <1>1, NthIs
<1>5. Picked(S, I) \in Seq(V) BY <1>2, <1>3, <1>4 DEF Picked
<1> QED BY <1>5 DEF OfInc, I

LEMMA EmptyHead == ASSUME NEW V, NEW s \in Seq(V) PROVE <<>> \o s = s
OBVIOUS

-----------------------------------------------------------------------------
(* Cells written behind the offset change nothing before it.               *)
LEMMA Appended ==
  ASSUME NEW T, NEW c \in Seq(T), NEW x \in T, NEW n \in 0 .. Len(c)
  PROVE  /\ SubSeq(Append(c, x), 1, n) = SubSeq(c, 1, n)
         /\ LineEnd(Append(c, x), n) <=> LineEnd(c, n)
         /\ Len(Append(c, x)) = Len(c) + 1
<1>1. Len(Append(c, x)) = Len(c) + 1 OBVIOUS
<1>2. \A i \in 1 .. Len(c) : Append(c, x)[i] = c[i] OBVIOUS
<1>3. SubSeq(Append(c, x), 1, n) = SubSeq(c, 1, n) OBVIOUS
<1>4. n = 0 \/ n \in 1 .. Len(c) OBVIOUS
<1> QED BY <1>1, <1>2, <1>3, <1>4 DEF LineEnd

(* What one read leaves behind: the offset, the header and the records of  *)
(* the file as it is.                                                      *)
LEMMA WholeRead ==
  ASSUME TypeOK, PollSane, TakenBehind, HeaderKept, ReadAsAWhole, Read,
         readFrom'[file] = inc[file],
         NEW f, f = file, NEW c, c = content[f], NEW k, k = inc[f],
         NEW e, e = NewOffset(f)
  PROVE  /\ e \in 0 .. Len(c) /\ LineEnd(c, e)
         /\ headers'[f] = HeaderOf(f, k, c, e)
         /\ OfInc(k, Taken(f)') = RecordsOf(f, k, SubSeq(c, 1, e), 0, NoHeader)
<1>1. /\ f \in Files /\ Exists(f) /\ k \in 1 .. MaxFiles /\ k \in Nat
      /\ c \in Seq(Cell) /\ Len(c) <= MaxCells
      /\ headers[f] \in Header \cup {NoHeader}
  BY ReadYields, TailerAssumption
<1>2. /\ e \in Nat /\ pos \in Nat /\ pos <= e
      /\ pos <= Len(c) => e <= Len(c)
      /\ pos = e \/ c[e] = "newline"
      /\ \A i \in Newlines(c, pos) : i <= e
      /\ Len(c) \in Nat
  BY NewOffsetIs
<1>3. headers'[f] = HeaderAfter(f, k, c, pos, headers[f])
  BY <1>1 DEF Read, TypeOK
<1>4. pc = "open" BY DEF Read
<1>5. /\ Taken(f)' = Taken(f) \o Yield
      /\ Taken(f) \in Seq(Record)
      /\ Yield \in Seq(Record)
      /\ \A n \in 1 .. Len(Yield) : Yield[n].inc = k
  BY <1>1, TakenRead DEF Fresh
<1>6. OfInc(k, Taken(f)') = OfInc(k, Taken(f)) \o Yield
  <2>1. OfInc(k, Yield) = Yield BY <1>5, OfIncAll
  <2>2. OfInc(k, Taken(f) \o Yield) = OfInc(k, Taken(f)) \o OfInc(k, Yield)
    BY <1>5, OfIncJoined
  <2> QED BY <1>5, <2>1, <2>2
<1>7. Yield = RecordsOf(f, k, c, pos, headers[f]) BY DEF Yield
<1>8. readFrom'[f] = IF pos = 0 THEN k ELSE readFrom[f]
  BY <1>1 DEF Read, TypeOK
<1>9. CASE pos = 0
  <2>1. headers[f] = NoHeader BY <1>4, <1>9 DEF HeaderKept
  <2>2. e \in 0 .. Len(c) BY <1>2, <1>9
  <2>3. LineEnd(c, e) BY <1>2, <1>9 DEF LineEnd
  <2>4. \A i \in Newlines(c, 0) : i <= e BY <1>2, <1>9
  <2>5. /\ RecordsOf(f, k, SubSeq(c, 1, e), 0, NoHeader)
             = RecordsOf(f, k, c, 0, NoHeader)
        /\ HeaderOf(f, k, c, e) = HeaderAfter(f, k, c, 0, NoHeader)
    BY <1>1, <2>2, <2>4, RowsConsumed
  <2>6. OfInc(k, Taken(f)) = <<>>
    <3>1. ASSUME NEW n \in 1 .. Len(Taken(f)), Taken(f)[n].inc = k PROVE FALSE
      <4>1. Taken(f)[n].end <= offsets[f] /\ pos = offsets[f]
        BY <1>1, <1>4, <3>1 DEF TakenBehind
      <4>2. Taken(f)[n].end \in Nat /\ 1 <= Taken(f)[n].end
        BY <1>1, TakenTypes
      <4> QED BY <1>9, <4>1, <4>2
    <3> QED BY <3>1, OfIncNone
  <2>7. <<>> \o Yield = Yield BY <1>5, EmptyHead
  <2> QED BY <1>3, <1>6, <1>7, <1>9, <2>1, <2>2, <2>3, <2>5, <2>6, <2>7
<1>10. CASE pos # 0
  <2>1. readFrom[f] = inc[f] BY <1>8, <1>10
  <2>2. /\ pos = offsets[f] /\ pos <= Len(c) /\ LineEnd(c, pos)
        /\ headers[f] = HeaderOf(f, k, c, pos)
    BY <1>1, <1>4, <2>1 DEF HeaderKept
  <2>3. OfInc(k, Taken(f)) = RecordsOf(f, k, SubSeq(c, 1, pos), 0, NoHeader)
    BY <1>1, <2>1, <2>2 DEF ReadAsAWhole, OfThisFile, OfInc, Taken, Rows
  <2>4. pos \in 0 .. Len(c) /\ e \in 0 .. Len(c) BY <1>2, <2>2
  <2>5. LineEnd(c, e) BY <1>2, <2>2 DEF LineEnd
  <2>6. \A i \in Newlines(c, 0) : i <= e
    <3> SUFFICES ASSUME NEW i \in Newlines(c, 0) PROVE i <= e OBVIOUS
    <3>1. i \in Nat /\ i \in 1 .. Len(c) /\ c[i] = "newline"
      BY DEF Newlines
    <3>2. CASE i <= pos BY <1>2, <3>1, <3>2
    <3>3. CASE ~(i <= pos)
      <4>1. i \in Newlines(c, pos) BY <1>2, <3>1, <3>3 DEF Newlines
      <4> QED BY <1>2, <4>1
    <3> QED BY <3>2, <3>3
  <2>7. /\ RecordsOf(f, k, SubSeq(c, 1, e), 0, NoHeader)
             = RecordsOf(f, k, c, 0, NoHeader)
        /\ HeaderOf(f, k, c, e) = HeaderAfter(f, k, c, 0, NoHeader)
    BY <1>1, <2>4, <2>6, RowsConsumed
  <2>8. RecordsOf(f, k, c, 0, NoHeader)
          = RecordsOf(f, k, SubSeq(c, 1, pos), 0, NoHeader)
              \o RecordsOf(f, k, c, pos, HeaderOf(f, k, c, pos))
    <3>1. pos \in 0 .. Len(c) /\ LineEnd(c, pos) /\ k \in Nat /\ c \in Seq(Cell)
      BY <1>1, <2>2, <2>4
    <3>2. ReadInTwo(f, k, c, pos) BY <3>1, RecordsResumed, Zenon
    <3> QED BY <3>2 DEF ReadInTwo
  <2>9. HeaderAfter(f, k, c, pos, HeaderOf(f, k, c, pos))
          = HeaderAfter(f, k, c, 0, NoHeader)
    BY <1>1, <2>2, <2>4, HeaderResumed
  <2> QED BY <1>3, <1>6, <1>7, <2>2, <2>3, <2>4, <2>5, <2>7, <2>8, <2>9
<1> QED BY <1>9, <1>10

LEMMA HeaderStep == TailInv /\ [Next]_vars => HeaderKept'
<1> SUFFICES ASSUME TailInv, [Next]_vars PROVE HeaderKept' OBVIOUS
<1> USE DEF environment, collector
<1>a. TypeOK /\ PollSane /\ TakenBehind /\ HeaderKept /\ ReadAsAWhole
  BY DEF TailInv
<1>b. \A f \in Files :
        /\ offsets[f] = 0 => headers[f] = NoHeader
        /\ Exists(f) /\ readFrom[f] = inc[f] =>
             /\ offsets[f] <= Len(content[f])
             /\ LineEnd(content[f], offsets[f])
             /\ headers[f] = HeaderOf(f, inc[f], content[f], offsets[f])
             /\ pc = "open" /\ file = f => pos = offsets[f]
  BY <1>a DEF HeaderKept
<1>c. pc = "open" /\ pos = 0 => headers[file] = NoHeader BY <1>a DEF HeaderKept
<1>d. \A f \in Files :
        /\ inc[f] \in Nat /\ readFrom[f] \in Nat /\ readFrom[f] <= inc[f]
        /\ offsets[f] \in Nat
        /\ Exists(f) => /\ content[f] \in Seq(Cell) /\ Len(content[f]) \in Nat
                        /\ inc[f] >= 1
  BY <1>a, TailerAssumption DEF TypeOK, PollSane, Exists, Position
<1>1. ASSUME NEW g \in Files, CreateFile(g) PROVE HeaderKept'
  <2>1. ASSUME NEW f \in Files, Exists(f)', readFrom'[f] = inc'[f]
        PROVE  f # g /\ content'[f] = content[f] /\ inc'[f] = inc[f] /\ Exists(f)
    <3>1. CASE f = g
      <4>1. inc'[f] = inc[f] + 1 /\ readFrom'[f] = readFrom[f]
        BY <1>1, <1>a, <3>1 DEF CreateFile, TypeOK
      <4> QED BY <1>d, <2>1, <4>1
    <3>2. CASE f # g BY <1>1, <1>a, <2>1, <3>2 DEF CreateFile, TypeOK, Exists
    <3> QED BY <3>1, <3>2
  <2>2. UNCHANGED <<offsets, headers, pc, file, pos, readFrom>>
    BY <1>1 DEF CreateFile
  <2> QED BY <1>b, <1>c, <2>1, <2>2 DEF HeaderKept, HeaderOf
<1>2. ASSUME NEW g \in Files, WriteCell(g) PROVE HeaderKept'
  <2>1. PICK cell \in NextCells(g, content[g]) :
          content' = [content EXCEPT ![g] = Append(@, cell)]
    BY <1>2 DEF WriteCell
  <2>2. UNCHANGED <<inc, offsets, headers, pc, file, pos, readFrom>> /\ Exists(g)
    BY <1>2 DEF WriteCell
  <2>3. ASSUME NEW f \in Files, Exists(f)', readFrom'[f] = inc'[f]
        PROVE  /\ offsets[f] <= Len(content'[f])
               /\ LineEnd(content'[f], offsets[f])
               /\ headers[f] = HeaderOf(f, inc[f], content'[f], offsets[f])
               /\ pc = "open" /\ file = f => pos = offsets[f]
    <3>1. CASE f # g
      <4>1. content'[f] = content[f] BY <1>a, <2>1, <3>1 DEF TypeOK
      <4> QED BY <1>b, <2>2, <2>3, <4>1 DEF Exists
    <3>2. CASE f = g
      <4>1. content'[f] = Append(content[f], cell)
        BY <1>a, <2>1, <3>2 DEF TypeOK
      <4>2. /\ offsets[f] <= Len(content[f])
            /\ LineEnd(content[f], offsets[f])
            /\ headers[f] = HeaderOf(f, inc[f], content[f], offsets[f])
            /\ pc = "open" /\ file = f => pos = offsets[f]
        BY <1>b, <2>2, <2>3, <3>2
      <4>3. content[f] \in Seq(Cell) /\ cell \in Cell
            /\ offsets[f] \in 0 .. Len(content[f])
        BY <1>d, <2>2, <3>2, <4>2, CellsWritten
      <4>4. /\ SubSeq(content'[f], 1, offsets[f]) = SubSeq(content[f], 1, offsets[f])
            /\ LineEnd(content'[f], offsets[f])
            /\ Len(content'[f]) = Len(content[f]) + 1
        BY <4>1, <4>2, <4>3, Appended
      <4>5. offsets[f] <= Len(content'[f]) BY <4>3, <4>4
      <4> QED BY <4>2, <4>4, <4>5 DEF HeaderOf
    <3> QED BY <3>1, <3>2
  <2> QED BY <1>b, <1>c, <2>2, <2>3 DEF HeaderKept, HeaderOf
<1>3. ASSUME NEW g \in Files, RemoveFile(g) PROVE HeaderKept'
  <2>1. \A f \in Files : Exists(f)' => content'[f] = content[f] /\ Exists(f)
    BY <1>3, <1>a DEF RemoveFile, TypeOK, Exists
  <2>2. UNCHANGED <<inc, offsets, headers, pc, file, pos, readFrom>>
    BY <1>3 DEF RemoveFile
  <2> QED BY <1>b, <1>c, <2>1, <2>2 DEF HeaderKept, HeaderOf
<1>4. ASSUME NEW g \in Files, Stat(g) PROVE HeaderKept'
  <2>1. /\ UNCHANGED <<content, inc, offsets, readFrom>> /\ file' = g
        /\ pos' = IF Shrank(g) THEN 0 ELSE offsets[g]
        /\ headers' = HeadersAfterStat(g)
    BY <1>4 DEF Stat
  <2>2. headers'[g] = IF Shrank(g) THEN NoHeader ELSE headers[g]
    BY <1>a, <2>1 DEF HeadersAfterStat, TypeOK
  <2>3. \A f \in Files : f # g => headers'[f] = headers[f]
    BY <1>a, <2>1 DEF HeadersAfterStat, TypeOK
  <2>4. Exists(g) /\ readFrom[g] = inc[g] => ~Shrank(g)
    BY <1>b, <1>d DEF Shrank
  <2>5. \A f \in Files : offsets'[f] = 0 => headers'[f] = NoHeader
    BY <1>b, <2>1, <2>2, <2>3
  <2>6. pos' = 0 => headers'[file'] = NoHeader BY <1>b, <2>1, <2>2
  <2>7. \A f \in Files :
          Exists(f)' /\ readFrom'[f] = inc'[f] =>
            /\ headers'[f] = headers[f] /\ Exists(f) /\ readFrom[f] = inc[f]
            /\ f = g => pos' = offsets[f]
    BY <2>1, <2>2, <2>3, <2>4 DEF Exists
  <2> QED BY <1>b, <2>1, <2>5, <2>6, <2>7 DEF HeaderKept, HeaderOf
<1>5. CASE Read
  <2>1. /\ UNCHANGED <<content, inc>> /\ pc' = "next" /\ file \in Files
        /\ \A f \in Files : f # file =>
             /\ offsets'[f] = offsets[f] /\ headers'[f] = headers[f]
             /\ readFrom'[f] = readFrom[f]
        /\ offsets'[file] = NewOffset(file)
        /\ headers'[file] = HeaderAfter(file, inc[file], content[file], pos, headers[file])
        /\ pc = "open"
    BY <1>5, <1>a, ReadYields DEF Read, TypeOK
  <2>2. NewOffset(file) = 0 => headers'[file] = NoHeader
    <3> SUFFICES ASSUME NewOffset(file) = 0 PROVE headers'[file] = NoHeader
      OBVIOUS
    <3> DEFINE c == content[file]
    <3>1. /\ NewOffset(file) = Consumed(c, pos) /\ pos \in Nat
          /\ pos <= NewOffset(file) /\ c \in Seq(Cell)
          /\ \A i \in Newlines(c, pos) : i <= NewOffset(file)
      BY <1>5, <1>a, NewOffsetIs
    <3>2. pos = 0 BY <3>1
    <3>3. headers[file] = NoHeader BY <1>c, <2>1, <3>2
    <3>4. ReadableLines(c, pos) = {}
      <4>1. \A i \in ReadableLines(c, pos) : i \in Newlines(c, pos) /\ i \in Nat /\ pos < i
        BY <3>1, ReadableAre
      <4> QED BY <3>1, <3>2, <4>1
    <3>5. HeaderLines(file, c, pos, headers[file]) = {}
      BY <3>4, HeaderLinesAre DEF First
    <3> QED BY <2>1, <3>3, <3>5 DEF HeaderAfter
  <2>3. \A f \in Files : offsets'[f] = 0 => headers'[f] = NoHeader
    BY <1>b, <2>1, <2>2
  <2>4. ASSUME NEW f \in Files, Exists(f)', readFrom'[f] = inc'[f]
        PROVE  /\ offsets'[f] <= Len(content[f])
               /\ LineEnd(content[f], offsets'[f])
               /\ headers'[f] = HeaderOf(f, inc[f], content[f], offsets'[f])
    <3>1. CASE f # file BY <1>b, <2>1, <2>4, <3>1 DEF Exists
    <3>2. CASE f = file
      <4>1. readFrom'[file] = inc[file] BY <2>1, <2>4, <3>2
      <4> DEFINE c == content[f]
                 k == inc[f]
                 e == NewOffset(f)
      <4> HIDE DEF c, k, e
      <4>2. /\ e \in 0 .. Len(c) /\ LineEnd(c, e)
            /\ headers'[f] = HeaderOf(f, k, c, e)
        BY <1>5, <1>a, <3>2, <4>1, WholeRead DEF c, k, e
      <4>3. offsets'[f] = e BY <2>1, <3>2 DEF e
      <4>4. e <= Len(c)
        <5>1. Len(c) \in Nat BY <1>5, <1>a, <3>2, NewOffsetIs DEF c
        <5> QED BY <4>2, <5>1
      <4> QED BY <4>2, <4>3, <4>4 DEF c, k
    <3> QED BY <3>1, <3>2
  <2> QED BY <2>1, <2>3, <2>4 DEF HeaderKept, HeaderOf
<1>6. CASE Restart
  <2>1. /\ UNCHANGED <<content, inc>> /\ pc' = "idle"
        /\ \A f \in Files : readFrom'[f] = 0 /\ headers'[f] = NoHeader
    BY <1>6 DEF Restart
  <2>2. \A f \in Files : Exists(f)' => readFrom'[f] # inc'[f]
    BY <1>d, <2>1 DEF Exists
  <2> QED BY <2>1, <2>2 DEF HeaderKept
<1>7. CASE \/ PollBegin \/ (\E f \in Files : StatFails(f))
           \/ ReadFails \/ PollEnd \/ UNCHANGED vars
  <2>1. /\ UNCHANGED <<content, inc, offsets, headers, readFrom>>
        /\ pc' = "open" => UNCHANGED <<pc, file, pos>>
    BY <1>7 DEF PollBegin, StatFails, ReadFails, PollEnd, vars
  <2> QED BY <1>b, <1>c, <2>1 DEF HeaderKept, HeaderOf, Exists
<1> QED BY <1>1, <1>2, <1>3, <1>4, <1>5, <1>6, <1>7
        DEF Next, Collector, Environment

LEMMA WholeStep == TailInv /\ [Next]_vars => ReadAsAWhole'
<1> SUFFICES ASSUME TailInv, [Next]_vars PROVE ReadAsAWhole' OBVIOUS
<1> USE DEF environment, collector
<1>a. TypeOK /\ PollSane /\ TakenBehind /\ HeaderKept /\ ReadAsAWhole
  BY DEF TailInv
<1>b. \A f \in Files :
        Exists(f) /\ readFrom[f] = inc[f] =>
          /\ offsets[f] <= Len(content[f])
          /\ OfInc(inc[f], Taken(f))
               = RecordsOf(f, inc[f], SubSeq(content[f], 1, offsets[f]), 0, NoHeader)
  BY <1>a DEF ReadAsAWhole, OfThisFile, OfInc, Taken, Rows
<1>c. HeaderKept' BY HeaderStep
<1>d. \A f \in Files :
        Exists(f)' /\ readFrom'[f] = inc'[f] => offsets'[f] <= Len(content'[f])
  BY <1>c DEF HeaderKept
<1>e. \A f \in Files :
        /\ inc[f] \in Nat /\ readFrom[f] \in Nat /\ readFrom[f] <= inc[f]
        /\ offsets[f] \in Nat
        /\ Exists(f) => /\ content[f] \in Seq(Cell) /\ Len(content[f]) \in Nat
                        /\ inc[f] >= 1
  BY <1>a, TailerAssumption DEF TypeOK, PollSane, Exists, Position
<1>1. SUFFICES ASSUME NEW f \in Files, Exists(f)', readFrom'[f] = inc'[f]
      PROVE  OfInc(inc'[f], Taken(f)')
               = RecordsOf(f, inc'[f], SubSeq(content'[f], 1, offsets'[f]), 0, NoHeader)
  BY <1>d DEF ReadAsAWhole, OfThisFile, OfInc, Taken, Rows
<1>2. CASE Restart
  <2>1. readFrom'[f] = 0 /\ UNCHANGED <<content, inc>> BY <1>2 DEF Restart
  <2>2. Exists(f) /\ inc[f] = 0 BY <1>1, <2>1 DEF Exists
  <2>3. inc[f] >= 1 BY <1>e, <2>2
  <2> QED BY <2>2, <2>3
<1>3. CASE Read
  <2>1. UNCHANGED <<content, inc>> /\ file \in Files
        /\ offsets'[file] = NewOffset(file)
    BY <1>3, <1>a, ReadYields DEF Read, TypeOK
  <2>2. CASE f # file
    <3>1. offsets'[f] = offsets[f] /\ readFrom'[f] = readFrom[f]
      BY <1>3, <1>a, <2>2 DEF Read, TypeOK
    <3>2. Taken(f)' = Taken(f) BY <1>3, <1>a, <2>2, TakenRead
    <3>3. Exists(f) /\ readFrom[f] = inc[f] BY <1>1, <2>1, <3>1 DEF Exists
    <3>4. OfInc(inc[f], Taken(f))
            = RecordsOf(f, inc[f], SubSeq(content[f], 1, offsets[f]), 0, NoHeader)
      BY <1>b, <3>3
    <3> QED BY <2>1, <3>1, <3>2, <3>4
  <2>3. CASE f = file
    <3>1. readFrom'[file] = inc[file] BY <1>1, <2>1, <2>3
    <3> DEFINE c == content[f]
               k == inc[f]
               e == NewOffset(f)
    <3> HIDE DEF c, k, e
    <3>2. OfInc(k, Taken(f)') = RecordsOf(f, k, SubSeq(c, 1, e), 0, NoHeader)
      BY <1>3, <1>a, <2>3, <3>1, WholeRead DEF c, k, e
    <3>3. offsets'[f] = e /\ inc'[f] = k /\ content'[f] = c
      BY <2>1, <2>3 DEF c, k, e
    <3> QED BY <3>2, <3>3
  <2> QED BY <2>2, <2>3
<1>4. CASE ~Read /\ ~Restart
  <2>1. Taken(f)' = Taken(f) BY <1>4, <1>a, TakenSteady
  <2>2. UNCHANGED <<offsets, readFrom>>
    BY <1>4 DEF Next, Collector, Environment, CreateFile, WriteCell, RemoveFile,
                PollBegin, Stat, StatFails, ReadFails, PollEnd, vars
  <2>3. ASSUME NEW g \in Files, CreateFile(g)
        PROVE  Exists(f) /\ inc'[f] = inc[f] /\ content'[f] = content[f]
    <3>1. CASE f = g
      <4>1. inc'[f] = inc[f] + 1 BY <1>a, <2>3, <3>1 DEF CreateFile, TypeOK
      <4> QED BY <1>1, <1>e, <2>2, <4>1
    <3>2. CASE f # g
      BY <1>1, <1>a, <2>3, <3>2 DEF CreateFile, TypeOK, Exists
    <3> QED BY <3>1, <3>2
  <2>4. ASSUME NEW g \in Files, WriteCell(g)
        PROVE  /\ Exists(f) /\ inc'[f] = inc[f]
               /\ SubSeq(content'[f], 1, offsets[f]) = SubSeq(content[f], 1, offsets[f])
    <3>1. PICK cell \in NextCells(g, content[g]) :
            content' = [content EXCEPT ![g] = Append(@, cell)]
      BY <2>4 DEF WriteCell
    <3>2. UNCHANGED inc /\ Exists(g) BY <2>4 DEF WriteCell
    <3>3. CASE f # g
      <4>1. content'[f] = content[f] BY <1>a, <3>1, <3>3 DEF TypeOK
      <4> QED BY <1>1, <3>2, <4>1 DEF Exists
    <3>4. CASE f = g
      <4>1. content'[f] = Append(content[f], cell)
        BY <1>a, <3>1, <3>4 DEF TypeOK
      <4>2. offsets[f] <= Len(content[f]) BY <1>1, <1>b, <2>2, <3>2, <3>4
      <4>3. content[f] \in Seq(Cell) /\ cell \in Cell
            /\ offsets[f] \in 0 .. Len(content[f])
        BY <1>e, <3>2, <3>4, <4>2, CellsWritten
      <4>4. SubSeq(content'[f], 1, offsets[f]) = SubSeq(content[f], 1, offsets[f])
        BY <4>1, <4>3, Appended
      <4> QED BY <3>2, <3>4, <4>4
    <3> QED BY <3>3, <3>4
  <2>5. ASSUME NEW g \in Files, RemoveFile(g)
        PROVE  Exists(f) /\ inc'[f] = inc[f] /\ content'[f] = content[f]
    BY <1>1, <1>a, <2>5 DEF RemoveFile, TypeOK, Exists
  <2>6. CASE Collector \/ UNCHANGED vars
    <3>1. UNCHANGED <<content, inc>>
      BY <1>4, <2>6 DEF Collector, PollBegin, Stat, StatFails, ReadFails, PollEnd, vars
    <3> QED BY <1>1, <1>b, <2>1, <2>2, <3>1 DEF Exists
  <2> QED BY <1>1, <1>4, <1>b, <2>1, <2>2, <2>3, <2>4, <2>5, <2>6
          DEF Next, Environment
<1> QED BY <1>2, <1>3, <1>4

LEMMA StartWhole == Init => HeaderKept /\ ReadAsAWhole
<1> SUFFICES ASSUME Init PROVE HeaderKept /\ ReadAsAWhole OBVIOUS
<1>1. \A f \in Files : ~Exists(f) BY DEF Init, Exists
<1>2. HeaderKept BY <1>1 DEF Init, HeaderKept
<1>3. ReadAsAWhole BY <1>1 DEF ReadAsAWhole
<1> QED BY <1>2, <1>3

LEMMA TailInductive == Spec => []TailInv
<1>1. Init => TailInv BY StartSane, StartOrdered, StartWhole DEF TailInv
<1>2. TailInv /\ [Next]_vars => TailInv'
  BY TypeStep, PollStep, OrderStep, BehindStep, HeaderStep, WholeStep DEF TailInv
<1> QED BY <1>1, <1>2, PTL DEF Spec

(* A file read piece by piece by _read_new_lines, cut anywhere, replaced   *)
(* or failing to open between any two steps, gives exactly the records one *)
(* reading of the cells before the offset would give.                      *)
THEOREM ReadAsAWholeCorrect == Spec => []ReadAsAWhole
<1>1. TailInv => ReadAsAWhole BY DEF TailInv
<1> QED BY <1>1, TailInductive, PTL

-----------------------------------------------------------------------------
(* The collector implements Feed.                                          *)

(* A file that replaced one already read stays too short to be read on     *)
(* from the old offset.                                                    *)
Unread ==
  /\ \A f \in Files :
       Exists(f) /\ readFrom[f] # inc[f] /\ offsets[f] > 0 =>
         Len(content[f]) < offsets[f]
  /\ pc = "open" => pos = 0 \/ pos = offsets[file]

LEMMA UnreadStep ==
  ASSUME Regrows = FALSE
  PROVE  TailInv /\ Unread /\ [Next]_vars => Unread'
<1> SUFFICES ASSUME TailInv, Unread, [Next]_vars PROVE Unread' OBVIOUS
<1> USE DEF environment, collector
<1>a. TypeOK /\ PollSane BY DEF TailInv
<1>b. /\ \A f \in Files :
           Exists(f) /\ readFrom[f] # inc[f] /\ offsets[f] > 0 =>
             Len(content[f]) < offsets[f]
      /\ pc = "open" => pos = 0 \/ pos = offsets[file]
  BY DEF Unread
<1>c. \A f \in Files :
        /\ offsets[f] \in Nat /\ inc[f] \in Nat
        /\ Exists(f) => content[f] \in Seq(Cell) /\ Len(content[f]) \in Nat
  BY <1>a, TailerAssumption DEF TypeOK, Exists, Position
<1>1. ASSUME NEW g \in Files, CreateFile(g) PROVE Unread'
  <2>1. UNCHANGED <<offsets, readFrom, pc, file, pos>>
        /\ Len(content'[g]) = 0
        /\ \A f \in Files :
             f # g => content'[f] = content[f] /\ inc'[f] = inc[f]
    BY <1>1, <1>a DEF CreateFile, TypeOK
  <2>2. ASSUME NEW f \in Files, Exists(f)', readFrom[f] # inc'[f], offsets[f] > 0
        PROVE  Len(content'[f]) < offsets[f]
    BY <1>b, <1>c, <2>1, <2>2 DEF Exists
  <2> QED BY <1>b, <2>1, <2>2 DEF Unread
<1>2. ASSUME NEW g \in Files, WriteCell(g) PROVE Unread'
  <2>1. PICK cell \in NextCells(g, content[g]) :
          content' = [content EXCEPT ![g] = Append(@, cell)]
    BY <1>2 DEF WriteCell
  <2>2. UNCHANGED <<inc, offsets, readFrom, pc, file, pos>> /\ Exists(g)
        /\ MayGrow(g)
    BY <1>2 DEF WriteCell
  <2>3. content'[g] = Append(content[g], cell)
        /\ \A f \in Files : f # g => content'[f] = content[f]
    BY <1>a, <2>1 DEF TypeOK
  <2>4. content[g] \in Seq(Cell) /\ cell \in Cell
    BY <1>c, <2>2, CellsWritten
  <2>5. Len(content'[g]) = Len(content[g]) + 1 BY <2>3, <2>4
  <2>6. offsets[g] = 0 \/ readFrom[g] = inc[g] \/ Len(content'[g]) < offsets[g]
    BY <2>2, <2>5 DEF MayGrow
  <2>7. ASSUME NEW f \in Files, Exists(f)', readFrom[f] # inc[f], offsets[f] > 0
        PROVE  Len(content'[f]) < offsets[f]
    BY <1>b, <1>c, <2>3, <2>6, <2>7 DEF Exists
  <2> QED BY <1>b, <2>2, <2>7 DEF Unread
<1>3. ASSUME NEW g \in Files, RemoveFile(g) PROVE Unread'
  <2>1. \A f \in Files : Exists(f)' => content'[f] = content[f] /\ Exists(f)
    BY <1>3, <1>a DEF RemoveFile, TypeOK, Exists
  <2>2. UNCHANGED <<inc, offsets, pc, file, pos, readFrom>>
    BY <1>3 DEF RemoveFile
  <2> QED BY <1>b, <2>1, <2>2 DEF Unread
<1>4. CASE Read
  <2>1. /\ UNCHANGED <<content, inc>> /\ pc' = "next" /\ pc = "open"
        /\ file \in Files
        /\ \A f \in Files : f # file =>
             offsets'[f] = offsets[f] /\ readFrom'[f] = readFrom[f]
        /\ offsets'[file] = NewOffset(file)
        /\ readFrom'[file] = IF pos = 0 THEN inc[file] ELSE readFrom[file]
    BY <1>4, <1>a, ReadYields DEF Read, TypeOK
  <2>2. ASSUME NEW f \in Files, Exists(f)', readFrom'[f] # inc'[f], offsets'[f] > 0
        PROVE  Len(content'[f]) < offsets'[f]
    <3>1. CASE f # file BY <1>b, <2>1, <2>2, <3>1 DEF Exists
    <3>2. CASE f = file
      <4>1. pos # 0 /\ readFrom[f] # inc[f] /\ Exists(f) /\ pos = offsets[f]
        BY <1>b, <2>1, <2>2, <3>2 DEF Exists
      <4> DEFINE c == content[f]
      <4>2. /\ NewOffset(file) \in Nat /\ pos \in Nat /\ pos <= NewOffset(file)
            /\ pos < NewOffset(file) => NewOffset(file) <= Len(c)
            /\ Len(c) \in Nat
        BY <1>4, <1>a, <3>2, NewOffsetIs
      <4>3. Len(c) < pos BY <1>b, <4>1, <4>2
      <4> QED BY <2>1, <3>2, <4>2, <4>3
    <3> QED BY <3>1, <3>2
  <2> QED BY <2>1, <2>2 DEF Unread
<1>5. CASE Restart
  <2>1. pc' = "idle" /\ \A f \in Files : offsets'[f] = 0 BY <1>5 DEF Restart
  <2> QED BY <2>1 DEF Unread
<1>6. ASSUME NEW g \in Files, Stat(g) PROVE Unread'
  <2>1. /\ UNCHANGED <<content, inc, offsets, readFrom>> /\ file' = g
        /\ pos' = 0 \/ pos' = offsets[g]
    BY <1>6 DEF Stat
  <2> QED BY <1>b, <2>1 DEF Unread, Exists
<1>7. CASE \/ PollBegin \/ (\E f \in Files : StatFails(f))
           \/ ReadFails \/ PollEnd \/ UNCHANGED vars
  <2>1. /\ UNCHANGED <<content, inc, offsets, readFrom>>
        /\ pc' = "open" => UNCHANGED <<pc, file, pos>>
    BY <1>7 DEF PollBegin, StatFails, ReadFails, PollEnd, vars
  <2> QED BY <1>b, <2>1 DEF Unread, Exists
<1> QED BY <1>1, <1>2, <1>3, <1>4, <1>5, <1>6, <1>7
        DEF Next, Collector, Environment

(* The records of a file that is read from its beginning at last.          *)
LEMMA NothingTaken ==
  ASSUME TailInv, Unread, NEW f \in Files, Exists(f), readFrom[f] # inc[f]
  PROVE  OfInc(inc[f], Taken(f)) = <<>>
<1>a. TypeOK /\ TakenBehind BY DEF TailInv
<1>1. ASSUME NEW n \in 1 .. Len(Taken(f)), Taken(f)[n].inc = inc[f] PROVE FALSE
  <2>1. Taken(f)[n].end <= offsets[f] /\ offsets[f] <= Len(content[f])
    BY <1>a, <1>1 DEF TakenBehind
  <2>2. /\ Taken(f)[n].end \in Nat /\ 1 <= Taken(f)[n].end
        /\ offsets[f] \in Nat /\ Len(content[f]) \in Nat
    BY <1>a, TakenTypes
  <2>3. offsets[f] > 0 BY <2>1, <2>2
  <2>4. Len(content[f]) < offsets[f] BY <2>3 DEF Unread
  <2> QED BY <2>1, <2>2, <2>4
<1> QED BY <1>1, OfIncNone

-----------------------------------------------------------------------------
(* Prefixes.                                                               *)
LEMMA PrefixJoined ==
  ASSUME NEW S, NEW s \in Seq(S), NEW t \in Seq(S)
  PROVE  Promise!IsPrefix(s, s \o t)
<1>1. Len(s) <= Len(s \o t) OBVIOUS
<1>2. SubSeq(s, 1, Len(s)) = SubSeq(s \o t, 1, Len(s)) OBVIOUS
<1> QED BY <1>1, <1>2 DEF Promise!IsPrefix

LEMMA PrefixEmpty ==
  ASSUME NEW S, NEW t \in Seq(S)
  PROVE  Promise!IsPrefix(<<>>, t)
<1>1. <<>> \o t = t /\ <<>> \in Seq(S) OBVIOUS
<1>2. Promise!IsPrefix(<<>>, <<>> \o t) BY <1>1, PrefixJoined
<1> QED BY <1>1, <1>2
(* The two sequences of Feed. *)
Pub == [f \in Files |->
         IF Exists(f) THEN RecordsOf(f, inc[f], content[f], 0, NoHeader) ELSE <<>>]
Tkn == [f \in Files |->
         IF Exists(f) THEN OfInc(inc[f], delivered[f]) ELSE <<>>]

PubRows == [f \in Files |->
             IF Exists(f) THEN Rows(f, Len(content[f])) ELSE <<>>]
TknRows == [f \in Files |->
             IF Exists(f) THEN OfThisFile(f, delivered[f]) ELSE <<>>]

LEMMA FeedMapped == TypeOK => Pub = PubRows /\ Tkn = TknRows
<1> SUFFICES ASSUME TypeOK
    PROVE  \A f \in Files :
             /\ Exists(f) => Rows(f, Len(content[f]))
                               = RecordsOf(f, inc[f], content[f], 0, NoHeader)
             /\ OfThisFile(f, delivered[f]) = OfInc(inc[f], delivered[f])
  BY DEF Pub, Tkn, PubRows, TknRows
<1>1. \A c \in Seq(Cell) : SubSeq(c, 1, Len(c)) = c OBVIOUS
<1>2. \A f \in Files : Exists(f) => content[f] \in Seq(Cell)
  BY DEF TypeOK, Exists
<1>3. \A f \in Files : Exists(f) => SubSeq(content[f], 1, Len(content[f])) = content[f]
  BY <1>1, <1>2
<1> QED BY <1>3 DEF Rows, OfThisFile, OfInc

(* What is taken of a file is the beginning of what it holds. *)
LEMMA TakenOfFile ==
  ASSUME TailInv, Unread, NEW f \in Files, Exists(f)
  PROVE  /\ Promise!IsPrefix(OfInc(inc[f], Taken(f)),
                             RecordsOf(f, inc[f], content[f], 0, NoHeader))
         /\ RecordsOf(f, inc[f], content[f], 0, NoHeader) \in Seq(Record)
<1> DEFINE c == content[f]
           k == inc[f]
           n == offsets[f]
           R == RecordsOf(f, k, c, 0, NoHeader)
<1>1. /\ c \in Seq(Cell) /\ Len(c) <= MaxCells /\ k \in 1 .. MaxFiles
      /\ k \in Nat /\ n \in Nat
  BY TailerAssumption DEF TailInv, TypeOK, PollSane, Exists, Position
<1>2. \A from \in Nat : \A h \in Header \cup {NoHeader} :
        RecordsOf(f, k, c, from, h) \in Seq(Record)
  <2> TAKE from \in Nat
  <2> TAKE h \in Header \cup {NoHeader}
  <2> HIDE DEF c, k
  <2>1. Fresh(RecordsOf(f, k, c, from, h), k, from, Consumed(c, from))
    BY <1>1, RecordsAre
  <2> QED BY <2>1 DEF Fresh
<1>3. R \in Seq(Record) BY <1>2
<1>4. CASE readFrom[f] # inc[f]
  <2>1. OfInc(inc[f], Taken(f)) = <<>> BY <1>4, NothingTaken
  <2> HIDE DEF R
  <2>2. Promise!IsPrefix(<<>>, R) BY <1>3, PrefixEmpty
  <2> QED BY <1>3, <2>1, <2>2 DEF R
<1>5. CASE readFrom[f] = inc[f]
  <2>1. /\ n \in 0 .. Len(c) /\ LineEnd(c, n)
        /\ headers[f] = HeaderOf(f, k, c, n)
        /\ headers[f] \in Header \cup {NoHeader}
    BY <1>1, <1>5 DEF TailInv, HeaderKept, TypeOK
  <2>2. OfInc(k, Taken(f)) = RecordsOf(f, k, SubSeq(c, 1, n), 0, NoHeader)
    BY <1>5 DEF TailInv, ReadAsAWhole, OfThisFile, OfInc, Taken, Rows
  <2> DEFINE A == RecordsOf(f, k, SubSeq(c, 1, n), 0, NoHeader)
             B == RecordsOf(f, k, c, n, HeaderOf(f, k, c, n))
  <2> HIDE DEF c, k, n
  <2>3. R = A \o B
    <3>1. ReadInTwo(f, k, c, n) BY <1>1, <2>1, RecordsResumed
    <3> QED BY <3>1 DEF ReadInTwo
  <2>4. B \in Seq(Record) BY <1>1, <1>2, <2>1
  <2>5. A \in Seq(Record)
    <3> DEFINE d == SubSeq(c, 1, n)
    <3>1. d \in Seq(Cell) /\ Len(d) = n /\ Len(c) \in Nat BY <1>1, <2>1
    <3>2. Len(d) <= MaxCells BY <1>1, <2>1, <3>1, TailerAssumption
    <3>3. 0 \in Nat /\ NoHeader \in Header \cup {NoHeader} OBVIOUS
    <3> HIDE DEF d
    <3>4. Fresh(RecordsOf(f, k, d, 0, NoHeader), k, 0, Consumed(d, 0))
      BY <1>1, <3>1, <3>2, <3>3, RecordsAre
    <3> QED BY <3>4 DEF Fresh, d
  <2> HIDE DEF A, B, R
  <2>6. Promise!IsPrefix(A, A \o B) BY <2>4, <2>5, PrefixJoined
  <2>7. Promise!IsPrefix(A, R) BY <2>3, <2>6
  <2> QED BY <1>3, <2>2, <2>7 DEF A, R, k, c
<1> QED BY <1>4, <1>5

(* A cell appended to a file adds to its records. *)
LEMMA WritePublishes ==
  ASSUME NEW f \in Files, NEW k \in 1 .. MaxFiles,
         NEW c \in Seq(Cell), NEW x \in Cell, Len(c) < MaxCells
  PROVE  Promise!IsPrefix(RecordsOf(f, k, c, 0, NoHeader),
                          RecordsOf(f, k, Append(c, x), 0, NoHeader))
<1> DEFINE d == Append(c, x)
           n == Consumed(c, 0)
<1>1. /\ n \in Nat /\ n <= Len(c) /\ \A i \in Newlines(c, 0) : i <= n
      /\ n = 0 \/ c[n] = "newline"
  BY ConsumedIs, NewlinesAre
<1>2. Len(c) \in Nat /\ k \in Nat /\ d \in Seq(Cell) /\ Len(d) = Len(c) + 1
      /\ Len(d) <= MaxCells
  BY TailerAssumption
<1>3. n \in 0 .. Len(c) /\ n \in 0 .. Len(d) BY <1>1, <1>2
<1>4. LineEnd(c, n) BY <1>1, <1>3 DEF LineEnd
<1> HIDE DEF n
<1>5. SubSeq(d, 1, n) = SubSeq(c, 1, n) /\ LineEnd(d, n)
  BY <1>3, <1>4, Appended
<1> HIDE DEF d
<1>6. RecordsOf(f, k, SubSeq(c, 1, n), 0, NoHeader) = RecordsOf(f, k, c, 0, NoHeader)
  BY <1>1, <1>2, <1>3, RowsConsumed
<1> DEFINE A == RecordsOf(f, k, c, 0, NoHeader)
           B == RecordsOf(f, k, d, n, HeaderOf(f, k, d, n))
           R == RecordsOf(f, k, d, 0, NoHeader)
<1>7. R = A \o B
  <2>1. ReadInTwo(f, k, d, n) BY <1>2, <1>3, <1>5, RecordsResumed
  <2> QED BY <1>5, <1>6, <2>1 DEF ReadInTwo
<1>8. A \in Seq(Record)
  <2>1. Fresh(RecordsOf(f, k, c, 0, NoHeader), k, 0, Consumed(c, 0))
    BY <1>2, RecordsAre, TailerAssumption
  <2> QED BY <2>1 DEF Fresh
<1>9. B \in Seq(Record)
  <2> DEFINE e == SubSeq(d, 1, n)
  <2>1. e \in Seq(Cell) /\ Len(e) = n BY <1>2, <1>3
  <2>2. Len(e) <= MaxCells BY <1>2, <1>3, <2>1, TailerAssumption
  <2>3. HeaderOf(f, k, d, n) \in Header \cup {NoHeader}
    <3> HIDE DEF e
    <3>1. HeaderAfter(f, k, e, 0, NoHeader) \in Header \cup {NoHeader}
      BY <2>1, <2>2, HeaderType
    <3> QED BY <3>1 DEF HeaderOf, e
  <2>4. Fresh(RecordsOf(f, k, d, n, HeaderOf(f, k, d, n)), k, n, Consumed(d, n))
    BY <1>1, <1>2, <2>3, RecordsAre
  <2> QED BY <2>4 DEF Fresh
<1> HIDE DEF A, B, R
<1>10. Promise!IsPrefix(A, A \o B) BY <1>8, <1>9, PrefixJoined
<1> QED BY <1>7, <1>10 DEF A, R, d
LEMMA NoRecords ==
  ASSUME NEW f, NEW k PROVE RecordsOf(f, k, <<>>, 0, NoHeader) = <<>>
<1>1. 0 + 1 .. Len(<<>>) = {} OBVIOUS
<1>2. Newlines(<<>>, 0) = {} BY <1>1 DEF Newlines
<1>3. ReadableLines(<<>>, 0) = {} BY <1>2 DEF ReadableLines
<1>4. FramedLines(f, k, <<>>, 0, NoHeader) = {} BY <1>3 DEF FramedLines
<1> DEFINE E == FramedLines(f, k, <<>>, 0, NoHeader)
<1>5. Cardinality(E) = 0 BY <1>4, FS_EmptySet
<1> DEFINE G(n) == [inc |-> k, start |-> LineStart(<<>>, 0, Nth(E, n)),
                    end |-> Nth(E, n),
                    header |-> HeaderAfter(f, k, <<>>, 0, NoHeader)]
<1>6. RecordsOf(f, k, <<>>, 0, NoHeader) = [n \in 1 .. Cardinality(E) |-> G(n)]
  BY DEF RecordsOf
<1> HIDE DEF E, G
<1>7. RecordsOf(f, k, <<>>, 0, NoHeader) = [n \in 1 .. 0 |-> G(n)]
  BY <1>5, <1>6
<1>8. 1 .. 0 = {} OBVIOUS
<1> QED BY <1>7, <1>8

FeedPublish(f) ==
  /\ \A g \in Files \ {f} : Pub'[g] = Pub[g]
  /\ Promise!IsPrefix(Pub[f], Pub'[f])
  /\ Tkn' = Tkn

FeedReplace(f) ==
  /\ Pub' = [Pub EXCEPT ![f] = <<>>]
  /\ Tkn' = [Tkn EXCEPT ![f] = <<>>]

FeedTake ==
  /\ \A f \in Files : Promise!IsPrefix(Tkn[f], Tkn'[f])
                      /\ Promise!IsPrefix(Tkn'[f], Pub[f])
  /\ Pub' = Pub

FeedRestart == Tkn' = [f \in Files |-> <<>>] /\ Pub' = Pub

FeedNext ==
  \/ \E f \in Files : FeedPublish(f) \/ FeedReplace(f)
  \/ FeedTake
  \/ FeedRestart
  \/ UNCHANGED <<Pub, Tkn>>

LEMMA FeedMoves ==
  ASSUME TailInv, Unread, [Next]_vars
  PROVE  FeedNext
<1> USE DEF environment, collector
<1>a. TypeOK /\ PollSane /\ TakenBehind BY DEF TailInv
<1>b. \A f \in Files :
        /\ delivered[f] \in Seq(Record) /\ batch[f] \in Seq(Record)
        /\ inc[f] \in Nat
        /\ Exists(f) => content[f] \in Seq(Cell) /\ Len(content[f]) \in Nat
                        /\ inc[f] \in 1 .. MaxFiles
  BY <1>a, TailerAssumption DEF TypeOK, PollSane, Exists
<1>c. CASE UNCHANGED <<content, inc, delivered>>
  <2>1. UNCHANGED <<Pub, Tkn>> BY <1>c DEF Pub, Tkn, Exists
  <2> QED BY <2>1 DEF FeedNext
<1>1. ASSUME NEW g \in Files, CreateFile(g) PROVE FeedNext
  <2>1. /\ \A f \in Files : f # g => content'[f] = content[f] /\ inc'[f] = inc[f]
        /\ content'[g] = <<>> /\ inc'[g] = inc[g] + 1 /\ ~Exists(g)
        /\ delivered' = delivered
    BY <1>1, <1>a DEF CreateFile, TypeOK
  <2>2. OfInc(inc[g] + 1, delivered[g]) = <<>>
    <3>1. \A n \in 1 .. Len(delivered[g]) : delivered[g][n] = Taken(g)[n]
                                           /\ n \in 1 .. Len(Taken(g))
      <4> DEFINE S == delivered[g]
                 Y == batch[g]
      <4>1. S \in Seq(Record) /\ Y \in Seq(Record) BY <1>b
      <4> HIDE DEF S, Y
      <4>2. /\ Len(S \o Y) = Len(S) + Len(Y)
            /\ Len(S) \in Nat /\ Len(Y) \in Nat
            /\ \A n \in 1 .. Len(S) : (S \o Y)[n] = S[n]
        BY <4>1, Joining
      <4>3. \A n \in 1 .. Len(S) : S[n] = (S \o Y)[n] /\ n \in 1 .. Len(S \o Y)
        BY <4>2
      <4> QED BY <4>3 DEF S, Y, Taken
    <3>2. \A n \in 1 .. Len(Taken(g)) :
            Taken(g)[n].inc <= inc[g] /\ Taken(g)[n].inc \in Nat
      BY <1>a, TakenTypes DEF TakenBehind
    <3>3. \A n \in 1 .. Len(delivered[g]) : delivered[g][n].inc # inc[g] + 1
      BY <1>b, <3>1, <3>2
    <3> QED BY <3>3, OfIncNone
  <2>3. \A f \in Files :
          (IF Exists(f)' THEN RecordsOf(f, inc'[f], content'[f], 0, NoHeader) ELSE <<>>)
            = (IF Exists(f) THEN RecordsOf(f, inc[f], content[f], 0, NoHeader) ELSE <<>>)
    BY <2>1, NoRecords DEF Exists
  <2>4. \A f \in Files :
          (IF Exists(f)' THEN OfInc(inc'[f], delivered'[f]) ELSE <<>>)
            = (IF Exists(f) THEN OfInc(inc[f], delivered[f]) ELSE <<>>)
    BY <2>1, <2>2 DEF Exists
  <2>5. Pub' = Pub BY <2>3 DEF Pub
  <2>6. Tkn' = Tkn BY <2>4 DEF Tkn
  <2> QED BY <2>5, <2>6 DEF FeedNext
<1>2. ASSUME NEW g \in Files, WriteCell(g) PROVE FeedNext
  <2>1. PICK cell \in NextCells(g, content[g]) :
          content' = [content EXCEPT ![g] = Append(@, cell)]
    BY <1>2 DEF WriteCell
  <2>2. UNCHANGED <<inc, delivered>> /\ Exists(g) /\ Len(content[g]) < MaxCells
    BY <1>2 DEF WriteCell
  <2>3. content'[g] = Append(content[g], cell)
        /\ \A f \in Files : f # g => content'[f] = content[f]
    BY <1>a, <2>1 DEF TypeOK
  <2>4. content[g] \in Seq(Cell) /\ cell \in Cell /\ inc[g] \in 1 .. MaxFiles
    BY <1>b, <2>2, CellsWritten
  <2>5. Promise!IsPrefix(RecordsOf(g, inc[g], content[g], 0, NoHeader),
                         RecordsOf(g, inc[g], Append(content[g], cell), 0, NoHeader))
    BY <2>2, <2>4, WritePublishes
  <2>6. content'[g] # NoFile
    <3>1. Append(content[g], cell) \in Seq(Cell) BY <2>4
    <3> QED BY <2>3, <3>1, TailerAssumption DEF Cell
  <2>7. Pub[g] = RecordsOf(g, inc[g], content[g], 0, NoHeader)
        /\ Pub'[g] = RecordsOf(g, inc[g], Append(content[g], cell), 0, NoHeader)
    BY <2>2, <2>3, <2>6 DEF Pub, Exists
  <2>8. \A f \in Files \ {g} : Pub'[f] = Pub[f]
    BY <2>2, <2>3 DEF Pub, Exists
  <2>9. Tkn' = Tkn
    <3>1. \A f \in Files : Exists(f)' <=> Exists(f)
      BY <2>2, <2>3, <2>6 DEF Exists
    <3> QED BY <2>2, <3>1 DEF Tkn
  <2> QED BY <2>5, <2>7, <2>8, <2>9 DEF FeedNext, FeedPublish
<1>3. ASSUME NEW g \in Files, RemoveFile(g) PROVE FeedNext
  <2>1. UNCHANGED <<inc, delivered>> /\ content'[g] = NoFile
        /\ \A f \in Files : f # g => content'[f] = content[f]
    BY <1>3, <1>a DEF RemoveFile, TypeOK
  <2>2. Pub' = [Pub EXCEPT ![g] = <<>>] BY <2>1 DEF Pub, Exists
  <2>3. Tkn' = [Tkn EXCEPT ![g] = <<>>] BY <2>1 DEF Tkn, Exists
  <2> QED BY <2>2, <2>3 DEF FeedNext, FeedReplace
<1>4. CASE PollEnd
  <2>1. UNCHANGED <<content, inc>>
        /\ \A f \in Files : delivered'[f] = Taken(f)
    BY <1>4 DEF PollEnd, Taken
  <2>2. Pub' = Pub BY <2>1 DEF Pub, Exists
  <2>3. ASSUME NEW f \in Files
        PROVE  Promise!IsPrefix(Tkn[f], Tkn'[f]) /\ Promise!IsPrefix(Tkn'[f], Pub[f])
    <3>1. CASE ~Exists(f)
      <4>1. Tkn[f] = <<>> /\ Tkn'[f] = <<>> /\ Pub[f] = <<>>
        BY <2>1, <3>1 DEF Tkn, Pub, Exists
      <4>2. <<>> \in Seq(Record) OBVIOUS
      <4> QED BY <4>1, <4>2, PrefixEmpty
    <3>2. CASE Exists(f)
      <4> DEFINE S == OfInc(inc[f], delivered[f])
                 Y == OfInc(inc[f], batch[f])
      <4>1. OfInc(inc[f], Taken(f)) = S \o Y
        BY <1>b, OfIncJoined DEF Taken
      <4>2. Tkn[f] = S /\ Tkn'[f] = OfInc(inc[f], Taken(f))
            /\ Pub[f] = RecordsOf(f, inc[f], content[f], 0, NoHeader)
        BY <2>1, <3>2 DEF Tkn, Pub, Exists
      <4>3. Promise!IsPrefix(Tkn'[f], Pub[f])
        BY <3>2, <4>2, TakenOfFile
      <4>4. S \in Seq(Record) /\ Y \in Seq(Record)
        BY <1>b, OfIncType
      <4> HIDE DEF S, Y
      <4>5. Promise!IsPrefix(S, S \o Y) BY <4>4, PrefixJoined
      <4> QED BY <4>1, <4>2, <4>3, <4>5
    <3> QED BY <3>1, <3>2
  <2> QED BY <2>2, <2>3 DEF FeedNext, FeedTake
<1>5. CASE Restart
  <2>1. UNCHANGED <<content, inc>> /\ \A f \in Files : delivered'[f] = <<>>
    BY <1>5 DEF Restart
  <2>2. Pub' = Pub BY <2>1 DEF Pub, Exists
  <2>3. \A k : OfInc(k, <<>>) = <<>>
    <3>1. \A n \in 1 .. Len(<<>>) : FALSE OBVIOUS
    <3> QED BY <3>1, OfIncNone
  <2>4. Tkn' = [f \in Files |-> <<>>] BY <2>1, <2>3 DEF Tkn
  <2> QED BY <2>2, <2>4 DEF FeedNext, FeedRestart
<1>6. CASE \/ PollBegin \/ (\E f \in Files : Stat(f) \/ StatFails(f))
           \/ Read \/ ReadFails \/ UNCHANGED vars
  <2>1. UNCHANGED <<content, inc, delivered>>
    BY <1>6 DEF PollBegin, Stat, StatFails, Read, ReadFails, vars
  <2> QED BY <1>c, <2>1
<1> QED BY <1>1, <1>2, <1>3, <1>4, <1>5, <1>6 DEF Next, Collector, Environment

LEMMA FeedStep ==
  TailInv /\ TailInv' /\ Unread /\ [Next]_vars => [Promise!Next]_(Promise!vars)
<1> SUFFICES ASSUME TailInv, TailInv', Unread, [Next]_vars
    PROVE  [Promise!Next]_(Promise!vars)
  OBVIOUS
<1>1. PubRows = Pub /\ TknRows = Tkn BY FeedMapped DEF TailInv
<1>2. PubRows' = Pub' /\ TknRows' = Tkn'
  <2>1. (TypeOK => Pub = PubRows /\ Tkn = TknRows)' BY FeedMapped, PTL
  <2> QED BY <2>1 DEF TailInv
<1>3. FeedNext BY FeedMoves
<1>4. ASSUME NEW f \in Files, FeedPublish(f) PROVE Promise!Publish(f)
  BY <1>1, <1>2, <1>4 DEF FeedPublish, Promise!Publish, PubRows, TknRows
<1>5. ASSUME NEW f \in Files, FeedReplace(f) PROVE Promise!Replace(f)
  BY <1>1, <1>2, <1>5 DEF FeedReplace, Promise!Replace, PubRows, TknRows
<1>6. FeedTake => Promise!Take
  BY <1>1, <1>2 DEF FeedTake, Promise!Take, PubRows, TknRows
<1>7. FeedRestart => Promise!Restart
  BY <1>1, <1>2 DEF FeedRestart, Promise!Restart, PubRows, TknRows
<1>8. UNCHANGED <<Pub, Tkn>> => UNCHANGED Promise!vars
  BY <1>1, <1>2 DEF Promise!vars, PubRows, TknRows
<1> QED BY <1>3, <1>4, <1>5, <1>6, <1>7, <1>8 DEF FeedNext, Promise!Next

(* As long as a file that replaced one already read does not outgrow the   *)
(* old offset between two polls, what _read_new_lines hands on of a file   *)
(* is at every moment a beginning of the records the file publishes.       *)
THEOREM ImplementsFeedCorrect ==
  ASSUME Regrows = FALSE
  PROVE  Spec => ImplementsFeed
<1>1. Init => TailInv /\ Unread
  <2>1. Init => Unread BY DEF Init, Unread
  <2> QED BY <2>1, StartSane, StartOrdered, StartWhole DEF TailInv
<1>2. TailInv /\ [Next]_vars => TailInv'
  BY TypeStep, PollStep, OrderStep, BehindStep, HeaderStep, WholeStep DEF TailInv
<1>3. TailInv /\ Unread /\ [Next]_vars => Unread' BY UnreadStep
<1>4. Init => Promise!Init
  <2> SUFFICES ASSUME Init PROVE Promise!Init OBVIOUS
  <2>1. \A f \in Files : ~Exists(f) BY DEF Init, Exists
  <2> QED BY <2>1 DEF Promise!Init
<1>5. TailInv /\ TailInv' /\ Unread /\ [Next]_vars => [Promise!Next]_(Promise!vars)
  BY FeedStep
<1> QED BY <1>1, <1>2, <1>3, <1>4, <1>5, PTL DEF Spec, ImplementsFeed, Promise!Spec
===============================================================================
