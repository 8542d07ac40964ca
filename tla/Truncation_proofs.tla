-------------------------- MODULE Truncation_proofs --------------------------
(***************************************************************************)
(* The volume caps for lines, services and caps of any number.  First what *)
(* _stride_sample promises (Places, SampleIs), what sorting by time does   *)
(* (SortedIs), what is kept of one service (CombinedIs, KeptIs) and of all *)
(* of them (TruncatedIs); then the invariant: the bundle is what the caps  *)
(* leave of the lines, and what the runs check follows from it.            *)
(***************************************************************************)
EXTENDS Truncation, Selection_proofs

(* Integer division. *)
LEMMA Division ==
  ASSUME NEW a \in Nat, NEW n \in Nat \ {0}
  PROVE  /\ a \div n \in Nat
         /\ n * (a \div n) <= a
         /\ a < n * (a \div n) + n
  BY SMTT(30)

(* Division by n takes a step of at least n to a larger quotient.          *)
LEMMA QuotientGrows ==
  ASSUME NEW n \in Nat \ {0}, NEW p \in Nat, NEW q \in Nat,
         NEW a \in Nat, NEW len \in Nat, len >= n,
         a < n * p + n, n * p <= a,
         n * q <= a + len, a + len < n * q + n
  PROVE  p < q
<1> SUFFICES ASSUME q <= p PROVE FALSE
  OBVIOUS
<1>1. n * q <= n * p
  BY SMTT(30)
<1> QED
  BY <1>1, SMTT(30)

(* The quotient grows by no more than the quotient of the step and one.    *)
LEMMA QuotientGrowsEvenly ==
  ASSUME NEW n \in Nat \ {0}, NEW p \in Nat, NEW q \in Nat, NEW d \in Nat,
         NEW a \in Nat, NEW len \in Nat,
         a < n * p + n,
         n * q <= a + len,
         len < n * d + n
  PROVE  q <= p + d + 1
<1> SUFFICES ASSUME q >= p + d + 2 PROVE FALSE
  OBVIOUS
<1>1. n * q >= n * (p + d + 2)
  BY SMTT(30)
<1>2. n * (p + d + 2) = n * p + n * d + 2 * n
  BY SMTT(30)
<1>3. n * p \in Nat /\ n * d \in Nat /\ n * q \in Nat
  BY SMTT(30)
<1> QED
  BY <1>1, <1>2, <1>3

(* Sampling places lie inside the sequence, each behind the one before and *)
(* no further from it than len \div n, plus one where the division leaves  *)
(* a rest.                                                                 *)
LEMMA Places ==
  ASSUME NEW n \in Nat \ {0}, NEW len \in Nat, len >= n, NEW i \in 1 .. n
  PROVE  /\ Place(i, len, n) \in 1 .. len
         /\ Place(i, len, n) < Place(i + 1, len, n)
         /\ Place(i + 1, len, n) - Place(i, len, n) <= len \div n + 1
<1> DEFINE a == (i - 1) * len
           p == a \div n
           q == (a + len) \div n
           d == len \div n
<1>1. a \in Nat
  BY SMTT(30)
<1>2. (i + 1 - 1) * len = a + len
  BY SMTT(30)
<1>3. p \in Nat /\ n * p <= a /\ a < n * p + n
  BY <1>1, Division
<1>4. q \in Nat /\ n * q <= a + len /\ a + len < n * q + n
  <2>1. a + len \in Nat
    BY <1>1
  <2> HIDE DEF a
  <2> QED
    BY <2>1, Division
<1>5. d \in Nat /\ len < n * d + n
  BY Division
<1>6. Place(i, len, n) = p + 1 /\ Place(i + 1, len, n) = q + 1
  BY <1>2 DEF Place
<1>7. p < len
  <2> SUFFICES ASSUME p >= len PROVE FALSE
    BY <1>3
  <2>1. n * p >= n * len
    BY <1>3, SMTT(30)
  <2>2. a <= (n - 1) * len
    BY SMTT(30)
  <2>3. (n - 1) * len = n * len - len
    BY SMTT(30)
  <2>4. n * p \in Nat /\ n * len \in Nat
    BY <1>3, SMTT(30)
  <2> HIDE DEF a, p
  <2> QED
    BY <1>1, <1>3, <2>1, <2>2, <2>3, <2>4
<1> HIDE DEF a, p, q, d
<1>8. p < q
  BY <1>1, <1>3, <1>4, QuotientGrows
<1>9. q <= p + d + 1
  BY <1>1, <1>3, <1>4, <1>5, QuotientGrowsEvenly
<1> QED
  BY <1>3, <1>4, <1>5, <1>6, <1>7, <1>8, <1>9 DEF d

(* _stride_sample returns exactly min(len(records), n) lines ("정확히      *)
(* min(len(records), n)개를 반환한다"), taken from places in increasing    *)
(* order, so that no line comes twice and the order of time is kept, and   *)
(* evenly: the places are at most Len \div n + 1 apart.                    *)
THEOREM StrideSampleSpreads ==
  ASSUME NEW S, NEW s \in Seq(S), NEW n \in Nat
  PROVE  /\ StrideSample(s, n) \in Seq(S)
         /\ Len(StrideSample(s, n)) = Smaller(Len(s), n)
         /\ 0 < n /\ n < Len(s) =>
              \A i \in 1 .. n :
                /\ StrideSample(s, n)[i] = s[Place(i, Len(s), n)]
                /\ Place(i, Len(s), n) \in 1 .. Len(s)
                /\ i < n => /\ Place(i, Len(s), n) < Place(i + 1, Len(s), n)
                            /\ Place(i + 1, Len(s), n) - Place(i, Len(s), n)
                                 <= Len(s) \div n + 1
<1>1. CASE n = 0
  BY <1>1 DEF StrideSample, Smaller
<1>2. CASE n # 0 /\ Len(s) <= n
  BY <1>2 DEF StrideSample, Smaller
<1>3. CASE n # 0 /\ n < Len(s)
  <2>1. n \in Nat \ {0} /\ Len(s) \in Nat /\ Len(s) >= n
    BY <1>3
  <2>2. \A i \in 1 .. n :
          /\ Place(i, Len(s), n) \in 1 .. Len(s)
          /\ Place(i, Len(s), n) < Place(i + 1, Len(s), n)
          /\ Place(i + 1, Len(s), n) - Place(i, Len(s), n) <= Len(s) \div n + 1
    BY <2>1, Places
  <2>3. StrideSample(s, n) = [i \in 1 .. n |-> s[Place(i, Len(s), n)]]
    BY <1>3 DEF StrideSample
  <2>4. \A i \in 1 .. n : s[Place(i, Len(s), n)] \in S
    BY <2>2
  <2>5. StrideSample(s, n) \in Seq(S) /\ Len(StrideSample(s, n)) = n
    BY <2>1, <2>3, <2>4
  <2>6. Smaller(Len(s), n) = n
    BY <1>3 DEF Smaller
  <2> QED
    BY <2>1, <2>2, <2>3, <2>5, <2>6
<1> QED
  BY <1>1, <1>2, <1>3

(* So no line is sampled twice. *)
LEMMA PlacesGrow ==
  ASSUME NEW n \in Nat \ {0}, NEW len \in Nat, len >= n,
         NEW i \in 1 .. n, NEW j \in 1 .. n, i < j
  PROVE  Place(i, len, n) < Place(j, len, n)
<1> DEFINE a == (i - 1) * len
           k == (j - i) * len
           p == a \div n
           q == (a + k) \div n
<1>1. a \in Nat /\ k \in Nat BY SMTT(30)
<1>2. (j - 1) * len = a + k
  <2>1. j - 1 = (i - 1) + (j - i) OBVIOUS
  <2> QED BY <2>1, SMTT(30)
<1>3. k >= n
  <2>1. j - i >= 1 /\ j - i \in Nat OBVIOUS
  <2> DEFINE d == j - i
  <2>2. d \in Nat /\ d >= 1 BY <2>1
  <2> HIDE DEF d
  <2>3. d * len >= len BY <2>2, SMTT(30)
  <2>4. d * len \in Nat BY <2>2, SMTT(30)
  <2> QED BY <2>3, <2>4 DEF d
<1>4. Place(i, len, n) = p + 1 /\ Place(j, len, n) = q + 1 BY <1>2 DEF Place
<1> HIDE DEF a, k
<1>5. p \in Nat /\ n * p <= a /\ a < n * p + n BY <1>1, Division
<1>6. q \in Nat /\ n * q <= a + k /\ a + k < n * q + n
  <2>1. a + k \in Nat BY <1>1
  <2> QED BY <2>1, Division
<1> HIDE DEF p, q
<1>7. p < q BY <1>1, <1>3, <1>5, <1>6, QuotientGrows
<1> QED BY <1>4, <1>5, <1>6, <1>7

Sample(s, n, t) ==
  /\ Len(t) = Smaller(Len(s), n)
  /\ Distinct(s) => Distinct(t)
  /\ Elements(t) \subseteq Elements(s)
  /\ Len(s) <= n => Elements(t) = Elements(s)

LEMMA SampleIs ==
  ASSUME NEW S, NEW s \in Seq(S), NEW n \in Nat
  PROVE  StrideSample(s, n) \in Seq(S) /\ Sample(s, n, StrideSample(s, n))
<1>1. Len(s) \in Nat OBVIOUS
<1>2. CASE n = 0
  <2>1. StrideSample(s, n) = <<>> BY <1>2 DEF StrideSample
  <2>2. 1 .. Len(<<>>) = {} OBVIOUS
  <2>3. Elements(<<>>) = {} /\ Distinct(<<>>) BY <2>2 DEF Elements, Distinct
  <2>4. Len(s) <= n => 1 .. Len(s) = {} BY <1>1, <1>2
  <2>5. Len(s) <= n => Elements(s) = {} BY <2>4 DEF Elements
  <2>6. Smaller(Len(s), n) = 0 /\ Len(<<>>) = 0 BY <1>1, <1>2 DEF Smaller
  <2>7. <<>> \in Seq(S) OBVIOUS
  <2> DEFINE e == <<>>
  <2>8. Sample(s, n, e) BY <2>3, <2>5, <2>6 DEF Sample
  <2> QED BY <2>1, <2>7, <2>8
<1>3. CASE n # 0 /\ Len(s) <= n
  <2>1. StrideSample(s, n) = s BY <1>3 DEF StrideSample
  <2>2. Smaller(Len(s), n) = Len(s) BY <1>3 DEF Smaller
  <2> QED BY <2>1, <2>2 DEF Sample
<1>4. CASE n # 0 /\ Len(s) > n
  <2> DEFINE t == StrideSample(s, n)
  <2>1. n \in Nat \ {0} /\ Len(s) >= n BY <1>1, <1>4
  <2>2. t = [i \in 1 .. n |-> s[Place(i, Len(s), n)]]
    BY <1>1, <1>4 DEF StrideSample
  <2>3. \A i \in 1 .. n : Place(i, Len(s), n) \in 1 .. Len(s)
    BY <1>1, <2>1, Places
  <2>4. \A i \in 1 .. n, j \in 1 .. n :
          i < j => Place(i, Len(s), n) < Place(j, Len(s), n)
    BY <1>1, <2>1, PlacesGrow
  <2>5. \A i \in 1 .. n : s[Place(i, Len(s), n)] \in S BY <2>3
  <2> HIDE DEF t
  <2>6. t \in Seq(S) /\ Len(t) = n BY <2>1, <2>2, <2>5
  <2>7. \A i \in 1 .. n : t[i] = s[Place(i, Len(s), n)] BY <2>2
  <2>8. Elements(t) \subseteq Elements(s) BY <2>3, <2>6, <2>7 DEF Elements
  <2>9. Distinct(s) => Distinct(t)
    <3> SUFFICES ASSUME Distinct(s), NEW i \in 1 .. n, NEW j \in 1 .. n,
                        t[i] = t[j]
        PROVE  i = j
      BY <2>6 DEF Distinct
    <3>1. Place(i, Len(s), n) = Place(j, Len(s), n)
      BY <2>3, <2>7 DEF Distinct
    <3>2. Place(i, Len(s), n) \in Nat BY <2>3
    <3> QED BY <2>1, <2>4, <3>1, <3>2
  <2>10. Smaller(Len(s), n) = n BY <1>1, <1>4 DEF Smaller
  <2> QED BY <1>1, <1>4, <2>6, <2>8, <2>9, <2>10 DEF Sample, t
<1> QED BY <1>1, <1>2, <1>3, <1>4
-----------------------------------------------------------------------------
(* Sorting by time. *)
IsEntry(e) == e.list \in Int /\ e.place \in Int /\ e.line \in 1 .. Len(logs)

Numbered(E) ==
  \A d \in E, e \in E : d.list = e.list /\ d.place = e.place => d = e

(* The lines of some entries, by time. *)
Sorted(E, s) ==
  /\ s \in Seq(1 .. Len(logs)) /\ Len(s) = Cardinality(E)
  /\ Elements(s) = {e.line : e \in E}
  /\ (\A d \in E, e \in E : d.line = e.line => d = e) => Distinct(s)
  /\ \A n \in 1 .. Len(s), m \in 1 .. Len(s) :
       n < m => logs[s[n]].ts <= logs[s[m]].ts

LEMMA SortedIs ==
  ASSUME TypeOK, NEW E, IsFiniteSet(E), \A e \in E : IsEntry(e), Numbered(E)
  PROVE  Sorted(E, ByTime(E))
<1> DEFINE ts(e) == logs[e.line].ts
           before == {x \in E \X E :
                        \/ ts(x[1]) < ts(x[2])
                        \/ ts(x[1]) = ts(x[2]) /\ Ahead(x[1], x[2])}
           o == Ordered(E, before)
           C == Cardinality(E)
           s == ByTime(E)
<1>1. \A e \in E : ts(e) \in Int
  <2>1. \A e \in E : logs[e.line] \in Line BY DEF TypeOK, IsEntry
  <2> QED BY <2>1 DEF Line
<1>2. \A d \in E, e \in E :
        <<d, e>> \in before <=>
          \/ ts(d) < ts(e)
          \/ ts(d) = ts(e) /\ Ahead(d, e)
  OBVIOUS
<1>3. ByTime(E) = [n \in 1 .. C |-> o[n].line] BY DEF ByTime
<1> HIDE DEF ts, before
<1>4. Orders(before, E)
  <2>1. \A x \in E : <<x, x>> \notin before
    BY <1>1, <1>2 DEF Ahead, IsEntry
  <2>2. ASSUME NEW x \in E, NEW y \in E, x # y
        PROVE  <<x, y>> \in before \/ <<y, x>> \in before
    <3>1. ts(x) \in Int /\ ts(y) \in Int BY <1>1
    <3>2. x.list \in Int /\ y.list \in Int /\ x.place \in Int /\ y.place \in Int
      BY DEF IsEntry
    <3>3. x.list # y.list \/ x.place # y.place BY <2>2 DEF Numbered
    <3> QED BY <1>2, <3>1, <3>2, <3>3 DEF Ahead
  <2>3. ASSUME NEW x \in E, NEW y \in E, NEW z \in E,
               <<x, y>> \in before, <<y, z>> \in before
        PROVE  <<x, z>> \in before
    <3>1. ts(x) \in Int /\ ts(y) \in Int /\ ts(z) \in Int BY <1>1
    <3>2. /\ x.list \in Int /\ y.list \in Int /\ z.list \in Int
          /\ x.place \in Int /\ y.place \in Int /\ z.place \in Int
      BY DEF IsEntry
    <3>3. /\ ts(x) < ts(y) \/ (ts(x) = ts(y) /\ Ahead(x, y))
          /\ ts(y) < ts(z) \/ (ts(y) = ts(z) /\ Ahead(y, z))
      BY <1>2, <2>3
    <3>4. Ahead(x, y) /\ Ahead(y, z) => Ahead(x, z) BY <3>2 DEF Ahead
    <3> QED BY <1>2, <3>1, <3>3, <3>4
  <2> QED BY <2>1, <2>2, <2>3 DEF Orders
<1>5. Sequenced(E, before, o) BY <1>4, OrderedIs
<1> HIDE DEF o, s
<1>6. /\ o \in [1 .. C -> E] /\ C \in Nat
      /\ \A n \in 1 .. C, m \in 1 .. C : o[n] = o[m] => n = m
      /\ \A x \in E : \E n \in 1 .. C : o[n] = x
      /\ \A n \in 1 .. C, m \in 1 .. C : n < m => <<o[n], o[m]>> \in before
  BY <1>5 DEF Sequenced
<1>7. \A n \in 1 .. C : o[n] \in E /\ o[n].line \in 1 .. Len(logs)
  BY <1>6 DEF IsEntry
<1> HIDE DEF C
<1>8. s = [n \in 1 .. C |-> o[n].line] BY <1>3 DEF s
<1>9. s \in Seq(1 .. Len(logs)) /\ Len(s) = C BY <1>6, <1>7, <1>8
<1>10. \A n \in 1 .. C : s[n] = o[n].line BY <1>8
<1>11. Elements(s) = {e.line : e \in E}
  BY <1>6, <1>7, <1>9, <1>10 DEF Elements
<1>12. (\A d \in E, e \in E : d.line = e.line => d = e) => Distinct(s)
  BY <1>6, <1>7, <1>9, <1>10 DEF Distinct
<1>13. \A n \in 1 .. C, m \in 1 .. C :
         n < m => logs[s[n]].ts <= logs[s[m]].ts
  <2> SUFFICES ASSUME NEW n \in 1 .. C, NEW m \in 1 .. C, n < m
      PROVE  logs[s[n]].ts <= logs[s[m]].ts
    OBVIOUS
  <2>1. <<o[n], o[m]>> \in before /\ o[n] \in E /\ o[m] \in E BY <1>6, <1>7
  <2>2. ts(o[n]) <= ts(o[m]) BY <1>1, <1>2, <2>1
  <2> QED BY <1>10, <2>2 DEF ts
<1> QED BY <1>9, <1>11, <1>12, <1>13 DEF Sorted, C, s

(* The entries of one list. *)
OneList(l, s, E) ==
  /\ IsFiniteSet(E) /\ Cardinality(E) = Len(s)
  /\ \A e \in E :
       /\ IsEntry(e) /\ e.list = l
       /\ e.place \in 1 .. Len(s) /\ e.line = s[e.place]
       /\ e = [list |-> l, place |-> e.place, line |-> s[e.place]]
  /\ {e.line : e \in E} = Elements(s)

LEMMA EntriesAre ==
  ASSUME NEW l \in Int, NEW s \in Seq(1 .. Len(logs))
  PROVE  OneList(l, s, Entries(l, s))
<1> DEFINE N == Len(s)
           E == Entries(l, s)
           F == [i \in 1 .. N |-> [list |-> l, place |-> i, line |-> s[i]]]
<1>1. N \in Nat /\ \A i \in 1 .. N : s[i] \in 1 .. Len(logs) OBVIOUS
<1>2. E = {[list |-> l, place |-> i, line |-> s[i]] : i \in 1 .. N}
  BY DEF Entries
<1> HIDE DEF N, E
<1>3. F \in Bijection(1 .. N, E)
  <2>1. F \in [1 .. N -> E] BY <1>2
  <2>2. \A i, j \in 1 .. N : F[i] = F[j] => i = j
    <3>1. \A i \in 1 .. N : F[i].place = i OBVIOUS
    <3> HIDE DEF F
    <3> QED BY <3>1
  <2>3. \A e \in E : \E i \in 1 .. N : F[i] = e BY <1>2
  <2> HIDE DEF F
  <2> QED BY <2>1, <2>2, <2>3 DEF Bijection, Injection, Surjection, IsInjective
<1>4. ExistsBijection(1 .. N, E) BY <1>3 DEF ExistsBijection
<1>5. Cardinality(E) = N BY <1>1, <1>4, FS_CountingElements
<1>6. IsFiniteSet(1 .. N) BY <1>1, FS_Interval
<1>7. IsFiniteSet(E) BY <1>4, <1>6, FS_Bijection
<1>8. ASSUME NEW e \in E
      PROVE  /\ IsEntry(e) /\ e.list = l
             /\ e.place \in 1 .. N /\ e.line = s[e.place]
             /\ e = [list |-> l, place |-> e.place, line |-> s[e.place]]
  <2>1. PICK i \in 1 .. N : e = [list |-> l, place |-> i, line |-> s[i]] BY <1>2
  <2>2. e.list = l /\ e.place = i /\ e.line = s[i] BY <2>1
  <2> QED BY <1>1, <2>1, <2>2 DEF IsEntry
<1>9. {e.line : e \in E} = Elements(s)
  <2>1. \A e \in E : e.line \in Elements(s) BY <1>8 DEF Elements, N
  <2>2. ASSUME NEW i \in 1 .. N PROVE \E e \in E : e.line = s[i]
    <3> DEFINE e == [list |-> l, place |-> i, line |-> s[i]]
    <3>1. e \in E BY <1>2
    <3> QED BY <3>1
  <2> QED BY <2>1, <2>2 DEF Elements, N
<1> QED BY <1>5, <1>7, <1>8, <1>9 DEF N, E, OneList
-----------------------------------------------------------------------------
(* The lines of a service. *)
LEMMA LinesAre ==
  ASSUME TypeOK, NEW I \in SUBSET (1 .. Len(logs))
  PROVE  /\ Upwards(I, InOrder(I)) /\ InOrder(I) \in Seq(1 .. Len(logs))
         /\ IsFiniteSet(I) /\ Cardinality(I) \in Nat
<1> DEFINE N == Len(logs)
<1>1. N \in Nat BY DEF TypeOK
<1>2. \A i \in I : i \in Nat /\ i <= N BY <1>1
<1> HIDE DEF N
<1>3. Upwards(I, InOrder(I)) BY <1>1, <1>2, InOrderIs
<1>4. IsFiniteSet(I) /\ Cardinality(I) \in Nat BY <1>1, <1>2, PositionsFinite
<1> DEFINE s == InOrder(I)
           V == 1 .. Len(logs)
<1>5. s \in Seq(V)
  <2>1. s \in Seq(I) BY <1>3 DEF Upwards
  <2>2. I \subseteq V OBVIOUS
  <2> HIDE DEF s, V
  <2> QED BY <2>1, <2>2, SeqWidened
<1> QED BY <1>3, <1>4, <1>5

Left(s) == Cardinality(Spared(s)) + Smaller(Cardinality(Ordinary(s)), Cap)

Combination(s, t) ==
  /\ t \in Seq(1 .. Len(logs)) /\ Distinct(t) /\ Len(t) = Left(s)
  /\ Elements(t) = Spared(s)
                     \cup Elements(StrideSample(InOrder(Ordinary(s)), Cap))
  /\ Elements(t) \subseteq All(s)

LEMMA CombinedIs ==
  ASSUME TypeOK, NEW s
  PROVE  Combination(s, Combined(s)) /\ Left(s) \in Nat
<1> DEFINE P == InOrder(Spared(s))
           O == InOrder(Ordinary(s))
           Q == StrideSample(O, Cap)
           V == 1 .. Len(logs)
<1>1. /\ Spared(s) \subseteq V /\ Ordinary(s) \subseteq V
      /\ Spared(s) \subseteq All(s) /\ Ordinary(s) \subseteq All(s)
      /\ Spared(s) \cap Ordinary(s) = {}
  BY DEF Spared, Ordinary, All
<1>2. /\ Upwards(Spared(s), P) /\ P \in Seq(V)
      /\ Upwards(Ordinary(s), O) /\ O \in Seq(V)
      /\ Cardinality(Spared(s)) \in Nat /\ Cardinality(Ordinary(s)) \in Nat
  BY <1>1, LinesAre
<1>3. Cap \in Nat BY TruncationAssumption
<1> HIDE DEF P, O, Q, V
<1>4. Q \in Seq(V) /\ Sample(O, Cap, Q) BY <1>2, <1>3, SampleIs DEF Q
<1>5. /\ Len(P) = Cardinality(Spared(s)) /\ Elements(P) = Spared(s)
      /\ Distinct(P)
      /\ Len(O) = Cardinality(Ordinary(s)) /\ Elements(O) = Ordinary(s)
      /\ Distinct(O)
  BY <1>2 DEF Upwards
<1>6. /\ Len(Q) = Smaller(Cardinality(Ordinary(s)), Cap) /\ Distinct(Q)
      /\ Elements(Q) \subseteq Ordinary(s)
  BY <1>4, <1>5 DEF Sample
<1>7. Appendable(P, Q) BY <1>2, <1>4, DistinctJoined
<1>8. Combined(s) = P \o Q BY DEF Combined, P, Q, O
<1>9. P \o Q \in Seq(V) BY <1>2, <1>4
<1>10. Distinct(P \o Q) /\ Len(P \o Q) = Left(s)
       /\ Elements(P \o Q) = Spared(s) \cup Elements(Q)
  BY <1>1, <1>5, <1>6, <1>7 DEF Appendable, Left
<1>11. Elements(P \o Q) \subseteq All(s) BY <1>1, <1>6, <1>10
<1>12. Left(s) \in Nat BY <1>2, <1>3 DEF Left, Smaller
<1>13. Combination(s, P \o Q)
  BY <1>9, <1>10, <1>11 DEF Combination, Q, O, V
<1> QED BY <1>8, <1>12, <1>13

Kept(s, t) ==
  /\ t \in Seq(1 .. Len(logs)) /\ Distinct(t)
  /\ Len(t) = Smaller(Left(s), Backstop)
  /\ Elements(t) \subseteq All(s)
  /\ Left(s) <= Backstop =>
       Elements(t) = Spared(s)
                       \cup Elements(StrideSample(InOrder(Ordinary(s)), Cap))

LEMMA KeptIs ==
  ASSUME TypeOK, NEW s
  PROVE  Kept(s, KeptOf(s))
<1> DEFINE t == Combined(s)
           E == Entries(1, t)
           u == ByTime(E)
<1>1. Combination(s, t) /\ Left(s) \in Nat BY CombinedIs
<1>2. Backstop \in Nat BY TruncationAssumption
<1>3. /\ t \in Seq(1 .. Len(logs)) /\ Distinct(t) /\ Len(t) = Left(s)
      /\ Elements(t) \subseteq All(s)
  BY <1>1 DEF Combination
<1>4. CASE Len(t) <= Backstop
  <2>1. KeptOf(s) = t BY <1>1, <1>2, <1>3, <1>4 DEF KeptOf
  <2> HIDE DEF t
  <2>2. Smaller(Left(s), Backstop) = Left(s) BY <1>3, <1>4 DEF Smaller
  <2> QED BY <1>1, <1>3, <2>1, <2>2 DEF Kept, Combination
<1>5. CASE Len(t) > Backstop
  <2>1. KeptOf(s) = StrideSample(u, Backstop) BY <1>5 DEF KeptOf
  <2> HIDE DEF t
  <2>2. /\ IsFiniteSet(E) /\ Cardinality(E) = Len(t)
        /\ \A e \in E :
             /\ IsEntry(e) /\ e.list = 1
             /\ e.place \in 1 .. Len(t) /\ e.line = t[e.place]
             /\ e = [list |-> 1, place |-> e.place, line |-> t[e.place]]
        /\ {e.line : e \in E} = Elements(t)
    <3>1. 1 \in Int OBVIOUS
    <3>2. OneList(1, t, E) BY <1>3, <3>1, EntriesAre
    <3> HIDE DEF E
    <3> QED BY <3>2 DEF OneList
  <2> HIDE DEF E
  <2>3. Numbered(E) BY <2>2 DEF Numbered
  <2>4. \A d \in E, e \in E : d.line = e.line => d = e
    <3> SUFFICES ASSUME NEW d \in E, NEW e \in E, d.line = e.line PROVE d = e
      OBVIOUS
    <3>1. d.place = e.place BY <1>3, <2>2 DEF Distinct
    <3> QED BY <2>2, <3>1
  <2>5. Sorted(E, u) BY <2>2, <2>3, SortedIs
  <2> HIDE DEF u
  <2>6. u \in Seq(1 .. Len(logs)) /\ Len(u) = Len(t) /\ Distinct(u)
        /\ Elements(u) = Elements(t)
    BY <2>2, <2>4, <2>5 DEF Sorted
  <2> DEFINE v == StrideSample(u, Backstop)
  <2>7. v \in Seq(1 .. Len(logs)) /\ Sample(u, Backstop, v)
    BY <1>2, <2>6, SampleIs
  <2> HIDE DEF v
  <2>8. Smaller(Len(u), Backstop) = Smaller(Left(s), Backstop) BY <1>3, <2>6
  <2>9. ~(Left(s) <= Backstop) BY <1>1, <1>2, <1>3, <1>5
  <2>10. Kept(s, v) BY <1>3, <2>6, <2>7, <2>8, <2>9 DEF Kept, Sample
  <2> QED BY <2>1, <2>10 DEF v
<1> QED BY <1>1, <1>2, <1>3, <1>4, <1>5
-----------------------------------------------------------------------------
(* The services, and the bundle. *)
ServiceList(W) ==
  /\ Len(W) \in Nat
  /\ \A n \in 1 .. Len(W), m \in 1 .. Len(W) : W[n] = W[m] => n = m
  /\ \A i \in 1 .. Len(logs) : \E n \in 1 .. Len(W) : W[n] = logs[i].service

LEMMA ServicesAre ==
  ASSUME TypeOK
  PROVE  ServiceList(ByService)
<1> DEFINE N == Len(logs)
           I == FirstLines
           a == Cardinality(I)
           W == ByService
<1>1. N \in Nat BY DEF TypeOK
<1>2. I = {i \in 1 .. N : \A j \in 1 .. i - 1 : logs[j].service # logs[i].service}
  BY DEF FirstLines
<1>3. W = [n \in 1 .. a |-> logs[Nth(I, n)].service] BY DEF ByService
<1> HIDE DEF N, I, W
<1>4. \A i \in I : i \in Nat /\ i <= N BY <1>1, <1>2
<1>5. a \in Nat BY <1>1, <1>4, PositionsFinite
<1>6. \A n \in 1 .. a : Nth(I, n) \in I BY <1>1, <1>4, NthIs
<1>7. \A n \in 1 .. a, m \in 1 .. a : n < m => Nth(I, n) < Nth(I, m)
  BY <1>1, <1>4, NthGrows
<1>8. \A i \in I : \E n \in 1 .. a : Nth(I, n) = i BY <1>1, <1>4, NthReaches
<1> HIDE DEF a
<1>9. Len(W) = a /\ \A n \in 1 .. a : W[n] = logs[Nth(I, n)].service
  BY <1>3, <1>5
<1>10. ASSUME NEW n \in 1 .. a, NEW m \in 1 .. a, n < m PROVE W[n] # W[m]
  <2>1. Nth(I, n) \in I /\ Nth(I, m) \in I /\ Nth(I, n) < Nth(I, m)
    BY <1>6, <1>7, <1>10
  <2>2. Nth(I, n) \in 1 .. Nth(I, m) - 1 BY <1>1, <1>2, <2>1
  <2>3. logs[Nth(I, n)].service # logs[Nth(I, m)].service BY <1>2, <2>1, <2>2
  <2> QED BY <1>9, <2>3
<1>11. \A n \in 1 .. a, m \in 1 .. a : W[n] = W[m] => n = m BY <1>5, <1>10
<1>12. ASSUME NEW i \in 1 .. N PROVE \E n \in 1 .. a : W[n] = logs[i].service
  <2> DEFINE T == {j \in 1 .. N : logs[j].service = logs[i].service}
  <2>1. T \in SUBSET Nat /\ i \in T BY <1>1
  <2> HIDE DEF T
  <2>2. PICK j \in T : \A k \in T : j <= k BY <2>1, LeastElement
  <2>3. j \in 1 .. N /\ logs[j].service = logs[i].service BY DEF T
  <2>4. \A k \in 1 .. j - 1 : logs[k].service # logs[j].service
    <3> SUFFICES ASSUME NEW k \in 1 .. j - 1, logs[k].service = logs[j].service
        PROVE FALSE
      OBVIOUS
    <3>1. k \in T BY <1>1, <2>3 DEF T
    <3> QED BY <1>1, <2>2, <2>3, <3>1
  <2>5. j \in I BY <1>2, <2>3, <2>4
  <2>6. PICK n \in 1 .. a : Nth(I, n) = j BY <1>8, <2>5
  <2>7. W[n] = logs[i].service BY <1>9, <2>3, <2>6
  <2> QED BY <2>7
<1> QED BY <1>5, <1>9, <1>11, <1>12 DEF ServiceList, W, N

Truncated(T) ==
  /\ T \in Seq(1 .. Len(logs)) /\ Distinct(T)
  /\ \A n \in 1 .. Len(T), m \in 1 .. Len(T) :
       n < m => logs[T[n]].ts <= logs[T[m]].ts
  /\ \A s : Elements(T) \cap All(s) = Elements(KeptOf(s))

LEMMA TruncatedIs ==
  ASSUME TypeOK
  PROVE  Truncated(TruncateLogs(ByService))
<1> DEFINE W == ByService
           a == Len(W)
           D(n) == Entries(n, KeptOf(W[n]))
           C == {D(n) : n \in 1 .. a}
           E == UNION C
           T == TruncateLogs(ByService)
<1>1. /\ a \in Nat
      /\ \A n \in 1 .. a, m \in 1 .. a : W[n] = W[m] => n = m
      /\ \A i \in 1 .. Len(logs) : \E n \in 1 .. a : W[n] = logs[i].service
  BY ServicesAre DEF ServiceList
<1>2. T = ByTime(E) BY DEF TruncateLogs
<1> HIDE DEF W, a, T
<1>3. \A s : KeptOf(s) \in Seq(1 .. Len(logs)) /\ Distinct(KeptOf(s))
             /\ Elements(KeptOf(s)) \subseteq All(s)
  BY KeptIs DEF Kept
<1>4. \A n \in 1 .. a : OneList(n, KeptOf(W[n]), D(n))
  BY <1>1, <1>3, EntriesAre
<1>5. IsFiniteSet(E)
  <2>1. \A n \in 1 .. a : IsFiniteSet(D(n)) BY <1>4 DEF OneList
  <2> DEFINE f == [n \in 1 .. a |-> D(n)]
  <2> HIDE DEF D
  <2>2. f \in Surjection(1 .. a, C)
    <3>1. f \in [1 .. a -> C] OBVIOUS
    <3>2. \A c \in C : \E n \in 1 .. a : f[n] = c OBVIOUS
    <3> HIDE DEF f, C
    <3> QED BY <3>1, <3>2 DEF Surjection
  <2>3. IsFiniteSet(1 .. a) BY <1>1, FS_Interval
  <2> HIDE DEF f
  <2>4. IsFiniteSet(C) BY <2>2, <2>3, FS_Surjection
  <2>5. \A c \in C : IsFiniteSet(c) BY <2>1
  <2> HIDE DEF C
  <2> QED BY <2>4, <2>5, FS_UNION
<1>6. \A e \in E : \E n \in 1 .. a : e \in D(n) OBVIOUS
<1>7. \A n \in 1 .. a : D(n) \subseteq E OBVIOUS
<1> HIDE DEF D, E
<1>8. \A n \in 1 .. a : \A e \in D(n) :
        /\ IsEntry(e) /\ e.list = n
        /\ e.place \in 1 .. Len(KeptOf(W[n])) /\ e.line = KeptOf(W[n])[e.place]
        /\ e = [list |-> n, place |-> e.place, line |-> KeptOf(W[n])[e.place]]
  BY <1>4 DEF OneList
<1>9. \A n \in 1 .. a : {e.line : e \in D(n)} = Elements(KeptOf(W[n]))
  BY <1>4 DEF OneList
<1>10. \A e \in E : IsEntry(e) BY <1>6, <1>8
<1>11. Numbered(E)
  <2> SUFFICES ASSUME NEW d \in E, NEW e \in E, d.list = e.list, d.place = e.place
      PROVE  d = e
    BY DEF Numbered
  <2>1. PICK n \in 1 .. a : d \in D(n) BY <1>6
  <2>2. PICK m \in 1 .. a : e \in D(m) BY <1>6
  <2>3. n = m BY <1>8, <2>1, <2>2
  <2> QED BY <1>8, <2>1, <2>2, <2>3
<1>12. \A d \in E, e \in E : d.line = e.line => d = e
  <2> SUFFICES ASSUME NEW d \in E, NEW e \in E, d.line = e.line PROVE d = e
    OBVIOUS
  <2>1. PICK n \in 1 .. a : d \in D(n) BY <1>6
  <2>2. PICK m \in 1 .. a : e \in D(m) BY <1>6
  <2>3. d.line \in All(W[n]) /\ e.line \in All(W[m])
    <3>1. d.line \in Elements(KeptOf(W[n])) BY <1>9, <2>1
    <3>2. e.line \in Elements(KeptOf(W[m])) BY <1>9, <2>2
    <3> QED BY <1>3, <3>1, <3>2
  <2>4. W[n] = W[m] BY <2>3 DEF All
  <2>5. n = m BY <1>1, <2>4
  <2>6. /\ d.place \in 1 .. Len(KeptOf(W[n])) /\ e.place \in 1 .. Len(KeptOf(W[n]))
        /\ d.line = KeptOf(W[n])[d.place] /\ e.line = KeptOf(W[n])[e.place]
    BY <1>8, <2>1, <2>2, <2>5
  <2>7. d.place = e.place BY <1>3, <2>6 DEF Distinct
  <2>8. d.list = e.list BY <1>8, <2>1, <2>2, <2>5
  <2> QED BY <1>11, <2>7, <2>8 DEF Numbered
<1>13. Sorted(E, T)
  <2>1. Sorted(E, ByTime(E)) BY <1>5, <1>10, <1>11, SortedIs
  <2> QED BY <1>2, <2>1
<1>14. /\ T \in Seq(1 .. Len(logs)) /\ Distinct(T)
       /\ Elements(T) = {e.line : e \in E}
       /\ \A n \in 1 .. Len(T), m \in 1 .. Len(T) :
            n < m => logs[T[n]].ts <= logs[T[m]].ts
  BY <1>12, <1>13 DEF Sorted
<1>15. ASSUME NEW s PROVE Elements(T) \cap All(s) = Elements(KeptOf(s))
  <2>1. ASSUME NEW x \in Elements(T), x \in All(s)
        PROVE  x \in Elements(KeptOf(s))
    <3>1. PICK e \in E : x = e.line BY <1>14, <2>1
    <3>2. PICK n \in 1 .. a : e \in D(n) BY <1>6
    <3>3. x \in Elements(KeptOf(W[n])) BY <1>9, <3>1, <3>2
    <3>4. x \in All(W[n]) BY <1>3, <3>3
    <3>5. W[n] = s BY <2>1, <3>4 DEF All
    <3> QED BY <3>3, <3>5
  <2>2. ASSUME NEW x \in Elements(KeptOf(s))
        PROVE  x \in Elements(T) /\ x \in All(s)
    <3>1. x \in All(s) BY <1>3, <2>2
    <3>2. x \in 1 .. Len(logs) /\ logs[x].service = s BY <3>1 DEF All
    <3>3. PICK n \in 1 .. a : W[n] = s BY <1>1, <3>2
    <3>4. PICK e \in D(n) : x = e.line BY <1>9, <2>2, <3>3
    <3>5. e \in E BY <1>7, <3>4
    <3> QED BY <1>14, <3>1, <3>4, <3>5
  <2> QED BY <2>1, <2>2
<1>16. Truncated(T) BY <1>14, <1>15 DEF Truncated
<1> QED BY <1>16 DEF T
-----------------------------------------------------------------------------
(* Between two captures nothing of this changes. *)
LEMMA SameLines ==
  ASSUME UNCHANGED <<logs, exempt>>
  PROVE  TruncateLogs(ByService)' = TruncateLogs(ByService)
<1>1. logs' = logs /\ exempt' = exempt OBVIOUS
<1>2. ASSUME NEW s PROVE All(s)' = All(s) BY <1>1 DEF All
<1>3. ASSUME NEW s PROVE Spared(s)' = Spared(s)
  BY <1>1, <1>2 DEF Spared, Protected
<1>4. ASSUME NEW s PROVE Ordinary(s)' = Ordinary(s)
  BY <1>2, <1>3 DEF Ordinary
<1>5. ASSUME NEW s PROVE Combined(s)' = Combined(s)
  BY <1>3, <1>4 DEF Combined
<1>6. ASSUME NEW E PROVE ByTime(E)' = ByTime(E)
  BY <1>1 DEF ByTime
<1>7. ASSUME NEW s PROVE KeptOf(s)' = KeptOf(s)
  BY <1>5, <1>6 DEF KeptOf
<1>8. FirstLines' = FirstLines BY <1>1 DEF FirstLines
<1>9. ByService' = ByService BY <1>1, <1>8 DEF ByService
<1> QED BY <1>6, <1>7, <1>9 DEF TruncateLogs

(* What is carried is what the caps leave of the lines as they are. *)
Assembled == pc = "assembled" => bundle = TruncateLogs(ByService)

(* A selection only ever points into the window, which only grows while    *)
(* evidences come in; once assembled it stays what the caps left.          *)
THEOREM TypeCorrect == Spec => [](TypeOK /\ Assembled)
<1>1. Init => TypeOK /\ Assembled
  <2> SUFFICES ASSUME Init PROVE TypeOK /\ Assembled
    OBVIOUS
  <2>1. Len(<<>>) = 0 /\ MaxLogs \in Nat BY TruncationAssumption
  <2>2. <<>> \in Seq(Line) /\ <<>> \in Seq(1 .. Len(<<>>)) OBVIOUS
  <2> QED BY <2>1, <2>2 DEF Init, TypeOK, Assembled
<1>2. TypeOK /\ Assembled /\ [Next]_vars => TypeOK' /\ Assembled'
  <2> SUFFICES ASSUME TypeOK, Assembled, [Next]_vars
      PROVE  TypeOK' /\ Assembled'
    OBVIOUS
  <2>1. ASSUME NEW s \in Services, NEW t \in 0 .. MaxTime, NEW signal \in BOOLEAN,
               Log(s, t, signal)
        PROVE  TypeOK' /\ Assembled'
    <3> DEFINE l == [service |-> s, ts |-> t, signal |-> signal]
    <3>1. /\ pc = "capture" /\ Len(logs) < MaxLogs /\ logs' = Append(logs, l)
          /\ exempt' = exempt /\ pc' = pc /\ bundle' = bundle
      BY <2>1 DEF Log
    <3>2. l \in Line BY DEF Line
    <3> HIDE DEF l
    <3>3. logs' \in Seq(Line) /\ Len(logs') = Len(logs) + 1
      BY <3>1, <3>2 DEF TypeOK
    <3>4. Len(logs') <= MaxLogs
      BY <3>1, <3>3, TruncationAssumption DEF TypeOK
    <3> DEFINE V == 1 .. Len(logs)
               W == 1 .. Len(logs')
    <3>5. V \subseteq W BY <3>3 DEF TypeOK
    <3>6. bundle \in Seq(V) BY DEF TypeOK
    <3> HIDE DEF V, W
    <3>7. bundle \in Seq(W) BY <3>5, <3>6, SeqWidened
    <3> QED BY <3>1, <3>3, <3>4, <3>7 DEF TypeOK, Assembled, W
  <2>2. ASSUME NEW s \in Services, Name(s) PROVE TypeOK' /\ Assembled'
    BY <2>2 DEF Name, TypeOK, Assembled
  <2>3. CASE Assemble
    <3>1. /\ logs' = logs /\ exempt' = exempt /\ pc' = "assembled"
          /\ bundle' = TruncateLogs(ByService)
      BY <2>3 DEF Assemble
    <3>2. TruncateLogs(ByService)' = TruncateLogs(ByService)
      BY <3>1, SameLines
    <3>3. TruncateLogs(ByService) \in Seq(1 .. Len(logs))
      BY TruncatedIs DEF Truncated
    <3>4. bundle' \in Seq(1 .. Len(logs')) BY <3>1, <3>3
    <3> QED BY <3>1, <3>2, <3>4 DEF TypeOK, Assembled
  <2>4. CASE NextCapture
    <3>1. /\ logs' = <<>> /\ exempt' = {} /\ pc' = "capture" /\ bundle' = <<>>
      BY <2>4 DEF NextCapture
    <3>2. Len(<<>>) = 0 /\ MaxLogs \in Nat BY TruncationAssumption
    <3>3. <<>> \in Seq(Line) /\ <<>> \in Seq(1 .. Len(<<>>)) OBVIOUS
    <3> QED BY <3>1, <3>2, <3>3 DEF TypeOK, Assembled
  <2>5. CASE UNCHANGED vars
    <3>1. logs' = logs /\ exempt' = exempt /\ pc' = pc /\ bundle' = bundle
      BY <2>5 DEF vars
    <3>2. TruncateLogs(ByService)' = TruncateLogs(ByService)
      BY <3>1, SameLines
    <3> QED BY <3>1, <3>2 DEF TypeOK, Assembled
  <2> QED BY <2>1, <2>2, <2>3, <2>4, <2>5 DEF Next
<1> QED BY <1>1, <1>2, PTL DEF Spec
-----------------------------------------------------------------------------
(* What is left of a service as the bundle carries it. *)
LEMMA CarriedIs ==
  ASSUME TypeOK, Assembled, pc = "assembled", NEW s
  PROVE  Carried \cap All(s) = Elements(KeptOf(s))
<1>1. Truncated(bundle) BY TruncatedIs DEF Assembled
<1> QED BY <1>1 DEF Truncated, Carried, Elements

(* A bundle holds exactly what the caps allow of every service, whatever   *)
(* the service writes and the evidences name: no room is wasted, no line   *)
(* comes twice, and the order of time is kept.                             *)
THEOREM CapsAreExactCorrect == Spec => []CapsAreExact
<1>1. TypeOK /\ Assembled => CapsAreExact
  <2> SUFFICES ASSUME TypeOK, Assembled, pc = "assembled"
      PROVE  /\ \A s \in Services :
                  Cardinality(Carried \cap All(s)) = Smaller(Left(s), Backstop)
             /\ Len(bundle) = Cardinality(Carried)
             /\ \A n \in 1 .. Len(bundle) - 1 :
                  logs[bundle[n]].ts <= logs[bundle[n + 1]].ts
    BY DEF CapsAreExact, Left
  <2>1. Truncated(bundle) BY TruncatedIs DEF Assembled
  <2>2. ASSUME NEW s \in Services
        PROVE  Cardinality(Carried \cap All(s)) = Smaller(Left(s), Backstop)
    <3> DEFINE t == KeptOf(s)
    <3>1. Carried \cap All(s) = Elements(t) BY CarriedIs
    <3>2. Kept(s, t) BY KeptIs
    <3> HIDE DEF t
    <3>3. /\ t \in Seq(1 .. Len(logs)) /\ Distinct(t)
          /\ Len(t) = Smaller(Left(s), Backstop)
      BY <3>2 DEF Kept
    <3>4. Cardinality(Elements(t)) = Len(t) BY <3>3, ElementsCount
    <3> QED BY <3>1, <3>3, <3>4
  <2>3. Len(bundle) = Cardinality(Carried)
    <3>1. bundle \in Seq(1 .. Len(logs)) /\ Distinct(bundle)
      BY <2>1 DEF Truncated
    <3>2. Cardinality(Elements(bundle)) = Len(bundle) BY <3>1, ElementsCount
    <3> QED BY <3>2 DEF Elements, Carried
  <2>4. ASSUME NEW n \in 1 .. Len(bundle) - 1
        PROVE  logs[bundle[n]].ts <= logs[bundle[n + 1]].ts
    <3>1. bundle \in Seq(1 .. Len(logs)) BY <2>1 DEF Truncated
    <3>2. n \in 1 .. Len(bundle) /\ n + 1 \in 1 .. Len(bundle) /\ n < n + 1
      BY <3>1
    <3> QED BY <2>1, <3>2 DEF Truncated
  <2> QED BY <2>2, <2>3, <2>4
<1> QED BY <1>1, TypeCorrect, PTL

(* No signal and no line of a named service is lost as long as its service *)
(* stays below the backstop.                                               *)
THEOREM SignalsSurviveCorrect == Spec => []SignalsSurviveBelowBackstop
<1>1. TypeOK /\ Assembled => SignalsSurviveBelowBackstop
  <2> SUFFICES ASSUME TypeOK, Assembled, pc = "assembled", NEW s \in Services,
                      Left(s) <= Backstop
      PROVE  Spared(s) \subseteq Carried
    BY DEF SignalsSurviveBelowBackstop, Left
  <2>1. Carried \cap All(s) = Elements(KeptOf(s)) BY CarriedIs
  <2>2. Kept(s, KeptOf(s)) BY KeptIs
  <2>3. Spared(s) \subseteq Elements(KeptOf(s)) BY <2>2 DEF Kept
  <2> QED BY <2>1, <2>3
<1> QED BY <1>1, TypeCorrect, PTL
-----------------------------------------------------------------------------
(* Of d places in a row, n on, at least one is sampled: the first one that *)
(* is not before n.                                                        *)
LEMMA PlaceBetween ==
  ASSUME NEW c \in Nat \ {0}, NEW len \in Nat \ {0}, NEW d \in Nat,
         NEW n \in Nat \ {0}, len <= c * d, n + d - 1 <= len
  PROVE  \E i \in 1 .. c : Place(i, len, c) \in n .. n + d - 1
<1> DEFINE a == (n - 1) * c
           b == a + len - 1
           m == b \div len
           x == m * len
           v == x \div c
<1>1. a \in Nat /\ b \in Nat
  <2>1. n - 1 \in Nat OBVIOUS
  <2>2. a \in Nat BY <2>1, SMTT(30)
  <2> HIDE DEF a
  <2> QED BY <2>2
<1> HIDE DEF b
<1>2. m \in Nat /\ len * m <= b /\ b < len * m + len BY <1>1, Division
<1> HIDE DEF m
<1>3. x \in Nat /\ x = len * m BY <1>2, SMTT(30)
<1> HIDE DEF x
<1>4. a <= x /\ x < a + len BY <1>1, <1>2, <1>3 DEF b
<1>5. v \in Nat /\ c * v <= x /\ x < c * v + c BY <1>3, Division
<1> HIDE DEF v
<1>6. v >= n - 1
  <2> SUFFICES ASSUME v + 1 <= n - 1 PROVE FALSE BY <1>5
  <2>1. c * (v + 1) <= a BY <1>5, SMTT(30)
  <2>2. c * (v + 1) = c * v + c BY <1>5, SMTT(30)
  <2>3. c * v \in Nat BY <1>5, SMTT(30)
  <2> HIDE DEF a
  <2> QED BY <1>1, <1>3, <1>4, <1>5, <2>1, <2>2, <2>3
<1>7. v <= n + d - 2
  <2> SUFFICES ASSUME v >= n - 1 + d PROVE FALSE BY <1>5
  <2>1. c * v >= c * (n - 1 + d) BY <1>5, SMTT(30)
  <2>2. c * (n - 1 + d) = a + c * d BY SMTT(30)
  <2>3. c * v \in Nat /\ c * d \in Nat BY <1>5, SMTT(30)
  <2> HIDE DEF a
  <2> QED BY <1>1, <1>3, <1>4, <1>5, <2>1, <2>2, <2>3
<1>8. m < c
  <2> SUFFICES ASSUME m >= c PROVE FALSE BY <1>2
  <2>1. x >= len * c BY <1>2, <1>3, SMTT(30)
  <2>2. n - 1 <= len - d OBVIOUS
  <2>3. a <= (len - d) * c BY <2>2, SMTT(30)
  <2>4. (len - d) * c = len * c - c * d BY SMTT(30)
  <2>5. len * c \in Nat /\ c * d \in Nat BY SMTT(30)
  <2> HIDE DEF a
  <2> QED BY <1>1, <1>3, <1>4, <2>1, <2>3, <2>4, <2>5
<1> DEFINE i == m + 1
<1>9. i \in 1 .. c /\ i - 1 = m BY <1>2, <1>8
<1> HIDE DEF i
<1>10. Place(i, len, c) = v + 1 BY <1>9 DEF Place, v, x
<1>11. v + 1 \in n .. n + d - 1 BY <1>5, <1>6, <1>7
<1> QED BY <1>9, <1>10, <1>11

(* The thinned lines keep the shape of the window: among Len / Cap         *)
(* ordinary lines in a row of a service, rounded up, at least one is       *)
(* carried, so that no stretch of the window is left blank.                *)
THEOREM ShapeIsKeptCorrect == Spec => []ShapeIsKept
<1>1. TypeOK /\ Assembled => ShapeIsKept
  <2> DEFINE q(s) == InOrder(Ordinary(s))
             stride(s) == (Len(q(s)) + Cap - 1) \div Cap
  <2> SUFFICES ASSUME TypeOK, Assembled, pc = "assembled", NEW s \in Services,
                      Cap > 0, Cardinality(Spared(s)) + Cap <= Backstop,
                      NEW n \in 1 .. Len(q(s)), n + stride(s) - 1 <= Len(q(s))
      PROVE  \E k \in n .. n + stride(s) - 1 : q(s)[k] \in Carried
    BY DEF ShapeIsKept
  <2> DEFINE o == q(s)
             len == Len(o)
             d == stride(s)
             t == StrideSample(o, Cap)
  <2>1. /\ Cap \in Nat \ {0} /\ Backstop \in Nat
    BY TruncationAssumption
  <2>2. /\ Spared(s) \subseteq 1 .. Len(logs) /\ Ordinary(s) \subseteq 1 .. Len(logs)
    BY DEF Spared, Ordinary, All
  <2>3. /\ Upwards(Ordinary(s), o) /\ o \in Seq(1 .. Len(logs))
        /\ Cardinality(Ordinary(s)) \in Nat /\ Cardinality(Spared(s)) \in Nat
    BY <2>2, LinesAre
  <2>4. Left(s) <= Backstop BY <2>1, <2>3 DEF Left, Smaller
  <2>5. Elements(t) \subseteq Carried
    <3>1. Kept(s, KeptOf(s)) BY KeptIs
    <3>2. Elements(t) \subseteq Elements(KeptOf(s)) BY <2>4, <3>1 DEF Kept
    <3>3. Carried \cap All(s) = Elements(KeptOf(s)) BY CarriedIs
    <3> QED BY <3>2, <3>3
  <2>6. d = (len + Cap - 1) \div Cap OBVIOUS
  <2>7. n \in 1 .. len /\ n + d - 1 <= len OBVIOUS
  <2> HIDE DEF o
  <2>8. len \in Nat /\ n \in Nat \ {0} /\ len \in Nat \ {0}
    BY <2>3, <2>7
  <2> DEFINE b == len + Cap - 1
  <2> HIDE DEF d, len
  <2>9. b \in Nat BY <2>1, <2>8
  <2>10. d \in Nat /\ Cap * d <= b /\ b < Cap * d + Cap
    <3> HIDE DEF b
    <3>1. d = b \div Cap BY <2>6 DEF b
    <3> QED BY <2>1, <2>9, <3>1, Division
  <2>11. len <= Cap * d
    <3>1. Cap * d \in Nat BY <2>1, <2>10, SMTT(30)
    <3> QED BY <2>1, <2>8, <2>10, <3>1
  <2>12. ASSUME NEW k \in n .. n + d - 1, o[k] \in Elements(t)
         PROVE \E j \in n .. n + stride(s) - 1 : q(s)[j] \in Carried
    BY <2>5, <2>12 DEF o, d
  <2>13. CASE len <= Cap
    <3>1. t = o BY <2>1, <2>8, <2>13 DEF StrideSample, t, len
    <3>2. d >= 1
      <4> SUFFICES ASSUME d = 0 PROVE FALSE BY <2>10
      <4>1. Cap * d = 0 BY <2>1, SMTT(30)
      <4> QED BY <2>8, <2>11, <4>1
    <3>3. n \in n .. n + d - 1 BY <2>8, <2>10, <3>2
    <3>4. o[n] \in Elements(t) BY <2>7, <3>1 DEF Elements, len
    <3> QED BY <2>12, <3>3, <3>4
  <2>14. CASE len > Cap
    <3>1. PICK i \in 1 .. Cap : Place(i, len, Cap) \in n .. n + d - 1
      BY <2>1, <2>7, <2>8, <2>10, <2>11, PlaceBetween
    <3>2. t = [j \in 1 .. Cap |-> o[Place(j, Len(o), Cap)]]
      BY <2>1, <2>8, <2>14 DEF StrideSample, t, len
    <3> HIDE DEF t
    <3>3. Len(t) = Cap /\ t[i] = o[Place(i, len, Cap)]
      BY <2>1, <3>2 DEF len
    <3>4. t[i] \in Elements(t) BY <3>3 DEF Elements
    <3> QED BY <2>12, <3>1, <3>3, <3>4
  <2> QED BY <2>1, <2>8, <2>13, <2>14
<1> QED BY <1>1, TypeCorrect, PTL
=============================================================================
