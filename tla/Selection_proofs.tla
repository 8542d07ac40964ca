--------------------------- MODULE Selection_proofs ---------------------------
(***************************************************************************)
(* What the operators of module Selection return: counting enumerates a    *)
(* set of positions completely and in order, and enumerates a set below    *)
(* another one before it.                                                  *)
(***************************************************************************)
EXTENDS Selection, FiniteSetTheorems, FunctionTheorems, WellFoundedInduction, TLAPS

Below(I, i) == {j \in I : j < i}

(* A set of natural numbers has a least one. *)
LEMMA LeastElement ==
  ASSUME NEW T \in SUBSET Nat, T # {}
  PROVE  \E t \in T : \A u \in T : t <= u
<1>1. PICK t \in T : \A u \in T : <<u, t>> \notin OpToRel(<, Nat)
  BY NatLessThanWellFounded, WFMin
<1>2. \A u \in T : ~(u < t) BY <1>1 DEF OpToRel
<1> QED BY <1>2

(* Positions are finitely many. *)
LEMMA PositionsFinite ==
  ASSUME NEW N \in Nat, NEW I, \A i \in I : i \in Nat /\ i <= N
  PROVE  IsFiniteSet(I) /\ Cardinality(I) \in Nat
<1>1. IsFiniteSet(0 .. N) BY FS_Interval
<1>2. I \in SUBSET (0 .. N) OBVIOUS
<1>3. IsFiniteSet(I) BY <1>1, <1>2, FS_Subset
<1> QED BY <1>3, FS_CardinalityType

(* Fewer lie below a smaller position. *)
LEMMA BelowGrows ==
  ASSUME NEW N \in Nat, NEW I, \A i \in I : i \in Nat /\ i <= N,
         NEW i \in I, NEW k \in I
  PROVE  /\ Cardinality(Below(I, i)) \in Nat
         /\ Cardinality(Below(I, i)) < Cardinality(I)
         /\ i < k => Cardinality(Below(I, i)) < Cardinality(Below(I, k))
<1>1. IsFiniteSet(I) BY PositionsFinite
<1>2. ASSUME NEW S \in SUBSET I, Below(I, i) \subseteq S, i \in S
      PROVE  Cardinality(Below(I, i)) < Cardinality(S)
             /\ Cardinality(Below(I, i)) \in Nat
  <2>1. /\ \A j \in Below(I, i) : j \in Nat /\ j <= N
        /\ \A j \in S : j \in Nat /\ j <= N
    BY DEF Below
  <2>2. IsFiniteSet(Below(I, i)) /\ Cardinality(Below(I, i)) \in Nat
        /\ IsFiniteSet(S) /\ Cardinality(S) \in Nat
    BY <2>1, PositionsFinite
  <2>3. i \notin Below(I, i) BY DEF Below
  <2>4. Cardinality(Below(I, i) \cup {i}) = Cardinality(Below(I, i)) + 1
    BY <2>2, <2>3, FS_AddElement
  <2>5. Below(I, i) \cup {i} \subseteq S BY <1>2
  <2>6. Cardinality(Below(I, i) \cup {i}) <= Cardinality(S)
    BY <2>2, <2>5, FS_Subset
  <2> QED BY <2>2, <2>4, <2>6
<1>3. Below(I, i) \subseteq I BY DEF Below
<1>4. ASSUME i < k
      PROVE  Below(I, i) \subseteq Below(I, k) /\ i \in Below(I, k)
             /\ Below(I, k) \in SUBSET I
  BY <1>4 DEF Below
<1>5. i < k => Cardinality(Below(I, i)) < Cardinality(Below(I, k))
  BY <1>2, <1>4
<1> QED BY <1>2, <1>3, <1>5

(* The n-th position exists, and n - 1 others lie below it. *)
LEMMA NthIs ==
  ASSUME NEW N \in Nat, NEW I, \A i \in I : i \in Nat /\ i <= N,
         NEW n \in 1 .. Cardinality(I)
  PROVE  Nth(I, n) \in I /\ Cardinality(Below(I, Nth(I, n))) = n - 1
<1> DEFINE T == {t \in Nat : Cardinality(Below(I, t)) >= n}
<1>1. ASSUME NEW t
      PROVE  IsFiniteSet(Below(I, t)) /\ Cardinality(Below(I, t)) \in Nat
  <2>1. \A i \in Below(I, t) : i \in Nat /\ i <= N
    BY DEF Below
  <2> QED BY <2>1, PositionsFinite
<1>2. Cardinality(I) \in Nat BY PositionsFinite
<1>3. Below(I, N + 1) = I BY DEF Below
<1>4. N + 1 \in T BY <1>2, <1>3
<1>5. PICK t \in T : \A u \in T : t <= u BY <1>4, LeastElement
<1>6. t # 0
  <2> SUFFICES ASSUME t = 0 PROVE FALSE OBVIOUS
  <2>1. Below(I, t) = {} BY DEF Below
  <2>2. Cardinality(Below(I, t)) = 0 BY <2>1, FS_EmptySet
  <2> QED BY <1>2, <1>5, <2>2
<1>7. PICK p \in Nat : t = p + 1
  <2>1. t \in Nat BY <1>5
  <2> QED BY <1>6, <2>1
<1>8. p \notin T BY <1>5, <1>7
<1>9. Cardinality(Below(I, t)) >= n BY <1>5
<1>10. Cardinality(Below(I, p)) < n BY <1>1, <1>2, <1>8
<1> HIDE DEF T
<1>11. p \in I
  <2> SUFFICES ASSUME p \notin I PROVE FALSE OBVIOUS
  <2>1. Below(I, t) = Below(I, p) BY <1>7 DEF Below
  <2> QED BY <1>1, <1>2, <1>9, <1>10, <2>1
<1>12. Below(I, t) = Below(I, p) \cup {p} /\ p \notin Below(I, p)
  <2>1. \A j \in I : j < p + 1 <=> (j < p \/ j = p) OBVIOUS
  <2>2. p \notin Below(I, p) BY DEF Below
  <2> QED BY <1>7, <1>11, <2>1, <2>2 DEF Below
<1>13. Cardinality(Below(I, t)) = Cardinality(Below(I, p)) + 1
  BY <1>1, <1>12, FS_AddElement
<1>14. Cardinality(Below(I, p)) = n - 1
  BY <1>1, <1>2, <1>9, <1>10, <1>13
<1> QED BY <1>11, <1>14 DEF Nth, Below

(* No other position is the n-th. *)
LEMMA NthOnly ==
  ASSUME NEW N \in Nat, NEW I, \A i \in I : i \in Nat /\ i <= N, NEW i \in I,
         NEW n, Cardinality(Below(I, i)) = n - 1
  PROVE  Nth(I, n) = i
<1> DEFINE k == Nth(I, n)
<1>1. k \in I /\ Cardinality(Below(I, k)) = n - 1 BY DEF Nth, Below
<1> HIDE DEF k
<1>2. ~(i < k) BY <1>1, BelowGrows
<1>3. Cardinality(Below(I, k)) \in Nat
      /\ (k < i => Cardinality(Below(I, k)) < Cardinality(Below(I, i)))
  BY <1>1, BelowGrows
<1>4. k = i BY <1>1, <1>2, <1>3
<1> QED BY <1>4 DEF k

(* The positions are enumerated in increasing order, and all of them.      *)
LEMMA NthGrows ==
  ASSUME NEW N \in Nat, NEW I, \A i \in I : i \in Nat /\ i <= N,
         NEW n \in 1 .. Cardinality(I), NEW m \in 1 .. Cardinality(I), n < m
  PROVE  Nth(I, n) < Nth(I, m)
<1>1. /\ Nth(I, n) \in I /\ Cardinality(Below(I, Nth(I, n))) = n - 1
      /\ Nth(I, m) \in I /\ Cardinality(Below(I, Nth(I, m))) = m - 1
      /\ Cardinality(I) \in Nat
  BY NthIs, PositionsFinite
<1>2. ~(Nth(I, m) < Nth(I, n))
  BY <1>1, BelowGrows
<1>3. Nth(I, m) # Nth(I, n) BY <1>1
<1>4. Nth(I, m) \in Nat /\ Nth(I, n) \in Nat BY <1>1
<1> QED BY <1>2, <1>3, <1>4

LEMMA NthReaches ==
  ASSUME NEW N \in Nat, NEW I, \A i \in I : i \in Nat /\ i <= N, NEW i \in I
  PROVE  \E n \in 1 .. Cardinality(I) : Nth(I, n) = i
<1> DEFINE n == Cardinality(Below(I, i)) + 1
<1>1. Cardinality(Below(I, i)) \in Nat
      /\ Cardinality(Below(I, i)) < Cardinality(I)
      /\ Cardinality(I) \in Nat
  BY BelowGrows, PositionsFinite
<1>2. n \in 1 .. Cardinality(I) /\ Cardinality(Below(I, i)) = n - 1 BY <1>1
<1>3. Nth(I, n) = i BY <1>2, NthOnly
<1> QED BY <1>2, <1>3

(* Positions behind others are enumerated behind them. *)
Apart(A, B, N) ==
  /\ \A a \in A : a \in Nat /\ a <= N
  /\ \A b \in B : b \in Nat /\ b <= N
  /\ \A a \in A, b \in B : a < b

Enumerated(A, B, C) ==
  /\ Cardinality(A) \in Nat /\ Cardinality(B) \in Nat
  /\ Cardinality(C) = Cardinality(A) + Cardinality(B)
  /\ \A n \in 1 .. Cardinality(A) : Nth(C, n) = Nth(A, n)
  /\ \A n \in 1 .. Cardinality(B) : Nth(C, Cardinality(A) + n) = Nth(B, n)

LEMMA NthOfUnion ==
  ASSUME NEW N \in Nat, NEW A, NEW B, Apart(A, B, N)
  PROVE  Enumerated(A, B, A \cup B)
<1>a. /\ \A a \in A : a \in Nat /\ a <= N
      /\ \A b \in B : b \in Nat /\ b <= N
      /\ \A a \in A, b \in B : a < b
  BY DEF Apart
<1>0. \A i \in A \cup B : i \in Nat /\ i <= N
  BY <1>a
<1>1. /\ IsFiniteSet(A) /\ Cardinality(A) \in Nat
      /\ IsFiniteSet(B) /\ Cardinality(B) \in Nat
  BY <1>a, PositionsFinite
<1>2. ASSUME NEW C \in SUBSET B
      PROVE  Cardinality(A \cup C) = Cardinality(A) + Cardinality(C)
  <2>1. IsFiniteSet(C) /\ Cardinality(C) \in Nat
    BY <1>1, FS_Subset, FS_CardinalityType
  <2>2. A \cap C = {} BY <1>a
  <2>3. Cardinality(A \cup C)
          = Cardinality(A) + Cardinality(C) - Cardinality(A \cap C)
    BY <1>1, <2>1, FS_Union
  <2>4. Cardinality(A \cap C) = 0 BY <2>2, FS_EmptySet
  <2> QED BY <1>1, <2>1, <2>3, <2>4
<1>3. ASSUME NEW n \in 1 .. Cardinality(A)
      PROVE  Nth(A \cup B, n) = Nth(A, n)
  <2>1. Nth(A, n) \in A /\ Cardinality(Below(A, Nth(A, n))) = n - 1
    BY <1>a, NthIs
  <2>2. Below(A \cup B, Nth(A, n)) = Below(A, Nth(A, n))
    BY <1>a, <2>1 DEF Below
  <2>3. Nth(A, n) \in A \cup B
        /\ Cardinality(Below(A \cup B, Nth(A, n))) = n - 1
    BY <2>1, <2>2
  <2> HIDE DEF Below
  <2> QED BY <1>0, <2>3, NthOnly
<1>4. ASSUME NEW n \in 1 .. Cardinality(B)
      PROVE  Nth(A \cup B, Cardinality(A) + n) = Nth(B, n)
  <2>1. Nth(B, n) \in B /\ Cardinality(Below(B, Nth(B, n))) = n - 1
    BY <1>a, NthIs
  <2>2. Below(A \cup B, Nth(B, n)) = A \cup Below(B, Nth(B, n))
    BY <1>a, <2>1 DEF Below
  <2>3. Below(B, Nth(B, n)) \in SUBSET B BY DEF Below
  <2>4. Cardinality(Below(A \cup B, Nth(B, n))) = Cardinality(A) + (n - 1)
    BY <1>1, <1>2, <2>1, <2>2, <2>3
  <2>5. Cardinality(A) + (n - 1) = (Cardinality(A) + n) - 1 BY <1>1
  <2>6. Nth(B, n) \in A \cup B BY <2>1
  <2> DEFINE m == Cardinality(A) + n
  <2>7. Cardinality(Below(A \cup B, Nth(B, n))) = m - 1 BY <2>4, <2>5
  <2> HIDE DEF m
  <2>8. Nth(A \cup B, m) = Nth(B, n) BY <1>0, <2>6, <2>7, NthOnly
  <2> QED BY <2>8 DEF m
<1>5. Cardinality(A \cup B) = Cardinality(A) + Cardinality(B)
  BY <1>2
<1> QED BY <1>1, <1>3, <1>4, <1>5 DEF Enumerated

(* Positions moved by the same distance keep their order. *)
Shifted(I, d) == {d + i : i \in I}

LEMMA ShiftedCount ==
  ASSUME NEW N \in Nat, NEW d \in Nat, NEW I, \A i \in I : i \in Nat /\ i <= N
  PROVE  Cardinality(Shifted(I, d)) = Cardinality(I)
<1> DEFINE F == [i \in I |-> d + i]
<1>1. F \in Bijection(I, Shifted(I, d))
  <2>1. F \in [I -> Shifted(I, d)] BY DEF Shifted
  <2>2. \A a, b \in I : F[a] = F[b] => a = b OBVIOUS
  <2>3. \A t \in Shifted(I, d) : \E s \in I : F[s] = t BY DEF Shifted
  <2> HIDE DEF F
  <2> QED BY <2>1, <2>2, <2>3, Fun_IsBij
<1> HIDE DEF F
<1>2. ExistsBijection(I, Shifted(I, d)) BY <1>1 DEF ExistsBijection
<1>3. IsFiniteSet(I) BY PositionsFinite
<1> QED BY <1>2, <1>3, FS_Bijection

LEMMA NthShifted ==
  ASSUME NEW N \in Nat, NEW d \in Nat, NEW I, \A i \in I : i \in Nat /\ i <= N,
         NEW n \in 1 .. Cardinality(I)
  PROVE  Nth(Shifted(I, d), n) = d + Nth(I, n)
<1> DEFINE k == Nth(I, n)
           J == Shifted(I, d)
<1>1. k \in I /\ Cardinality(Below(I, k)) = n - 1 BY NthIs
<1>2. Below(J, d + k) = Shifted(Below(I, k), d)
  <2> HIDE DEF k
  <2>1. k \in Nat BY <1>1
  <2>2. \A i \in I : d + i < d + k <=> i < k BY <2>1
  <2> QED BY <2>2 DEF Below, Shifted
<1>3. Cardinality(Shifted(Below(I, k), d)) = Cardinality(Below(I, k))
  <2> HIDE DEF k
  <2>1. \A i \in Below(I, k) : i \in Nat /\ i <= N BY DEF Below
  <2> QED BY <2>1, ShiftedCount
<1>4. d + k \in J BY <1>1 DEF Shifted
<1>5. \A i \in J : i \in Nat /\ i <= d + N BY DEF Shifted
<1> DEFINE M == d + N
           x == d + k
<1>6. M \in Nat OBVIOUS
<1>7. Cardinality(Below(J, x)) = n - 1 BY <1>1, <1>2, <1>3
<1> HIDE DEF M, J, x, k
<1>8. Nth(J, n) = x
  <2>1. x \in J BY <1>4 DEF x
  <2>2. \A i \in J : i \in Nat /\ i <= M BY <1>5 DEF M
  <2> QED BY <1>6, <1>7, <2>1, <2>2, NthOnly
<1> QED BY <1>8 DEF J, x, k

(* All positions are enumerated as they are. *)
LEMMA NthOfAll ==
  ASSUME NEW N \in Nat, NEW n \in 1 .. N
  PROVE  Nth(1 .. N, n) = n
<1>1. Below(1 .. N, n) = 1 .. n - 1 BY DEF Below
<1>2. Cardinality(1 .. n - 1) = n - 1
  <2>1. n - 1 \in Nat OBVIOUS
  <2> DEFINE m == n - 1
  <2> HIDE DEF m
  <2>2. Cardinality(1 .. m) = m BY <2>1, FS_Interval DEF m
  <2> QED BY <2>2 DEF m
<1> DEFINE I == 1 .. N
<1>3. \A i \in I : i \in Nat /\ i <= N OBVIOUS
<1>4. n \in I /\ Cardinality(Below(I, n)) = n - 1 BY <1>1, <1>2
<1> HIDE DEF I
<1>5. Nth(I, n) = n BY <1>3, <1>4, NthOnly
<1> QED BY <1>5 DEF I

-----------------------------------------------------------------------------
(* Two sequences one behind the other, told by their elements.             *)
Joined(X, Y, Z, a, b) ==
  /\ X = [p \in 1 .. a |-> X[p]] /\ Y = [p \in 1 .. b |-> Y[p]]
  /\ Z = [p \in 1 .. a + b |-> Z[p]]
  /\ \A p \in 1 .. a : Z[p] = X[p]
  /\ \A p \in 1 .. b : Z[a + p] = Y[p]

LEMMA Concatenated ==
  ASSUME NEW X, NEW Y, NEW Z, NEW a \in Nat, NEW b \in Nat,
         Joined(X, Y, Z, a, b)
  PROVE  Z = X \o Y
<1>a. /\ X = [p \in 1 .. a |-> X[p]] /\ Y = [p \in 1 .. b |-> Y[p]]
      /\ Z = [p \in 1 .. a + b |-> Z[p]]
      /\ \A p \in 1 .. a : Z[p] = X[p]
      /\ \A p \in 1 .. b : Z[a + p] = Y[p]
  BY DEF Joined
<1> DEFINE V == {X[p] : p \in 1 .. a} \cup {Y[p] : p \in 1 .. b}
           s == a + b
<1>b. X = [p \in 1 .. a |-> X[p]] BY <1>a
<1>c. Y = [p \in 1 .. b |-> Y[p]] BY <1>a
<1>1. X \in Seq(V) /\ Len(X) = a BY <1>b
<1>2. Y \in Seq(V) /\ Len(Y) = b BY <1>c
<1>3. s \in Nat OBVIOUS
<1>4. \A p \in 1 .. s : p \in Nat /\ (p \in 1 .. a \/ p - a \in 1 .. b)
  OBVIOUS
<1>5. \A p \in 1 .. s : p - a \in 1 .. b => Z[p] = Y[p - a]
  <2> SUFFICES ASSUME NEW p \in 1 .. s, p - a \in 1 .. b
      PROVE  Z[p] = Y[p - a]
    OBVIOUS
  <2>1. a + (p - a) = p BY <1>4
  <2>2. Z[a + (p - a)] = Y[p - a] BY <1>a
  <2> QED BY <2>1, <2>2
<1>6. Z = [p \in 1 .. s |-> Z[p]] BY <1>a
<1>7. Len(X \o Y) = s /\ X \o Y \in Seq(V) BY <1>1, <1>2
<1> HIDE DEF V, s
<1>8. X \o Y = [p \in 1 .. s |-> (X \o Y)[p]]
  <2>1. \A q \in Seq(V) : q = [p \in 1 .. Len(q) |-> q[p]] OBVIOUS
  <2>2. X \o Y = [p \in 1 .. Len(X \o Y) |-> (X \o Y)[p]] BY <1>7, <2>1
  <2> QED BY <1>7, <2>2
<1>9. \A p \in 1 .. s : Z[p] = (X \o Y)[p]
  <2> SUFFICES ASSUME NEW p \in 1 .. s PROVE Z[p] = (X \o Y)[p]
    OBVIOUS
  <2>1. CASE p \in 1 .. a
    <3>1. (X \o Y)[p] = X[p] BY <1>1, <1>2, <2>1
    <3> QED BY <1>a, <2>1, <3>1
  <2>2. CASE p - a \in 1 .. b
    <3>1. (X \o Y)[p] = Y[p - a]
      <4>1. p \in Nat /\ a < p /\ p <= a + b BY <1>4, <2>2
      <4> QED BY <1>1, <1>2, <4>1
    <3> QED BY <1>5, <2>2, <3>1
  <2> QED BY <1>4, <2>1, <2>2
<1> QED BY <1>6, <1>8, <1>9


(* What is picked of two sequences one behind the other.                   *)
PickedTwo(S, Y, I, J) ==
  Picked(S \o Y, I \cup Shifted(J, Len(S))) = Picked(S, I) \o Picked(Y, J)

LEMMA PickedJoined ==
  ASSUME NEW V, NEW S \in Seq(V), NEW Y \in Seq(V),
         NEW I, NEW J, I \subseteq 1 .. Len(S), J \subseteq 1 .. Len(Y)
  PROVE  PickedTwo(S, Y, I, J)
<1> DEFINE L == Len(S)
           M == Len(Y)
           N == Len(S) + Len(Y)
           T == S \o Y
<1>1. L \in Nat /\ M \in Nat /\ N \in Nat /\ N = L + M OBVIOUS
<1>2. /\ \A p \in 1 .. L : T[p] = S[p]
      /\ \A p \in 1 .. M : T[L + p] = Y[p]
  OBVIOUS
<1>3. /\ \A i \in I : i \in Nat /\ 1 <= i /\ i <= L /\ i \in 1 .. L
      /\ \A i \in J : i \in Nat /\ 1 <= i /\ i <= M /\ i \in 1 .. M
  BY <1>1
<1> HIDE DEF L, M, N, T
<1> DEFINE B == Shifted(J, L)
           K == I \cup B
<1>a. \A i \in J : i \in Nat /\ i <= M BY <1>3
<1>b. \A i \in I : i \in Nat /\ i <= L BY <1>3
<1>c. L \in Nat /\ M \in Nat BY <1>1
<1>4. Cardinality(Shifted(J, L)) = Cardinality(J) BY <1>c, <1>a, ShiftedCount, Zenon
<1>5. Apart(I, B, N)
  <2>1. \A b \in B : b \in Nat /\ L < b /\ b <= N
    BY <1>1, <1>3 DEF Shifted
  <2>2. \A a \in I : a \in Nat /\ a <= N BY <1>1, <1>3
  <2>3. \A a \in I, b \in B : a < b
    <3> HIDE DEF B
    <3> QED BY <1>1, <1>3, <2>1
  <2> QED BY <2>1, <2>2, <2>3 DEF Apart
<1>6. Enumerated(I, B, K) BY <1>1, <1>5, NthOfUnion
<1> HIDE DEF B, K
<1>7. /\ Cardinality(I) \in Nat /\ Cardinality(J) \in Nat
      /\ Cardinality(K) = Cardinality(I) + Cardinality(J)
      /\ \A n \in 1 .. Cardinality(I) : Nth(K, n) = Nth(I, n)
      /\ \A n \in 1 .. Cardinality(J) : Nth(K, Cardinality(I) + n) = Nth(B, n)
  BY <1>4, <1>6 DEF Enumerated, B
<1>8. \A n \in 1 .. Cardinality(I) : Nth(I, n) \in I BY <1>1, <1>b, NthIs
<1>9. \A n \in 1 .. Cardinality(J) : Nth(J, n) \in J /\ Nth(B, n) = L + Nth(J, n)
  <2> SUFFICES ASSUME NEW n \in 1 .. Cardinality(J)
      PROVE  Nth(J, n) \in J /\ Nth(B, n) = L + Nth(J, n)
    OBVIOUS
  <2>1. Nth(J, n) \in J BY <1>a, <1>c, NthIs, Zenon
  <2>2. Nth(Shifted(J, L), n) = L + Nth(J, n)
    BY <1>a, <1>c, NthShifted, Zenon
  <2> QED BY <2>1, <2>2 DEF B
<1> DEFINE X == Picked(S, I)
           W == Picked(Y, J)
           Z == Picked(T, K)
           a == Cardinality(I)
           b == Cardinality(J)
<1>10. \A n \in 1 .. a : Z[n] = X[n]
  <2> SUFFICES ASSUME NEW n \in 1 .. a PROVE Z[n] = X[n] OBVIOUS
  <2>1. n \in 1 .. Cardinality(K) BY <1>7
  <2>2. Z[n] = T[Nth(K, n)] BY <2>1 DEF Picked
  <2>3. X[n] = S[Nth(I, n)] BY DEF Picked
  <2> HIDE DEF X, Z
  <2> QED BY <1>2, <1>3, <1>7, <1>8, <2>2, <2>3
<1>11. \A n \in 1 .. b : Z[a + n] = W[n]
  <2> SUFFICES ASSUME NEW n \in 1 .. b PROVE Z[a + n] = W[n] OBVIOUS
  <2>1. a + n \in 1 .. Cardinality(K) BY <1>7
  <2>2. Z[a + n] = T[Nth(K, a + n)] BY <2>1 DEF Picked
  <2>3. W[n] = Y[Nth(J, n)] BY DEF Picked
  <2>4. Nth(K, a + n) = L + Nth(J, n) /\ Nth(J, n) \in 1 .. M
    BY <1>3, <1>7, <1>9
  <2>5. T[L + Nth(J, n)] = Y[Nth(J, n)] BY <1>2, <2>4
  <2> HIDE DEF W, Z
  <2> QED BY <2>2, <2>3, <2>4, <2>5
<1>12. X = [n \in 1 .. a |-> X[n]] /\ W = [n \in 1 .. b |-> W[n]]
  BY DEF Picked
<1>13. Z = [n \in 1 .. a + b |-> Z[n]] BY <1>7 DEF Picked
<1> HIDE DEF X, W, Z, a, b
<1>14. Joined(X, W, Z, a, b) BY <1>10, <1>11, <1>12, <1>13 DEF Joined
<1>15. Z = X \o W BY <1>7, <1>14, Concatenated DEF a, b
<1> QED BY <1>15 DEF X, W, Z, T, K, B, L, PickedTwo

LEMMA PickedAll ==
  ASSUME NEW V, NEW S \in Seq(V)
  PROVE  Picked(S, 1 .. Len(S)) = S
<1> DEFINE N == Len(S)
<1>1. N \in Nat /\ S = [n \in 1 .. N |-> S[n]] OBVIOUS
<1> HIDE DEF N
<1>a. N \in Nat BY <1>1
<1>2. Cardinality(1 .. N) = N BY <1>a, FS_Interval
<1>3. \A n \in 1 .. N : Nth(1 .. N, n) = n BY <1>1, NthOfAll
<1>4. Picked(S, 1 .. N) = [n \in 1 .. N |-> S[n]] BY <1>2, <1>3 DEF Picked
<1> QED BY <1>1, <1>4 DEF N

LEMMA PickedNone == ASSUME NEW S PROVE Picked(S, {}) = <<>>
<1>1. Cardinality({}) = 0 BY FS_EmptySet
<1>2. Picked(S, {}) = [n \in 1 .. 0 |-> S[Nth({}, n)]] BY <1>1 DEF Picked
<1>3. 1 .. 0 = {} OBVIOUS
<1> QED BY <1>2, <1>3
-----------------------------------------------------------------------------
(* Sequences without a repetition, and what is in them.                    *)
Elements(s) == {s[i] : i \in 1 .. Len(s)}
Distinct(s) == \A i \in 1 .. Len(s), j \in 1 .. Len(s) : s[i] = s[j] => i = j

LEMMA SeqWidened ==
  ASSUME NEW I, NEW V, I \subseteq V, NEW s \in Seq(I)
  PROVE  s \in Seq(V)
<1>1. Len(s) \in Nat /\ \A i \in 1 .. Len(s) : s[i] \in V OBVIOUS
<1>2. s = [i \in 1 .. Len(s) |-> s[i]] OBVIOUS
<1> QED BY <1>1, <1>2

LEMMA ElementsCount ==
  ASSUME NEW V, NEW s \in Seq(V), Distinct(s)
  PROVE  IsFiniteSet(Elements(s)) /\ Cardinality(Elements(s)) = Len(s)
<1> DEFINE N == Len(s)
           F == [i \in 1 .. N |-> s[i]]
<1>1. N \in Nat OBVIOUS
<1>2. F \in Bijection(1 .. N, Elements(s))
  <2>1. F \in [1 .. N -> Elements(s)] BY DEF Elements
  <2>2. \A i, j \in 1 .. N : F[i] = F[j] => i = j BY DEF Distinct
  <2>3. \A e \in Elements(s) : \E i \in 1 .. N : F[i] = e BY DEF Elements
  <2> HIDE DEF F, N
  <2> QED BY <2>1, <2>2, <2>3 DEF Bijection, Injection, Surjection, IsInjective
<1> HIDE DEF F, N
<1>3. ExistsBijection(1 .. N, Elements(s)) BY <1>2 DEF ExistsBijection
<1>4. Cardinality(Elements(s)) = N BY <1>1, <1>3, FS_CountingElements
<1>5. IsFiniteSet(1 .. N) BY <1>1, FS_Interval
<1>6. IsFiniteSet(Elements(s)) BY <1>3, <1>5, FS_Bijection
<1> QED BY <1>4, <1>6 DEF N

(* Two sequences that have nothing in common, one behind the other.        *)
Appendable(S, Y) ==
  /\ Len(S \o Y) = Len(S) + Len(Y)
  /\ Elements(S \o Y) = Elements(S) \cup Elements(Y)
  /\ Distinct(S) /\ Distinct(Y) /\ Elements(S) \cap Elements(Y) = {} =>
       Distinct(S \o Y)

LEMMA DistinctJoined ==
  ASSUME NEW V, NEW S \in Seq(V), NEW Y \in Seq(V)
  PROVE  Appendable(S, Y)
<1> DEFINE L == Len(S)
           M == Len(Y)
           T == S \o Y
<1>1. /\ Len(T) = L + M /\ L \in Nat /\ M \in Nat
      /\ \A n \in 1 .. L : T[n] = S[n]
      /\ \A n \in 1 .. M : T[L + n] = Y[n]
      /\ \A n \in 1 .. Len(T) :
           \/ n \in 1 .. L
           \/ n - L \in 1 .. M /\ T[n] = Y[n - L]
  OBVIOUS
<1> HIDE DEF L, M, T
<1>2. Elements(T) = Elements(S) \cup Elements(Y)
  <2>1. ASSUME NEW n \in 1 .. Len(T) PROVE T[n] \in Elements(S) \cup Elements(Y)
    BY <1>1, <2>1 DEF Elements, L, M
  <2>2. ASSUME NEW n \in 1 .. L PROVE S[n] \in Elements(T)
    <3>1. n \in 1 .. Len(T) BY <1>1
    <3> QED BY <1>1, <3>1 DEF Elements
  <2>3. ASSUME NEW n \in 1 .. M PROVE Y[n] \in Elements(T)
    <3>1. L + n \in 1 .. Len(T) BY <1>1
    <3>2. T[L + n] = Y[n] BY <1>1
    <3> QED BY <3>1, <3>2 DEF Elements
  <2> QED BY <2>1, <2>2, <2>3 DEF Elements, L, M
<1>3. ASSUME Distinct(S), Distinct(Y), Elements(S) \cap Elements(Y) = {}
      PROVE  Distinct(T)
  <2>1. SUFFICES ASSUME NEW i \in 1 .. Len(T), NEW j \in 1 .. Len(T), T[i] = T[j]
        PROVE  i = j
    BY DEF Distinct
  <2>2. i \in Int /\ j \in Int BY <1>1
  <2>3. \A n \in 1 .. L, m \in 1 .. M : S[n] # Y[m]
    BY <1>3 DEF Elements, L, M
  <2>4. CASE i \in 1 .. L /\ j \in 1 .. L
    <3>1. S[i] = S[j] BY <1>1, <2>1, <2>4
    <3> QED BY <1>3, <2>4, <3>1 DEF Distinct, L
  <2>5. CASE i \in 1 .. L /\ j \notin 1 .. L BY <1>1, <2>1, <2>3, <2>5
  <2>6. CASE i \notin 1 .. L /\ j \in 1 .. L BY <1>1, <2>1, <2>3, <2>6
  <2>7. CASE i \notin 1 .. L /\ j \notin 1 .. L
    <3>1. /\ i - L \in 1 .. M /\ j - L \in 1 .. M /\ Y[i - L] = Y[j - L]
      BY <1>1, <2>1, <2>7
    <3>2. i - L = j - L BY <1>3, <3>1 DEF Distinct, M
    <3> QED BY <1>1, <2>2, <3>2
  <2> QED BY <2>4, <2>5, <2>6, <2>7
<1> QED BY <1>1, <1>2, <1>3 DEF Appendable, T, L, M

(* A set of positions as a sequence.                                       *)
Upwards(I, s) ==
  /\ s \in Seq(I) /\ Len(s) = Cardinality(I)
  /\ Elements(s) = I /\ Distinct(s)
  /\ \A n \in 1 .. Len(s), m \in 1 .. Len(s) : n < m => s[n] < s[m]

LEMMA InOrderIs ==
  ASSUME NEW N \in Nat, NEW I, \A i \in I : i \in Nat /\ i <= N
  PROVE  Upwards(I, InOrder(I))
<1> DEFINE s == InOrder(I)
           c == Cardinality(I)
<1>1. c \in Nat BY PositionsFinite
<1>2. \A n \in 1 .. c : Nth(I, n) \in I BY NthIs
<1>3. s = [n \in 1 .. c |-> Nth(I, n)] BY DEF InOrder
<1>4. \A n \in 1 .. c, m \in 1 .. c : n < m => Nth(I, n) < Nth(I, m) BY NthGrows
<1>5. \A i \in I : \E n \in 1 .. c : Nth(I, n) = i BY NthReaches
<1> HIDE DEF c, s
<1>6. s \in Seq(I) /\ Len(s) = c /\ \A n \in 1 .. c : s[n] = Nth(I, n)
  BY <1>1, <1>2, <1>3
<1>7. Elements(s) = I BY <1>2, <1>5, <1>6 DEF Elements
<1>8. \A n \in 1 .. c, m \in 1 .. c : n < m => s[n] < s[m] BY <1>4, <1>6
<1>9. Distinct(s)
  <2> SUFFICES ASSUME NEW n \in 1 .. c, NEW m \in 1 .. c, s[n] = s[m] PROVE n = m
    BY <1>6 DEF Distinct
  <2>1. s[n] \in Nat /\ s[m] \in Nat BY <1>2, <1>6
  <2> QED BY <1>1, <1>8, <2>1
<1> QED BY <1>6, <1>7, <1>8, <1>9 DEF Upwards, c, s

-----------------------------------------------------------------------------
(* A finite set in an order.                                               *)
Orders(before, S) ==
  /\ \A x \in S : <<x, x>> \notin before
  /\ \A x \in S, y \in S : x # y => <<x, y>> \in before \/ <<y, x>> \in before
  /\ \A x \in S, y \in S, z \in S :
       <<x, y>> \in before /\ <<y, z>> \in before => <<x, z>> \in before

Sequenced(S, before, o) ==
  /\ o \in [1 .. Cardinality(S) -> S] /\ Cardinality(S) \in Nat
  /\ \A n \in 1 .. Cardinality(S), m \in 1 .. Cardinality(S) :
       o[n] = o[m] => n = m
  /\ \A x \in S : \E n \in 1 .. Cardinality(S) : o[n] = x
  /\ \A n \in 1 .. Cardinality(S), m \in 1 .. Cardinality(S) :
       n < m => <<o[n], o[m]>> \in before

LEMMA OrderedIs ==
  ASSUME NEW S, IsFiniteSet(S), NEW before, Orders(before, S)
  PROVE  Sequenced(S, before, Ordered(S, before))
<1> DEFINE C == Cardinality(S)
           Less(x) == {y \in S : <<y, x>> \in before}
           rank == [x \in S |-> Cardinality(Less(x))]
           o == Ordered(S, before)
<1>1. C \in Nat BY FS_CardinalityType
<1>2. \A x \in S : IsFiniteSet(Less(x)) BY FS_Subset
<1>3. \A x \in S : Cardinality(Less(x)) \in Nat BY <1>2, FS_CardinalityType
<1>4. ASSUME NEW x \in S, NEW y \in S, <<x, y>> \in before
      PROVE  Cardinality(Less(x)) < Cardinality(Less(y))
  <2>1. Less(x) \subseteq Less(y) BY <1>4 DEF Orders
  <2>2. x \in Less(y) /\ x \notin Less(x) BY <1>4 DEF Orders
  <2>3. IsFiniteSet(Less(y)) /\ Less(x) # Less(y) BY <1>2, <2>2
  <2> HIDE DEF Less
  <2>4. Cardinality(Less(x)) <= Cardinality(Less(y))
        /\ Cardinality(Less(x)) # Cardinality(Less(y))
    BY <2>1, <2>3, FS_Subset
  <2> QED BY <1>3, <2>4
<1>5. ASSUME NEW x \in S PROVE Cardinality(Less(x)) < C
  <2>1. Less(x) \subseteq S /\ x \notin Less(x) BY DEF Orders
  <2> HIDE DEF Less
  <2>2. Cardinality(Less(x)) <= C /\ Cardinality(Less(x)) # C
    BY <2>1, FS_Subset
  <2> QED BY <1>1, <1>3, <2>2
<1>6. \A x \in S, y \in S : Cardinality(Less(x)) = Cardinality(Less(y)) => x = y
  <2> SUFFICES ASSUME NEW x \in S, NEW y \in S, x # y
      PROVE  Cardinality(Less(x)) # Cardinality(Less(y))
    OBVIOUS
  <2>1. <<x, y>> \in before \/ <<y, x>> \in before BY DEF Orders
  <2> QED BY <1>3, <1>4, <2>1
<1> HIDE DEF Less
<1>7. rank \in Injection(S, 0 .. C - 1)
  <2>1. \A x \in S : Cardinality(Less(x)) \in 0 .. C - 1 BY <1>1, <1>3, <1>5
  <2>2. rank \in [S -> 0 .. C - 1] BY <2>1
  <2>3. \A x, y \in S : rank[x] = rank[y] => x = y BY <1>6
  <2> HIDE DEF rank
  <2> QED BY <2>2, <2>3 DEF Injection, IsInjective
<1>8. \A n \in 1 .. C : \E x \in S : Cardinality(Less(x)) = n - 1
  <2>1. IsFiniteSet(0 .. C - 1) /\ Cardinality(0 .. C - 1) = C
    <3>1. 0 \in Int /\ C - 1 \in Int BY <1>1
    <3>2. /\ IsFiniteSet(0 .. C - 1)
          /\ Cardinality(0 .. C - 1) = IF 0 > C - 1 THEN 0 ELSE C - 1 - 0 + 1
      BY <3>1, FS_Interval
    <3> QED BY <1>1, <3>2
  <2>2. rank \in Surjection(S, 0 .. C - 1) BY <1>7, <2>1, FS_Injection
  <2>3. \A k \in 0 .. C - 1 : \E x \in S : rank[x] = k BY <2>2 DEF Surjection
  <2>4. \A n \in 1 .. C : n - 1 \in 0 .. C - 1 BY <1>1
  <2> QED BY <2>3, <2>4
<1>9. o = [n \in 1 .. C |-> CHOOSE x \in S : Cardinality(Less(x)) = n - 1]
  BY DEF Ordered, Less
<1>10. \A n \in 1 .. C : o[n] \in S /\ Cardinality(Less(o[n])) = n - 1
  <2> TAKE n \in 1 .. C
  <2>1. o[n] = CHOOSE x \in S : Cardinality(Less(x)) = n - 1 BY <1>9
  <2> QED BY <1>8, <2>1
<1>11. o \in [1 .. C -> S] BY <1>9, <1>10
<1> HIDE DEF o, rank
<1>12. \A n \in 1 .. C, m \in 1 .. C : o[n] = o[m] => n = m
  <2> SUFFICES ASSUME NEW n \in 1 .. C, NEW m \in 1 .. C, o[n] = o[m] PROVE n = m
    OBVIOUS
  <2>1. n - 1 = m - 1 BY <1>10
  <2> QED BY <1>1, <2>1
<1>13. \A x \in S : \E n \in 1 .. C : o[n] = x
  <2> TAKE x \in S
  <2> DEFINE n == Cardinality(Less(x)) + 1
  <2>1. n \in 1 .. C /\ Cardinality(Less(x)) = n - 1 BY <1>1, <1>3, <1>5
  <2>2. o[n] = x BY <1>6, <1>10, <2>1
  <2> QED BY <2>1, <2>2
<1>14. \A n \in 1 .. C, m \in 1 .. C : n < m => <<o[n], o[m]>> \in before
  <2> SUFFICES ASSUME NEW n \in 1 .. C, NEW m \in 1 .. C, n < m
      PROVE  <<o[n], o[m]>> \in before
    OBVIOUS
  <2>1. /\ o[n] \in S /\ Cardinality(Less(o[n])) = n - 1
        /\ o[m] \in S /\ Cardinality(Less(o[m])) = m - 1
    BY <1>10
  <2>2. o[n] # o[m] BY <1>12
  <2>3. <<o[m], o[n]>> \notin before BY <1>1, <1>4, <2>1
  <2> QED BY <2>1, <2>2, <2>3 DEF Orders
<1> QED BY <1>1, <1>11, <1>12, <1>13, <1>14 DEF Sequenced, C, o
===============================================================================
