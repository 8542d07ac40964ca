--------------------------- MODULE Replayer_proofs ---------------------------
(***************************************************************************)
(* What the runs of the replayer leave, for every recording, every number  *)
(* of files and any sequence of runs, resets, interruptions and kills:     *)
(* headers, lines, their order in time and the run log.                    *)
(*                                                                         *)
(* The properties speak of what is on disk.  They are inductive only       *)
(* together with what the process remembers: that the last recorded run is *)
(* the one going on and the heads of the streams are as far as its lines   *)
(* (Going), that a file it has opened has its header (HeadersKept), that   *)
(* all older lines lie before its anchor (ClockKept), and that the rows    *)
(* about to be written tell what runs.csv has told (LogKept).              *)
(*                                                                         *)
(* The second half is about the lines: that a log is read back on time     *)
(* (ShiftsAreSound) and a CSV line keeps its columns (ColumnsAreSound).    *)
(***************************************************************************)
EXTENDS ReplayedLines, Selection_proofs, TLAPS

Writing == pc \in {"replay", "header"}
Saving  == pc \in {"log reset", "log start", "log finish"}

Positions(f) == IF out[f] = NoFile THEN {} ELSE 1 .. Len(out[f])

(* The bounds of the runs, and where they are needed. *)
Bounded ==
  /\ Len(history) <= MaxRuns
  /\ pc \in {"wipe", "log reset", "begin", "log start"} => Len(history) < MaxRuns
  /\ \A f \in FileSet : wiped[f] <= Len(history)
  /\ \A f \in FileSet : \A n \in Positions(f) : out[f][n].run <= Len(history)

ThisRun == [scenario |-> scenario, anchor |-> anchor,
            deadline |-> deadline, status |-> "running"]

(* A process is in the run that was recorded last, or has not begun one. *)
Going ==
  /\ pc # "off" => scenario \in Scenarios
  /\ pc \in {"wipe", "log reset", "begin"} => deadline \in Durations
  /\ ~Writing => opened = {}
  /\ ~Writing /\ pc # "log finish" => next = [f \in FileSet |-> 1]
  /\ Writing \/ pc = "log finish" =>
       /\ Len(history) > 0
       /\ history[Len(history)] = ThisRun
  /\ Writing =>
       \A f \in FileSet : Len(LinesOf(f, Len(history))) = next[f] - 1
  /\ pc = "log finish" /\ rewrite[row].status = "completed" =>
       \A f \in FileSet :
         1 .. Len(LinesOf(f, Len(history))) = Expected(ThisRun, f)

(* A file that is open exists, and has its header unless it is being written. *)
HeadersKept ==
  /\ \A f \in opened : out[f] # NoFile
  /\ pc = "replay" => \A f \in opened \cap CsvFiles : out[f] # <<>>
  /\ pc = "header" =>
       /\ \A f \in FileSet :
            IsNext(f) => f \in opened \cap CsvFiles /\ out[f] = <<>>
       /\ \A f \in opened \cap CsvFiles : out[f] = <<>> => IsNext(f)

(* Lines are in time, and older runs behind the anchor. *)
ClockKept ==
  /\ anchor <= now
  /\ \A f \in FileSet : \A n \in Positions(f) :
       /\ out[f][n].ts <= now
       /\ pc = "log start" => out[f][n].ts <= anchor
       /\ Writing /\ out[f][n].run < Len(history) => out[f][n].ts <= anchor
  /\ \A f \in FileSet : \A m, n \in Positions(f) :
       m < n /\ (out[f][m].run < out[f][n].run \/ f \in CsvFiles) =>
         out[f][m].ts <= out[f][n].ts

(* The last row is that of the run. *)
LastRow(rows) == Len(rows) > 0 /\ row = Len(rows) /\ rows[row].status = "running"

LogKept ==
  /\ ~Saving => rewrite = <<>> /\ Tells(runsCsv, history, lost)
  /\ Saving  => rewrite # <<>> /\ runsCsv = <<>>
  /\ Writing => LastRow(runsCsv)
  /\ pc = "log reset" => Tells(rewrite, history, lost)
  /\ pc = "log start" =>
       LastRow(rewrite) /\ Tells(rewrite, Append(history, ThisRun), lost)
  /\ pc = "log finish" =>
       /\ row \in 1 .. Len(rewrite)
       /\ rewrite[row].status \in {"completed", "interrupted"}
       /\ Tells(rewrite, [history EXCEPT ![Len(history)].status = rewrite[row].status],
                lost)

Inv ==
  /\ TypeOK /\ Bounded /\ Going /\ HeadersKept /\ ClockKept /\ LogKept
  /\ HeaderComesFirst /\ NothingIsLost /\ OneTimeAxis

-----------------------------------------------------------------------------
(* The operators of the model.                                             *)

(* What is picked of a sequence that has grown by one element. *)
LEMMA PickedGrown ==
  ASSUME NEW V, NEW S \in Seq(V), NEW x \in V, NEW I, I \subseteq 1 .. Len(S)
  PROVE  /\ Picked(Append(S, x), I) = Picked(S, I)
         /\ Picked(Append(S, x), I \cup {Len(S) + 1}) = Append(Picked(S, I), x)
<1> DEFINE Y == <<x>>
<1>1. Y \in Seq(V) /\ Len(Y) = 1 /\ 1 .. Len(Y) = {1} OBVIOUS
<1>2. Picked(S, I) \in Seq(V)
  <2>1. \A i \in I : i \in Nat /\ i <= Len(S) OBVIOUS
  <2>2. Len(S) \in Nat OBVIOUS
  <2>3. Cardinality(I) \in Nat /\ \A n \in 1 .. Cardinality(I) : Nth(I, n) \in I
    BY <2>1, <2>2, PositionsFinite, NthIs
  <2>4. \A i \in I : S[i] \in V OBVIOUS
  <2>5. \A n \in 1 .. Cardinality(I) : S[Nth(I, n)] \in V BY <2>3, <2>4
  <2> QED BY <2>3, <2>5 DEF Picked
<1>3. S \o Y = Append(S, x) OBVIOUS
<1>4. Picked(Y, {1}) = Y BY <1>1, PickedAll
<1>5. Picked(Y, {}) = <<>> BY PickedNone
<1>6. Shifted({1}, Len(S)) = {Len(S) + 1} /\ Shifted({}, Len(S)) = {}
  BY DEF Shifted
<1> HIDE DEF Y
<1>7. PickedTwo(S, Y, I, {}) BY <1>1, PickedJoined
<1>8. PickedTwo(S, Y, I, {1}) BY <1>1, PickedJoined
<1>9. Picked(Append(S, x), I \cup {}) = Picked(S, I) \o <<>>
  BY <1>3, <1>5, <1>6, <1>7 DEF PickedTwo
<1>10. Picked(Append(S, x), I \cup {Len(S) + 1}) = Picked(S, I) \o Y
  BY <1>3, <1>4, <1>6, <1>8 DEF PickedTwo
<1>11. Picked(S, I) \o <<>> = Picked(S, I) BY <1>2
<1>12. Picked(S, I) \o Y = Append(Picked(S, I), x) BY <1>2 DEF Y
<1>13. I \cup {} = I OBVIOUS
<1> QED BY <1>9, <1>10, <1>11, <1>12, <1>13

(* The lines of a run, and the rows of runs, when one is appended. *)
LEMMA OfRunGrown ==
  ASSUME NEW V, NEW S \in Seq(V), NEW x \in V, NEW k
  PROVE  OfRun(Append(S, x), k) =
           IF x.run = k THEN Append(OfRun(S, k), x) ELSE OfRun(S, k)
<1> DEFINE I == {n \in 1 .. Len(S) : S[n].run = k}
           J == {n \in 1 .. Len(Append(S, x)) : Append(S, x)[n].run = k}
<1>1. /\ Len(Append(S, x)) = Len(S) + 1 /\ Len(S) \in Nat
      /\ \A n \in 1 .. Len(S) : Append(S, x)[n] = S[n]
      /\ Append(S, x)[Len(S) + 1] = x
  OBVIOUS
<1>2. J = IF x.run = k THEN I \cup {Len(S) + 1} ELSE I BY <1>1
<1>3. OfRun(S, k) = Picked(S, I) /\ OfRun(Append(S, x), k) = Picked(Append(S, x), J)
  BY DEF OfRun
<1>4. I \subseteq 1 .. Len(S) OBVIOUS
<1> HIDE DEF I, J
<1>5. /\ Picked(Append(S, x), I) = Picked(S, I)
      /\ Picked(Append(S, x), I \cup {Len(S) + 1}) = Append(Picked(S, I), x)
  BY <1>4, PickedGrown
<1> QED BY <1>2, <1>3, <1>5

LEMMA RunsInGrown ==
  ASSUME NEW V, NEW S \in Seq(V), NEW x \in V
  PROVE  RunsIn(Append(S, x)) =
           IF x.status # "reset" THEN Append(RunsIn(S), x) ELSE RunsIn(S)
<1> DEFINE I == {n \in 1 .. Len(S) : S[n].status # "reset"}
           J == {n \in 1 .. Len(Append(S, x)) : Append(S, x)[n].status # "reset"}
<1>1. /\ Len(Append(S, x)) = Len(S) + 1 /\ Len(S) \in Nat
      /\ \A n \in 1 .. Len(S) : Append(S, x)[n] = S[n]
      /\ Append(S, x)[Len(S) + 1] = x
  OBVIOUS
<1>2. J = IF x.status # "reset" THEN I \cup {Len(S) + 1} ELSE I BY <1>1
<1>3. RunsIn(S) = Picked(S, I) /\ RunsIn(Append(S, x)) = Picked(Append(S, x), J)
  BY DEF RunsIn
<1>4. I \subseteq 1 .. Len(S) OBVIOUS
<1> HIDE DEF I, J
<1>5. /\ Picked(Append(S, x), I) = Picked(S, I)
      /\ Picked(Append(S, x), I \cup {Len(S) + 1}) = Append(Picked(S, I), x)
  BY <1>4, PickedGrown
<1> QED BY <1>2, <1>3, <1>5

(* What is picked are elements, each of those that satisfies the condition. *)
PickedFrom(S, I, P) ==
  /\ \A n \in 1 .. Len(P) : \E i \in I : P[n] = S[i]
  /\ \A i \in I : \E n \in 1 .. Len(P) : P[n] = S[i]

LEMMA PickedAre ==
  ASSUME NEW V, NEW S \in Seq(V), NEW I, I \subseteq 1 .. Len(S)
  PROVE  Picked(S, I) \in Seq(V) /\ PickedFrom(S, I, Picked(S, I))
<1>1. \A i \in I : i \in Nat /\ i <= Len(S) OBVIOUS
<1>2. Len(S) \in Nat OBVIOUS
<1>3. Cardinality(I) \in Nat /\ \A n \in 1 .. Cardinality(I) : Nth(I, n) \in I
  BY <1>1, <1>2, PositionsFinite, NthIs
<1>4. \A i \in I : \E n \in 1 .. Cardinality(I) : Nth(I, n) = i
  BY <1>1, <1>2, NthReaches
<1>a. \A i \in I : S[i] \in V OBVIOUS
<1>5. \A n \in 1 .. Cardinality(I) : S[Nth(I, n)] \in V BY <1>3, <1>a
<1>6. Picked(S, I) = [n \in 1 .. Cardinality(I) |-> S[Nth(I, n)]] BY DEF Picked
<1>7. Picked(S, I) \in Seq(V) /\ Len(Picked(S, I)) = Cardinality(I)
  BY <1>3, <1>5, <1>6
<1>8. \A n \in 1 .. Cardinality(I) : Picked(S, I)[n] = S[Nth(I, n)] BY <1>6
<1> DEFINE P == Picked(S, I)
           C == Cardinality(I)
<1> HIDE DEF P, C
<1>9. \A n \in 1 .. Len(P) : \E i \in I : P[n] = S[i]
  BY <1>3, <1>7, <1>8 DEF P, C
<1>10. \A i \in I : \E n \in 1 .. Len(P) : P[n] = S[i]
  <2> TAKE i \in I
  <2>1. PICK n \in 1 .. C : Nth(I, n) = i BY <1>4 DEF C
  <2>2. n \in 1 .. Len(P) /\ P[n] = S[Nth(I, n)] BY <1>7, <1>8 DEF P, C
  <2> QED BY <2>1, <2>2
<1>11. PickedFrom(S, I, P) BY <1>9, <1>10 DEF PickedFrom
<1> QED BY <1>7, <1>11 DEF P

LEMMA OfRunAre ==
  ASSUME NEW V, NEW S \in Seq(V), NEW k
  PROVE  /\ OfRun(S, k) \in Seq(V)
         /\ \A n \in 1 .. Len(OfRun(S, k)) : OfRun(S, k)[n].run = k
         /\ \A i \in 1 .. Len(S) :
              S[i].run = k => \E n \in 1 .. Len(OfRun(S, k)) : OfRun(S, k)[n] = S[i]
<1> DEFINE I == {n \in 1 .. Len(S) : S[n].run = k}
<1>1. I \subseteq 1 .. Len(S) /\ OfRun(S, k) = Picked(S, I) BY DEF OfRun
<1>2. /\ \A i \in I : S[i].run = k
      /\ \A i \in 1 .. Len(S) : S[i].run = k => i \in I
  OBVIOUS
<1> HIDE DEF I
<1>3. OfRun(S, k) \in Seq(V) /\ PickedFrom(S, I, OfRun(S, k))
  BY <1>1, PickedAre
<1>4. /\ \A n \in 1 .. Len(OfRun(S, k)) : \E i \in I : OfRun(S, k)[n] = S[i]
      /\ \A i \in I : \E n \in 1 .. Len(OfRun(S, k)) : OfRun(S, k)[n] = S[i]
  BY <1>3, Zenon DEF PickedFrom
<1> QED BY <1>2, <1>3, <1>4

LEMMA OfRunNone ==
  ASSUME NEW S, NEW k, \A n \in 1 .. Len(S) : S[n].run # k
  PROVE  OfRun(S, k) = <<>>
<1>1. {n \in 1 .. Len(S) : S[n].run = k} = {} OBVIOUS
<1> QED BY <1>1, PickedNone DEF OfRun

(* A sequence that has grown. *)
LEMMA NotEmpty ==
  ASSUME NEW V, NEW S \in Seq(V), NEW x \in V
  PROVE  /\ Append(S, x) \in Seq(V) /\ Append(S, x) # <<>>
         /\ Len(Append(S, x)) = Len(S) + 1 /\ Append(S, x)[Len(S) + 1] = x
         /\ Len(S) \in Nat /\ \A n \in 1 .. Len(S) : Append(S, x)[n] = S[n]
<1>1. /\ Append(S, x) \in Seq(V) /\ Len(Append(S, x)) = Len(S) + 1
      /\ Append(S, x)[Len(S) + 1] = x /\ Len(S) \in Nat
      /\ \A n \in 1 .. Len(S) : Append(S, x)[n] = S[n]
  OBVIOUS
<1>2. Append(S, x) # <<>>
  <2>1. Len(<<>>) = 0 OBVIOUS
  <2>2. Len(Append(S, x)) # 0 BY <1>1
  <2> QED BY <2>1, <2>2
<1> QED BY <1>1, <1>2

LEMMA NothingTold == RunsIn(<<>>) = <<>> /\ \A V : <<>> \in Seq(V)
<1>1. 1 .. Len(<<>>) = {} OBVIOUS
<1>2. {n \in 1 .. Len(<<>>) : <<>>[n].status # "reset"} = {} BY <1>1
<1>3. RunsIn(<<>>) = <<>> BY <1>2, PickedNone DEF RunsIn
<1>4. \A V : <<>> \in Seq(V) OBVIOUS
<1> QED BY <1>3, <1>4

(* The rows tell the runs, when a run and its row begin and when they end. *)
LEMMA TellsGrown ==
  ASSUME NEW V, NEW rows \in Seq(V), NEW r \in V, r.status # "reset",
         NEW W, NEW runs \in Seq(W), NEW q \in W, NEW n \in 0 .. Len(runs),
         r.scenario = q.scenario, r.status = q.status, Tells(rows, runs, n)
  PROVE  Tells(Append(rows, r), Append(runs, q), n)
<1> DEFINE told == RunsIn(rows)
           told2 == RunsIn(Append(rows, r))
           runs2 == Append(runs, q)
<1>1. told \in Seq(V)
  <2> DEFINE I == {i \in 1 .. Len(rows) : rows[i].status # "reset"}
  <2>1. I \subseteq 1 .. Len(rows) /\ told = Picked(rows, I) BY DEF RunsIn
  <2> QED BY <2>1, PickedAre
<1>2. told2 = Append(told, r) BY RunsInGrown
<1>3. /\ Len(told) = Len(runs) - n
      /\ \A k \in 1 .. Len(told) :
           told[k].scenario = runs[n + k].scenario /\ told[k].status = runs[n + k].status
  BY DEF Tells
<1> HIDE DEF told, told2
<1>4. /\ Len(told2) = Len(told) + 1 /\ told2[Len(told) + 1] = r
      /\ Len(told) \in Nat /\ \A k \in 1 .. Len(told) : told2[k] = told[k]
  BY <1>1, <1>2, NotEmpty
<1>5. /\ Len(runs2) = Len(runs) + 1 /\ runs2[Len(runs) + 1] = q
      /\ Len(runs) \in Nat /\ \A k \in 1 .. Len(runs) : runs2[k] = runs[k]
  BY NotEmpty
<1> HIDE DEF runs2
<1>6. \A k \in 1 .. Len(told2) :
        told2[k].scenario = runs2[n + k].scenario /\ told2[k].status = runs2[n + k].status
  <2> TAKE k \in 1 .. Len(told2)
  <2>1. CASE k \in 1 .. Len(told)
    <3>1. n + k \in 1 .. Len(runs) BY <1>3, <1>5, <2>1
    <3>2. told2[k] = told[k] /\ runs2[n + k] = runs[n + k] BY <1>4, <1>5, <2>1, <3>1
    <3> QED BY <1>3, <2>1, <3>2
  <2>2. CASE k \notin 1 .. Len(told)
    <3>1. k = Len(told) + 1 /\ n + k = Len(runs) + 1 BY <1>3, <1>4, <1>5, <2>2
    <3>2. told2[k] = r /\ runs2[n + k] = q BY <1>4, <1>5, <3>1
    <3> QED BY <3>2
  <2> QED BY <2>1, <2>2
<1>7. Len(told2) = Len(runs2) - n BY <1>3, <1>4, <1>5
<1> QED BY <1>6, <1>7 DEF Tells, told2, runs2

(* A sequence that is not empty, and one whose last element has changed. *)
FrontOf(S, F, V) ==
  /\ F \in Seq(V) /\ Len(F) = Len(S) - 1 /\ S = Append(F, S[Len(S)])
  /\ \A x \in V : [S EXCEPT ![Len(S)] = x] = Append(F, x)

LEMMA FrontIs ==
  ASSUME NEW V, NEW S \in Seq(V), S # <<>>
  PROVE  /\ Len(S) \in Nat \ {0} /\ S[Len(S)] \in V
         /\ \E F : FrontOf(S, F, V)
<1> DEFINE N == Len(S)
           F == [i \in 1 .. N - 1 |-> S[i]]
<1>1. N \in Nat \ {0} /\ S = [i \in 1 .. N |-> S[i]] /\ \A i \in 1 .. N : S[i] \in V
  OBVIOUS
<1> HIDE DEF N
<1>2. F \in Seq(V) /\ Len(F) = N - 1 /\ \A i \in 1 .. N - 1 : F[i] = S[i]
  <2>1. N - 1 \in Nat /\ \A i \in 1 .. N - 1 : S[i] \in V BY <1>1
  <2> QED BY <2>1
<1>3. ASSUME NEW x \in V PROVE [S EXCEPT ![N] = x] = Append(F, x)
  <2>1. [S EXCEPT ![N] = x] = [i \in 1 .. N |-> IF i = N THEN x ELSE S[i]] BY <1>1
  <2>2. Append(F, x) = [i \in 1 .. N |-> IF i = N THEN x ELSE F[i]] BY <1>1, <1>2
  <2>3. \A i \in 1 .. N : i # N => F[i] = S[i] BY <1>1, <1>2
  <2> HIDE DEF F
  <2> QED BY <2>1, <2>2, <2>3
<1>4. S = Append(F, S[N])
  <2>1. [S EXCEPT ![N] = S[N]] = S BY <1>1
  <2>2. S[N] \in V BY <1>1
  <2> HIDE DEF F
  <2>3. [S EXCEPT ![N] = S[N]] = Append(F, S[N]) BY <1>3, <2>2
  <2> QED BY <2>1, <2>3
<1> HIDE DEF F
<1>5. FrontOf(S, F, V) BY <1>2, <1>3, <1>4 DEF FrontOf, N
<1>6. N \in Nat \ {0} /\ S[N] \in V BY <1>1
<1> QED BY <1>5, <1>6 DEF N

LEMMA TellsEnded ==
  ASSUME NEW V, NEW rows \in Seq(V), rows # <<>>, NEW r \in V, r.status # "reset",
         rows[Len(rows)].status # "reset", r.scenario = rows[Len(rows)].scenario,
         NEW W, NEW runs \in Seq(W), NEW q \in W, NEW n \in 0 .. Len(runs), runs # <<>>,
         q.scenario = runs[Len(runs)].scenario, r.status = q.status,
         Tells(rows, runs, n)
  PROVE  Tells([rows EXCEPT ![Len(rows)] = r], [runs EXCEPT ![Len(runs)] = q], n)
<1> DEFINE l == rows[Len(rows)]
           e == runs[Len(runs)]
<1>1. l \in V /\ e \in W /\ Len(runs) \in Nat \ {0} BY FrontIs
<1>2. PICK F : FrontOf(rows, F, V) BY FrontIs
<1>3. PICK G : FrontOf(runs, G, W) BY FrontIs
<1>4. /\ F \in Seq(V) /\ rows = Append(F, l)
      /\ [rows EXCEPT ![Len(rows)] = r] = Append(F, r)
  BY <1>2 DEF FrontOf
<1>5. /\ G \in Seq(W) /\ Len(G) = Len(runs) - 1 /\ runs = Append(G, e)
      /\ [runs EXCEPT ![Len(runs)] = q] = Append(G, q)
  BY <1>3 DEF FrontOf
<1> DEFINE told == RunsIn(F)
<1>6. RunsIn(rows) = Append(told, l)
  <2>1. l.status # "reset" OBVIOUS
  <2> HIDE DEF l
  <2> QED BY <1>1, <1>4, <2>1, RunsInGrown
<1>7. told \in Seq(V)
  <2> DEFINE I == {i \in 1 .. Len(F) : F[i].status # "reset"}
  <2>1. I \subseteq 1 .. Len(F) /\ told = Picked(F, I) BY DEF RunsIn
  <2> QED BY <1>4, <2>1, PickedAre
<1>8. /\ Len(RunsIn(rows)) = Len(runs) - n
      /\ \A k \in 1 .. Len(RunsIn(rows)) :
           /\ RunsIn(rows)[k].scenario = runs[n + k].scenario
           /\ RunsIn(rows)[k].status = runs[n + k].status
  BY DEF Tells
<1> HIDE DEF told, l, e
<1>9. /\ Len(RunsIn(rows)) = Len(told) + 1 /\ RunsIn(rows)[Len(told) + 1] = l
      /\ Len(told) \in Nat /\ \A k \in 1 .. Len(told) : RunsIn(rows)[k] = told[k]
  BY <1>1, <1>6, <1>7, NotEmpty
<1>10. /\ runs[Len(G) + 1] = e
       /\ Len(G) \in Nat /\ \A k \in 1 .. Len(G) : runs[k] = G[k]
  BY <1>1, <1>5, NotEmpty
<1>11. n \in 0 .. Len(G) BY <1>1, <1>5, <1>8, <1>9
<1>12. Len(told) = Len(G) - n BY <1>5, <1>8, <1>9
<1>13. \A k \in 1 .. Len(told) :
         told[k].scenario = G[n + k].scenario /\ told[k].status = G[n + k].status
  <2> TAKE k \in 1 .. Len(told)
  <2>1. n + k \in 1 .. Len(G) BY <1>9, <1>10, <1>11, <1>12
  <2>2. told[k] = RunsIn(rows)[k] /\ G[n + k] = runs[n + k] BY <1>9, <1>10, <2>1
  <2>3. k \in 1 .. Len(RunsIn(rows)) BY <1>9
  <2> QED BY <1>8, <2>2, <2>3
<1>14. Tells(F, G, n) BY <1>12, <1>13 DEF Tells, told
<1>15. r.scenario = q.scenario
  <2>1. Len(told) + 1 \in 1 .. Len(RunsIn(rows)) /\ n + (Len(told) + 1) = Len(G) + 1
    BY <1>9, <1>10, <1>11, <1>12
  <2>2. l.scenario = e.scenario BY <1>8, <1>9, <1>10, <2>1
  <2> QED BY <2>2 DEF l, e
<1>16. Tells(Append(F, r), Append(G, q), n)
  BY <1>4, <1>5, <1>11, <1>14, <1>15, TellsGrown
<1> QED BY <1>4, <1>5, <1>16

-----------------------------------------------------------------------------
(* The streams: recorded times, none before the first of all, those of a   *)
(* CSV file sorted.                                                        *)
Rising(s) == \A m \in 1 .. Len(s), n \in 1 .. Len(s) : m <= n => s[m] <= s[n]

LEMMA SortedIs ==
  ASSUME NEW times \in Seq(Nat)
  PROVE  /\ Sorted(times) \in Seq(Nat) /\ Len(Sorted(times)) = Len(times)
         /\ Rising(Sorted(times))
         /\ \A n \in 1 .. Len(times) :
              \E m \in 1 .. Len(times) : Sorted(times)[n] = times[m]
<1> DEFINE N == Len(times)
           order == Ordered(1 .. N, Earlier(times))
<1>1. N \in Nat /\ \A n \in 1 .. N : times[n] \in Nat OBVIOUS
<1>2. \A x \in 1 .. N, y \in 1 .. N :
        <<x, y>> \in Earlier(times) <=>
          times[x] < times[y] \/ (times[x] = times[y] /\ x < y)
  BY DEF Earlier
<1> HIDE DEF N
<1>3. Orders(Earlier(times), 1 .. N)
  <2>1. \A x \in 1 .. N : <<x, x>> \notin Earlier(times) BY <1>1, <1>2
  <2>2. \A x \in 1 .. N, y \in 1 .. N :
          x # y => <<x, y>> \in Earlier(times) \/ <<y, x>> \in Earlier(times)
    BY <1>1, <1>2
  <2>3. \A x \in 1 .. N, y \in 1 .. N, z \in 1 .. N :
          <<x, y>> \in Earlier(times) /\ <<y, z>> \in Earlier(times) =>
            <<x, z>> \in Earlier(times)
    BY <1>1, <1>2
  <2> QED BY <2>1, <2>2, <2>3 DEF Orders
<1>4. IsFiniteSet(1 .. N) /\ Cardinality(1 .. N) = N BY <1>1, FS_Interval
<1>5. Sequenced(1 .. N, Earlier(times), order) BY <1>3, <1>4, OrderedIs
<1>6. Sorted(times) = [n \in 1 .. N |-> times[order[n]]] BY DEF Sorted, N
<1> HIDE DEF order
<1>7. /\ order \in [1 .. N -> 1 .. N]
      /\ \A m \in 1 .. N, n \in 1 .. N :
           m < n => <<order[m], order[n]>> \in Earlier(times)
  BY <1>4, <1>5 DEF Sequenced
<1>8. \A n \in 1 .. N : order[n] \in 1 .. N /\ times[order[n]] \in Nat
  BY <1>1, <1>7
<1>9. /\ Sorted(times) \in Seq(Nat) /\ Len(Sorted(times)) = N
      /\ \A n \in 1 .. N : Sorted(times)[n] = times[order[n]]
  BY <1>1, <1>6, <1>8
<1>10. \A m \in 1 .. N, n \in 1 .. N :
         m <= n => Sorted(times)[m] <= Sorted(times)[n]
  <2> SUFFICES ASSUME NEW m \in 1 .. N, NEW n \in 1 .. N, m <= n
      PROVE  times[order[m]] <= times[order[n]]
    BY <1>9
  <2>1. CASE m = n BY <1>8, <2>1
  <2>2. CASE m < n
    <3>1. /\ order[m] \in 1 .. N /\ order[n] \in 1 .. N
          /\ <<order[m], order[n]>> \in Earlier(times)
      BY <1>7, <2>2
    <3>2. \/ times[order[m]] < times[order[n]]
          \/ times[order[m]] = times[order[n]]
      BY <1>2, <3>1
    <3> QED BY <1>8, <3>2
  <2> QED BY <1>1, <2>1, <2>2
<1>11. Rising(Sorted(times)) BY <1>9, <1>10 DEF Rising
<1> QED BY <1>8, <1>9, <1>11 DEF N

(* What the proofs need of the stream of f in scenario s. *)
Streaming(s, f) ==
  /\ Stream(s, f) \in Seq(Nat)
  /\ T0(s) \in Nat /\ T0(s) <= MaxTime
  /\ \A n \in 1 .. Len(Stream(s, f)) :
       T0(s) <= Stream(s, f)[n] /\ Stream(s, f)[n] <= MaxTime
  /\ f \in CsvFiles => Rising(Stream(s, f))

LEMMA StreamIs ==
  ASSUME NEW s \in Scenarios, NEW f \in FileSet
  PROVE  Streaming(s, f)
<1> DEFINE T == UNION {Range(Recorded[s][g]) : g \in FileSet}
<1>1. \A g \in FileSet : Recorded[s][g] \in Seq(0 .. MaxTime)
  BY ReplayerAssumption
<1>2. \A g \in FileSet : Recorded[s][g] \in Seq(Nat)
  <2> TAKE g \in FileSet
  <2>1. MaxTime \in Nat /\ 0 .. MaxTime \subseteq Nat BY ReplayerAssumption
  <2> QED BY <1>1, <2>1, SeqWidened
<1>3. \A g \in FileSet : Range(Recorded[s][g]) =
        {Recorded[s][g][n] : n \in 1 .. Len(Recorded[s][g])}
  BY <1>2 DEF Range
<1>4. \A t \in T : t \in 0 .. MaxTime
  <2> TAKE t \in T
  <2>1. PICK g \in FileSet : t \in Range(Recorded[s][g]) OBVIOUS
  <2>2. PICK n \in 1 .. Len(Recorded[s][g]) : t = Recorded[s][g][n]
    BY <1>3, <2>1
  <2> DEFINE R == Recorded[s][g]
             Q == 0 .. MaxTime
  <2>3. R \in Seq(Q) BY <1>1
  <2> HIDE DEF R, Q
  <2>4. \A i \in 1 .. Len(R) : R[i] \in Q BY <2>3
  <2> QED BY <2>2, <2>4 DEF R, Q
<1>5. T # {}
  <2>1. PICK g \in FileSet : Recorded[s][g] # <<>> BY ReplayerAssumption
  <2>2. 1 \in 1 .. Len(Recorded[s][g]) BY <1>2, <2>1
  <2>3. Recorded[s][g][1] \in Range(Recorded[s][g]) BY <1>3, <2>2
  <2> QED BY <2>3
<1>6. \A g \in FileSet : \A n \in 1 .. Len(Recorded[s][g]) : Recorded[s][g][n] \in T
  BY <1>3
<1>7. T0(s) = CHOOSE x \in T : \A y \in T : x <= y BY DEF T0, Min
<1> HIDE DEF T
<1>8. T0(s) \in T /\ \A y \in T : T0(s) <= y
  <2>1. T \in SUBSET Nat BY <1>4, ReplayerAssumption
  <2>2. \E x \in T : \A y \in T : x <= y BY <1>5, <2>1, LeastElement
  <2> QED BY <1>7, <2>2
<1>9. \A n \in 1 .. Len(Recorded[s][f]) :
        T0(s) <= Recorded[s][f][n] /\ Recorded[s][f][n] <= MaxTime
  BY <1>4, <1>6, <1>8, ReplayerAssumption
<1>10. T0(s) \in Nat /\ T0(s) <= MaxTime BY <1>4, <1>8, ReplayerAssumption
<1>11. Stream(s, f) = IF f \in CsvFiles THEN Sorted(Recorded[s][f])
                      ELSE Recorded[s][f]
  BY DEF Stream, Streams
<1>12. CASE f \notin CsvFiles
  BY <1>2, <1>9, <1>10, <1>11, <1>12 DEF Streaming
<1>13. CASE f \in CsvFiles
  <2> DEFINE R == Recorded[s][f]
             S == Sorted(R)
  <2>1. R \in Seq(Nat) BY <1>2
  <2>2. \A n \in 1 .. Len(R) : T0(s) <= R[n] /\ R[n] <= MaxTime BY <1>9
  <2> HIDE DEF R
  <2>3. /\ S \in Seq(Nat) /\ Len(S) = Len(R) /\ Rising(S)
        /\ \A n \in 1 .. Len(R) : \E m \in 1 .. Len(R) : S[n] = R[m]
    BY <2>1, SortedIs
  <2>4. Stream(s, f) = S BY <1>11, <1>13 DEF R
  <2> HIDE DEF S
  <2>5. \A n \in 1 .. Len(S) : T0(s) <= S[n] /\ S[n] <= MaxTime BY <2>2, <2>3
  <2> QED BY <1>10, <2>3, <2>4, <2>5 DEF Streaming
<1> QED BY <1>12, <1>13

-----------------------------------------------------------------------------
(* The heads of the streams.                                               *)
Timely(f, n) ==
  /\ NewTs(n, f) \in 0 .. 2 * MaxTime
  /\ anchor <= NewTs(n, f)
  /\ f \in CsvFiles => \A m \in 1 .. n : NewTs(m, f) <= NewTs(n, f)
  /\ Times(ThisRun, f)[n] = NewTs(n, f)

LEMMA NewTsIs ==
  ASSUME TypeOK, scenario \in Scenarios, NEW f \in FileSet
  PROVE  /\ Len(Stream(scenario, f)) \in Nat
         /\ Len(Times(ThisRun, f)) = Len(Stream(scenario, f))
         /\ \A n \in 1 .. Len(Stream(scenario, f)) : Timely(f, n)
<1> DEFINE s == Stream(scenario, f)
           t == T0(scenario)
<1>1. /\ s \in Seq(Nat) /\ t \in Nat
      /\ \A n \in 1 .. Len(s) : t <= s[n] /\ s[n] <= MaxTime
      /\ f \in CsvFiles => Rising(s)
  BY StreamIs DEF Streaming
<1>a. anchor \in 0 .. MaxTime BY DEF TypeOK
<1>2. anchor \in Nat /\ anchor <= MaxTime /\ MaxTime \in Nat
  BY <1>a, ReplayerAssumption
<1>3. \A n : NewTs(n, f) = anchor + s[n] - t BY DEF NewTs
<1>4. Times(ThisRun, f) = [n \in 1 .. Len(s) |-> anchor + s[n] - t]
  BY DEF Times, ThisRun
<1> HIDE DEF s, t
<1>5. Len(s) \in Nat /\ \A n \in 1 .. Len(s) : s[n] \in Nat BY <1>1
<1>6. /\ Len(Times(ThisRun, f)) = Len(s)
      /\ \A n \in 1 .. Len(s) : Times(ThisRun, f)[n] = anchor + s[n] - t
  BY <1>4, <1>5
<1>7. ASSUME NEW n \in 1 .. Len(s) PROVE Timely(f, n)
  <2>1. s[n] \in Nat /\ t <= s[n] /\ s[n] <= MaxTime BY <1>1, <1>5
  <2>2. f \in CsvFiles => \A m \in 1 .. n : NewTs(m, f) <= NewTs(n, f)
    <3> SUFFICES ASSUME f \in CsvFiles, NEW m \in 1 .. n
        PROVE  NewTs(m, f) <= NewTs(n, f)
      OBVIOUS
    <3>1. m \in 1 .. Len(s) BY <1>5
    <3>2. s[m] <= s[n] BY <1>1, <3>1 DEF Rising
    <3>3. s[m] \in Nat BY <1>5, <3>1
    <3> QED BY <1>1, <1>2, <1>3, <2>1, <3>2, <3>3
  <2>3. NewTs(n, f) \in 0 .. 2 * MaxTime /\ anchor <= NewTs(n, f)
    BY <1>1, <1>2, <1>3, <2>1
  <2>4. Times(ThisRun, f)[n] = NewTs(n, f) BY <1>3, <1>6
  <2> QED BY <2>2, <2>3, <2>4 DEF Timely
<1> QED BY <1>5, <1>6, <1>7 DEF s

LEMMA HeadIs ==
  ASSUME TypeOK, scenario \in Scenarios, NEW f \in Remaining
  PROVE  /\ f \in FileSet /\ next[f] \in 1 .. Len(Stream(scenario, f))
         /\ Timely(f, next[f]) /\ HeadTime(f) = NewTs(next[f], f)
         /\ HeadTime(f) \in Nat
<1>1. f \in FileSet /\ next[f] <= Len(Stream(scenario, f)) BY DEF Remaining
<1>2. next[f] \in Nat \ {0} BY <1>1 DEF TypeOK
<1>3. Len(Stream(scenario, f)) \in Nat
      /\ \A n \in 1 .. Len(Stream(scenario, f)) : Timely(f, n)
  BY <1>1, NewTsIs
<1>4. next[f] \in 1 .. Len(Stream(scenario, f)) BY <1>1, <1>2, <1>3
<1>5. NewTs(next[f], f) \in Nat BY <1>3, <1>4, ReplayerAssumption DEF Timely
<1> QED BY <1>1, <1>3, <1>4, <1>5 DEF HeadTime

(* The place of a file among the sources. *)
LEMMA RankIs ==
  ASSUME NEW f \in FileSet
  PROVE  Rank(f) \in Nat /\ Files[Rank(f)] = f
BY ReplayerAssumption DEF FileSet, Rank

LEMMA OneIsNext ==
  ASSUME TypeOK, scenario \in Scenarios, NEW f \in FileSet, NEW g \in FileSet,
         IsNext(f), IsNext(g)
  PROVE  f = g
<1>1. f \in Remaining /\ g \in Remaining BY DEF IsNext
<1>2. HeadTime(f) \in Nat /\ HeadTime(g) \in Nat BY <1>1, HeadIs
<1>3. /\ \/ HeadTime(f) < HeadTime(g)
         \/ HeadTime(f) = HeadTime(g) /\ Rank(f) <= Rank(g)
      /\ \/ HeadTime(g) < HeadTime(f)
         \/ HeadTime(g) = HeadTime(f) /\ Rank(g) <= Rank(f)
  BY <1>1 DEF IsNext
<1>4. Rank(f) = Rank(g) BY <1>2, <1>3, RankIs
<1> QED BY <1>4, RankIs

LEMMA SomeIsNext ==
  ASSUME TypeOK, scenario \in Scenarios, Remaining # {}
  PROVE  \E f \in Remaining : IsNext(f)
<1> DEFINE H == {HeadTime(f) : f \in Remaining}
<1>1. H \in SUBSET Nat /\ H # {} BY HeadIs
<1>2. PICK h \in H : \A i \in H : h <= i BY <1>1, LeastElement
<1> DEFINE R == {Rank(f) : f \in {g \in Remaining : HeadTime(g) = h}}
<1>3. R \in SUBSET Nat /\ R # {} BY RankIs DEF Remaining
<1>4. PICK r \in R : \A i \in R : r <= i BY <1>3, LeastElement
<1>5. PICK f \in Remaining : HeadTime(f) = h /\ Rank(f) = r OBVIOUS
<1>6. ASSUME NEW g \in Remaining
      PROVE  \/ HeadTime(f) < HeadTime(g)
             \/ HeadTime(f) = HeadTime(g) /\ Rank(f) <= Rank(g)
  <2>1. HeadTime(g) \in H /\ HeadTime(g) \in Nat /\ h \in Nat BY <1>1, HeadIs
  <2>2. h <= HeadTime(g) BY <1>2, <2>1
  <2>3. CASE HeadTime(g) = h
    <3>1. Rank(g) \in R BY <2>3
    <3> QED BY <1>4, <1>5, <2>3, <3>1
  <2>4. CASE HeadTime(g) # h BY <1>5, <2>1, <2>2, <2>4
  <2> QED BY <2>3, <2>4
<1>7. IsNext(f) BY <1>6 DEF IsNext
<1> QED BY <1>7

-----------------------------------------------------------------------------
(* The steps that leave the files as they are.                             *)
LEMMA Initially == Init => Inv
<1> SUFFICES ASSUME Init PROVE Inv OBVIOUS
<1>1. FileSet \cap {} = {} /\ 0 \in 0 .. MaxTime /\ 0 \in 0 .. MaxRuns
  BY ReplayerAssumption
<1>2. TypeOK
  <2>1. <<>> \in Seq(Row) /\ <<>> \in Seq(Run) /\ Len(<<>>) = 0 OBVIOUS
  <2>2. /\ runsCsv \in Seq(Row) /\ rewrite \in Seq(Row)
        /\ history \in Seq(Run) /\ lost \in 0 .. Len(history)
    <3>1. runsCsv = <<>> /\ rewrite = <<>> /\ history = <<>> /\ lost = 0
      BY DEF Init
    <3> QED BY <2>1, <3>1
  <2>3. now \in 0 .. MaxTime /\ anchor \in 0 .. MaxTime /\ deadline \in Limit
    BY <1>1 DEF Init, Limit
  <2>4. out \in [FileSet -> Seq(Line) \cup {NoFile}] BY DEF Init
  <2>5. wiped \in [FileSet -> 0 .. MaxRuns] BY <1>1 DEF Init
  <2>6. next \in [FileSet -> Nat \ {0}]
    <3>1. next = [f \in FileSet |-> 1] BY DEF Init
    <3>2. 1 \in Nat \ {0} OBVIOUS
    <3> QED BY <3>1, <3>2
  <2>7. opened \subseteq FileSet /\ row \in Nat /\ scenario \in Scenarios \cup {""}
        /\ pc = "off"
    BY DEF Init
  <2> QED BY <2>2, <2>3, <2>4, <2>5, <2>6, <2>7 DEF TypeOK
<1>3. \A f \in FileSet : out[f] = NoFile BY DEF Init
<1>4. RunsIn(<<>>) = <<>> BY NothingTold
<1>5. Len(<<>>) = 0 /\ 1 .. Len(<<>>) = {} OBVIOUS
<1>6. Tells(<<>>, <<>>, 0) BY <1>4, <1>5 DEF Tells
<1>7. Bounded
  <2>1. history = <<>> /\ pc = "off" /\ \A f \in FileSet : wiped[f] = 0 BY DEF Init
  <2>2. \A f \in FileSet : Positions(f) = {} BY <1>3 DEF Positions
  <2>3. Len(history) = 0 BY <2>1
  <2> QED BY <2>1, <2>2, <2>3, ReplayerAssumption DEF Bounded
<1>8. Going BY DEF Init, Going, Writing
<1>9. HeadersKept BY DEF Init, HeadersKept
<1>10. ClockKept
  <2>1. \A f \in FileSet : Positions(f) = {} BY <1>3 DEF Positions
  <2>2. anchor = 0 /\ now = 0 BY DEF Init
  <2>3. anchor <= now BY <2>2
  <2> QED BY <2>1, <2>3 DEF ClockKept
<1>11. LogKept BY <1>6 DEF Init, LogKept, Writing, Saving
<1>12. HeaderComesFirst BY <1>3 DEF HeaderComesFirst
<1>13. NothingIsLost BY <1>5 DEF Init, NothingIsLost
<1>14. OneTimeAxis BY DEF Init, OneTimeAxis
<1> QED BY <1>2, <1>7, <1>8, <1>9, <1>10, <1>11, <1>12, <1>13, <1>14 DEF Inv

LEMMA FilesStay ==
  ASSUME Inv, UNCHANGED out
  PROVE  /\ \A f \in FileSet : Positions(f)' = Positions(f)
         /\ \A f \in FileSet : \A k : LinesOf(f, k)' = LinesOf(f, k)
         /\ HeaderComesFirst'
         /\ UNCHANGED <<history, wiped>> => NothingIsLost'
<1>1. \A f \in FileSet : Positions(f)' = Positions(f) BY DEF Positions
<1>2. \A f \in FileSet : \A k : LinesOf(f, k)' = LinesOf(f, k) BY DEF LinesOf
<1>3. HeaderComesFirst' BY DEF HeaderComesFirst, Inv
<1>4. ASSUME UNCHANGED <<history, wiped>> PROVE NothingIsLost'
  BY <1>2, <1>4 DEF NothingIsLost, Inv
<1> QED BY <1>1, <1>2, <1>3, <1>4

LEMMA Clocks ==
  ASSUME TypeOK
  PROVE  /\ now \in Nat /\ now <= MaxTime /\ MaxTime \in Nat
         /\ anchor \in Nat /\ anchor <= MaxTime
         /\ Len(history) \in Nat /\ lost \in 0 .. Len(history)
<1>1. now \in 0 .. MaxTime /\ anchor \in 0 .. MaxTime BY DEF TypeOK
<1>2. history \in Seq(Run) /\ lost \in 0 .. Len(history) BY DEF TypeOK
<1>3. Len(history) \in Nat BY <1>2
<1> QED BY <1>1, <1>2, <1>3, ReplayerAssumption

LEMMA LineIs ==
  ASSUME TypeOK, NEW f \in FileSet, NEW n \in Positions(f)
  PROVE  /\ out[f] \in Seq(Line) /\ out[f][n] \in Line
         /\ out[f][n].run \in Nat /\ out[f][n].at \in Nat /\ out[f][n].ts \in Nat
<1>1. out[f] # NoFile /\ n \in 1 .. Len(out[f]) BY DEF Positions
<1>2. out[f] \in Seq(Line) BY <1>1 DEF TypeOK
<1>3. out[f][n] \in Line BY <1>1, <1>2
<1>4. /\ out[f][n].run \in 0 .. MaxRuns /\ out[f][n].at \in Nat
      /\ out[f][n].ts \in 0 .. 2 * MaxTime
  BY <1>3 DEF Line
<1> QED BY <1>2, <1>3, <1>4, ReplayerAssumption

LEMMA LaunchKeeps == Inv /\ Launch => Inv'
<1> SUFFICES ASSUME Inv, Launch PROVE Inv' OBVIOUS
<1>1. TypeOK'
  <2>1. deadline' \in Limit BY ReplayerAssumption DEF Launch, Limit
  <2> QED BY <2>1 DEF Launch, TypeOK, Inv, Line, Row, Run
<1>2. Bounded' BY FilesStay DEF Launch, Bounded, Inv
<1>3. Going' BY DEF Launch, Going, Inv, Writing
<1>4. HeadersKept' BY DEF Launch, HeadersKept, Going, Inv, Writing
<1>5. ClockKept' BY FilesStay DEF Launch, ClockKept, Inv, Writing
<1>6. LogKept' BY DEF Launch, LogKept, Inv, Writing, Saving
<1>7. HeaderComesFirst' /\ NothingIsLost' BY FilesStay DEF Launch
<1>8. OneTimeAxis' BY DEF Launch, OneTimeAxis
<1> QED BY <1>1, <1>2, <1>3, <1>4, <1>5, <1>6, <1>7, <1>8 DEF Inv

LEMMA LogResetKeeps == Inv /\ LogReset => Inv'
<1> SUFFICES ASSUME Inv, LogReset PROVE Inv' OBVIOUS
<1> DEFINE r == [scenario |-> "", status |-> "reset"]
<1>a. r \in Row /\ runsCsv \in Seq(Row) /\ r.status = "reset"
  BY DEF Row, TypeOK, Inv
<1>c. LogReset => rewrite' = Append(runsCsv, r) /\ runsCsv' = <<>>
  BY DEF LogReset, Rewrite
<1> HIDE DEF r
<1>b. Append(runsCsv, r) \in Seq(Row) /\ Append(runsCsv, r) # <<>>
  BY <1>a, NotEmpty
<1>1. TypeOK'
  <2>1. <<>> \in Seq(Row) OBVIOUS
  <2>2. rewrite' = Append(runsCsv, r) /\ runsCsv' = <<>>
    BY <1>c
  <2> QED BY <1>b, <2>1, <2>2 DEF LogReset, TypeOK, Inv, process
<1>2. Bounded' BY FilesStay DEF LogReset, Bounded, Inv, process
<1>3. Going' BY DEF LogReset, Going, Inv, Writing, process
<1>4. HeadersKept' BY DEF LogReset, HeadersKept, Going, Inv, Writing, process
<1>5. ClockKept' BY FilesStay DEF LogReset, ClockKept, Inv, Writing, process
<1>6. LogKept'
  <2>1. Tells(runsCsv, history, lost) BY DEF LogReset, LogKept, Saving, Inv
  <2>2. RunsIn(Append(runsCsv, r)) = RunsIn(runsCsv) BY <1>a, RunsInGrown
  <2>3. Tells(Append(runsCsv, r), history, lost) BY <2>1, <2>2 DEF Tells
  <2> QED BY <1>b, <1>c, <2>3 DEF LogReset, LogKept, Writing, Saving
<1>7. HeaderComesFirst' /\ NothingIsLost' BY FilesStay DEF LogReset
<1>8. OneTimeAxis' BY DEF LogReset, OneTimeAxis
<1> QED BY <1>1, <1>2, <1>3, <1>4, <1>5, <1>6, <1>7, <1>8 DEF Inv

LEMMA LogStartKeeps == Inv /\ LogStart => Inv'
<1> SUFFICES ASSUME Inv, LogStart PROVE Inv' OBVIOUS
<1> DEFINE r == [scenario |-> scenario, status |-> "running"]
<1>a. /\ r \in Row /\ runsCsv \in Seq(Row) /\ r.status = "running"
      /\ r.scenario = scenario
  BY DEF Row, Status, TypeOK, Inv
<1>b. /\ rewrite' = Append(runsCsv, r) /\ runsCsv' = <<>> /\ row' = Len(runsCsv) + 1
      /\ pc = "begin" /\ pc' = "log start" /\ anchor' = now
      /\ UNCHANGED <<now, out, scenario, opened, next, history, lost, wiped>>
  BY DEF LogStart, Rewrite, NewRow
<1>g. deadline' = IF deadline = NoLimit THEN NoLimit ELSE now + deadline
  BY DEF LogStart
<1> HIDE DEF r
<1>c. /\ Append(runsCsv, r) \in Seq(Row) /\ Append(runsCsv, r) # <<>>
      /\ Len(Append(runsCsv, r)) = Len(runsCsv) + 1 /\ Len(runsCsv) \in Nat
      /\ Append(runsCsv, r)[Len(runsCsv) + 1] = r
  BY <1>a, NotEmpty
<1>d. scenario \in Scenarios /\ deadline \in Durations BY <1>b DEF Inv, Going
<1>e. deadline' \in Limit
  <2>1. now \in Nat /\ now <= MaxTime /\ MaxTime \in Nat BY Clocks DEF Inv
  <2>2. deadline = NoLimit \/ deadline \in 0 .. MaxTime BY <1>d, ReplayerAssumption
  <2>3. CASE deadline = NoLimit BY <1>g, <2>3 DEF Limit
  <2>4. CASE deadline # NoLimit
    <3>1. deadline \in Nat /\ deadline <= MaxTime BY <2>1, <2>2, <2>4
    <3>2. now + deadline \in 0 .. 2 * MaxTime BY <2>1, <3>1
    <3>3. deadline' = now + deadline BY <1>g, <2>4
    <3> QED BY <3>2, <3>3 DEF Limit
  <2> QED BY <2>3, <2>4
<1>1. TypeOK'
  <2>1. <<>> \in Seq(Row) OBVIOUS
  <2>2. anchor' \in 0 .. MaxTime BY <1>b DEF TypeOK, Inv
  <2>3. row' \in Nat
    <3>1. row' = Len(runsCsv) + 1 BY <1>b
    <3> QED BY <1>c, <3>1
  <2>4. rewrite' \in Seq(Row) /\ runsCsv' \in Seq(Row) BY <1>b, <1>c, <2>1
  <2> QED BY <1>b, <1>e, <2>2, <2>3, <2>4 DEF TypeOK, Inv
<1>2. Bounded' BY <1>b, FilesStay DEF Bounded, Inv
<1>3. Going' BY <1>b DEF Going, Inv, Writing
<1>4. HeadersKept' BY <1>b DEF HeadersKept, Going, Inv, Writing
<1>5. ClockKept'
  <2>1. now <= now BY Clocks DEF Inv
  <2> QED BY <1>b, <2>1, FilesStay DEF ClockKept, Inv, Writing
<1>6. LogKept'
  <2>1. Tells(runsCsv, history, lost) BY <1>b DEF LogKept, Saving, Inv
  <2>2. ThisRun' \in Run /\ ThisRun'.scenario = scenario /\ ThisRun'.status = "running"
    <3>1. anchor' \in 0 .. MaxTime BY <1>b DEF TypeOK, Inv
    <3> QED BY <1>b, <1>d, <1>e, <3>1 DEF ThisRun, Run, Status
  <2>3. history \in Seq(Run) /\ lost \in 0 .. Len(history) BY DEF TypeOK, Inv
  <2>4. r.status # "reset" BY <1>a
  <2>5. Tells(Append(runsCsv, r), Append(history, ThisRun'), lost)
    BY <1>a, <2>1, <2>2, <2>3, <2>4, TellsGrown
  <2>6. LastRow(rewrite)'
    <3>1. /\ Len(rewrite') > 0 /\ row' = Len(rewrite')
          /\ rewrite'[row'] = r
      <4>1. row' = Len(runsCsv) + 1 /\ rewrite' = Append(runsCsv, r) BY <1>b
      <4> QED BY <1>c, <4>1
    <3> QED BY <1>a, <3>1 DEF LastRow
  <2>7. Tells(rewrite, Append(history, ThisRun), lost)' BY <1>b, <2>5
  <2> QED BY <1>b, <1>c, <2>6, <2>7 DEF LogKept, Writing, Saving
<1>7. HeaderComesFirst' /\ NothingIsLost' BY <1>b, FilesStay
<1>8. OneTimeAxis' BY <1>b DEF OneTimeAxis
<1> QED BY <1>1, <1>2, <1>3, <1>4, <1>5, <1>6, <1>7, <1>8 DEF Inv

(* The end of a run, completed or not. *)
LEMMA FinishKeeps ==
  ASSUME Inv, Writing, NEW status \in {"completed", "interrupted"}, LogFinish(status),
         status = "completed" =>
           \A f \in FileSet :
             1 .. Len(LinesOf(f, Len(history))) = Expected(ThisRun, f)
  PROVE  Inv'
<1> DEFINE r == [runsCsv[row] EXCEPT !.status = status]
<1>a. /\ runsCsv \in Seq(Row) /\ runsCsv # <<>> /\ row = Len(runsCsv)
      /\ runsCsv[row].status = "running"
  <2>1. runsCsv \in Seq(Row) /\ LastRow(runsCsv) BY DEF TypeOK, LogKept, Inv
  <2> QED BY <2>1 DEF LastRow
<1>b. runsCsv[row] \in Row /\ row \in Nat \ {0} BY <1>a, FrontIs
<1>c. r \in Row /\ r.status = status /\ r.scenario = runsCsv[row].scenario
  BY <1>b DEF Row, Status
<1>d. /\ rewrite' = [runsCsv EXCEPT ![row] = r] /\ runsCsv' = <<>>
      /\ pc' = "log finish" /\ opened' = {}
      /\ UNCHANGED <<now, out, scenario, anchor, deadline, next, row, history, lost,
                     wiped>>
  BY DEF LogFinish, Rewrite
<1> HIDE DEF r
<1>e. /\ rewrite' \in Seq(Row) /\ Len(rewrite') = row /\ rewrite'[row] = r
  <2>1. PICK F : FrontOf(runsCsv, F, Row) BY <1>a, FrontIs
  <2>2. F \in Seq(Row) /\ Len(F) = row - 1 /\ rewrite' = Append(F, r)
    BY <1>a, <1>c, <1>d, <2>1 DEF FrontOf
  <2> QED BY <1>b, <1>c, <2>2, NotEmpty
<1>f. rewrite' # <<>>
  <2>1. Len(<<>>) = 0 OBVIOUS
  <2> QED BY <1>b, <1>e, <2>1
<1>1. TypeOK'
  <2>1. <<>> \in Seq(Row) /\ {} \subseteq FileSet OBVIOUS
  <2> QED BY <1>d, <1>e, <2>1 DEF TypeOK, Inv
<1>2. Bounded' BY <1>d, FilesStay DEF Bounded, Inv
<1>3. Going'
  <2>1. \A f \in FileSet : \A k : LinesOf(f, k)' = LinesOf(f, k) BY <1>d, FilesStay
  <2>2. ThisRun' = ThisRun BY <1>d DEF ThisRun
  <2>3. /\ pc # "off" /\ scenario \in Scenarios /\ Len(history) > 0
        /\ history[Len(history)] = ThisRun
    BY DEF Going, Inv, Writing
  <2>4. (rewrite[row].status)' = status BY <1>c, <1>d, <1>e
  <2>5. status = "completed" =>
          \A f \in FileSet :
            (1 .. Len(LinesOf(f, Len(history))) = Expected(ThisRun, f))'
    BY <1>d, <2>1, <2>2
  <2> QED BY <1>d, <2>2, <2>3, <2>4, <2>5 DEF Going, Writing
<1>4. HeadersKept' BY <1>d DEF HeadersKept
<1>5. ClockKept' BY <1>d, FilesStay DEF ClockKept, Inv, Writing
<1>6. LogKept'
  <2> DEFINE q == [history[Len(history)] EXCEPT !.status = status]
  <2>1. Tells(runsCsv, history, lost) BY DEF LogKept, Saving, Inv, Writing
  <2>2. /\ history \in Seq(Run) /\ history # <<>> /\ lost \in 0 .. Len(history)
    <3>1. history \in Seq(Run) /\ Len(history) > 0 /\ lost \in 0 .. Len(history)
      BY DEF TypeOK, Going, Inv
    <3>2. Len(<<>>) = 0 OBVIOUS
    <3> QED BY <3>1, <3>2
  <2>3. history[Len(history)] \in Run BY <2>2, FrontIs
  <2>4. q \in Run /\ q.status = status /\ q.scenario = history[Len(history)].scenario
    BY <2>3 DEF Run, Status
  <2>5. r.status # "reset" /\ runsCsv[Len(runsCsv)].status # "reset" /\ r.status = q.status
    BY <1>a, <1>c, <2>4
  <2> HIDE DEF q
  <2>6. Tells([runsCsv EXCEPT ![Len(runsCsv)] = r],
              [history EXCEPT ![Len(history)] = q], lost)
    BY <1>a, <1>c, <2>1, <2>2, <2>4, <2>5, TellsEnded
  <2>7. [history EXCEPT ![Len(history)].status = rewrite'[row].status]
          = [history EXCEPT ![Len(history)] = q]
    BY <1>c, <1>e DEF q
  <2>8. Tells(rewrite, [history EXCEPT ![Len(history)].status = rewrite[row].status],
              lost)'
    BY <1>a, <1>d, <2>6, <2>7
  <2>9. row' \in 1 .. Len(rewrite') /\ rewrite'[row'].status = status
    <3>1. row' = row BY <1>d
    <3> QED BY <1>b, <1>c, <1>e, <3>1
  <2> QED BY <1>d, <1>f, <2>8, <2>9 DEF LogKept, Saving, Writing
<1>7. HeaderComesFirst' /\ NothingIsLost' BY <1>d, FilesStay
<1>8. OneTimeAxis' BY <1>d DEF OneTimeAxis
<1> QED BY <1>1, <1>2, <1>3, <1>4, <1>5, <1>6, <1>7, <1>8 DEF Inv

(* A run that is completed has written all that is not past its deadline. *)
LEMMA CompleteKeeps == Inv /\ Complete => Inv'
<1> SUFFICES ASSUME Inv, Complete PROVE Inv' OBVIOUS
<1>1. Writing /\ LogFinish("completed") /\ TypeOK /\ scenario \in Scenarios
  BY DEF Complete, Writing, Inv, Going
<1>2. ASSUME NEW f \in FileSet
      PROVE  1 .. Len(LinesOf(f, Len(history))) = Expected(ThisRun, f)
  <2> DEFINE E == Expected(ThisRun, f)
             t == Times(ThisRun, f)
             N == Len(Stream(scenario, f))
             K == Len(history)
  <2>1. /\ Len(LinesOf(f, K)) = next[f] - 1 /\ K > 0 /\ history[K] = ThisRun
    BY <1>1 DEF Inv, Going
  <2>2. K \in 1 .. Len(history)
    <3>1. Len(history) \in Nat BY Clocks DEF Inv
    <3> QED BY <2>1, <3>1
  <2>3. 1 .. next[f] - 1 \subseteq E
    BY <2>1, <2>2 DEF Inv, NothingIsLost, AsRecorded
  <2>4. N \in Nat /\ Len(t) = N /\ \A n \in 1 .. N : t[n] = NewTs(n, f)
    BY <1>1, NewTsIs DEF Timely
  <2>5. E = {n \in 1 .. Len(t) :
               \A m \in 1 .. n : deadline # NoLimit => t[m] <= deadline}
    BY DEF Expected, ThisRun
  <2>6. next[f] \in Nat \ {0} BY <1>1 DEF TypeOK
  <2> HIDE DEF E, t, N, K
  <2>7. CASE f \notin Remaining
    <3>1. next[f] > N BY <2>4, <2>6, <2>7 DEF Remaining, N
    <3>2. \A n \in E : n \in 1 .. N BY <2>4, <2>5
    <3>3. \A n \in E : n \in 1 .. next[f] - 1 BY <2>4, <2>6, <3>1, <3>2
    <3> QED BY <2>1, <2>3, <3>3 DEF E, K
  <2>8. CASE f \in Remaining
    <3>1. PICK g \in Remaining : IsNext(g) BY <1>1, <2>8, SomeIsNext
    <3>2. PastDeadline(g) BY <3>1 DEF Complete
    <3>3. HeadTime(g) \in Nat /\ HeadTime(f) \in Nat BY <1>1, <2>8, <3>1, HeadIs
    <3>4. HeadTime(g) <= HeadTime(f) BY <2>8, <3>1, <3>3 DEF IsNext
    <3>5. next[f] \in 1 .. N /\ HeadTime(f) = NewTs(next[f], f)
      BY <1>1, <2>8, HeadIs DEF N
    <3>6. deadline # NoLimit /\ HeadTime(g) > deadline BY <3>2 DEF PastDeadline
    <3>7. deadline \in Nat
      <4>1. deadline \in 0 .. 2 * MaxTime /\ MaxTime \in Nat
        BY <1>1, <3>6, ReplayerAssumption DEF TypeOK, Limit
      <4> QED BY <4>1
    <3>8. t[next[f]] > deadline BY <2>4, <3>3, <3>4, <3>5, <3>6, <3>7
    <3>9. t[next[f]] \in Nat BY <2>4, <3>3, <3>5
    <3>10. \A n \in E : n < next[f]
      <4> SUFFICES ASSUME NEW n \in E, ~(n < next[f]) PROVE FALSE OBVIOUS
      <4>1. n \in 1 .. N BY <2>4, <2>5
      <4>2. next[f] \in 1 .. n BY <2>4, <2>6, <4>1
      <4>3. t[next[f]] <= deadline BY <2>5, <3>6, <4>2
      <4> QED BY <3>7, <3>8, <3>9, <4>3
    <3>11. \A n \in E : n \in 1 .. next[f] - 1
      <4> TAKE n \in E
      <4>1. n \in 1 .. N BY <2>4, <2>5
      <4> QED BY <2>4, <2>6, <3>10, <4>1
    <3> QED BY <2>1, <2>3, <3>11 DEF E, K
  <2> QED BY <2>7, <2>8
<1> QED BY <1>1, <1>2, FinishKeeps

LEMMA InterruptKeeps == Inv /\ Interrupt => Inv'
<1> SUFFICES ASSUME Inv, Interrupt PROVE Inv' OBVIOUS
<1>1. Writing /\ LogFinish("interrupted") /\ "interrupted" # "completed"
  BY DEF Interrupt, Writing
<1> QED BY <1>1, FinishKeeps

LEMMA TickKeeps == Inv /\ Tick => Inv'
<1> SUFFICES ASSUME Inv, Tick PROVE Inv' OBVIOUS
<1>a. /\ now' = now + 1 /\ now < MaxTime
      /\ UNCHANGED <<out, runsCsv, rewrite, pc, scenario, anchor, deadline, opened, next,
                     row, history, lost, wiped>>
  BY DEF Tick, process
<1>b. now \in Nat /\ now <= MaxTime /\ MaxTime \in Nat /\ anchor \in Nat
  BY Clocks DEF Inv
<1>1. TypeOK'
  <2>1. now' \in 0 .. MaxTime BY <1>a, <1>b
  <2> QED BY <1>a, <2>1 DEF TypeOK, Inv
<1>2. Bounded' BY <1>a, FilesStay DEF Bounded, Inv
<1>c. ThisRun' = ThisRun BY <1>a DEF ThisRun
<1>3. Going' BY <1>a, <1>c, FilesStay DEF Going, Inv, Writing
<1>4. HeadersKept'
  <2>1. \A f \in FileSet : IsNext(f)' = IsNext(f)
    BY <1>a DEF IsNext, Remaining, HeadTime, NewTs
  <2>2. opened \subseteq FileSet BY DEF Inv, TypeOK
  <2> QED BY <1>a, <2>1, <2>2 DEF HeadersKept, Inv
<1>5. ClockKept'
  <2>1. ASSUME NEW f \in FileSet, NEW n \in Positions(f) PROVE out[f][n].ts <= now + 1
    <3>1. out[f][n].ts \in Int BY <2>1, LineIs DEF Inv
    <3>2. out[f][n].ts <= now BY DEF ClockKept, Inv
    <3> QED BY <1>b, <3>1, <3>2
  <2>2. anchor <= now + 1
    <3>1. anchor <= now BY DEF ClockKept, Inv
    <3> QED BY <1>b, <3>1
  <2> QED BY <1>a, <2>1, <2>2, FilesStay DEF ClockKept, Inv, Writing
<1>6. LogKept' BY <1>a, <1>c DEF LogKept, LastRow, Inv, Writing, Saving
<1>7. HeaderComesFirst' /\ NothingIsLost' BY <1>a, FilesStay
<1>8. OneTimeAxis' BY <1>a DEF OneTimeAxis, Inv, Remaining, HeadTime, NewTs
<1> QED BY <1>1, <1>2, <1>3, <1>4, <1>5, <1>6, <1>7, <1>8 DEF Inv

LEMMA KillKeeps == Inv /\ Kill => Inv'
<1> SUFFICES ASSUME Inv, Kill PROVE Inv' OBVIOUS
<1>a. /\ pc' = "off" /\ rewrite' = <<>> /\ scenario' = "" /\ anchor' = 0
      /\ deadline' = NoLimit /\ opened' = {} /\ next' = [f \in FileSet |-> 1] /\ row' = 0
      /\ UNCHANGED <<now, out, runsCsv, history, wiped>>
      /\ lost' = IF rewrite = <<>> THEN lost ELSE Len(history)
  BY DEF Kill, Off
<1>b. now \in Nat /\ MaxTime \in Nat BY Clocks DEF Inv
<1>c. Len(history) \in Nat /\ lost \in 0 .. Len(history) BY Clocks DEF Inv
<1>1. TypeOK'
  <2>1. <<>> \in Seq(Row) /\ {} \subseteq FileSet OBVIOUS
  <2>2. anchor' \in 0 .. MaxTime /\ deadline' \in Limit
    <3>3. anchor' = 0 BY <1>a
    <3>1. anchor' = 0 /\ 0 \in 0 .. MaxTime BY <1>b, <3>3
    <3>2. deadline' = NoLimit BY <1>a
    <3> QED BY <3>1, <3>2 DEF Limit
  <2>3. next' \in [FileSet -> Nat \ {0}]
    <3>1. 1 \in Nat \ {0} OBVIOUS
    <3> QED BY <1>a, <3>1
  <2>4. lost' \in 0 .. Len(history')
    <3>1. history' = history /\ lost' \in {lost, Len(history)} BY <1>a
    <3> QED BY <1>c, <3>1
  <2> QED BY <1>a, <2>1, <2>2, <2>3, <2>4 DEF TypeOK, Inv
<1>2. Bounded' BY <1>a, FilesStay DEF Bounded, Inv
<1>3. Going' BY <1>a DEF Going, Writing
<1>4. HeadersKept' BY <1>a DEF HeadersKept
<1>5. ClockKept'
  <2>1. anchor' <= now'
    <3>1. anchor' = 0 /\ now' = now BY <1>a
    <3> QED BY <1>b, <3>1
  <2> QED BY <1>a, <2>1, FilesStay DEF ClockKept, Inv, Writing
<1>6. LogKept'
  <2>1. CASE rewrite = <<>> BY <1>a, <2>1 DEF LogKept, Inv, Writing, Saving
  <2>2. CASE rewrite # <<>>
    <3>1. runsCsv = <<>> BY <2>2 DEF LogKept, Inv
    <3>2. RunsIn(<<>>) = <<>> BY NothingTold
    <3>3. Len(<<>>) = 0 /\ 1 .. Len(<<>>) = {} OBVIOUS
    <3>4. Tells(<<>>, history, Len(history)) BY <1>c, <3>2, <3>3 DEF Tells
    <3>5. Tells(runsCsv, history, lost)' BY <1>a, <2>2, <3>1, <3>4
    <3> QED BY <1>a, <3>5 DEF LogKept, Writing, Saving
  <2> QED BY <2>1, <2>2
<1>7. HeaderComesFirst' /\ NothingIsLost' BY <1>a, FilesStay
<1>8. OneTimeAxis' BY <1>a DEF OneTimeAxis
<1> QED BY <1>1, <1>2, <1>3, <1>4, <1>5, <1>6, <1>7, <1>8 DEF Inv

LEMMA WipeKeeps == ASSUME Inv, NEW f \in FileSet, Wipe(f) PROVE Inv'
<1>a. /\ pc = "wipe" /\ out' = [out EXCEPT ![f] = NoFile]
      /\ wiped' = [wiped EXCEPT ![f] = Len(history)]
      /\ UNCHANGED <<now, runsCsv, rewrite, pc, scenario, anchor, deadline, opened, next,
                     row, history, lost>>
  BY DEF Wipe, process
<1>b. /\ out \in [FileSet -> Seq(Line) \cup {NoFile}]
      /\ wiped \in [FileSet -> 0 .. MaxRuns]
  BY DEF Inv, TypeOK
<1>c. /\ out' \in [FileSet -> Seq(Line) \cup {NoFile}] /\ out'[f] = NoFile
      /\ \A g \in FileSet \ {f} : out'[g] = out[g]
  BY <1>a, <1>b
<1>d. Len(history) \in 0 .. MaxRuns
  <2>1. Len(history) \in Nat BY Clocks DEF Inv
  <2>2. Len(history) <= MaxRuns BY DEF Inv, Bounded
  <2> QED BY <2>1, <2>2, ReplayerAssumption
<1>e. /\ wiped' \in [FileSet -> 0 .. MaxRuns] /\ wiped'[f] = Len(history)
      /\ \A g \in FileSet \ {f} : wiped'[g] = wiped[g]
  BY <1>a, <1>b, <1>d
<1>f. /\ Positions(f)' = {} /\ \A g \in FileSet \ {f} : Positions(g)' = Positions(g)
  BY <1>c DEF Positions
<1>g. /\ \A k : LinesOf(f, k)' = <<>>
      /\ \A g \in FileSet \ {f} : \A k : LinesOf(g, k)' = LinesOf(g, k)
  BY <1>c DEF LinesOf
<1>1. TypeOK' BY <1>a, <1>c, <1>e DEF TypeOK, Inv
<1>2. Bounded'
  <2>1. \A g \in FileSet : wiped'[g] <= Len(history)
    <3> TAKE g \in FileSet
    <3>1. CASE g = f BY <1>d, <1>e, <3>1
    <3>2. CASE g # f BY <1>e, <3>2 DEF Inv, Bounded
    <3> QED BY <3>1, <3>2
  <2>2. \A g \in FileSet : \A n \in Positions(g)' : out'[g][n].run <= Len(history)
    <3> TAKE g \in FileSet
    <3>1. CASE g = f BY <1>f, <3>1
    <3>2. CASE g # f BY <1>c, <1>f, <3>2 DEF Inv, Bounded
    <3> QED BY <3>1, <3>2
  <2> QED BY <1>a, <2>1, <2>2 DEF Bounded, Inv
<1>3. Going' BY <1>a DEF Going, Inv, Writing
<1>4. HeadersKept' BY <1>a DEF HeadersKept, Going, Inv, Writing
<1>5. ClockKept'
  <2>1. \A g \in FileSet : \A n \in Positions(g)' : out'[g][n].ts <= now
    <3> TAKE g \in FileSet
    <3>1. CASE g = f BY <1>f, <3>1
    <3>2. CASE g # f BY <1>c, <1>f, <3>2 DEF Inv, ClockKept
    <3> QED BY <3>1, <3>2
  <2>2. \A g \in FileSet : \A m, n \in Positions(g)' :
          m < n /\ (out'[g][m].run < out'[g][n].run \/ g \in CsvFiles) =>
            out'[g][m].ts <= out'[g][n].ts
    <3> TAKE g \in FileSet
    <3>1. CASE g = f BY <1>f, <3>1
    <3>2. CASE g # f BY <1>c, <1>f, <3>2 DEF Inv, ClockKept
    <3> QED BY <3>1, <3>2
  <2>3. anchor <= now BY DEF Inv, ClockKept
  <2> QED BY <1>a, <2>1, <2>2, <2>3 DEF ClockKept, Writing
<1>6. LogKept' BY <1>a DEF LogKept, Inv, Writing, Saving
<1>7. HeaderComesFirst' BY <1>c DEF HeaderComesFirst, Inv
<1>8. NothingIsLost'
  <2> SUFFICES ASSUME NEW g \in FileSet, NEW k \in 1 .. Len(history)
      PROVE  /\ AsRecorded(LinesOf(g, k)', history[k], g)
             /\ history[k].status = "completed" /\ k > wiped'[g] =>
                  1 .. Len(LinesOf(g, k)') = Expected(history[k], g)
    BY <1>a DEF NothingIsLost
  <2>1. CASE g # f
    <3>1. LinesOf(g, k)' = LinesOf(g, k) /\ wiped'[g] = wiped[g] BY <1>e, <1>g, <2>1
    <3> QED BY <3>1 DEF Inv, NothingIsLost
  <2>2. CASE g = f
    <3>1. LinesOf(g, k)' = <<>> /\ wiped'[g] = Len(history) BY <1>e, <1>g, <2>2
    <3>2. 1 .. Len(<<>>) = {} OBVIOUS
    <3>3. ~(k > Len(history)) BY <1>d
    <3> QED BY <3>1, <3>2, <3>3 DEF AsRecorded
  <2> QED BY <2>1, <2>2
<1>9. OneTimeAxis' BY <1>a DEF OneTimeAxis
<1> QED BY <1>1, <1>2, <1>3, <1>4, <1>5, <1>6, <1>7, <1>8, <1>9 DEF Inv

(* The rows are written: of a reset, or of the run that begins. *)
ResetSaved == LogSaved /\ pc = "log reset"
StartSaved == LogSaved /\ pc = "log start"

LEMMA ResetSavedKeeps == Inv /\ ResetSaved => Inv'
<1> SUFFICES ASSUME Inv, ResetSaved PROVE Inv' OBVIOUS
<1>a. /\ pc = "log reset" /\ pc' = "begin" /\ runsCsv' = rewrite /\ rewrite' = <<>>
      /\ UNCHANGED <<now, out, scenario, anchor, deadline, opened, next, row, history,
                     lost, wiped>>
  BY DEF ResetSaved, LogSaved, process
<1>1. TypeOK'
  <2>1. <<>> \in Seq(Row) BY NothingTold
  <2> QED BY <1>a, <2>1 DEF TypeOK, Inv
<1>2. Bounded' BY <1>a, FilesStay DEF Bounded, Inv
<1>3. Going' BY <1>a DEF Going, Inv, Writing
<1>4. HeadersKept' BY <1>a DEF HeadersKept, Inv
<1>5. ClockKept' BY <1>a, FilesStay DEF ClockKept, Inv, Writing
<1>6. LogKept' BY <1>a DEF LogKept, Inv, Writing, Saving
<1>7. HeaderComesFirst' /\ NothingIsLost' BY <1>a, FilesStay
<1>8. OneTimeAxis' BY <1>a DEF OneTimeAxis
<1> QED BY <1>1, <1>2, <1>3, <1>4, <1>5, <1>6, <1>7, <1>8 DEF Inv

LEMMA StartSavedKeeps == Inv /\ StartSaved => Inv'
<1> SUFFICES ASSUME Inv, StartSaved PROVE Inv' OBVIOUS
<1> DEFINE K == Len(history) + 1
<1>a. /\ pc = "log start" /\ pc' = "replay" /\ runsCsv' = rewrite /\ rewrite' = <<>>
      /\ history' = Append(history, ThisRun)
      /\ UNCHANGED <<now, out, scenario, anchor, deadline, opened, next, row, lost, wiped>>
  BY DEF StartSaved, LogSaved, process, ThisRun
<1>b. /\ Len(history) \in Nat /\ lost \in 0 .. Len(history)
  BY Clocks DEF Inv
<1>c. ThisRun \in Run /\ ThisRun.status = "running" /\ history \in Seq(Run)
  <2>1. scenario \in Scenarios BY <1>a DEF Inv, Going
  <2> QED BY <2>1 DEF Inv, TypeOK, ThisRun, Run, Status
<1>d. /\ history' \in Seq(Run) /\ Len(history') = K /\ history'[K] = ThisRun
      /\ \A k \in 1 .. Len(history) : history'[k] = history[k]
  BY <1>a, <1>c, NotEmpty
<1>e. LastRow(rewrite) /\ rewrite \in Seq(Row) BY <1>a DEF Inv, LogKept, TypeOK
<1>f. opened = {} /\ next = [f \in FileSet |-> 1] BY <1>a DEF Inv, Going, Writing
<1>g. \A f \in FileSet : LinesOf(f, K) = <<>>
  <2> TAKE f \in FileSet
  <2>1. CASE out[f] = NoFile BY <2>1 DEF LinesOf
  <2>2. CASE out[f] # NoFile
    <3>1. \A n \in 1 .. Len(out[f]) : out[f][n].run <= Len(history)
      BY <2>2 DEF Inv, Bounded, Positions
    <3>2. \A n \in 1 .. Len(out[f]) : out[f][n].run # K
      <4> TAKE n \in 1 .. Len(out[f])
      <4>1. out[f][n].run <= Len(history) BY <3>1
      <4> QED BY <1>b, <4>1
    <3>3. OfRun(out[f], K) = <<>> BY <3>2, OfRunNone
    <3> QED BY <2>2, <3>3 DEF LinesOf
  <2> QED BY <2>1, <2>2
<1>h. ThisRun' = ThisRun BY <1>a DEF ThisRun
<1> HIDE DEF K
<1>1. TypeOK'
  <2>1. <<>> \in Seq(Row) BY NothingTold
  <2>2. row \in 1 .. Len(rewrite)
    <3>1. Len(rewrite) \in Nat BY <1>e
    <3> QED BY <1>e, <3>1 DEF LastRow
  <2>3. lost' \in 0 .. Len(history')
    <3>1. lost' = lost /\ Len(history') = Len(history) + 1 BY <1>a, <1>d DEF K
    <3> QED BY <1>b, <3>1
  <2> QED BY <1>a, <1>d, <1>e, <2>1, <2>2, <2>3 DEF TypeOK, Inv
<1>2. Bounded'
  <2>1. Len(history') <= MaxRuns
    <3>1. Len(history) < MaxRuns BY <1>a DEF Inv, Bounded
    <3> QED BY <1>b, <1>d, <3>1, ReplayerAssumption DEF K
  <2>2. \A f \in FileSet : wiped[f] <= K
    <3> TAKE f \in FileSet
    <3>1. wiped[f] <= Len(history) BY DEF Inv, Bounded
    <3>2. wiped[f] \in 0 .. MaxRuns BY DEF Inv, TypeOK
    <3>3. wiped[f] \in Int BY <3>2, ReplayerAssumption
    <3> QED BY <1>b, <3>1, <3>3 DEF K
  <2>3. \A f \in FileSet : \A n \in Positions(f) : out[f][n].run <= K
    <3> SUFFICES ASSUME NEW f \in FileSet, NEW n \in Positions(f)
        PROVE  out[f][n].run <= K
      OBVIOUS
    <3>1. out[f][n].run <= Len(history) BY DEF Inv, Bounded
    <3>2. out[f][n].run \in Int BY LineIs DEF Inv
    <3> QED BY <1>b, <3>1, <3>2 DEF K
  <2> QED BY <1>a, <1>d, <2>1, <2>2, <2>3, FilesStay DEF Bounded
<1>3. Going'
  <2>1. scenario \in Scenarios BY <1>a DEF Inv, Going
  <2>3. \A f \in FileSet : (Len(LinesOf(f, Len(history))) = next[f] - 1)'
    <3> TAKE f \in FileSet
    <3>1. LinesOf(f, Len(history))' = LinesOf(f, K) BY <1>a, <1>d DEF LinesOf
    <3>2. Len(<<>>) = 0 /\ next'[f] = 1 BY <1>a, <1>f
    <3> QED BY <1>g, <3>1, <3>2
  <2>4. Len(history') > 0 /\ history'[Len(history')] = ThisRun
    BY <1>b, <1>d DEF K
  <2> QED BY <1>a, <1>h, <2>1, <2>3, <2>4 DEF Going, Writing
<1>4. HeadersKept' BY <1>a, <1>f DEF HeadersKept
<1>5. ClockKept' BY <1>a, FilesStay DEF ClockKept, Inv, Writing
<1>6. LogKept'
  <2>1. LastRow(runsCsv)' BY <1>a, <1>e DEF LastRow
  <2>2. Tells(runsCsv, history, lost)' BY <1>a DEF Inv, LogKept
  <2> QED BY <1>a, <2>1, <2>2 DEF LogKept, Writing, Saving
<1>7. HeaderComesFirst' BY <1>a, FilesStay
<1>8. NothingIsLost'
  <2> SUFFICES ASSUME NEW f \in FileSet, NEW k \in 1 .. K
      PROVE  /\ AsRecorded(LinesOf(f, k), history'[k], f)
             /\ history'[k].status = "completed" /\ k > wiped[f] =>
                  1 .. Len(LinesOf(f, k)) = Expected(history'[k], f)
    BY <1>a, <1>d, FilesStay DEF NothingIsLost
  <2>1. CASE k = K
    <3>1. LinesOf(f, k) = <<>> /\ history'[k].status = "running"
      BY <1>c, <1>d, <1>g, <2>1
    <3>2. 1 .. Len(<<>>) = {} OBVIOUS
    <3> QED BY <3>1, <3>2 DEF AsRecorded
  <2>2. CASE k # K
    <3>1. k \in 1 .. Len(history) BY <1>b, <2>2 DEF K
    <3> QED BY <1>d, <3>1 DEF Inv, NothingIsLost
  <2> QED BY <2>1, <2>2
<1>9. OneTimeAxis'
  <2>1. \A f \in FileSet : 1 .. next'[f] - 1 = {}
    <3> TAKE f \in FileSet
    <3>1. next'[f] = 1 BY <1>a, <1>f
    <3> QED BY <3>1
  <2> QED BY <2>1, ReplayerAssumption DEF OneTimeAxis
<1> QED BY <1>1, <1>2, <1>3, <1>4, <1>5, <1>6, <1>7, <1>8, <1>9 DEF Inv

LEMMA FinishedKeeps == Inv /\ Finished => Inv'
<1> SUFFICES ASSUME Inv, Finished PROVE Inv' OBVIOUS
<1> DEFINE K == Len(history)
           status == rewrite[row].status
<1>a. /\ pc = "log finish" /\ pc' = "off" /\ runsCsv' = rewrite /\ rewrite' = <<>>
      /\ history' = [history EXCEPT ![K].status = status]
      /\ scenario' = "" /\ deadline' = NoLimit
      /\ opened' = {} /\ next' = [f \in FileSet |-> 1]
      /\ UNCHANGED <<now, out, lost, wiped>>
  BY DEF Finished, Off
<1>a2. anchor' = 0 /\ row' = 0 BY DEF Finished, Off
<1>b. K \in Nat /\ lost \in 0 .. K BY Clocks DEF Inv
<1>c. status \in {"completed", "interrupted"}
      /\ Tells(rewrite, [history EXCEPT ![K].status = status], lost)
  BY <1>a DEF Inv, LogKept
<1>d. history \in Seq(Run) /\ K > 0 /\ history[K] = ThisRun
  BY <1>a DEF Inv, Going, TypeOK
<1> HIDE DEF K, status
<1>e. K \in 1 .. Len(history) /\ history[K] \in Run BY <1>b, <1>d DEF K
<1>f. /\ history' \in Seq(Run) /\ Len(history') = K
      /\ \A k \in 1 .. K : k # K => history'[k] = history[k]
      /\ history'[K] = [history[K] EXCEPT !.status = status]
  <2> DEFINE q == [history[K] EXCEPT !.status = status]
  <2>1. q \in Run BY <1>c, <1>e DEF Run, Status
  <2>2. history' = [history EXCEPT ![K] = q] BY <1>a
  <2> HIDE DEF q
  <2>3. /\ history' \in Seq(Run) /\ Len(history') = K /\ history'[K] = q
        /\ \A k \in 1 .. K : k # K => history'[k] = history[k]
    BY <1>d, <1>e, <2>1, <2>2 DEF K
  <2> QED BY <2>3 DEF q
<1>g. /\ history'[K].scenario = scenario /\ history'[K].anchor = anchor
      /\ history'[K].deadline = deadline /\ history'[K].status = status
  BY <1>d, <1>e, <1>f DEF ThisRun, Run
<1>1. TypeOK'
  <2>1. <<>> \in Seq(Row) BY NothingTold
  <2>2. 0 \in 0 .. MaxTime BY Clocks DEF Inv
  <2>3. anchor' \in 0 .. MaxTime BY <1>a2, <2>2
  <2>4. next' \in [FileSet -> Nat \ {0}]
    <3>1. 1 \in Nat \ {0} OBVIOUS
    <3> QED BY <1>a, <3>1
  <2>5. lost' \in 0 .. Len(history') BY <1>a, <1>b, <1>f
  <2>6. row' \in Nat BY <1>a2
  <2>7. deadline' \in Limit BY <1>a DEF Limit
  <2> QED BY <1>a, <1>f, <2>1, <2>3, <2>4, <2>5, <2>6, <2>7 DEF TypeOK, Inv
<1>2. Bounded' BY <1>a, <1>f, FilesStay DEF Bounded, Inv, K
<1>3. Going' BY <1>a DEF Going, Writing
<1>4. HeadersKept' BY <1>a DEF HeadersKept
<1>5. ClockKept'
  <2>1. anchor' <= now'
    <3>1. now' = now BY <1>a
    <3>2. now \in Nat BY Clocks DEF Inv
    <3> QED BY <1>a2, <3>1, <3>2
  <2> QED BY <1>a, <2>1, FilesStay DEF ClockKept, Inv, Writing
<1>6. LogKept'
  <2>1. Tells(runsCsv, history, lost)' BY <1>a, <1>c
  <2> QED BY <1>a, <2>1 DEF LogKept, Writing, Saving
<1>7. HeaderComesFirst' BY <1>a, FilesStay
<1>8. NothingIsLost'
  <2> SUFFICES ASSUME NEW f \in FileSet, NEW k \in 1 .. K
      PROVE  /\ AsRecorded(LinesOf(f, k), history'[k], f)
             /\ history'[k].status = "completed" /\ k > wiped[f] =>
                  1 .. Len(LinesOf(f, k)) = Expected(history'[k], f)
    <3>1. Len(history') = K BY <1>f
    <3>2. wiped' = wiped BY <1>a
    <3>3. \A f \in FileSet : \A k : LinesOf(f, k)' = LinesOf(f, k) BY <1>a, FilesStay
    <3> QED BY <3>1, <3>2, <3>3 DEF NothingIsLost
  <2>1. CASE k # K BY <1>f, <2>1 DEF Inv, NothingIsLost, K
  <2>2. CASE k = K
    <3>1. AsRecorded(LinesOf(f, k), ThisRun, f)
      BY <1>d, <1>e, <2>2 DEF Inv, NothingIsLost
    <3>2. Times(history'[K], f) = Times(ThisRun, f)
      BY <1>g DEF Times, ThisRun
    <3>3. Expected(history'[K], f) = Expected(ThisRun, f)
      BY <1>g, <3>2 DEF Expected, ThisRun
    <3>4. AsRecorded(LinesOf(f, k), history'[K], f)
      BY <3>1, <3>2, <3>3 DEF AsRecorded
    <3>5. status = "completed" => 1 .. Len(LinesOf(f, k)) = Expected(ThisRun, f)
      BY <1>a, <2>2 DEF Inv, Going, K, status
    <3> QED BY <1>g, <2>2, <3>3, <3>4, <3>5
  <2> QED BY <2>1, <2>2
<1>9. OneTimeAxis' BY <1>a DEF OneTimeAxis
<1> QED BY <1>1, <1>2, <1>3, <1>4, <1>5, <1>6, <1>7, <1>8, <1>9 DEF Inv

-----------------------------------------------------------------------------
(* The steps that write.                                                   *)
LEMMA HeadsStay ==
  ASSUME UNCHANGED <<scenario, anchor, next>>
  PROVE  /\ Remaining' = Remaining
         /\ \A f \in FileSet : IsNext(f)' = IsNext(f) /\ HeadTime(f)' = HeadTime(f)
         /\ \A f \in FileSet : \A n : NewTs(n, f)' = NewTs(n, f)
<1>1. \A f \in FileSet : \A n : NewTs(n, f)' = NewTs(n, f) BY DEF NewTs
<1>2. \A f \in FileSet : HeadTime(f)' = HeadTime(f) BY DEF HeadTime, NewTs
<1>3. Remaining' = Remaining BY DEF Remaining
<1>4. \A f \in FileSet : f \in Remaining => f \in FileSet OBVIOUS
<1>5. \A f \in Remaining : f \in FileSet BY DEF Remaining
<1>6. \A f \in FileSet : IsNext(f)' = IsNext(f)
  BY <1>2, <1>3, <1>5 DEF IsNext
<1> QED BY <1>1, <1>2, <1>3, <1>6

LEMMA OpenKeeps == ASSUME Inv, NEW f \in FileSet, Open(f) PROVE Inv'
<1>a. /\ pc = "replay" /\ pc' \in {"header", "replay"}
      /\ pc' = "header" <=> f \in CsvFiles /\ Fresh(f)
      /\ opened' = opened \cup {f} /\ f \notin opened /\ IsNext(f)
      /\ out' = [out EXCEPT ![f] = IF @ = NoFile THEN <<>> ELSE @]
      /\ UNCHANGED <<now, runsCsv, rewrite, scenario, anchor, deadline, next, row, history,
                     lost, wiped>>
  BY DEF Open, Due
<1>b. out \in [FileSet -> Seq(Line) \cup {NoFile}] BY DEF Inv, TypeOK
<1>c. /\ out' \in [FileSet -> Seq(Line) \cup {NoFile}]
      /\ \A g \in FileSet \ {f} : out'[g] = out[g]
      /\ out'[f] = IF out[f] = NoFile THEN <<>> ELSE out[f]
  <2>1. <<>> \in Seq(Line) BY NothingTold
  <2> QED BY <1>a, <1>b, <2>1
<1>d. <<>> # NoFile
  <2>1. <<>> \in Seq([run : Nat, at : Nat, ts : Nat]) BY NothingTold
  <2> QED BY <2>1, ReplayerAssumption
<1>e. 1 .. Len(<<>>) = {} /\ \A k : OfRun(<<>>, k) = <<>>
  <2>1. 1 .. Len(<<>>) = {} OBVIOUS
  <2> QED BY <2>1, OfRunNone
<1>f. \A g \in FileSet : Positions(g)' = Positions(g)
  <2> TAKE g \in FileSet
  <2>1. CASE g # f BY <1>c, <2>1 DEF Positions
  <2>2. CASE g = f BY <1>c, <1>d, <1>e, <2>2 DEF Positions
  <2> QED BY <2>1, <2>2
<1>g. \A g \in FileSet : \A k : LinesOf(g, k)' = LinesOf(g, k)
  <2> TAKE g \in FileSet
  <2> TAKE k
  <2>1. CASE g # f BY <1>c, <2>1 DEF LinesOf
  <2>2. CASE g = f BY <1>c, <1>d, <1>e, <2>2 DEF LinesOf
  <2> QED BY <2>1, <2>2
<1>h. \A g \in FileSet : \A n \in Positions(g) : out'[g][n] = out[g][n]
  BY <1>c DEF Positions
<1>i. TypeOK /\ scenario \in Scenarios BY <1>a DEF Inv, Going
<1>1. TypeOK'
  <2>1. opened' \subseteq FileSet BY <1>a DEF Inv, TypeOK
  <2>2. row \in Nat /\ row \in 1 .. Len(runsCsv) BY <1>a DEF Inv, TypeOK
  <2> QED BY <1>a, <1>c, <2>1, <2>2 DEF TypeOK, Inv
<1>2. Bounded'
  <2>1. \A g \in FileSet : \A n \in Positions(g)' : out'[g][n].run <= Len(history)
    BY <1>f, <1>h DEF Bounded, Inv
  <2>2. history' = history /\ wiped' = wiped BY <1>a
  <2>3. pc' \notin {"wipe", "log reset", "begin", "log start"} BY <1>a
  <2> QED BY <2>1, <2>2, <2>3 DEF Bounded, Inv
<1>3. Going'
  <2>1. ThisRun' = ThisRun BY <1>a DEF ThisRun
  <2>2. \A g \in FileSet : (Len(LinesOf(g, Len(history))) = next[g] - 1)'
    <3> TAKE g \in FileSet
    <3>1. LinesOf(g, Len(history))' = LinesOf(g, Len(history))
      <4>1. Len(history)' = Len(history) BY <1>a
      <4> QED BY <1>g, <4>1 DEF LinesOf
    <3> QED BY <1>a, <3>1 DEF Inv, Going, Writing
  <2> QED BY <1>a, <2>1, <2>2 DEF Going, Inv, Writing
<1>4. HeadersKept'
  <2>1. \A g \in opened : g \in FileSet /\ g # f BY <1>a DEF Inv, TypeOK
  <2>2. \A g \in opened' : out'[g] # NoFile
    BY <1>a, <1>c, <1>d, <2>1 DEF Inv, HeadersKept
  <2>3. \A g \in opened : g \in CsvFiles => out'[g] # <<>>
    BY <1>a, <1>c, <2>1 DEF Inv, HeadersKept
  <2>4. CASE pc' = "header"
    <3>1. f \in CsvFiles /\ out'[f] = <<>> BY <1>a, <1>c, <2>4 DEF Fresh
    <3>2. \A g \in FileSet : IsNext(g)' => g = f
      BY <1>a, <1>i, HeadsStay, OneIsNext
    <3>3. IsNext(f)' BY <1>a, HeadsStay
    <3>4. \A g \in FileSet :
            IsNext(g)' => g \in opened' \cap CsvFiles /\ out'[g] = <<>>
      BY <1>a, <3>1, <3>2
    <3>5. \A g \in opened' \cap CsvFiles : out'[g] = <<>> => IsNext(g)'
      BY <1>a, <2>3, <3>3
    <3> QED BY <2>2, <2>4, <3>4, <3>5 DEF HeadersKept
  <2>5. CASE pc' = "replay"
    <3>1. f \in CsvFiles => out'[f] # <<>> BY <1>a, <1>c, <2>5 DEF Fresh
    <3> QED BY <1>a, <2>2, <2>3, <2>5, <3>1 DEF HeadersKept
  <2> QED BY <1>a, <2>4, <2>5
<1>5. ClockKept'
  <2>1. \A g \in FileSet : \A n \in Positions(g)' :
          /\ out'[g][n].ts <= now
          /\ out'[g][n].run < Len(history) => out'[g][n].ts <= anchor
    BY <1>a, <1>f, <1>h DEF Inv, ClockKept, Writing
  <2>2. \A g \in FileSet : \A m, n \in Positions(g)' :
          m < n /\ (out'[g][m].run < out'[g][n].run \/ g \in CsvFiles) =>
            out'[g][m].ts <= out'[g][n].ts
    BY <1>f, <1>h DEF Inv, ClockKept
  <2>3. anchor <= now /\ pc' # "log start" BY <1>a DEF Inv, ClockKept
  <2>4. UNCHANGED <<now, anchor, history>> BY <1>a
  <2> QED BY <2>1, <2>2, <2>3, <2>4 DEF ClockKept
<1>6. LogKept' BY <1>a DEF LogKept, LastRow, Inv, Writing, Saving
<1>7. HeaderComesFirst'
  <2> SUFFICES ASSUME NEW g \in FileSet, out'[g] # NoFile, NEW n \in 1 .. Len(out'[g])
      PROVE  (out'[g][n] = HeaderLine) = (g \in CsvFiles /\ n = 1)
    BY DEF HeaderComesFirst
  <2>1. n \in Positions(g)'  BY DEF Positions
  <2>2. n \in Positions(g) BY <1>f, <2>1
  <2>3. out[g] # NoFile /\ n \in 1 .. Len(out[g]) BY <2>2 DEF Positions
  <2> QED BY <1>h, <2>2, <2>3 DEF Inv, HeaderComesFirst
<1>8. NothingIsLost' BY <1>a, <1>g DEF NothingIsLost, Inv
<1>9. OneTimeAxis' BY <1>a, HeadsStay, ReplayerAssumption DEF OneTimeAxis, Inv
<1> QED BY <1>1, <1>2, <1>3, <1>4, <1>5, <1>6, <1>7, <1>8, <1>9 DEF Inv

(* The file f has grown by the line x, and the others are as before. *)
Grown(f, x) ==
  /\ out' \in [FileSet -> Seq(Line) \cup {NoFile}]
  /\ \A g \in FileSet \ {f} :
       /\ out'[g] = out[g] /\ Positions(g)' = Positions(g)
       /\ \A k : LinesOf(g, k)' = LinesOf(g, k)
  /\ out'[f] # NoFile /\ out'[f] # <<>>
  /\ Len(out[f]) \in Nat /\ Positions(f) = 1 .. Len(out[f])
  /\ Positions(f)' = 1 .. Len(out[f]) + 1 /\ Len(out'[f]) = Len(out[f]) + 1
  /\ \A n \in Positions(f) : out'[f][n] = out[f][n]
  /\ out'[f][Len(out[f]) + 1] = x
  /\ \A k : LinesOf(f, k)' = IF x.run = k THEN Append(LinesOf(f, k), x)
                             ELSE LinesOf(f, k)

LEMMA FileGrows ==
  ASSUME Inv, NEW f \in FileSet, NEW x \in Line, out[f] # NoFile,
         out' = [out EXCEPT ![f] = Append(@, x)]
  PROVE  Grown(f, x)
<1>1. out \in [FileSet -> Seq(Line) \cup {NoFile}] BY DEF Inv, TypeOK
<1>2. out[f] \in Seq(Line) BY <1>1
<1>3. /\ Append(out[f], x) \in Seq(Line) /\ Append(out[f], x) # <<>>
      /\ Len(Append(out[f], x)) = Len(out[f]) + 1 /\ Len(out[f]) \in Nat
      /\ Append(out[f], x)[Len(out[f]) + 1] = x
      /\ \A n \in 1 .. Len(out[f]) : Append(out[f], x)[n] = out[f][n]
  BY <1>2, NotEmpty
<1>4. /\ out' \in [FileSet -> Seq(Line) \cup {NoFile}]
      /\ \A g \in FileSet \ {f} : out'[g] = out[g]
      /\ out'[f] = Append(out[f], x)
  BY <1>1, <1>3
<1>5. out'[f] # NoFile
  <2>1. Line \subseteq [run : Nat, at : Nat, ts : Nat]
    <3>1. 0 .. MaxRuns \subseteq Nat /\ 0 .. 2 * MaxTime \subseteq Nat
      BY ReplayerAssumption
    <3> QED BY <3>1 DEF Line
  <2>2. out'[f] \in Seq(Line) BY <1>3, <1>4
  <2>3. out'[f] \in Seq([run : Nat, at : Nat, ts : Nat])
    BY <2>1, <2>2, SeqWidened
  <2> QED BY <2>3, ReplayerAssumption
<1>6. \A g \in FileSet \ {f} :
        Positions(g)' = Positions(g) /\ \A k : LinesOf(g, k)' = LinesOf(g, k)
  BY <1>4 DEF Positions, LinesOf
<1>7. /\ Positions(f) = 1 .. Len(out[f]) /\ Positions(f)' = 1 .. Len(out[f]) + 1
  BY <1>3, <1>4, <1>5 DEF Positions
<1>8. \A k : LinesOf(f, k)' = IF x.run = k THEN Append(LinesOf(f, k), x)
                              ELSE LinesOf(f, k)
  <2> TAKE k
  <2>1. OfRun(Append(out[f], x), k) = IF x.run = k THEN Append(OfRun(out[f], k), x)
                                      ELSE OfRun(out[f], k)
    BY <1>2, OfRunGrown
  <2>2. LinesOf(f, k)' = OfRun(Append(out[f], x), k) /\ LinesOf(f, k) = OfRun(out[f], k)
    BY <1>4, <1>5 DEF LinesOf
  <2> QED BY <2>1, <2>2
<1>9. /\ out'[f] # <<>> /\ Len(out'[f]) = Len(out[f]) + 1
      /\ out'[f][Len(out[f]) + 1] = x
      /\ \A n \in Positions(f) : out'[f][n] = out[f][n]
  BY <1>3, <1>4, <1>7
<1> QED BY <1>3, <1>4, <1>5, <1>6, <1>7, <1>8, <1>9 DEF Grown

LEMMA WriteHeaderKeeps == ASSUME Inv, NEW f \in FileSet, WriteHeader(f) PROVE Inv'
<1>a. /\ pc = "header" /\ pc' = "replay" /\ f \in opened /\ IsNext(f)
      /\ UNCHANGED <<now, runsCsv, rewrite, scenario, anchor, deadline, opened, next, row,
                     history, lost, wiped>>
  BY DEF WriteHeader, process
<1>b. f \in CsvFiles /\ out[f] = <<>> /\ out[f] # NoFile
  BY <1>a DEF Inv, HeadersKept
<1>c. TypeOK /\ scenario \in Scenarios BY <1>a DEF Inv, Going
<1>d. MaxTime \in Nat /\ now \in Nat /\ anchor \in Nat /\ Len(history) \in Nat
  BY Clocks DEF Inv
<1>e. /\ HeaderLine \in Line /\ HeaderLine.run = 0 /\ HeaderLine.ts = 0
  BY <1>d, ReplayerAssumption DEF HeaderLine, Line
<1>f. Grown(f, HeaderLine)
  <2>1. out' = [out EXCEPT ![f] = Append(@, HeaderLine)] BY DEF WriteHeader
  <2> QED BY <1>b, <1>e, <2>1, FileGrows
<1>g. Positions(f)' = {1} /\ out'[f][1] = HeaderLine /\ Len(out'[f]) = 1
  <2>1. Len(<<>>) = 0 OBVIOUS
  <2> QED BY <1>b, <1>f, <2>1 DEF Grown
<1>h. \A g \in FileSet, k \in 1 .. Len(history) : LinesOf(g, k)' = LinesOf(g, k)
  <2> TAKE g \in FileSet, k \in 1 .. Len(history)
  <2>1. HeaderLine.run # k BY <1>d, <1>e
  <2> QED BY <1>f, <2>1 DEF Grown
<1>i. \A g \in FileSet : g # f =>
        out'[g] = out[g] /\ Positions(g)' = Positions(g)
  BY <1>f DEF Grown
<1>1. TypeOK'
  <2>1. row \in 1 .. Len(runsCsv) BY <1>a DEF Inv, TypeOK
  <2>2. out' \in [FileSet -> Seq(Line) \cup {NoFile}] BY <1>f DEF Grown
  <2> QED BY <1>a, <2>1, <2>2 DEF TypeOK, Inv
<1>2. Bounded'
  <2>1. \A g \in FileSet : \A n \in Positions(g)' : out'[g][n].run <= Len(history)
    <3> TAKE g \in FileSet
    <3>1. CASE g = f
      <4>1. HeaderLine.run <= Len(history) BY <1>d, <1>e
      <4> QED BY <1>g, <3>1, <4>1
    <3>2. CASE g # f BY <1>i, <3>2 DEF Inv, Bounded
    <3> QED BY <3>1, <3>2
  <2>2. history' = history /\ wiped' = wiped BY <1>a
  <2>3. pc' \notin {"wipe", "log reset", "begin", "log start"} BY <1>a
  <2> QED BY <2>1, <2>2, <2>3 DEF Bounded, Inv
<1>3. Going'
  <2>1. ThisRun' = ThisRun BY <1>a DEF ThisRun
  <2>2. Len(history) \in 1 .. Len(history) BY <1>a, <1>d DEF Inv, Going, Writing
  <2>3. \A g \in FileSet : (Len(LinesOf(g, Len(history))) = next[g] - 1)'
    <3> TAKE g \in FileSet
    <3>1. LinesOf(g, Len(history))' = LinesOf(g, Len(history))
      <4>1. Len(history)' = Len(history) BY <1>a
      <4> QED BY <1>h, <2>2, <4>1 DEF LinesOf
    <3> QED BY <1>a, <3>1 DEF Inv, Going, Writing
  <2> QED BY <1>a, <2>1, <2>3 DEF Going, Inv, Writing
<1>4. HeadersKept'
  <2>1. opened \subseteq FileSet BY DEF Inv, TypeOK
  <2>2. \A g \in opened' : out'[g] # NoFile
    BY <1>a, <1>f, <1>i, <2>1 DEF Inv, HeadersKept, Grown
  <2>3. \A g \in opened' \cap CsvFiles : out'[g] # <<>>
    <3> TAKE g \in opened' \cap CsvFiles
    <3>1. CASE g = f BY <1>f, <3>1 DEF Grown
    <3>2. CASE g # f
      <4>1. g \in opened \cap CsvFiles /\ g \in FileSet BY <1>a, <2>1
      <4>2. out[g] = <<>> => IsNext(g) BY <1>a, <4>1 DEF Inv, HeadersKept
      <4>3. ~IsNext(g) BY <1>a, <1>c, <3>2, <4>1, OneIsNext
      <4> QED BY <1>i, <3>2, <4>1, <4>2, <4>3
    <3> QED BY <3>1, <3>2
  <2> QED BY <1>a, <2>2, <2>3 DEF HeadersKept
<1>5. ClockKept'
  <2>1. \A g \in FileSet : \A n \in Positions(g)' :
          /\ out'[g][n].ts <= now
          /\ out'[g][n].run < Len(history) => out'[g][n].ts <= anchor
    <3> TAKE g \in FileSet
    <3>1. CASE g = f
      <4>1. HeaderLine.ts <= now /\ HeaderLine.ts <= anchor BY <1>d, <1>e
      <4> QED BY <1>g, <3>1, <4>1
    <3>2. CASE g # f BY <1>a, <1>i, <3>2 DEF Inv, ClockKept, Writing
    <3> QED BY <3>1, <3>2
  <2>2. \A g \in FileSet : \A m, n \in Positions(g)' :
          m < n /\ (out'[g][m].run < out'[g][n].run \/ g \in CsvFiles) =>
            out'[g][m].ts <= out'[g][n].ts
    <3> TAKE g \in FileSet
    <3>1. CASE g = f BY <1>g, <3>1
    <3>2. CASE g # f BY <1>i, <3>2 DEF Inv, ClockKept
    <3> QED BY <3>1, <3>2
  <2>3. anchor <= now /\ pc' # "log start" BY <1>a DEF Inv, ClockKept
  <2>4. UNCHANGED <<now, anchor, history>> BY <1>a
  <2> QED BY <2>1, <2>2, <2>3, <2>4 DEF ClockKept
<1>6. LogKept' BY <1>a DEF LogKept, LastRow, Inv, Writing, Saving
<1>7. HeaderComesFirst'
  <2> SUFFICES ASSUME NEW g \in FileSet, out'[g] # NoFile, NEW n \in 1 .. Len(out'[g])
      PROVE  (out'[g][n] = HeaderLine) = (g \in CsvFiles /\ n = 1)
    BY DEF HeaderComesFirst
  <2>1. CASE g = f
    <3>1. n = 1
      <4>1. Len(out'[g]) = 1 BY <1>g, <2>1
      <4>2. n \in 1 .. 1 BY <4>1
      <4> QED BY <4>2
    <3> QED BY <1>b, <1>g, <2>1, <3>1
  <2>2. CASE g # f BY <1>i, <2>2 DEF Inv, HeaderComesFirst
  <2> QED BY <2>1, <2>2
<1>8. NothingIsLost' BY <1>a, <1>h DEF NothingIsLost, Inv
<1>9. OneTimeAxis' BY <1>a, HeadsStay, ReplayerAssumption DEF OneTimeAxis, Inv
<1> QED BY <1>1, <1>2, <1>3, <1>4, <1>5, <1>6, <1>7, <1>8, <1>9 DEF Inv

LEMMA WriteLineKeeps == ASSUME Inv, NEW f \in FileSet, WriteLine(f) PROVE Inv'
<1> DEFINE K == Len(history)
           x == [run |-> K, at |-> next[f], ts |-> HeadTime(f)]
           L == LinesOf(f, K)
           N == Len(Stream(scenario, f))
           t == Times(ThisRun, f)
<1>a. /\ pc = "replay" /\ pc' = "replay" /\ f \in opened /\ IsNext(f)
      /\ ~PastDeadline(f)
      /\ UNCHANGED <<now, runsCsv, rewrite, scenario, anchor, deadline, opened, row,
                     history, lost, wiped>>
  BY DEF WriteLine, Due
<1>b. TypeOK /\ scenario \in Scenarios BY <1>a DEF Inv, Going
<1>c. MaxTime \in Nat /\ now \in Nat /\ anchor \in Nat /\ K \in Nat
  BY Clocks DEF Inv
<1>d. f \in Remaining BY <1>a DEF IsNext
<1>e. /\ next[f] \in 1 .. N /\ Timely(f, next[f]) /\ HeadTime(f) = NewTs(next[f], f)
      /\ HeadTime(f) \in Nat
  BY <1>b, <1>d, HeadIs
<1>f. /\ N \in Nat /\ Len(t) = N /\ \A n \in 1 .. N : Timely(f, n)
  BY <1>b, NewTsIs
<1>g. K > 0 /\ history[K] = ThisRun /\ Len(L) = next[f] - 1
      /\ \A g \in FileSet : Len(LinesOf(g, K)) = next[g] - 1
  BY <1>a DEF Inv, Going, Writing
<1>h. HeadTime(f) <= now BY DEF WriteLine, Due
<1>i. /\ anchor <= HeadTime(f) /\ HeadTime(f) \in 0 .. 2 * MaxTime
      /\ \A n \in 1 .. N : t[n] = NewTs(n, f)
  BY <1>e, <1>f DEF Timely
<1>j. next \in [FileSet -> Nat \ {0}] BY <1>b DEF TypeOK
<1>k. /\ next' \in [FileSet -> Nat \ {0}] /\ next'[f] = next[f] + 1
      /\ \A g \in FileSet \ {f} : next'[g] = next[g]
  <2>1. next' = [next EXCEPT ![f] = next[f] + 1] BY DEF WriteLine
  <2>2. next[f] + 1 \in Nat \ {0} BY <1>j
  <2> QED BY <1>j, <2>1, <2>2
<1>l. x \in Line /\ x.run = K /\ x.at = next[f] /\ x.ts = HeadTime(f)
  <2>1. K <= MaxRuns BY DEF Inv, Bounded
  <2>2. K \in 0 .. MaxRuns BY <1>c, <2>1, ReplayerAssumption
  <2>3. next[f] \in Nat BY <1>j
  <2> HIDE DEF K
  <2> QED BY <1>i, <2>2, <2>3 DEF Line
<1>m. out[f] # NoFile BY <1>a DEF Inv, HeadersKept
<1>n. Grown(f, x)
  <2>1. out' = [out EXCEPT ![f] = Append(@, x)] BY DEF WriteLine
  <2> HIDE DEF x
  <2> QED BY <1>l, <1>m, <2>1, FileGrows
<1>o. /\ out[f] \in Seq(Line) /\ L = OfRun(out[f], K) /\ L \in Seq(Line)
      /\ \A i \in 1 .. Len(out[f]) :
           out[f][i].run = K => \E n \in 1 .. Len(L) : L[n] = out[f][i]
  <2>1. out[f] \in Seq(Line) BY <1>b, <1>m DEF TypeOK
  <2>2. L = OfRun(out[f], K) BY <1>m DEF LinesOf
  <2> HIDE DEF L, K
  <2> QED BY <2>1, <2>2, OfRunAre
<1>p. AsRecorded(L, ThisRun, f)
  <2>1. K \in 1 .. Len(history) BY <1>c, <1>g
  <2> QED BY <1>g, <2>1 DEF Inv, NothingIsLost
<1> HIDE DEF K, x, L, N, t
<1>q. \A g \in FileSet : g # f =>
        out'[g] = out[g] /\ Positions(g)' = Positions(g)
  BY <1>n DEF Grown
<1>r. \A n \in Positions(f)' : n \in Positions(f) \/ n = Len(out[f]) + 1
  BY <1>n DEF Grown
<1>s. /\ Len(out[f]) \in Nat /\ \A n \in Positions(f) : n \in 1 .. Len(out[f])
      /\ \A n \in Positions(f) : out'[f][n] = out[f][n]
      /\ out'[f][Len(out[f]) + 1] = x
  BY <1>n DEF Grown
<1>1. TypeOK'
  <2>1. row \in 1 .. Len(runsCsv) BY <1>a DEF Inv, TypeOK
  <2>2. out' \in [FileSet -> Seq(Line) \cup {NoFile}] BY <1>n DEF Grown
  <2> QED BY <1>a, <1>k, <2>1, <2>2 DEF TypeOK, Inv
<1>2. Bounded'
  <2>1. \A g \in FileSet : \A n \in Positions(g)' : out'[g][n].run <= K
    <3> SUFFICES ASSUME NEW g \in FileSet, NEW n \in Positions(g)'
        PROVE  out'[g][n].run <= K
      OBVIOUS
    <3>1. CASE g # f BY <1>q, <3>1 DEF Inv, Bounded, K
    <3>2. CASE g = f
      <4>1. CASE n \in Positions(f) BY <1>s, <3>2, <4>1 DEF Inv, Bounded, K
      <4>2. CASE n = Len(out[f]) + 1
        <5>1. out'[g][n] = x BY <1>s, <3>2, <4>2
        <5> QED BY <1>c, <1>l, <5>1
      <4> QED BY <1>r, <3>2, <4>1, <4>2
    <3> QED BY <3>1, <3>2
  <2>2. history' = history /\ wiped' = wiped BY <1>a
  <2>3. pc' \notin {"wipe", "log reset", "begin", "log start"} BY <1>a
  <2> QED BY <2>1, <2>2, <2>3 DEF Bounded, Inv, K
<1>3. Going'
  <2>1. ThisRun' = ThisRun BY <1>a DEF ThisRun
  <2>2. \A g \in FileSet : (Len(LinesOf(g, Len(history))) = next[g] - 1)'
    <3> SUFFICES ASSUME NEW g \in FileSet
        PROVE  Len(LinesOf(g, Len(history))') = next'[g] - 1
      OBVIOUS
    <3>1. CASE g # f
      <4>1. LinesOf(g, Len(history))' = LinesOf(g, Len(history))
        BY <1>a, <1>q, <3>1 DEF LinesOf
      <4> QED BY <1>g, <1>k, <3>1, <4>1 DEF K
    <3>2. CASE g = f
      <4>1. out'[f] = Append(out[f], x)
        <5>1. out' = [out EXCEPT ![f] = Append(@, x)] BY DEF WriteLine, x, K
        <5>2. out \in [FileSet -> Seq(Line) \cup {NoFile}] BY <1>b DEF TypeOK
        <5> QED BY <5>1, <5>2
      <4>2. OfRun(out'[f], K) = Append(L, x) BY <1>l, <1>o, <4>1, OfRunGrown
      <4>3. LinesOf(f, Len(history))' = Append(L, x)
        BY <1>a, <1>n, <4>2 DEF LinesOf, Grown, K
      <4>4. Len(Append(L, x)) = Len(L) + 1 BY <1>l, <1>o, NotEmpty
      <4> QED BY <1>e, <1>g, <1>k, <3>2, <4>3, <4>4
    <3> QED BY <3>1, <3>2
  <2> QED BY <1>a, <2>1, <2>2 DEF Going, Inv, Writing
<1>4. HeadersKept'
  <2>1. opened \subseteq FileSet BY DEF Inv, TypeOK
  <2>2. \A g \in opened : out'[g] # NoFile
    BY <1>n, <1>q, <2>1 DEF Inv, HeadersKept, Grown
  <2>3. \A g \in opened \cap CsvFiles : out'[g] # <<>>
    BY <1>a, <1>n, <1>q, <2>1 DEF Inv, HeadersKept, Grown
  <2> QED BY <1>a, <2>2, <2>3 DEF HeadersKept
<1>5. LogKept' BY <1>a DEF LogKept, LastRow, Inv, Writing, Saving
<1>6. NothingIsLost'
  <2> SUFFICES ASSUME NEW g \in FileSet, NEW k \in 1 .. K
      PROVE  /\ AsRecorded(LinesOf(g, k)', history[k], g)
             /\ history[k].status = "completed" /\ k > wiped[g] =>
                  1 .. Len(LinesOf(g, k)') = Expected(history[k], g)
    BY <1>a DEF NothingIsLost, K
  <2>1. CASE g # f \/ k # K
    <3>1. LinesOf(g, k)' = LinesOf(g, k) BY <1>l, <1>n, <2>1 DEF Grown
    <3> QED BY <3>1 DEF Inv, NothingIsLost, K
  <2>2. CASE g = f /\ k = K
    <3>1. LinesOf(g, k)' = Append(L, x) BY <1>l, <1>n, <2>2 DEF Grown, L
    <3>2. /\ Len(Append(L, x)) = Len(L) + 1 /\ Append(L, x)[Len(L) + 1] = x
          /\ \A n \in 1 .. Len(L) : Append(L, x)[n] = L[n]
      BY <1>l, <1>o, NotEmpty
    <3>3. /\ 1 .. Len(L) \subseteq Expected(ThisRun, f)
          /\ \A n \in 1 .. Len(L) : L[n].at = n /\ L[n].ts = t[n]
      BY <1>p DEF AsRecorded, t
    <3>4. Expected(ThisRun, f) =
            {n \in 1 .. N : \A m \in 1 .. n : deadline # NoLimit => t[m] <= deadline}
      BY <1>f DEF Expected, ThisRun, t
    <3>5. deadline # NoLimit => t[next[f]] <= deadline
      <4> SUFFICES ASSUME deadline # NoLimit PROVE t[next[f]] <= deadline OBVIOUS
      <4>1. ~(HeadTime(f) > deadline) BY <1>a DEF PastDeadline
      <4>2. deadline \in 0 .. 2 * MaxTime BY <1>b DEF TypeOK, Limit
      <4>3. deadline \in Nat BY <1>c, <4>2
      <4>4. t[next[f]] = HeadTime(f) BY <1>e, <1>i
      <4> QED BY <1>e, <4>1, <4>3, <4>4
    <3>6. next[f] \in Expected(ThisRun, f)
      <4>1. \A m \in 1 .. next[f] : deadline # NoLimit => t[m] <= deadline
        <5> TAKE m \in 1 .. next[f]
        <5>1. CASE m = next[f] BY <3>5, <5>1
        <5>2. CASE m # next[f]
          <6>1. m \in 1 .. Len(L) BY <1>e, <1>f, <1>g, <5>2
          <6>2. m \in Expected(ThisRun, f) /\ m \in 1 .. m BY <3>3, <6>1
          <6> QED BY <3>4, <6>2
        <5> QED BY <5>1, <5>2
      <4> QED BY <1>e, <3>4, <4>1
    <3>7. \A n \in 1 .. Len(L) + 1 : n \in 1 .. Len(L) \/ (n = next[f] /\ n = Len(L) + 1)
      BY <1>e, <1>f, <1>g
    <3>8. 1 .. Len(Append(L, x)) \subseteq Expected(ThisRun, f)
      BY <3>2, <3>3, <3>6, <3>7
    <3>9. \A n \in 1 .. Len(Append(L, x)) :
            Append(L, x)[n].at = n /\ Append(L, x)[n].ts = t[n]
      <4> SUFFICES ASSUME NEW n \in 1 .. Len(L) + 1
          PROVE  Append(L, x)[n].at = n /\ Append(L, x)[n].ts = t[n]
        BY <3>2
      <4>1. CASE n \in 1 .. Len(L) BY <3>2, <3>3, <4>1
      <4>2. CASE n = next[f] /\ n = Len(L) + 1
        <5>1. Append(L, x)[n] = x BY <3>2, <4>2
        <5>2. t[n] = HeadTime(f) BY <1>e, <1>i, <4>2
        <5> QED BY <1>l, <4>2, <5>1, <5>2
      <4> QED BY <3>7, <4>1, <4>2
    <3>10. AsRecorded(Append(L, x), ThisRun, f) BY <3>8, <3>9 DEF AsRecorded, t
    <3>11. history[k] = ThisRun /\ history[k].status # "completed"
      BY <1>g, <2>2 DEF ThisRun
    <3> QED BY <2>2, <3>1, <3>10, <3>11
  <2> QED BY <2>1, <2>2
<1>7. ClockKept'
  <2>1. ASSUME NEW g \in FileSet, NEW n \in Positions(g)'
        PROVE  /\ out'[g][n].ts <= now
               /\ out'[g][n].run < K => out'[g][n].ts <= anchor
    <3>1. CASE g = f /\ n = Len(out[f]) + 1
      <4>1. out'[g][n] = x BY <1>s, <3>1
      <4> QED BY <1>c, <1>h, <1>l, <4>1
    <3>2. CASE g # f \/ n \in Positions(f)
      <4>1. n \in Positions(g) /\ out'[g][n] = out[g][n] BY <1>q, <1>s, <2>1, <3>2
      <4> QED BY <1>a, <4>1 DEF Inv, ClockKept, Writing, K
    <3> QED BY <1>r, <2>1, <3>1, <3>2
  <2>2. ASSUME NEW m \in Positions(f),
               out[f][m].run < K \/ f \in CsvFiles
        PROVE  out[f][m].ts <= HeadTime(f)
    <3>1. /\ out[f][m].run \in Nat /\ out[f][m].ts \in Nat
          /\ out[f][m].run <= K /\ m \in 1 .. Len(out[f])
      BY <1>b, <1>s, LineIs DEF Inv, Bounded, K
    <3>2. CASE out[f][m].run < K
      <4>1. out[f][m].ts <= anchor BY <1>a, <3>2 DEF Inv, ClockKept, Writing, K
      <4> QED BY <1>c, <1>e, <1>i, <3>1, <4>1
    <3>3. CASE out[f][m].run = K /\ f \in CsvFiles
      <4>1. PICK i \in 1 .. Len(L) : L[i] = out[f][m] BY <1>o, <3>1, <3>3
      <4>2. L[i].ts = t[i] BY <1>p DEF AsRecorded, t
      <4>3. i \in 1 .. next[f] /\ i \in 1 .. N BY <1>e, <1>f, <1>g
      <4>4. t[i] = NewTs(i, f) BY <1>i, <4>3
      <4>5. NewTs(i, f) <= NewTs(next[f], f) BY <1>e, <3>3, <4>3 DEF Timely
      <4> QED BY <1>e, <4>1, <4>2, <4>4, <4>5
    <3> QED BY <1>c, <2>2, <3>1, <3>2, <3>3
  <2>3. ASSUME NEW g \in FileSet, NEW m \in Positions(g)', NEW n \in Positions(g)',
               m < n, out'[g][m].run < out'[g][n].run \/ g \in CsvFiles
        PROVE  out'[g][m].ts <= out'[g][n].ts
    <3>1. CASE g # f
      BY <1>q, <2>3, <3>1 DEF Inv, ClockKept
    <3>2. CASE g = f
      <4>1. m \in Positions(f)
        BY <1>r, <1>s, <2>3, <3>2
      <4>2. out'[f][m] = out[f][m] BY <1>s, <4>1
      <4>3. CASE n \in Positions(f)
        BY <1>s, <2>3, <3>2, <4>1, <4>2, <4>3 DEF Inv, ClockKept
      <4>4. CASE n = Len(out[f]) + 1
        <5>1. out'[f][n] = x BY <1>s, <4>4
        <5>2. out[f][m].run < K \/ f \in CsvFiles BY <1>l, <2>3, <3>2, <4>2, <5>1
        <5> QED BY <1>l, <2>2, <3>2, <4>1, <4>2, <5>1, <5>2
      <4> QED BY <1>r, <2>3, <3>2, <4>3, <4>4
    <3> QED BY <3>1, <3>2
  <2>4. anchor <= now /\ pc' # "log start" BY <1>a DEF Inv, ClockKept
  <2>5. UNCHANGED <<now, anchor, history>> BY <1>a
  <2>6. \A g \in FileSet : \A n \in Positions(g)' :
          /\ out'[g][n].ts <= now
          /\ out'[g][n].run < Len(history) => out'[g][n].ts <= anchor
    BY <2>1 DEF K
  <2>7. \A g \in FileSet : \A m, n \in Positions(g)' :
          m < n /\ (out'[g][m].run < out'[g][n].run \/ g \in CsvFiles) =>
            out'[g][m].ts <= out'[g][n].ts
    BY <2>3
  <2> QED BY <2>4, <2>5, <2>6, <2>7 DEF ClockKept
<1>8. HeaderComesFirst'
  <2> SUFFICES ASSUME NEW g \in FileSet, out'[g] # NoFile, NEW n \in 1 .. Len(out'[g])
      PROVE  (out'[g][n] = HeaderLine) = (g \in CsvFiles /\ n = 1)
    BY DEF HeaderComesFirst
  <2>1. CASE g # f BY <1>q, <2>1 DEF Inv, HeaderComesFirst
  <2>2. CASE g = f /\ n \in Positions(f)
    <3>1. out'[g][n] = out[f][n] /\ n \in 1 .. Len(out[f]) BY <1>s, <2>2
    <3> QED BY <1>m, <2>2, <3>1 DEF Inv, HeaderComesFirst
  <2>3. CASE g = f /\ n = Len(out[f]) + 1
    <3>1. out'[g][n] = x BY <1>s, <2>3
    <3>2. x # HeaderLine
      <4>1. x.run # HeaderLine.run BY <1>c, <1>g, <1>l DEF HeaderLine
      <4> QED BY <4>1
    <3>3. f \in CsvFiles => n # 1
      <4> SUFFICES ASSUME f \in CsvFiles PROVE n # 1 OBVIOUS
      <4>1. out[f] # <<>> BY <1>a DEF Inv, HeadersKept
      <4>2. Len(out[f]) \in Nat \ {0} BY <1>o, <4>1, FrontIs
      <4> QED BY <2>3, <4>2
    <3> QED BY <2>3, <3>1, <3>2, <3>3
  <2>4. g = f => n \in Positions(g)' BY DEF Positions
  <2> QED BY <1>r, <2>1, <2>2, <2>3, <2>4
<1>9. OneTimeAxis'
  <2> SUFFICES ASSUME NEW h \in CsvFiles, NEW g \in CsvFiles, g \in Remaining',
                      NEW n \in 1 .. next'[h] - 1
      PROVE  NewTs(n, h)' <= HeadTime(g)'
    BY DEF OneTimeAxis
  <2>1. h \in FileSet /\ g \in FileSet BY ReplayerAssumption
  <2>2. \A j \in FileSet : \A i : NewTs(i, j)' = NewTs(i, j) BY <1>a DEF NewTs
  <2>3. HeadTime(g)' = NewTs(next'[g], g) BY <1>a DEF HeadTime, NewTs
  <2>4. next'[g] <= Len(Stream(scenario, g)) BY <1>a DEF Remaining
  <2>5. next[g] \in Nat \ {0} /\ next'[g] \in Nat \ {0} /\ next[g] <= next'[g]
    <3>1. next[g] \in Nat \ {0} /\ next'[g] \in Nat \ {0} BY <1>j, <1>k, <2>1
    <3>2. CASE g = f BY <1>k, <3>1, <3>2
    <3>3. CASE g # f
      <4>1. next'[g] = next[g] BY <1>k, <2>1, <3>3
      <4> QED BY <3>1, <4>1
    <3> QED BY <3>1, <3>2, <3>3
  <2>6. /\ Len(Stream(scenario, g)) \in Nat
        /\ \A i \in 1 .. Len(Stream(scenario, g)) : Timely(g, i)
    BY <1>b, <2>1, NewTsIs
  <2>7. next'[g] \in 1 .. Len(Stream(scenario, g)) /\ next[g] \in 1 .. next'[g]
        /\ next[g] <= Len(Stream(scenario, g))
    BY <2>4, <2>5, <2>6
  <2>8. g \in Remaining BY <2>1, <2>7 DEF Remaining
  <2>9. NewTs(next[g], g) <= NewTs(next'[g], g) BY <2>6, <2>7 DEF Timely
  <2>10. NewTs(next'[g], g) \in Nat
    BY <1>c, <2>6, <2>7 DEF Timely
  <2>11. HeadTime(g) = NewTs(next[g], g) /\ HeadTime(g) \in Nat
    BY <1>b, <2>8, HeadIs
  <2>12. NewTs(n, h) <= HeadTime(g) /\ NewTs(n, h) \in Int
    <3>1. CASE h = f /\ n = next[f]
      <4>1. HeadTime(f) < HeadTime(g) \/ HeadTime(f) = HeadTime(g)
        BY <1>a, <2>8 DEF IsNext
      <4> QED BY <1>e, <2>11, <3>1, <4>1
    <3>2. CASE ~(h = f /\ n = next[f])
      <4>1. n \in 1 .. next[h] - 1
        <5>1. CASE h = f BY <1>e, <1>f, <1>k, <3>2, <5>1
        <5>2. CASE h # f
          <6>1. next'[h] = next[h] BY <1>k, <2>1, <5>2
          <6> QED BY <6>1
        <5> QED BY <5>1, <5>2
      <4>2. NewTs(n, h) <= HeadTime(g) BY <1>a, <2>8, <4>1 DEF Inv, OneTimeAxis
      <4>3. NewTs(n, h) \in Int
        <5>1. K \in 1 .. Len(history) BY <1>c, <1>g DEF K
        <5>2. AsRecorded(LinesOf(h, K), ThisRun, h)
          BY <1>g, <2>1, <5>1 DEF Inv, NothingIsLost
        <5>3. 1 .. Len(LinesOf(h, K)) \subseteq Expected(ThisRun, h)
          BY <5>2 DEF AsRecorded
        <5>4. n \in Expected(ThisRun, h) BY <1>g, <2>1, <4>1, <5>3
        <5>5. n \in 1 .. Len(Times(ThisRun, h)) BY <5>4 DEF Expected
        <5>6. Timely(h, n) BY <1>b, <2>1, <5>5, NewTsIs
        <5> QED BY <1>c, <5>6 DEF Timely
      <4> QED BY <4>2, <4>3
    <3> QED BY <3>1, <3>2
  <2> QED BY <2>1, <2>2, <2>3, <2>9, <2>10, <2>11, <2>12
<1> QED BY <1>1, <1>2, <1>3, <1>4, <1>5, <1>6, <1>7, <1>8, <1>9 DEF Inv

-----------------------------------------------------------------------------
LEMMA NextKeeps == Inv /\ Next => Inv'
<1>1. ASSUME Inv, LogSaved PROVE Inv'
  <2>1. pc = "log reset" \/ pc = "log start" BY <1>1 DEF LogSaved
  <2>2. CASE pc = "log reset" BY <1>1, <2>2, ResetSavedKeeps DEF ResetSaved
  <2>3. CASE pc = "log start" BY <1>1, <2>3, StartSavedKeeps DEF StartSaved
  <2> QED BY <2>1, <2>2, <2>3
<1>2. ASSUME Inv, NEW f \in FileSet, Wipe(f) \/ Open(f) \/ WriteHeader(f) \/ WriteLine(f)
      PROVE  Inv'
  BY <1>2, WipeKeeps, OpenKeeps, WriteHeaderKeeps, WriteLineKeeps
<1> QED
  BY <1>1, <1>2, LaunchKeeps, LogResetKeeps, LogStartKeeps, FinishedKeeps,
     CompleteKeeps, InterruptKeeps, KillKeeps, TickKeeps DEF Next

LEMMA StutterKeeps == Inv /\ UNCHANGED vars => Inv'
<1> SUFFICES ASSUME Inv, UNCHANGED vars PROVE Inv' OBVIOUS
<1>1. UNCHANGED <<now, out, runsCsv, rewrite, pc, scenario, anchor, deadline, opened,
                  next, row, history, lost, wiped>>
  BY DEF vars, process
<1>2. /\ \A f \in FileSet : Positions(f)' = Positions(f)
      /\ \A f \in FileSet : \A k : LinesOf(f, k)' = LinesOf(f, k)
      /\ HeaderComesFirst' /\ NothingIsLost'
  BY <1>1, FilesStay
<1>3. TypeOK' BY <1>1 DEF Inv, TypeOK
<1>4. Bounded' BY <1>1, <1>2 DEF Inv, Bounded
<1>5. ThisRun' = ThisRun BY <1>1 DEF ThisRun
<1>6. Going'
  <2>1. \A f \in FileSet : LinesOf(f, Len(history))' = LinesOf(f, Len(history))
    BY <1>1 DEF LinesOf
  <2> QED BY <1>1, <1>5, <2>1 DEF Inv, Going, Writing
<1>7. HeadersKept'
  <2>1. opened \subseteq FileSet BY DEF Inv, TypeOK
  <2>2. \A f \in FileSet : IsNext(f)' = IsNext(f) BY <1>1, HeadsStay
  <2> QED BY <1>1, <2>1, <2>2 DEF Inv, HeadersKept
<1>8. ClockKept' BY <1>1, <1>2 DEF Inv, ClockKept, Writing
<1>9. LogKept' BY <1>1, <1>5 DEF Inv, LogKept, LastRow, Writing, Saving
<1>10. OneTimeAxis' BY <1>1, HeadsStay, ReplayerAssumption DEF Inv, OneTimeAxis
<1> QED BY <1>2, <1>3, <1>4, <1>6, <1>7, <1>8, <1>9, <1>10 DEF Inv

(* The invariant of the replayer: what is on disk, and what a process that *)
(* is running remembers of it.                                             *)
THEOREM InvCorrect == Spec => []Inv
<1>1. Inv /\ [Next]_vars => Inv' BY NextKeeps, StutterKeeps
<1> QED BY Initially, <1>1, PTL DEF Spec

(* The variables keep their types: no time exceeds twice the horizon, and  *)
(* a run that may still finish has its row in runs.csv.                    *)
THEOREM TypeCorrect == Spec => []TypeOK
<1>1. Inv => TypeOK BY DEF Inv
<1> QED BY <1>1, InvCorrect, PTL

(* A CSV file has its header in its first line and nowhere else, however   *)
(* often runs were killed in it, before or after the header, and continued *)
(* or reset (Writer.open).                                                 *)
THEOREM HeaderComesFirstCorrect == Spec => []HeaderComesFirst
<1>1. Inv => HeaderComesFirst BY DEF Inv
<1> QED BY <1>1, InvCorrect, PTL

(* What a run leaves of a file is a beginning of what was recorded, each   *)
(* line at its shifted time, and all of it up to the deadline once the run *)
(* has completed and until the file is removed.                            *)
THEOREM NothingIsLostCorrect == Spec => []NothingIsLost
<1>1. Inv => NothingIsLost BY DEF Inv
<1> QED BY <1>1, InvCorrect, PTL

(* No line is ahead of the clock when it is written, a run lies behind all *)
(* that earlier ones have left, and a CSV file is sorted from end to end.  *)
THEOREM FollowsTheClockCorrect == Spec => []FollowsTheClock
<1>1. Inv => FollowsTheClock
  <2>1. \A f \in FileSet : \A n \in Lines(f) : n \in Positions(f)
    BY DEF Lines, Positions
  <2> QED BY <2>1 DEF Inv, ClockKept, FollowsTheClock
<1> QED BY <1>1, InvCorrect, PTL

(* The sorted files of a run share one time axis: merging them holds back  *)
(* a line until no other file has an older one (heapq.merge of merged).    *)
THEOREM OneTimeAxisCorrect == Spec => []OneTimeAxis
<1>1. Inv => OneTimeAxis BY DEF Inv
<1> QED BY <1>1, InvCorrect, PTL

(* runs.csv tells the runs, in order and with what became of them, unless  *)
(* it is just being rewritten; what a kill has emptied it of is lost.      *)
THEOREM RunsAreRecordedCorrect == Spec => []RunsAreRecorded
<1>1. Inv => RunsAreRecorded
  <2> SUFFICES ASSUME Inv, rewrite = <<>> PROVE Tells(runsCsv, history, lost)
    BY DEF RunsAreRecorded
  <2>1. ~Saving BY DEF Inv, LogKept
  <2> QED BY <2>1 DEF Inv, LogKept
<1> QED BY <1>1, InvCorrect, PTL

-----------------------------------------------------------------------------
(* Whole seconds, also before the beginning of time.                       *)
LEMMA Seconds ==
  ASSUME NEW t \in Int, NEW s \in Nat \ {0}
  PROVE  (t \div s) * s <= t /\ t < (t \div s) * s + s /\ (t \div s) * s \in Int
  BY SMTT(30)

LEMMA RenderIs ==
  ASSUME NEW form, NEW t \in Int
  PROVE  Render(form, t) \in Int /\ Render(form, t) <= t /\ t < Render(form, t) + Second
<1>1. Second \in Nat \ {0} BY LogLineAssumption
<1>2. WholeSecond(t) \in Int /\ WholeSecond(t) <= t /\ t < WholeSecond(t) + Second
  BY <1>1, Seconds DEF WholeSecond
<1>3. t <= t /\ t < t + Second BY <1>1
<1> QED BY <1>2, <1>3 DEF Render

LEMMA LastTimedIs ==
  ASSUME NEW log, NEW i \in Nat \ {0}, log[1].form # "none"
  PROVE  /\ LastTimed(log, i) \in 1 .. i
         /\ log[LastTimed(log, i)].form # "none"
         /\ log[i].form # "none" => LastTimed(log, i) = i
<1> DEFINE S == {j \in 1 .. i : log[j].form # "none"}
           T == {k \in Nat : k <= i - 1 /\ i - k \in S}
<1>1. 1 \in S OBVIOUS
<1>2. i - 1 \in T
  <2>1. i - 1 \in Nat /\ i - (i - 1) = 1 OBVIOUS
  <2> QED BY <1>1, <2>1
<1>3. T \in SUBSET Nat OBVIOUS
<1>a. \A j \in S : j \in Nat /\ 1 <= j /\ j <= i /\ log[j].form # "none"
  OBVIOUS
<1>b. \A k \in Nat : k \in T <=> (k <= i - 1 /\ i - k \in S) OBVIOUS
<1>c. LastTimed(log, i) = Max(S) BY DEF LastTimed
<1>d. log[i].form # "none" => i \in S OBVIOUS
<1> HIDE DEF T, S
<1>4. PICK t \in T : \A u \in T : t <= u BY <1>2, <1>3, LeastElement
<1>5. t \in Nat /\ t <= i - 1 /\ i - t \in S BY <1>3, <1>4, <1>b
<1>6. \A j \in S : i - t >= j
  <2> TAKE j \in S
  <2>1. i - j \in Nat /\ i - j <= i - 1 /\ i - (i - j) = j BY <1>a
  <2>2. i - j \in T BY <1>b, <2>1
  <2>3. t <= i - j BY <1>4, <2>2
  <2> QED BY <1>5, <1>a, <2>3
<1>7. Max(S) \in S /\ \A j \in S : Max(S) >= j BY <1>5, <1>6 DEF Max
<1>8. i \in S => Max(S) = i
  <2> DEFINE m == Max(S)
  <2>1. m \in Nat /\ m <= i BY <1>7, <1>a
  <2>2. i \in S => m >= i BY <1>7
  <2> HIDE DEF m
  <2>3. i \in S => m = i BY <2>1, <2>2
  <2> QED BY <2>3 DEF m
<1> QED BY <1>7, <1>8, <1>a, <1>c, <1>d

(* Every line of a replayed log is read back on time. *)
LEMMA ReplayedIs ==
  ASSUME NEW log \in Logs, NEW d \in Int, NEW i \in 1 .. Len(log)
  PROVE  LET due == ReadTimes(log)[i] + d
             got == ReadTimes(Replayed(log, d))[i]
         IN got <= due /\ due < got + Second
<1> DEFINE n == Len(log)
           new == Replayed(log, d)
           j == LastTimed(log, i)
<1>1. n \in Nat /\ \A k \in 1 .. n : log[k] \in LogLines
  <2>1. log \in UNION {[1 .. m -> LogLines] : m \in 0 .. MaxLog} BY DEF Logs
  <2>2. PICK m \in 0 .. MaxLog : log \in [1 .. m -> LogLines] BY <2>1
  <2>3. m \in Nat BY LogLineAssumption
  <2>4. log \in Seq(LogLines) BY <2>2, <2>3
  <2> QED BY <2>4
<1>2. i \in Nat \ {0} /\ log[1].form # "none"
  <2>1. log # <<>> BY <1>1
  <2> QED BY <2>1 DEF Logs
<1>3. \A k \in 1 .. n : /\ log[k].time \in Int
                       /\ log[k] = [form |-> log[k].form, time |-> log[k].time]
  <2> TAKE k \in 1 .. n
  <2>1. \A t \in 0 .. MaxStamp : WholeSecond(t) \in Int
    BY LogLineAssumption, Seconds DEF WholeSecond
  <2> QED BY <1>1, <2>1, LogLineAssumption DEF LogLines
<1>4. new = [k \in 1 .. n |-> ShiftLogLine(log[k], ReadTimes(log)[k] + d)]
  BY DEF Replayed
<1> HIDE DEF new, n
<1>5. \A k \in 1 .. n : new[k].form = log[k].form
  <2> TAKE k \in 1 .. n
  <2>1. new[k] = ShiftLogLine(log[k], ReadTimes(log)[k] + d) BY <1>4
  <2> QED BY <1>3, <2>1 DEF ShiftLogLine
<1>6. j \in 1 .. i /\ j \in 1 .. n /\ j \in Nat \ {0} /\ log[j].form # "none"
      /\ LastTimed(log, j) = j
  <2>1. j \in 1 .. i /\ log[j].form # "none" BY <1>2, LastTimedIs
  <2>2. j \in 1 .. n /\ j \in Nat \ {0} BY <1>1, <2>1 DEF n
  <2> HIDE DEF j
  <2> QED BY <1>2, <2>1, <2>2, LastTimedIs
<1>7. LastTimed(new, i) = j
  <2>1. \A k \in 1 .. i : new[k].form = log[k].form
    <3>1. \A k \in 1 .. i : k \in 1 .. n BY <1>1 DEF n
    <3> QED BY <1>5, <3>1
  <2>2. {k \in 1 .. i : new[k].form # "none"} = {k \in 1 .. i : log[k].form # "none"}
    BY <2>1
  <2> QED BY <2>2 DEF LastTimed
<1>8. Len(new) = n BY <1>1, <1>4
<1> HIDE DEF j
<1>9. ReadTimes(log)[i] = log[j].time /\ ReadTimes(log)[j] = log[j].time
  BY <1>6 DEF ReadTimes, j, n
<1>10. ReadTimes(new)[i] = new[j].time
  BY <1>7, <1>8 DEF ReadTimes, n
<1> DEFINE t == log[j].time + d
<1>11. new[j].time = Render(log[j].form, t)
  <2>1. new[j] = ShiftLogLine(log[j], t) BY <1>4, <1>6, <1>9
  <2>2. log[j] = [form |-> log[j].form, time |-> log[j].time] BY <1>3, <1>6
  <2> HIDE DEF t
  <2> QED BY <1>6, <2>1, <2>2 DEF ShiftLogLine
<1>12. t \in Int
  <2>1. log[j].time \in Int BY <1>3, <1>6
  <2> QED BY <2>1
<1>13. Render(log[j].form, t) <= t /\ t < Render(log[j].form, t) + Second
  <2> HIDE DEF t
  <2> QED BY <1>12, RenderIs
<1> QED BY <1>9, <1>10, <1>11, <1>13 DEF new

(* Every log, of any lines and formats and shifted by any distance, is     *)
(* read back on time.                                                      *)
THEOREM ShiftsAreSound == SoundShifts = -MaxStamp .. MaxStamp
<1>1. \A d \in -MaxStamp .. MaxStamp : d \in Int BY LogLineAssumption
<1> QED BY <1>1, ReplayedIs DEF SoundShifts

-----------------------------------------------------------------------------
(* Recursion on a line.  Each of the functions it defines exists: it does  *)
(* as far as some place, and from there as far as the next.                *)
ReadsTo(line, f, k) ==
  f = [i \in 0 .. k |-> IF i = 0 THEN "start" ELSE ReaderStep(f[i - 1], line[i])]

LEMMA ReadingIs ==
  ASSUME NEW line, Len(line) \in Nat
  PROVE  ReadsTo(line, Reading(line), Len(line))
<1> DEFINE n == Len(line)
           T == {k \in Nat : k <= n /\ ~\E f : ReadsTo(line, f, k)}
<1>1. n \in Nat OBVIOUS
<1>2. 0 \notin T
  <2> DEFINE f == [i \in 0 .. 0 |-> "start"]
  <2>1. ReadsTo(line, f, 0)
    <3>1. \A i \in 0 .. 0 : i = 0 OBVIOUS
    <3> QED BY <3>1 DEF ReadsTo
  <2> QED BY <2>1
<1>3. ASSUME NEW k \in Nat, k + 1 <= n, NEW f, ReadsTo(line, f, k)
      PROVE  \E g : ReadsTo(line, g, k + 1)
  <2> DEFINE g == [i \in 0 .. k + 1 |->
                     IF i = k + 1 THEN ReaderStep(f[k], line[k + 1]) ELSE f[i]]
  <2>1. f = [i \in 0 .. k |-> IF i = 0 THEN "start"
                              ELSE ReaderStep(f[i - 1], line[i])]
    BY <1>3 DEF ReadsTo
  <2>2. \A i \in 0 .. k + 1 :
          g[i] = IF i = 0 THEN "start" ELSE ReaderStep(g[i - 1], line[i])
    <3> SUFFICES ASSUME NEW i \in 0 .. k + 1
        PROVE  g[i] = IF i = 0 THEN "start" ELSE ReaderStep(g[i - 1], line[i])
      OBVIOUS
    <3>1. CASE i = k + 1
      <4>1. i - 1 = k /\ i # 0 /\ k \in 0 .. k + 1 /\ k # k + 1 BY <3>1
      <4>2. g[k] = f[k] /\ g[i] = ReaderStep(f[k], line[k + 1]) BY <3>1, <4>1
      <4> HIDE DEF g
      <4> QED BY <3>1, <4>1, <4>2
    <3>2. CASE i # k + 1
      <4>1. i \in 0 .. k BY <3>2
      <4>2. g[i] = f[i] BY <3>2
      <4>3. i # 0 => g[i - 1] = f[i - 1] BY <4>1
      <4>4. f[i] = IF i = 0 THEN "start" ELSE ReaderStep(f[i - 1], line[i])
        BY <2>1, <4>1
      <4> HIDE DEF g
      <4> QED BY <4>2, <4>3, <4>4
    <3> QED BY <3>1, <3>2
  <2>3. g = [i \in 0 .. k + 1 |-> g[i]] OBVIOUS
  <2> HIDE DEF g
  <2>4. ReadsTo(line, g, k + 1) BY <2>2, <2>3 DEF ReadsTo
  <2> QED BY <2>4
<1>4. T = {}
  <2> SUFFICES ASSUME T # {} PROVE FALSE OBVIOUS
  <2>1. T \in SUBSET Nat OBVIOUS
  <2> HIDE DEF T
  <2>2. PICK t \in T : \A u \in T : t <= u BY <2>1, LeastElement
  <2>3. t \in Nat /\ t <= n /\ ~\E f : ReadsTo(line, f, t) BY <2>2 DEF T
  <2>4. t # 0 BY <1>2, <2>2
  <2>5. t - 1 \in Nat /\ t - 1 <= n /\ ~(t <= t - 1) /\ (t - 1) + 1 = t
    BY <1>1, <2>3, <2>4
  <2>6. t - 1 \notin T BY <2>2, <2>5
  <2>7. \E f : ReadsTo(line, f, t - 1) BY <2>5, <2>6 DEF T
  <2> QED BY <1>3, <2>3, <2>5, <2>7
<1>5. \E f : ReadsTo(line, f, n) BY <1>1, <1>4
<1>6. Reading(line) = CHOOSE f : ReadsTo(line, f, n) BY DEF Reading, ReadsTo
<1> HIDE DEF n
<1>7. ReadsTo(line, Reading(line), n) BY <1>5, <1>6
<1> QED BY <1>7 DEF n

(* The same for Ends, from the end of the line.                            *)
EndStep(line, ends, i) ==
  IF i = Len(line) + 1 THEN [open |-> i, shut |-> i]
  ELSE [shut |-> IF line[i] = "quote" THEN ends[i + 1].open
                 ELSE IF line[i] = "comma" THEN i
                 ELSE ends[i + 1].shut,
        open |-> IF line[i] # "quote" THEN ends[i + 1].open
                 ELSE IF i < Len(line) /\ line[i + 1] = "quote" THEN ends[i + 2].open
                 ELSE ends[i + 1].shut]

EndsFrom(line, f, k) ==
  f = [i \in k .. Len(line) + 1 |-> EndStep(line, f, i)]

LEMMA EndsIs ==
  ASSUME NEW line, Len(line) \in Nat
  PROVE  EndsFrom(line, Ends(line), 1)
<1> DEFINE n == Len(line)
           T == {k \in Nat : k <= n /\ ~\E f : EndsFrom(line, f, n + 1 - k)}
<1>1. n \in Nat OBVIOUS
<1>2. 0 \notin T
  <2> DEFINE f == [i \in n + 1 .. n + 1 |-> [open |-> i, shut |-> i]]
  <2>1. \A i \in n + 1 .. n + 1 : i = n + 1 BY <1>1
  <2>2. \A i \in n + 1 .. n + 1 : f[i] = EndStep(line, f, i)
    BY <2>1 DEF EndStep
  <2>3. f = [i \in n + 1 .. n + 1 |-> f[i]] OBVIOUS
  <2> HIDE DEF f
  <2>4. n + 1 - 0 = n + 1 BY <1>1
  <2>5. EndsFrom(line, f, n + 1 - 0) BY <2>2, <2>3, <2>4 DEF EndsFrom
  <2> QED BY <2>5
<1>3. ASSUME NEW k \in 1 .. n, NEW f, EndsFrom(line, f, k + 1)
      PROVE  \E g : EndsFrom(line, g, k)
  <2> DEFINE g == [i \in k .. n + 1 |->
                     IF i = k THEN EndStep(line, f, k) ELSE f[i]]
  <2>1. f = [i \in k + 1 .. n + 1 |-> EndStep(line, f, i)]
    BY <1>3 DEF EndsFrom
  <2>2. \A i \in k .. n + 1 : g[i] = EndStep(line, g, i)
    <3> SUFFICES ASSUME NEW i \in k .. n + 1 PROVE g[i] = EndStep(line, g, i)
      OBVIOUS
    <3>1. i \in Int /\ k \in Int /\ k <= i /\ i <= n + 1 BY <1>1
    <3>2. g[i] = EndStep(line, f, i)
      <4>1. CASE i = k BY <4>1
      <4>2. CASE i # k
        <5>1. i \in k + 1 .. n + 1 BY <3>1, <4>2
        <5>2. f[i] = EndStep(line, f, i) BY <2>1, <5>1
        <5>3. g[i] = f[i] BY <4>2
        <5> QED BY <5>2, <5>3
      <4> QED BY <4>1, <4>2
    <3>3. i # n + 1 => g[i + 1] = f[i + 1]
      <4> SUFFICES ASSUME i # n + 1 PROVE g[i + 1] = f[i + 1] OBVIOUS
      <4>1. i + 1 \in k .. n + 1 /\ i + 1 # k BY <1>1, <3>1
      <4> QED BY <4>1
    <3>4. i < n => g[i + 2] = f[i + 2]
      <4> SUFFICES ASSUME i < n PROVE g[i + 2] = f[i + 2] OBVIOUS
      <4>1. i + 2 \in k .. n + 1 /\ i + 2 # k BY <1>1, <3>1
      <4> QED BY <4>1
    <3> HIDE DEF g
    <3>5. EndStep(line, f, i) = EndStep(line, g, i)
      BY <3>3, <3>4 DEF EndStep
    <3> QED BY <3>2, <3>5
  <2>3. g = [i \in k .. n + 1 |-> g[i]] OBVIOUS
  <2> HIDE DEF g
  <2>4. EndsFrom(line, g, k) BY <2>2, <2>3 DEF EndsFrom
  <2> QED BY <2>4
<1>4. T = {}
  <2> SUFFICES ASSUME T # {} PROVE FALSE OBVIOUS
  <2>1. T \in SUBSET Nat OBVIOUS
  <2> HIDE DEF T
  <2>2. PICK t \in T : \A u \in T : t <= u BY <2>1, LeastElement
  <2>3. t \in Nat /\ t <= n /\ ~\E f : EndsFrom(line, f, n + 1 - t) BY <2>2 DEF T
  <2>4. t # 0 BY <1>2, <2>2
  <2>5. /\ t - 1 \in Nat /\ t - 1 <= n /\ ~(t <= t - 1)
        /\ n + 1 - (t - 1) = (n + 1 - t) + 1 /\ n + 1 - t \in 1 .. n
    BY <1>1, <2>3, <2>4
  <2>6. t - 1 \notin T BY <2>2, <2>5
  <2>7. \E f : EndsFrom(line, f, (n + 1 - t) + 1) BY <2>5, <2>6 DEF T
  <2> HIDE DEF n
  <2> QED BY <1>3, <2>3, <2>5, <2>7
<1>5. \E f : EndsFrom(line, f, 1)
  <2>1. n \notin T BY <1>4
  <2>2. n + 1 - n = 1 BY <1>1
  <2> QED BY <1>1, <2>1, <2>2
<1>6. Ends(line) = CHOOSE f : EndsFrom(line, f, 1)
  BY DEF Ends, EndsFrom, EndStep
<1> QED BY <1>5, <1>6

States == {"start", "field", "quoted", "closed"}

(* Cell by cell. *)
LEMMA ReadingSteps ==
  ASSUME NEW line, Len(line) \in Nat
  PROVE  /\ Reading(line)[0] = "start"
         /\ \A i \in 1 .. Len(line) :
              Reading(line)[i] = ReaderStep(Reading(line)[i - 1], line[i])
<1> DEFINE n == Len(line)
           r == Reading(line)
<1>1. n \in Nat OBVIOUS
<1>2. r = [i \in 0 .. n |-> IF i = 0 THEN "start" ELSE ReaderStep(r[i - 1], line[i])]
  BY ReadingIs DEF ReadsTo
<1> HIDE DEF r, n
<1>3. 0 \in 0 .. n BY <1>1
<1>4. r[0] = "start" BY <1>2, <1>3
<1>5. ASSUME NEW i \in 1 .. n
      PROVE  r[i] = ReaderStep(r[i - 1], line[i])
  <2>1. i \in 0 .. n /\ i # 0 BY <1>1
  <2> QED BY <1>2, <2>1
<1> QED BY <1>4, <1>5 DEF r, n

LEMMA ReaderStates ==
  ASSUME NEW state, NEW cell
  PROVE  ReaderStep(state, cell) \in States
  BY DEF ReaderStep, States

LEMMA ReadingStates ==
  ASSUME NEW line, Len(line) \in Nat, NEW i \in 0 .. Len(line)
  PROVE  Reading(line)[i] \in States
<1>1. CASE i = 0 BY <1>1, ReadingSteps DEF States
<1>2. CASE i # 0
  <2>1. i \in 1 .. Len(line) BY <1>2
  <2>2. Reading(line)[i] = ReaderStep(Reading(line)[i - 1], line[i])
    BY <2>1, ReadingSteps
  <2> QED BY <2>2, ReaderStates
<1> QED BY <1>1, <1>2

LEMMA EndsSteps ==
  ASSUME NEW line, Len(line) \in Nat, NEW i \in 1 .. Len(line) + 1
  PROVE  Ends(line)[i] = EndStep(line, Ends(line), i)
<1> DEFINE e == Ends(line)
<1>1. e = [j \in 1 .. Len(line) + 1 |-> EndStep(line, e, j)]
  BY EndsIs DEF EndsFrom
<1> HIDE DEF e
<1>2. e[i] = EndStep(line, e, i) BY <1>1
<1> QED BY <1>2 DEF e

(* Stretches of two lines that are the same, and are met in the same       *)
(* state, are read in the same way.                                        *)
Alike(X, Y, d, p, q) ==
  /\ Len(X) \in Nat /\ Len(Y) \in Nat /\ d \in Int
  /\ p \in 0 .. Len(X) /\ p + d \in 0 .. Len(Y)
  /\ q \in p .. Len(X) /\ q + d <= Len(Y)
  /\ \A i \in p + 1 .. q : X[i] = Y[i + d]

LEMMA ReadAlike ==
  ASSUME NEW X, NEW Y, NEW d, NEW p, NEW q, Alike(X, Y, d, p, q),
         Reading(X)[p] = Reading(Y)[p + d]
  PROVE  \A i \in p .. q : Reading(X)[i] = Reading(Y)[i + d]
<1>0. /\ Len(X) \in Nat /\ Len(Y) \in Nat /\ d \in Int
      /\ p \in 0 .. Len(X) /\ p + d \in 0 .. Len(Y)
      /\ q \in p .. Len(X) /\ q + d <= Len(Y)
      /\ \A i \in p + 1 .. q : X[i] = Y[i + d]
  BY DEF Alike
<1> DEFINE T == {i \in Nat : p <= i /\ i <= q /\ Reading(X)[i] # Reading(Y)[i + d]}
<1> SUFFICES ASSUME T # {} PROVE FALSE
  BY <1>0
<1>1. T \in SUBSET Nat OBVIOUS
<1> HIDE DEF T
<1>2. PICK t \in T : \A u \in T : t <= u BY <1>1, LeastElement
<1>3. t \in Nat /\ p <= t /\ t <= q /\ Reading(X)[t] # Reading(Y)[t + d]
  BY <1>2 DEF T
<1>4. t # p BY <1>0, <1>3
<1>5. /\ t - 1 \in Nat /\ p <= t - 1 /\ t - 1 <= q /\ ~(t <= t - 1)
      /\ t \in 1 .. Len(X) /\ t + d \in 1 .. Len(Y) /\ t \in p + 1 .. q
      /\ (t - 1) + d = (t + d) - 1
  BY <1>0, <1>3, <1>4
<1>6. t - 1 \notin T BY <1>2, <1>5
<1>7. Reading(X)[t - 1] = Reading(Y)[(t + d) - 1] BY <1>5, <1>6 DEF T
<1>8. X[t] = Y[t + d] BY <1>0, <1>5
<1>9. Reading(X)[t] = ReaderStep(Reading(X)[t - 1], X[t]) BY <1>0, <1>5, ReadingSteps
<1>10. Reading(Y)[t + d] = ReaderStep(Reading(Y)[(t + d) - 1], Y[t + d])
  BY <1>0, <1>5, ReadingSteps
<1> QED BY <1>3, <1>7, <1>8, <1>9, <1>10

-----------------------------------------------------------------------------
(* What the splitter needs of a line: no quote inside an unquoted field.   *)
Readable(line) ==
  /\ Len(line) \in Nat
  /\ \A i \in 1 .. Len(line) : line[i] = "quote" => Reading(line)[i - 1] # "field"

(* The first comma between fields from i on. *)
Ending(line, i, e) ==
  /\ e \in i .. Len(line) + 1
  /\ e <= Len(line) => e \in Commas(line)
  /\ \A j \in Commas(line) : i <= j => e <= j

EndsAt(line, i) ==
  /\ Reading(line)[i - 1] # "quoted" => Ending(line, i, Ends(line)[i].shut)
  /\ Reading(line)[i - 1] = "quoted" => Ending(line, i, Ends(line)[i].open)

(* A comma between fields, told by its cell. *)
LEMMA CommasAre ==
  ASSUME NEW line, Len(line) \in Nat
  PROVE  /\ Commas(line) = {i \in 1 .. Len(line) :
                              line[i] = "comma" /\ Reading(line)[i] = "start"}
         /\ \A i \in Commas(line) : i \in Nat /\ i <= Len(line)
  BY DEF Commas

(* No end is passed over. *)
LEMMA EndingBefore ==
  ASSUME NEW line, Len(line) \in Nat, NEW i \in Nat, NEW k \in Nat, i <= k,
         NEW e, Ending(line, k, e), \A j \in i .. k - 1 : j \notin Commas(line)
  PROVE  Ending(line, i, e)
<1>1. e \in i .. Len(line) + 1 BY DEF Ending
<1>2. ASSUME NEW j \in Commas(line), i <= j PROVE e <= j
  <2>1. j \in Nat BY CommasAre
  <2>2. k <= j BY <1>2, <2>1
  <2> QED BY <2>2 DEF Ending
<1> QED BY <1>1, <1>2 DEF Ending

LEMMA EndsWhereRead ==
  ASSUME NEW line, Readable(line), NEW i \in 1 .. Len(line) + 1
  PROVE  EndsAt(line, i)
<1> DEFINE n == Len(line)
           r == Reading(line)
           T == {k \in Nat : k <= n /\ ~EndsAt(line, n + 1 - k)}
<1>1. n \in Nat BY DEF Readable
<1>2. ASSUME NEW k \in 1 .. n, EndsAt(line, k + 1), k < n => EndsAt(line, k + 2)
      PROVE  EndsAt(line, k)
  <2> DEFINE c == line[k]
             e == Ends(line)
  <2>1. r[k] = ReaderStep(r[k - 1], c) BY <1>1, ReadingSteps
  <2>2. e[k] = EndStep(line, e, k)
    <3>1. k \in 1 .. n + 1 BY <1>1
    <3> QED BY <1>1, <3>1, EndsSteps
  <2>3. k \in Nat /\ k # n + 1 /\ (k + 1) - 1 = k /\ k \in 1 .. n BY <1>1
  <2>4. c = "quote" => r[k - 1] # "field" BY DEF Readable
  <2>5. /\ r[k] # "quoted" => Ending(line, k + 1, e[k + 1].shut)
        /\ r[k] = "quoted" => Ending(line, k + 1, e[k + 1].open)
    BY <1>2, <2>3 DEF EndsAt
  <2>6. k \in Commas(line) <=> (c = "comma" /\ r[k] = "start")
    BY <1>1, <2>3, CommasAre
  <2>7. ASSUME k \notin Commas(line), NEW x, Ending(line, k + 1, x)
        PROVE  Ending(line, k, x)
    <3>1. \A j \in k .. (k + 1) - 1 : j = k BY <2>3
    <3>2. k + 1 \in Nat /\ k <= k + 1 BY <2>3
    <3> QED BY <1>1, <2>3, <2>7, <3>1, <3>2, EndingBefore
  <2>e. e[k] = [shut |-> IF c = "quote" THEN e[k + 1].open
                         ELSE IF c = "comma" THEN k
                         ELSE e[k + 1].shut,
                open |-> IF c # "quote" THEN e[k + 1].open
                         ELSE IF k < n /\ line[k + 1] = "quote" THEN e[k + 2].open
                         ELSE e[k + 1].shut]
    BY <2>2, <2>3 DEF EndStep
  <2>8. ASSUME r[k - 1] # "quoted" PROVE Ending(line, k, e[k].shut)
    <3>1. CASE c = "quote"
      <4>1. r[k] = "quoted"
        <5>1. r[k - 1] \in States
          <6>1. k - 1 \in 0 .. n BY <1>1
          <6> QED BY <1>1, <6>1, ReadingStates
        <5>2. r[k - 1] \in {"start", "closed"}
          BY <2>4, <2>8, <3>1, <5>1 DEF States
        <5> QED BY <2>1, <3>1, <5>2 DEF ReaderStep
      <4> QED BY <2>5, <2>6, <2>7, <2>e, <3>1, <4>1
    <3>2. CASE c = "comma"
      <4>1. r[k] = "start" BY <2>1, <2>8, <3>2 DEF ReaderStep
      <4>2. e[k].shut = k BY <2>e, <3>2
      <4>3. k \in Commas(line) BY <2>6, <3>2, <4>1
      <4>4. k \in k .. n + 1 BY <2>3
      <4> QED BY <4>2, <4>3, <4>4 DEF Ending
    <3>3. CASE c # "quote" /\ c # "comma"
      <4>1. r[k] # "quoted" BY <2>1, <2>8, <3>3 DEF ReaderStep
      <4> QED BY <2>5, <2>6, <2>7, <2>e, <3>3, <4>1
    <3> QED BY <3>1, <3>2, <3>3
  <2>9. ASSUME r[k - 1] = "quoted" PROVE Ending(line, k, e[k].open)
    <3>1. CASE c # "quote"
      <4>1. r[k] = "quoted" BY <2>1, <2>9, <3>1 DEF ReaderStep
      <4> QED BY <2>5, <2>6, <2>7, <2>e, <3>1, <4>1
    <3>2. CASE c = "quote" /\ ~(k < n /\ line[k + 1] = "quote")
      <4>1. r[k] = "closed" BY <2>1, <2>9, <3>2 DEF ReaderStep
      <4> QED BY <2>5, <2>6, <2>7, <2>e, <3>2, <4>1
    <3>3. CASE c = "quote" /\ k < n /\ line[k + 1] = "quote"
      <4>1. r[k] = "closed" BY <2>1, <2>9, <3>3 DEF ReaderStep
      <4>2. k + 1 \in 1 .. n /\ (k + 1) - 1 = k /\ (k + 2) - 1 = k + 1
            /\ k + 2 \in Nat /\ k <= k + 2
        BY <1>1, <2>3, <3>3
      <4>3. r[k + 1] = ReaderStep(r[(k + 1) - 1], line[k + 1])
        BY <1>1, <4>2, ReadingSteps
      <4>4. r[k + 1] = "quoted" BY <3>3, <4>1, <4>2, <4>3 DEF ReaderStep
      <4>5. Ending(line, k + 2, e[k + 2].open)
        BY <1>2, <3>3, <4>2, <4>4 DEF EndsAt
      <4>6. k \notin Commas(line) /\ k + 1 \notin Commas(line)
        BY <1>1, <2>6, <3>3, CommasAre
      <4>7. \A j \in k .. (k + 2) - 1 : j = k \/ j = k + 1 BY <2>3
      <4>8. Ending(line, k, e[k + 2].open)
        BY <1>1, <2>3, <4>2, <4>5, <4>6, <4>7, EndingBefore
      <4> QED BY <2>e, <3>3, <4>8
    <3> QED BY <3>1, <3>2, <3>3
  <2> QED BY <2>8, <2>9 DEF EndsAt
<1>3. EndsAt(line, n + 1)
  <2>1. Ends(line)[n + 1] = EndStep(line, Ends(line), n + 1)
    <3>1. n + 1 \in 1 .. n + 1 BY <1>1
    <3> QED BY <1>1, <3>1, EndsSteps
  <2>2. Ends(line)[n + 1] = [open |-> n + 1, shut |-> n + 1]
    BY <2>1 DEF EndStep
  <2>3. Ending(line, n + 1, n + 1)
    <3>1. \A j \in Commas(line) : j \in Nat /\ j <= n BY <1>1, CommasAre
    <3>2. \A j \in Commas(line) : n + 1 <= j => n + 1 <= j OBVIOUS
    <3>3. n + 1 \in n + 1 .. n + 1 /\ ~(n + 1 <= n) BY <1>1
    <3> QED BY <3>2, <3>3 DEF Ending
  <2> QED BY <2>2, <2>3 DEF EndsAt
<1>4. T = {}
  <2> SUFFICES ASSUME T # {} PROVE FALSE OBVIOUS
  <2>1. T \in SUBSET Nat OBVIOUS
  <2> HIDE DEF T
  <2>2. PICK t \in T : \A u \in T : t <= u BY <2>1, LeastElement
  <2>3. t \in Nat /\ t <= n /\ ~EndsAt(line, n + 1 - t) BY <2>2 DEF T
  <2>4. t # 0
    <3>1. n + 1 - 0 = n + 1 BY <1>1
    <3> QED BY <1>3, <2>3, <3>1
  <2> DEFINE k == n + 1 - t
  <2>5. /\ t - 1 \in Nat /\ t - 1 <= n /\ ~(t <= t - 1) /\ ~(t <= t - 2)
        /\ n + 1 - (t - 1) = k + 1 /\ k \in 1 .. n
        /\ k < n => t - 2 \in Nat /\ t - 2 <= n /\ n + 1 - (t - 2) = k + 2
    BY <1>1, <2>3, <2>4
  <2>6. t - 1 \notin T /\ t - 2 \notin T BY <2>2, <2>5
  <2>7. EndsAt(line, k + 1) BY <2>5, <2>6 DEF T
  <2>8. k < n => EndsAt(line, k + 2) BY <2>5, <2>6 DEF T
  <2> HIDE DEF n, k
  <2>9. EndsAt(line, k) BY <1>2, <2>5, <2>7, <2>8
  <2> QED BY <2>3, <2>9 DEF k
<1>5. n + 1 - i \in Nat /\ n + 1 - i <= n /\ n + 1 - (n + 1 - i) = i BY <1>1
<1>6. n + 1 - i \notin T BY <1>4
<1> QED BY <1>5, <1>6

(* The bounds of the columns are in order, and commas are nowhere else. *)
Delimited(line, k) ==
  /\ Bound(line, k) \in 0 .. Len(line)
  /\ Bound(line, k + 1) \in Bound(line, k) + 1 .. Len(line) + 1
  /\ k > 0 => Bound(line, k) \in Commas(line)
  /\ k < LastColumn(line) => Bound(line, k + 1) \in Commas(line)
  /\ k = LastColumn(line) => Bound(line, k + 1) = Len(line) + 1
  /\ \A j \in Commas(line) : j <= Bound(line, k) \/ Bound(line, k + 1) <= j

LEMMA BoundsAre ==
  ASSUME NEW line, Len(line) \in Nat, NEW k \in 0 .. LastColumn(line)
  PROVE  Delimited(line, k)
<1> DEFINE n == Len(line)
           C == Commas(line)
           c == LastColumn(line)
<1>1. n \in Nat /\ \A i \in C : i \in Nat /\ i <= n /\ 1 <= i
  BY CommasAre
<1>2. c = Cardinality(C) BY DEF LastColumn
<1>3. c \in Nat /\ k \in Nat /\ k <= c /\ k + 1 \in Nat
  <2>1. c \in Nat
    <3> HIDE DEF C, c, n
    <3> QED BY <1>1, <1>2, PositionsFinite
  <2> QED BY <2>1
<1>4. Bound(line, 0) = 0 /\ Bound(line, c + 1) = n + 1
      /\ \A m \in 1 .. c : Bound(line, m) = Nth(C, m)
  BY <1>2, <1>3 DEF Bound
<1> HIDE DEF C, c, n
<1>5. \A m \in 1 .. c : Nth(C, m) \in C BY <1>1, <1>2, NthIs
<1>6. Bound(line, k) \in 0 .. n /\ (k > 0 => Bound(line, k) \in C)
  <2>1. CASE k = 0 BY <1>1, <1>4, <2>1
  <2>2. CASE k > 0
    <3>1. k \in 1 .. c BY <1>3, <2>2
    <3> QED BY <1>1, <1>4, <1>5, <3>1
  <2> QED BY <1>3, <2>1, <2>2
<1>7. /\ k < c => Bound(line, k + 1) \in C
      /\ k = c => Bound(line, k + 1) = n + 1
  <2>1. k < c => k + 1 \in 1 .. c BY <1>3
  <2> QED BY <1>4, <1>5, <2>1
<1>8. Bound(line, k) < Bound(line, k + 1)
  <2>1. CASE k = c BY <1>1, <1>6, <1>7, <2>1
  <2>2. CASE k < c /\ k = 0
    <3>1. Bound(line, k + 1) \in C BY <1>7, <2>2
    <3>2. 1 <= Bound(line, k + 1) /\ Bound(line, k + 1) \in Nat BY <1>1, <3>1
    <3> QED BY <1>4, <2>2, <3>2
  <2>3. CASE k < c /\ k > 0
    <3>1. k \in 1 .. c /\ k + 1 \in 1 .. c /\ k < k + 1 BY <1>3, <2>3
    <3>2. Nth(C, k) < Nth(C, k + 1) BY <1>1, <1>2, <3>1, NthGrows
    <3> QED BY <1>4, <3>1, <3>2
  <2> QED BY <1>3, <2>1, <2>2, <2>3
<1>9. Bound(line, k + 1) \in Bound(line, k) + 1 .. n + 1
  <2>1. Bound(line, k) \in Int /\ n \in Int BY <1>1, <1>6
  <2>2. Bound(line, k + 1) \in Int /\ Bound(line, k + 1) <= n + 1
    <3>1. CASE k = c BY <1>1, <1>7, <3>1
    <3>2. CASE k < c BY <1>1, <1>7, <3>2
    <3> QED BY <1>3, <3>1, <3>2
  <2> QED BY <1>8, <2>1, <2>2
<1>10. ASSUME NEW j \in C PROVE j <= Bound(line, k) \/ Bound(line, k + 1) <= j
  <2>1. PICK m \in 1 .. c : Nth(C, m) = j BY <1>1, <1>2, NthReaches
  <2>2. Bound(line, m) = j /\ j \in Nat BY <1>1, <1>4, <2>1
  <2>3. CASE m = k BY <2>2, <2>3
  <2>4. CASE m < k
    <3>1. k \in 1 .. c BY <1>3, <2>1, <2>4
    <3>2. Nth(C, m) < Nth(C, k) BY <1>1, <1>2, <2>1, <2>4, <3>1, NthGrows
    <3>3. j < Bound(line, k) BY <1>4, <2>1, <3>1, <3>2
    <3> QED BY <1>6, <2>2, <3>3
  <2>5. CASE m = k + 1 BY <2>2, <2>5
  <2>6. CASE m > k + 1
    <3>1. k + 1 \in 1 .. c /\ k + 1 < m BY <1>3, <2>1, <2>6
    <3>2. Nth(C, k + 1) < Nth(C, m) BY <1>1, <1>2, <2>1, <3>1, NthGrows
    <3>3. Bound(line, k + 1) < j BY <1>4, <2>1, <3>1, <3>2
    <3>4. Bound(line, k + 1) \in Int BY <1>6, <1>1, <1>9
    <3> QED BY <2>2, <3>3, <3>4
  <2> QED BY <1>3, <2>1, <2>3, <2>4, <2>5, <2>6
<1> QED BY <1>6, <1>7, <1>9, <1>10 DEF Delimited, C, c, n

(* A column is met between fields. *)
LEMMA StartsFresh ==
  ASSUME NEW line, Len(line) \in Nat, NEW k \in 0 .. LastColumn(line)
  PROVE  Reading(line)[Bound(line, k)] = "start"
<1>1. CASE k = 0
  <2>1. Bound(line, 0) = 0 BY DEF Bound
  <2> QED BY <1>1, <2>1, ReadingSteps
<1>2. CASE k # 0
  <2>1. k > 0 BY <1>2
  <2>2. Bound(line, k) \in Commas(line) BY <2>1, BoundsAre DEF Delimited
  <2> QED BY <2>2, CommasAre
<1> QED BY <1>1, <1>2

(* The starts csv_field_span comes by. *)
StartsTo(line, f, k) ==
  f = [i \in 0 .. k |-> IF i = 0 THEN 1 ELSE FieldEnd(line, f[i - 1]) + 1]

LEMMA SpanIs ==
  ASSUME NEW line, Readable(line), NEW index \in 0 .. LastColumn(line)
  PROVE  FieldSpan(line, index) = <<Bound(line, index) + 1, Bound(line, index + 1)>>
<1> DEFINE c == LastColumn(line)
           f == [i \in 0 .. index |-> Bound(line, i) + 1]
<1>1. Len(line) \in Nat BY DEF Readable
<1>2. ASSUME NEW k \in 0 .. c
      PROVE  FieldEnd(line, Bound(line, k) + 1) = Bound(line, k + 1)
  <2> DEFINE a == Bound(line, k)
             b == Bound(line, k + 1)
             e == FieldEnd(line, a + 1)
  <2>1. /\ a \in 0 .. Len(line) /\ b \in a + 1 .. Len(line) + 1
        /\ \A j \in Commas(line) : j <= a \/ b <= j
        /\ k < c => b \in Commas(line)
        /\ k = c => b = Len(line) + 1
    BY <1>1, BoundsAre DEF Delimited
  <2>2. Reading(line)[a] = "start" BY <1>1, StartsFresh
  <2> HIDE DEF a, b, c
  <2>3. a + 1 \in 1 .. Len(line) + 1 /\ (a + 1) - 1 = a BY <1>1, <2>1
  <2>4. EndsAt(line, a + 1) BY <2>3, EndsWhereRead
  <2>5. Ending(line, a + 1, e) BY <2>2, <2>3, <2>4 DEF EndsAt, FieldEnd
  <2> HIDE DEF e
  <2>6. /\ e \in a + 1 .. Len(line) + 1
        /\ e <= Len(line) => e \in Commas(line)
        /\ \A j \in Commas(line) : a + 1 <= j => e <= j
    BY <2>5 DEF Ending
  <2>7. a \in Int /\ b \in Int /\ e \in Int /\ Len(line) \in Int
        /\ a + 1 <= b /\ b <= Len(line) + 1 /\ a + 1 <= e /\ e <= Len(line) + 1
    BY <1>1, <2>1, <2>6
  <2>8. b <= e
    <3>1. CASE e <= Len(line)
      <4>1. e <= a \/ b <= e BY <2>1, <2>6, <3>1
      <4> QED BY <2>7, <4>1
    <3>2. CASE ~(e <= Len(line)) BY <2>7, <3>2
    <3> QED BY <3>1, <3>2
  <2>9. e <= b
    <3>1. k = c \/ k < c
      <4>1. c \in Int BY <1>1, PositionsFinite, CommasAre DEF c, LastColumn
      <4> QED BY <4>1
    <3>2. CASE k = c BY <2>1, <2>7, <3>2
    <3>3. CASE k < c BY <2>1, <2>6, <2>7, <3>3
    <3> QED BY <3>1, <3>2, <3>3
  <2>10. e = b BY <2>7, <2>8, <2>9
  <2> QED BY <2>10 DEF e, a, b
<1>a. c \in Nat /\ index \in Nat /\ index <= c
  <2>1. c \in Nat BY <1>1, PositionsFinite, CommasAre DEF c, LastColumn
  <2> QED BY <2>1
<1>3. StartsTo(line, f, index)
  <2>1. \A i \in 0 .. index :
          f[i] = IF i = 0 THEN 1 ELSE FieldEnd(line, f[i - 1]) + 1
    <3> SUFFICES ASSUME NEW i \in 0 .. index
        PROVE  f[i] = IF i = 0 THEN 1 ELSE FieldEnd(line, f[i - 1]) + 1
      OBVIOUS
    <3>1. CASE i = 0
      <4>1. Bound(line, 0) = 0 BY DEF Bound
      <4> QED BY <3>1, <4>1
    <3>2. CASE i # 0
      <4>1. i - 1 \in 0 .. index /\ i - 1 \in 0 .. c /\ (i - 1) + 1 = i
        BY <1>a, <3>2
      <4>2. FieldEnd(line, Bound(line, i - 1) + 1) = Bound(line, i)
        BY <1>2, <4>1
      <4>3. f[i - 1] = Bound(line, i - 1) + 1 BY <4>1
      <4>4. f[i] = Bound(line, i) + 1 OBVIOUS
      <4> HIDE DEF f
      <4> QED BY <3>2, <4>2, <4>3, <4>4
    <3> QED BY <3>1, <3>2
  <2>2. f = [i \in 0 .. index |-> f[i]] OBVIOUS
  <2> HIDE DEF f
  <2> QED BY <2>1, <2>2 DEF StartsTo
<1> DEFINE start == CHOOSE g : StartsTo(line, g, index)
<1>4. FieldSpan(line, index) = <<start[index], FieldEnd(line, start[index])>>
  BY DEF FieldSpan, StartsTo
<1>5. StartsTo(line, start, index) BY <1>3
<1> HIDE DEF start, f
<1>b. start = [i \in 0 .. index |->
                 IF i = 0 THEN 1 ELSE FieldEnd(line, start[i - 1]) + 1]
  BY <1>5 DEF StartsTo
<1>6. \A i \in 0 .. index : start[i] = Bound(line, i) + 1
  <2> DEFINE T == {i \in Nat : i <= index /\ start[i] # Bound(line, i) + 1}
  <2> SUFFICES ASSUME T # {} PROVE FALSE
    BY <1>a
  <2>1. T \in SUBSET Nat OBVIOUS
  <2> HIDE DEF T
  <2>2. PICK t \in T : \A u \in T : t <= u BY <2>1, LeastElement
  <2>3. t \in 0 .. index /\ start[t] # Bound(line, t) + 1 BY <1>a, <2>2 DEF T
  <2>4. t # 0
    <3>1. 0 \in 0 .. index BY <1>a
    <3>2. start[0] = 1 BY <1>b, <3>1
    <3>3. Bound(line, 0) = 0 BY DEF Bound
    <3> QED BY <2>3, <3>2, <3>3
  <2>5. /\ t - 1 \in Nat /\ t - 1 <= index /\ ~(t <= t - 1)
        /\ t - 1 \in 0 .. c /\ (t - 1) + 1 = t
    BY <1>a, <2>3, <2>4
  <2>6. t - 1 \notin T BY <2>2, <2>5
  <2>7. start[t - 1] = Bound(line, t - 1) + 1 BY <2>5, <2>6 DEF T
  <2>8. start[t] = FieldEnd(line, start[t - 1]) + 1 BY <1>b, <2>3, <2>4
  <2>9. FieldEnd(line, Bound(line, t - 1) + 1) = Bound(line, t) BY <1>2, <2>5
  <2> QED BY <2>3, <2>7, <2>8, <2>9
<1>7. start[index] = Bound(line, index) + 1 BY <1>6, <1>a
<1>8. FieldEnd(line, Bound(line, index) + 1) = Bound(line, index + 1)
  BY <1>2, <1>a
<1> QED BY <1>4, <1>7, <1>8

(* Positions moved without changing their order are enumerated as before. *)
Moved(I, h) == {h[i] : i \in I}

Rises(I, h, M) ==
  /\ h \in [I -> 0 .. M]
  /\ \A i \in I, j \in I : i < j => h[i] < h[j]

LEMMA MovedCount ==
  ASSUME NEW N \in Nat, NEW M \in Nat, NEW I, \A i \in I : i \in Nat /\ i <= N,
         NEW h, Rises(I, h, M), NEW K \in SUBSET I
  PROVE  Cardinality(Moved(K, h)) = Cardinality(K)
<1> DEFINE F == [i \in K |-> h[i]]
<1>1. F \in Bijection(K, Moved(K, h))
  <2>1. F \in [K -> Moved(K, h)] BY DEF Moved
  <2>2. \A a, b \in K : F[a] = F[b] => a = b
    <3> SUFFICES ASSUME NEW a \in K, NEW b \in K, a # b PROVE F[a] # F[b]
      OBVIOUS
    <3>1. a \in I /\ b \in I /\ a \in Nat /\ b \in Nat OBVIOUS
    <3>2. h[a] < h[b] \/ h[b] < h[a] BY <3>1 DEF Rises
    <3>3. h[a] \in Nat /\ h[b] \in Nat BY <3>1 DEF Rises
    <3>4. h[a] # h[b] BY <3>2, <3>3
    <3> QED BY <3>4
  <2>3. \A t \in Moved(K, h) : \E s \in K : F[s] = t BY DEF Moved
  <2> HIDE DEF F
  <2> QED BY <2>1, <2>2, <2>3, Fun_IsBij
<1> HIDE DEF F
<1>2. ExistsBijection(K, Moved(K, h)) BY <1>1 DEF ExistsBijection
<1>3. \A i \in K : i \in Nat /\ i <= N OBVIOUS
<1>4. IsFiniteSet(K) BY <1>3, PositionsFinite
<1> QED BY <1>2, <1>4, FS_Bijection

LEMMA NthMoved ==
  ASSUME NEW N \in Nat, NEW M \in Nat, NEW I, \A i \in I : i \in Nat /\ i <= N,
         NEW h, Rises(I, h, M), NEW n \in 1 .. Cardinality(I)
  PROVE  Nth(Moved(I, h), n) = h[Nth(I, n)]
<1> DEFINE k == Nth(I, n)
           J == Moved(I, h)
           x == h[k]
<1>1. k \in I /\ Cardinality(Below(I, k)) = n - 1 BY NthIs
<1>2. Below(J, x) = Moved(Below(I, k), h)
  <2> HIDE DEF k
  <2>1. ASSUME NEW i \in I PROVE h[i] < h[k] <=> i < k
    <3>1. i \in Nat /\ k \in Nat BY <1>1
    <3>2. h[i] \in Nat /\ h[k] \in Nat BY <1>1 DEF Rises
    <3>3. i < k => h[i] < h[k] BY <1>1 DEF Rises
    <3>4. k < i => h[k] < h[i] BY <1>1 DEF Rises
    <3> QED BY <3>1, <3>2, <3>3, <3>4
  <2> QED BY <2>1 DEF Below, Moved
<1>3. Below(I, k) \in SUBSET I BY DEF Below
<1>4. Cardinality(Moved(Below(I, k), h)) = Cardinality(Below(I, k))
  <2> HIDE DEF k
  <2> QED BY <1>3, MovedCount
<1>5. Cardinality(Below(J, x)) = n - 1 BY <1>1, <1>2, <1>4
<1>6. x \in J BY <1>1 DEF Moved
<1>7. \A j \in J : j \in Nat /\ j <= M BY DEF Moved, Rises
<1> HIDE DEF J, x, k
<1>8. Nth(J, n) = x BY <1>5, <1>6, <1>7, NthOnly
<1> QED BY <1>8 DEF J, x, k

-----------------------------------------------------------------------------
Follows(T, X, Y) ==
  /\ Len(T) = Len(X) + Len(Y)
  /\ \A i \in 1 .. Len(X) : T[i] = X[i]
  /\ \A i \in 1 .. Len(Y) : T[Len(X) + i] = Y[i]

LEMMA Following ==
  ASSUME NEW V, NEW X \in Seq(V), NEW Y \in Seq(V)
  PROVE  Follows(X \o Y, X, Y) /\ X \o Y \in Seq(V)
  BY DEF Follows

(* A line, and what the splice makes of it: the cells up to a and from b   *)
(* on are there, those between have made room for the new value.           *)
Spliced(line, new, a, b, d) ==
  /\ Len(line) \in Nat /\ Len(new) = Len(line) + d
  /\ a \in 0 .. Len(line) /\ b \in a + 1 .. Len(line) /\ d = a + 3 - b
  /\ \A i \in 1 .. a : new[i] = line[i]
  /\ new[a + 1] = "char" /\ new[a + 2] = "char"
  /\ \A i \in b .. Len(line) : new[i + d] = line[i]

LEMMA SpliceIs ==
  ASSUME NEW V, NEW line \in Seq(V), NEW a \in 0 .. Len(line),
         NEW b \in a + 1 .. Len(line)
  PROVE  Spliced(line, Splice(line, a + 1, b, NewTime), a, b, a + 3 - b)
         /\ Splice(line, a + 1, b, NewTime) \in Seq(V \cup {"char"})
<1> DEFINE n == Len(line)
           W == V \cup {"char"}
           X == SubSeq(line, 1, a)
           Z == SubSeq(line, b, n)
           d == a + 3 - b
<1>1. n \in Nat /\ a \in Int /\ b \in Int /\ 0 <= a /\ a < b /\ b <= n
      /\ d \in Int /\ d + b = a + 3
  OBVIOUS
<1>2. X \in Seq(W) /\ Len(X) = a /\ \A i \in 1 .. a : X[i] = line[i]
  <2>1. \A i \in 1 .. a : line[i] \in W BY <1>1
  <2> QED BY <1>1, <2>1
<1>3. Z \in Seq(W) /\ Len(Z) = n + 1 - b
      /\ \A i \in 1 .. n + 1 - b : Z[i] = line[i + b - 1]
  <2>1. \A i \in 1 .. n + 1 - b : line[i + b - 1] \in W
    <3> TAKE i \in 1 .. n + 1 - b
    <3>1. i + b - 1 \in 1 .. n BY <1>1
    <3> QED BY <3>1
  <2> QED BY <1>1, <2>1
<1>4. /\ NewTime \in Seq(W) /\ Len(NewTime) = 2
      /\ NewTime[1] = "char" /\ NewTime[2] = "char"
  BY DEF NewTime
<1> DEFINE Y == X \o NewTime
           T == Y \o Z
<1> HIDE DEF X, Z
<1>5. Y \in Seq(W) /\ Len(Y) = a + 2 /\ (\A i \in 1 .. a : Y[i] = X[i])
      /\ Y[a + 1] = NewTime[1] /\ Y[a + 2] = NewTime[2]
  <2>1. Follows(Y, X, NewTime) /\ Y \in Seq(W) BY <1>2, <1>4, Following
  <2> HIDE DEF Y
  <2>2. \A i \in 1 .. 2 : Y[a + i] = NewTime[i] BY <1>2, <1>4, <2>1 DEF Follows
  <2>3. 1 \in 1 .. 2 /\ 2 \in 1 .. 2 OBVIOUS
  <2> QED BY <1>2, <1>4, <2>1, <2>2, <2>3 DEF Follows
<1> HIDE DEF Y
<1>6. T \in Seq(W) /\ Len(T) = Len(Y) + Len(Z)
      /\ (\A i \in 1 .. a + 2 : T[i] = Y[i])
      /\ \A i \in 1 .. n + 1 - b : T[a + 2 + i] = Z[i]
  <2>1. Follows(T, Y, Z) /\ T \in Seq(W) BY <1>3, <1>5, Following
  <2> HIDE DEF T
  <2> QED BY <1>3, <1>5, <2>1 DEF Follows
<1>7. T = Splice(line, a + 1, b, NewTime)
  <2>1. (a + 1) - 1 = a BY <1>1
  <2> QED BY <2>1 DEF Splice, T, Y, X, Z
<1> HIDE DEF T
<1>8. Len(T) = n + d BY <1>1, <1>3, <1>5, <1>6
<1>9. \A i \in 1 .. a : T[i] = line[i]
  <2> TAKE i \in 1 .. a
  <2>1. i \in 1 .. a + 2 BY <1>1
  <2> QED BY <1>2, <1>5, <1>6, <2>1
<1>10. T[a + 1] = "char" /\ T[a + 2] = "char"
  <2>1. a + 1 \in 1 .. a + 2 /\ a + 2 \in 1 .. a + 2 BY <1>1
  <2> QED BY <1>4, <1>5, <1>6, <2>1
<1>11. \A i \in b .. n : T[i + d] = line[i]
  <2> TAKE i \in b .. n
  <2> DEFINE j == i + 1 - b
  <2>1. j \in 1 .. n + 1 - b /\ a + 2 + j = i + d /\ j + b - 1 = i BY <1>1
  <2> HIDE DEF j, d, n
  <2>2. T[a + 2 + j] = Z[j] BY <1>6, <2>1
  <2>3. Z[j] = line[j + b - 1] BY <1>3, <2>1
  <2> QED BY <2>1, <2>2, <2>3
<1> QED BY <1>1, <1>6, <1>7, <1>8, <1>9, <1>10, <1>11 DEF Spliced

(* Where the splice leaves a place of the line. *)
Move(a, d, i) == IF i <= a THEN i ELSE i + d

(* A column of a line with the comma behind it. *)
ColumnIs(line, a, b) ==
  /\ Reading(line)[a] = "start"
  /\ b \in Commas(line)
  /\ \A j \in Commas(line) : j <= a \/ b <= j

LEMMA SplicedReads ==
  ASSUME NEW line, NEW new, NEW a, NEW b, NEW d, Spliced(line, new, a, b, d),
         ColumnIs(line, a, b)
  PROVE  Commas(new) = Moved(Commas(line), [i \in Commas(line) |-> Move(a, d, i)])
         /\ Reading(new)[a] = "start"
<1> DEFINE n == Len(line)
           r == Reading(line)
           s == Reading(new)
<1>1. /\ n \in Nat /\ a \in Int /\ b \in Int /\ 0 <= a /\ a < b /\ b <= n
      /\ d \in Int /\ b + d = a + 3
  BY DEF Spliced
<1>2. Len(new) = n + d /\ Len(new) \in Nat BY <1>1 DEF Spliced
<1>3. \A i \in 0 .. a : s[i] = r[i]
  <2>1. /\ 0 \in Int /\ 0 \in 0 .. n /\ 0 + 0 \in 0 .. Len(new)
        /\ a \in 0 .. n /\ a + 0 <= Len(new)
    BY <1>1, <1>2
  <2>2. r[0] = s[0 + 0] BY <1>1, <1>2, ReadingSteps
  <2>3. \A i \in 0 + 1 .. a : line[i] = new[i + 0]
    <3> TAKE i \in 0 + 1 .. a
    <3>1. i \in 1 .. a /\ i + 0 = i BY <1>1
    <3> QED BY <3>1 DEF Spliced
  <2>4. \A i \in 0 .. a : r[i] = s[i + 0]
    <3>1. Alike(line, new, 0, 0, a) BY <1>1, <1>2, <2>1, <2>3 DEF Alike
    <3> QED BY <2>2, <3>1, ReadAlike
  <2>5. \A i \in 0 .. a : i + 0 = i BY <1>1
  <2> QED BY <2>4, <2>5
<1>4. s[a] = "start"
  <2>1. a \in 0 .. a BY <1>1
  <2> QED BY <1>3, <2>1 DEF ColumnIs
<1>5. s[a + 1] = "field"
  <2>1. a + 1 \in 1 .. Len(new) /\ (a + 1) - 1 = a BY <1>1, <1>2
  <2>2. s[a + 1] = ReaderStep(s[a], new[a + 1]) BY <1>2, <2>1, ReadingSteps
  <2> QED BY <1>4, <2>2 DEF Spliced, ReaderStep
<1>6. s[a + 2] = "field"
  <2>1. a + 2 \in 1 .. Len(new) /\ (a + 2) - 1 = a + 1 BY <1>1, <1>2
  <2>2. s[a + 2] = ReaderStep(s[a + 1], new[a + 2]) BY <1>2, <2>1, ReadingSteps
  <2> QED BY <1>5, <2>2 DEF Spliced, ReaderStep
<1>7. line[b] = "comma" /\ r[b] = "start" /\ new[b + d] = "comma"
  <2>1. line[b] = "comma" /\ r[b] = "start" BY <1>1, CommasAre DEF ColumnIs
  <2>2. b \in b .. n BY <1>1
  <2>3. new[b + d] = line[b] BY <2>2 DEF Spliced
  <2> QED BY <2>1, <2>3
<1>8. s[b + d] = "start"
  <2>1. b + d \in 1 .. Len(new) /\ (b + d) - 1 = a + 2 BY <1>1, <1>2
  <2>2. s[b + d] = ReaderStep(s[a + 2], new[b + d]) BY <1>2, <2>1, ReadingSteps
  <2> QED BY <1>6, <1>7, <2>2 DEF ReaderStep
<1>9. \A i \in b .. n : r[i] = s[i + d]
  <2>1. /\ b \in 0 .. n /\ b + d \in 0 .. Len(new) /\ n \in b .. n
        /\ n + d <= Len(new)
    BY <1>1, <1>2
  <2>2. r[b] = s[b + d] BY <1>7, <1>8
  <2>3. \A i \in b + 1 .. n : line[i] = new[i + d]
    <3> TAKE i \in b + 1 .. n
    <3>1. i \in b .. n BY <1>1
    <3> QED BY <3>1 DEF Spliced
  <2>4. Alike(line, new, d, b, n) BY <1>1, <1>2, <2>1, <2>3 DEF Alike
  <2> HIDE DEF n
  <2> QED BY <2>2, <2>4, ReadAlike
<1> DEFINE h == [i \in Commas(line) |-> Move(a, d, i)]
<1>10. ASSUME NEW i \in Commas(line) PROVE h[i] \in Commas(new)
  <2>1. i \in 1 .. n /\ line[i] = "comma" /\ r[i] = "start" BY <1>1, CommasAre
  <2>2. CASE i <= a
    <3>1. i \in 1 .. a /\ i \in 0 .. a /\ i \in 1 .. Len(new) BY <1>1, <1>2, <2>1, <2>2
    <3>2. new[i] = line[i] /\ s[i] = r[i] BY <1>3, <3>1 DEF Spliced
    <3>3. h[i] = i BY <2>2 DEF Move
    <3> QED BY <1>2, <2>1, <3>1, <3>2, <3>3, CommasAre
  <2>3. CASE ~(i <= a)
    <3>1. b <= i BY <2>3 DEF ColumnIs
    <3>2. i \in b .. n /\ i + d \in 1 .. Len(new) BY <1>1, <1>2, <2>1, <3>1
    <3>3. new[i + d] = line[i] /\ s[i + d] = r[i] BY <1>9, <3>2 DEF Spliced
    <3>4. h[i] = i + d BY <2>3 DEF Move
    <3> QED BY <1>2, <2>1, <3>2, <3>3, <3>4, CommasAre
  <2> QED BY <2>2, <2>3
<1>11. ASSUME NEW j \in Commas(new) PROVE \E i \in Commas(line) : h[i] = j
  <2>1. j \in 1 .. Len(new) /\ new[j] = "comma" /\ s[j] = "start" BY <1>2, CommasAre
  <2>2. CASE j <= a
    <3>1. j \in 1 .. a /\ j \in 0 .. a /\ j \in 1 .. n BY <1>1, <1>2, <2>1, <2>2
    <3>2. new[j] = line[j] /\ s[j] = r[j] BY <1>3, <3>1 DEF Spliced
    <3>3. j \in Commas(line) BY <1>1, <2>1, <3>1, <3>2, CommasAre
    <3>4. h[j] = j BY <2>2, <3>3 DEF Move
    <3> QED BY <3>3, <3>4
  <2>3. CASE j = a + 1 \/ j = a + 2
    <3>1. new[j] = "char" BY <2>3 DEF Spliced
    <3> QED BY <2>1, <3>1
  <2>4. CASE j >= a + 3
    <3> DEFINE i == j - d
    <3>1. i \in b .. n /\ i \in 1 .. n /\ i + d = j /\ ~(i <= a)
      BY <1>1, <1>2, <2>1, <2>4
    <3> HIDE DEF i
    <3>2. new[i + d] = line[i] /\ s[i + d] = r[i] BY <1>9, <3>1 DEF Spliced
    <3>3. i \in Commas(line) BY <1>1, <2>1, <3>1, <3>2, CommasAre
    <3>4. h[i] = j BY <3>1, <3>3 DEF Move
    <3> QED BY <3>3, <3>4
  <2>5. j <= a \/ j = a + 1 \/ j = a + 2 \/ j >= a + 3 BY <1>1, <2>1, <1>2
  <2> QED BY <2>2, <2>3, <2>4, <2>5
<1> HIDE DEF h
<1>12. Commas(new) = Moved(Commas(line), h) BY <1>10, <1>11 DEF Moved
<1> QED BY <1>4, <1>12 DEF h

LEMMA LastColumnIs ==
  ASSUME NEW line, Len(line) \in Nat
  PROVE  LastColumn(line) \in Nat
BY PositionsFinite, CommasAre DEF LastColumn

LEMMA BoundsGrow ==
  ASSUME NEW line, Len(line) \in Nat,
         NEW j \in 0 .. LastColumn(line), NEW k \in j .. LastColumn(line)
  PROVE  Bound(line, j) <= Bound(line, k)
<1> DEFINE c == LastColumn(line)
           T == {i \in Nat : j <= i /\ i <= c /\ ~(Bound(line, j) <= Bound(line, i))}
<1>1. c \in Nat BY LastColumnIs
<1> SUFFICES ASSUME T # {} PROVE FALSE
  BY <1>1
<1>2. T \in SUBSET Nat OBVIOUS
<1> HIDE DEF T
<1>3. PICK t \in T : \A u \in T : t <= u BY <1>2, LeastElement
<1>4. t \in Nat /\ j <= t /\ t <= c /\ ~(Bound(line, j) <= Bound(line, t))
  BY <1>3 DEF T
<1>5. \A i \in 0 .. c : Bound(line, i) \in Int /\ Bound(line, i) <= Bound(line, i + 1)
  <2> TAKE i \in 0 .. c
  <2>1. /\ Bound(line, i) \in 0 .. Len(line)
        /\ Bound(line, i + 1) \in Bound(line, i) + 1 .. Len(line) + 1
    BY BoundsAre DEF Delimited
  <2> QED BY <2>1
<1>6. t # j
  <2>1. Bound(line, j) \in Int BY <1>5
  <2> QED BY <1>4, <2>1
<1>7. /\ t - 1 \in 0 .. c /\ (t - 1) + 1 = t /\ ~(t <= t - 1) /\ j <= t - 1
      /\ t - 1 \in Nat /\ t - 1 <= c /\ t \in 0 .. c /\ j \in 0 .. c
  BY <1>1, <1>4, <1>6
<1>8. t - 1 \notin T BY <1>3, <1>7
<1>9. Bound(line, j) <= Bound(line, t - 1) BY <1>7, <1>8 DEF T
<1>10. Bound(line, t - 1) <= Bound(line, t) BY <1>5, <1>7
<1>11. Bound(line, j) \in Int /\ Bound(line, t - 1) \in Int /\ Bound(line, t) \in Int
  BY <1>5, <1>7
<1> QED BY <1>4, <1>9, <1>10, <1>11

(* Stretches of two lines that are the same. *)
Shares(X, Y, x, y, e) ==
  /\ e \in Int /\ x \in Int /\ y \in Int
  /\ 1 <= x /\ y <= Len(X) /\ 1 <= x + e /\ y + e <= Len(Y)
  /\ \A i \in x .. y : Y[i + e] = X[i]

SamePart(X, Y, x, y, e) == SubSeq(Y, x + e, y + e) = SubSeq(X, x, y)

LEMMA SameStretch ==
  ASSUME NEW V, NEW X \in Seq(V), NEW W, NEW Y \in Seq(W), NEW x, NEW y, NEW e,
         Shares(X, Y, x, y, e)
  PROVE  SamePart(X, Y, x, y, e)
<1>0. /\ e \in Int /\ x \in Int /\ y \in Int
      /\ 1 <= x /\ y <= Len(X) /\ 1 <= x + e /\ y + e <= Len(Y)
      /\ \A i \in x .. y : Y[i + e] = X[i]
  BY DEF Shares
<1> DEFINE p == SubSeq(X, x, y)
           q == SubSeq(Y, x + e, y + e)
           m == y + 1 - x
<1>1. p = [i \in 1 .. m |-> X[i + x - 1]]
  BY <1>0
<1>2. q = [i \in 1 .. m |-> Y[i + (x + e) - 1]]
  BY <1>0
<1>3. \A i \in 1 .. m : X[i + x - 1] = Y[i + (x + e) - 1]
  <2> TAKE i \in 1 .. m
  <2>1. i + x - 1 \in x .. y /\ (i + x - 1) + e = i + (x + e) - 1
    BY <1>0
  <2> QED BY <1>0, <2>1
<1> QED BY <1>1, <1>2, <1>3 DEF SamePart

LEMMA OnlyTheColumnChanges ==
  ASSUME NEW V, NEW line \in Seq(V), Readable(line),
         NEW index \in Nat, index < LastColumn(line)
  PROVE  OnlyChanges(line, ShiftCsvLine(line, index), index)
<1> DEFINE n == Len(line)
           c == LastColumn(line)
           C == Commas(line)
           a == Bound(line, index)
           b == Bound(line, index + 1)
           d == a + 3 - b
           new == Splice(line, a + 1, b, NewTime)
           h == [i \in C |-> Move(a, d, i)]
           N == Len(new)
<1>1. n \in Nat /\ c \in Nat /\ index \in 0 .. c /\ index + 1 \in 0 .. c
  BY LastColumnIs
<1>2. /\ a \in 0 .. n /\ b \in a + 1 .. n + 1 /\ b \in C
      /\ \A j \in C : j <= a \/ b <= j
  BY <1>1, BoundsAre DEF Delimited
<1>3. \A j \in C : j \in Nat /\ j <= n /\ 1 <= j BY <1>1, CommasAre
<1>4. b \in a + 1 .. n BY <1>1, <1>2, <1>3
<1>5. new = ShiftCsvLine(line, index)
  <2>1. FieldSpan(line, index) = <<a + 1, b>> BY <1>1, SpanIs
  <2> QED BY <2>1 DEF ShiftCsvLine
<1>6. Spliced(line, new, a, b, d) /\ new \in Seq(V \cup {"char"})
  BY <1>2, <1>4, SpliceIs
<1>d. new \in Seq(V \cup {"char"}) BY <1>6
<1>7. ColumnIs(line, a, b) BY <1>1, <1>2, StartsFresh DEF ColumnIs
<1> HIDE DEF new, a, b, d
<1>8. Commas(new) = Moved(C, h) BY <1>6, <1>7, SplicedReads
<1>9. /\ N = n + d /\ N \in Nat
      /\ a \in Int /\ b \in Int /\ d \in Int
      /\ 0 <= a /\ a < b /\ b <= n /\ d = a + 3 - b
  BY <1>1, <1>2, <1>4, <1>6 DEF Spliced, d
<1> HIDE DEF N, n, c, C
<1>10. Rises(C, h, N)
  <2>1. ASSUME NEW i \in C PROVE h[i] \in 0 .. N
    <3>1. i \in Nat /\ i <= n /\ (i <= a \/ b <= i) BY <1>2, <1>3
    <3>2. h[i] = (IF i <= a THEN i ELSE i + d) BY DEF Move
    <3> HIDE DEF h
    <3> QED BY <1>1, <1>9, <3>1, <3>2
  <2>2. ASSUME NEW i \in C, NEW j \in C, i < j PROVE h[i] < h[j]
    <3>1. i \in Nat /\ j \in Nat /\ (i <= a \/ b <= i) /\ (j <= a \/ b <= j)
      BY <1>2, <1>3
    <3>2. h[i] = (IF i <= a THEN i ELSE i + d) /\ h[j] = (IF j <= a THEN j ELSE j + d)
      BY DEF Move
    <3> HIDE DEF h
    <3> QED BY <1>9, <2>2, <3>1, <3>2
  <2> QED BY <2>1, <2>2 DEF Rises
<1>11. Cardinality(C) = c BY DEF C, c, LastColumn
<1>12. LastColumn(new) = c
  <2>1. Cardinality(Moved(C, h)) = Cardinality(C)
    <3> HIDE DEF h
    <3>1. C \in SUBSET C OBVIOUS
    <3>2. \A i \in C : i \in Nat /\ i <= n BY <1>3
    <3> QED BY <1>1, <1>9, <1>10, <3>1, <3>2, MovedCount
  <2> QED BY <1>8, <1>11, <2>1 DEF LastColumn
<1>13. ASSUME NEW k \in 0 .. c
       PROVE  /\ k <= index => Bound(line, k) \in 0 .. a
              /\ k > index => Bound(line, k) \in b .. n
              /\ Bound(new, k) = Move(a, d, Bound(line, k))
  <2>1. Bound(line, k) \in 0 .. n BY <1>1, BoundsAre DEF Delimited, c, n
  <2>2. k <= index => Bound(line, k) <= a
    <3> SUFFICES ASSUME k <= index PROVE Bound(line, k) <= a OBVIOUS
    <3>1. index \in k .. c BY <1>1
    <3> QED BY <1>1, <3>1, BoundsGrow DEF a, c, n
  <2>3. k > index => b <= Bound(line, k)
    <3> SUFFICES ASSUME k > index PROVE b <= Bound(line, k) OBVIOUS
    <3>1. k \in index + 1 .. c BY <1>1
    <3> QED BY <1>1, <3>1, BoundsGrow DEF b, c, n
  <2>4. Bound(new, k) = Move(a, d, Bound(line, k))
    <3>1. CASE k = 0
      <4>1. Bound(line, 0) = 0 /\ Bound(new, 0) = 0 BY DEF Bound
      <4> QED BY <1>9, <3>1, <4>1 DEF Move
    <3>2. CASE k # 0
      <4>1. k \in 1 .. Cardinality(C) /\ k \in Nat /\ ~(k > c) BY <1>1, <1>11, <3>2
      <4>2. Bound(line, k) = Nth(C, k)
        BY <1>11, <3>2, <4>1 DEF Bound, C
      <4>3. Bound(new, k) = Nth(Commas(new), k)
        BY <1>12, <3>2, <4>1 DEF Bound, LastColumn
      <4>4. \A i \in C : i \in Nat /\ i <= n BY <1>3
      <4>5. Nth(Moved(C, h), k) = h[Nth(C, k)]
        <5> HIDE DEF h
        <5>1. n \in Nat /\ N \in Nat BY <1>1, <1>9
        <5>2. k \in 1 .. Cardinality(C) BY <4>1
        <5> QED BY <1>10, <4>4, <5>1, <5>2, NthMoved
      <4>6. Nth(C, k) \in C BY <1>1, <4>1, <4>4, NthIs
      <4> QED BY <1>8, <4>2, <4>3, <4>5, <4>6
    <3> QED BY <3>1, <3>2
  <2>5. k \in Int /\ index \in Int BY <1>1
  <2> QED BY <1>1, <1>9, <2>1, <2>2, <2>3, <2>4, <2>5
<1> HIDE DEF h
<1>14. Bound(new, c + 1) = N + 1 /\ Bound(line, c + 1) = n + 1
  BY <1>1, <1>11, <1>12 DEF Bound, LastColumn, N, n, C
<1>15. Bound(new, index) = a /\ Bound(new, index + 1) = b + d
  <2>1. Bound(new, index) = Move(a, d, a) BY <1>1, <1>13 DEF a
  <2>2. Bound(new, index + 1) = Move(a, d, b) BY <1>1, <1>13 DEF b
  <2> QED BY <1>9, <2>1, <2>2 DEF Move
<1>16. Column(new, index) = NewTime
  <2>1. Column(new, index) = SubSeq(new, a + 1, a + 2)
    <3>1. (b + d) - 1 = a + 2 BY <1>9
    <3> QED BY <1>15, <3>1 DEF Column
  <2>2. new[a + 1] = "char" /\ new[a + 2] = "char" BY <1>6 DEF Spliced
  <2>3. a + 2 <= Len(new) /\ 1 <= a + 1 BY <1>1, <1>9 DEF N
  <2>4. \A i \in 1 .. 2 : i + (a + 1) - 1 = a + 1 \/ i + (a + 1) - 1 = a + 2
    BY <1>9
  <2>5. SubSeq(new, a + 1, a + 2) = [i \in 1 .. 2 |-> new[i + (a + 1) - 1]]
    <3>1. (a + 2) + 1 - (a + 1) = 2 BY <1>9
    <3>2. SubSeq(new, a + 1, a + 2)
            = [i \in 1 .. (a + 2) + 1 - (a + 1) |-> new[i + (a + 1) - 1]]
      BY <1>6, <1>9
    <3> QED BY <3>1, <3>2
  <2>6. \A i \in 1 .. 2 : new[i + (a + 1) - 1] = "char" BY <2>2, <2>4
  <2>7. NewTime = [i \in 1 .. 2 |-> "char"] BY DEF NewTime
  <2> QED BY <2>1, <2>5, <2>6, <2>7
<1>17. ASSUME NEW k \in 0 .. c, k # index
       PROVE  Column(new, k) = Column(line, k)
  <2> DEFINE x == Bound(line, k) + 1
             y == Bound(line, k + 1) - 1
  <2>1. /\ Bound(line, k) \in 0 .. n
        /\ Bound(line, k + 1) \in Bound(line, k) + 1 .. n + 1
    BY <1>1, BoundsAre DEF Delimited, c, n
  <2>2. x \in Int /\ y \in Int /\ 1 <= x /\ y <= n BY <1>1, <2>1
  <2>3. k \in Nat /\ k <= c /\ (k < c \/ k = c) BY <1>1
  <2>4. CASE k < index
    <3>1. k \in 0 .. c /\ k + 1 \in 0 .. c /\ k <= index /\ k + 1 <= index
      BY <1>1, <2>3, <2>4
    <3>2. Bound(line, k) \in 0 .. a /\ Bound(line, k + 1) \in 0 .. a BY <1>13, <3>1
    <3>3. Bound(new, k) = Bound(line, k) /\ Bound(new, k + 1) = Bound(line, k + 1)
      <4>1. Bound(new, k) = Move(a, d, Bound(line, k)) BY <1>13, <3>1
      <4>2. Bound(new, k + 1) = Move(a, d, Bound(line, k + 1)) BY <1>13, <3>1
      <4> QED BY <1>9, <3>2, <4>1, <4>2 DEF Move
    <3>4. /\ Column(new, k) = SubSeq(new, x + 0, y + 0)
          /\ Column(line, k) = SubSeq(line, x, y)
      <4>1. x + 0 = x /\ y + 0 = y BY <2>2
      <4> HIDE DEF x, y
      <4>2. Column(new, k) = SubSeq(new, x, y) BY <3>3 DEF Column, x, y
      <4> QED BY <4>1, <4>2 DEF Column, x, y
    <3>5. y < a BY <1>9, <3>2
    <3>6. \A i \in x .. y : new[i + 0] = line[i]
      <4> TAKE i \in x .. y
      <4>1. i \in 1 .. a /\ i + 0 = i BY <1>9, <2>2, <3>5
      <4> QED BY <1>6, <4>1 DEF Spliced
    <3>7. y <= Len(line) /\ 1 <= x + 0 /\ y + 0 <= Len(new) /\ 0 \in Int
      BY <1>1, <1>9, <2>2, <3>5 DEF n, N
    <3> HIDE DEF x, y
    <3>8. Shares(line, new, x, y, 0) BY <2>2, <3>6, <3>7 DEF Shares
    <3>9. SamePart(line, new, x, y, 0) BY <1>d, <3>8, SameStretch
    <3> QED BY <3>4, <3>9 DEF SamePart
  <2>5. CASE k > index
    <3>1. Bound(line, k) \in b .. n /\ Bound(new, k) = Bound(line, k) + d
      <4>1. Bound(line, k) \in b .. n BY <1>13, <2>5
      <4>2. Bound(new, k) = Move(a, d, Bound(line, k)) BY <1>13
      <4> QED BY <1>1, <1>9, <4>1, <4>2 DEF Move
    <3>2. Bound(new, k + 1) = Bound(line, k + 1) + d
      <4>1. CASE k = c
        <5>1. N + 1 = (n + 1) + d BY <1>1, <1>9
        <5> QED BY <1>14, <4>1, <5>1
      <4>2. CASE k < c
        <5>1. k + 1 \in 0 .. c /\ k + 1 > index BY <1>1, <2>3, <2>5, <4>2
        <5>2. Bound(line, k + 1) \in b .. n BY <1>13, <5>1
        <5>3. Bound(new, k + 1) = Move(a, d, Bound(line, k + 1)) BY <1>13, <5>1
        <5> QED BY <1>1, <1>9, <5>2, <5>3 DEF Move
      <4> QED BY <2>3, <4>1, <4>2
    <3>3. /\ Column(new, k) = SubSeq(new, x + d, y + d)
          /\ Column(line, k) = SubSeq(line, x, y)
      <4>1. (Bound(line, k) + d) + 1 = x + d /\ (Bound(line, k + 1) + d) - 1 = y + d
        BY <1>1, <1>9, <2>1
      <4>2. Column(new, k) = SubSeq(new, (Bound(line, k) + d) + 1,
                                    (Bound(line, k + 1) + d) - 1)
        BY <3>1, <3>2 DEF Column
      <4> HIDE DEF x, y
      <4>3. Column(new, k) = SubSeq(new, x + d, y + d) BY <4>1, <4>2
      <4> QED BY <4>3 DEF Column, x, y
    <3>4. b < x BY <1>1, <1>9, <3>1
    <3>5. \A i \in x .. y : new[i + d] = line[i]
      <4> TAKE i \in x .. y
      <4>1. i \in b .. n BY <1>1, <1>9, <2>2, <3>4
      <4> QED BY <1>6, <4>1 DEF Spliced, n
    <3>6. y <= Len(line) /\ 1 <= x + d /\ y + d <= Len(new)
      BY <1>1, <1>9, <2>2, <3>4 DEF n, N
    <3>7. d \in Int BY <1>9
    <3> HIDE DEF x, y
    <3>8. Shares(line, new, x, y, d) BY <2>2, <3>5, <3>6, <3>7 DEF Shares
    <3>9. SamePart(line, new, x, y, d) BY <1>d, <3>8, SameStretch
    <3> QED BY <3>3, <3>9 DEF SamePart
  <2>6. k < index \/ k > index BY <1>1, <1>17
  <2> QED BY <2>4, <2>5, <2>6
<1>18. OnlyChanges(line, new, index)
  <2>1. \A k \in 0 .. LastColumn(line) \ {index} : Column(new, k) = Column(line, k)
    <3> TAKE k \in 0 .. LastColumn(line) \ {index}
    <3>1. k \in 0 .. c /\ k # index BY DEF c
    <3> QED BY <1>17, <3>1
  <2> QED BY <1>12, <1>16, <2>1 DEF OnlyChanges, c
<1> QED BY <1>5, <1>18

(* The lines of a CSV writer can be read so, also with their newline.      *)
LEMMA LinesAreReadable ==
  ASSUME NEW line \in CsvLines
  PROVE  Readable(line) /\ line \in Seq({"quote", "comma", "char", "newline"})
<1> DEFINE V == {"quote", "comma", "char", "newline"}
           U == UNION {[1 .. m -> {"quote", "comma", "char"}] : m \in 0 .. MaxCells}
<1>0. PICK l \in {k \in U : WellFormed(k)}, end \in {<<>>, <<"newline">>} :
        line = l \o end
  BY DEF CsvLines
<1>1. /\ \E m \in 0 .. MaxCells : l \in [1 .. m -> {"quote", "comma", "char"}]
      /\ WellFormed(l) /\ end \in {<<>>, <<"newline">>} /\ line = l \o end
  BY <1>0
<1>2. l \in Seq(V) /\ Len(l) \in Nat
  <2>1. PICK m \in 0 .. MaxCells : l \in [1 .. m -> {"quote", "comma", "char"}]
    BY <1>1
  <2>2. m \in Nat BY CsvLineAssumption
  <2>3. \A i \in 1 .. m : l[i] \in V BY <2>1
  <2>4. l = [i \in 1 .. m |-> l[i]] BY <2>1
  <2> QED BY <2>2, <2>3, <2>4
<1>3. /\ end \in Seq(V) /\ Len(end) \in Nat
      /\ \A i \in 1 .. Len(end) : end[i] = "newline"
  <2>1. CASE end = <<>> BY <2>1
  <2>2. CASE end = <<"newline">> BY <2>2
  <2> QED BY <1>1, <2>1, <2>2
<1>4. Follows(line, l, end) /\ line \in Seq(V) BY <1>1, <1>2, <1>3, Following
<1>5. \A i \in 1 .. Len(l) : l[i] = "quote" => Reading(l)[i - 1] # "field"
  BY <1>1 DEF WellFormed
<1>6. \A i \in 0 .. Len(l) : Reading(l)[i] = Reading(line)[i + 0]
  <2>1. Alike(l, line, 0, 0, Len(l))
    <3>1. \A i \in 0 + 1 .. Len(l) : l[i] = line[i + 0]
      <4> TAKE i \in 0 + 1 .. Len(l)
      <4>1. i \in 1 .. Len(l) /\ i + 0 = i BY <1>2
      <4> QED BY <1>4, <4>1 DEF Follows
    <3>2. Len(line) = Len(l) + Len(end) BY <1>4 DEF Follows
    <3> QED BY <1>2, <1>3, <3>1, <3>2 DEF Alike
  <2>2. Reading(l)[0] = Reading(line)[0 + 0] BY <1>2, <1>4, ReadingSteps
  <2> QED BY <2>1, <2>2, ReadAlike
<1>7. \A i \in 1 .. Len(line) : line[i] = "quote" => Reading(line)[i - 1] # "field"
  <2> SUFFICES ASSUME NEW i \in 1 .. Len(line), line[i] = "quote"
      PROVE  Reading(line)[i - 1] # "field"
    OBVIOUS
  <2>1. Len(line) = Len(l) + Len(end) BY <1>4 DEF Follows
  <2>2. i <= Len(l)
    <3> SUFFICES ASSUME ~(i <= Len(l)) PROVE FALSE OBVIOUS
    <3> DEFINE j == i - Len(l)
    <3>1. j \in 1 .. Len(end) /\ Len(l) + j = i BY <1>2, <1>3, <2>1
    <3> HIDE DEF j
    <3>2. line[Len(l) + j] = end[j] BY <1>4, <3>1 DEF Follows
    <3> QED BY <1>3, <3>1, <3>2
  <2>3. i \in 1 .. Len(l) /\ i - 1 \in 0 .. Len(l) /\ (i - 1) + 0 = i - 1
    BY <1>2, <2>2
  <2>4. line[i] = l[i] BY <1>4, <2>3 DEF Follows
  <2>5. Reading(l)[i - 1] = Reading(line)[(i - 1) + 0] BY <1>6, <2>3
  <2> QED BY <1>5, <2>3, <2>4, <2>5
<1> QED BY <1>4, <1>7 DEF Readable

(* Every column but the last of every line of any length can be replaced:  *)
(* the splitter of shift.py finds the field csv.reader has read, and the   *)
(* line keeps the others.                                                  *)
THEOREM ColumnsAreSound == SoundColumns = 0 .. MaxCells
<1>1. ASSUME NEW index \in 0 .. MaxCells, NEW line \in CsvLines,
             index < LastColumn(line)
      PROVE  OnlyChanges(line, ShiftCsvLine(line, index), index)
  <2>1. index \in Nat BY CsvLineAssumption
  <2> QED BY <1>1, <2>1, LinesAreReadable, OnlyTheColumnChanges
<1> QED BY <1>1 DEF SoundColumns

-----------------------------------------------------------------------------
(* A row that was replayed has its columns as they were recorded, but for  *)
(* the time (OnlyTheTimeChanges), whatever its quotes and commas, whether  *)
(* or not it ends its file.                                                *)
THEOREM OnlyTheTimeChangesCorrect == Spec => []OnlyTheTimeChanges
<1>1. OnlyTheTimeChanges
  BY ColumnsAreSound, ReplayedLinesAssumption DEF OnlyTheTimeChanges
<1> QED BY <1>1, PTL

(* A run is at most the horizon away from its recording, so no log line it *)
(* writes is ahead of its time (NeverAheadOfItsTime) or a second behind.   *)
THEOREM NeverAheadOfItsTimeCorrect == Spec => []NeverAheadOfItsTime
<1>1. Inv => NeverAheadOfItsTime
  <2> SUFFICES ASSUME Inv, pc = "replay"
      PROVE  anchor - T0(scenario) \in SoundShifts
    BY DEF NeverAheadOfItsTime
  <2>1. scenario \in Scenarios BY DEF Inv, Going
  <2>2. anchor \in 0 .. MaxTime BY DEF Inv, TypeOK
  <2>3. T0(scenario) \in Nat /\ T0(scenario) <= MaxTime
    <3>1. PICK f \in FileSet : Recorded[scenario][f] # <<>>
      BY <2>1, ReplayerAssumption
    <3> QED BY <2>1, StreamIs DEF Streaming
  <2>4. MaxTime \in Nat /\ MaxStamp \in Nat /\ MaxTime <= MaxStamp
    BY ReplayerAssumption, LogLineAssumption, ReplayedLinesAssumption
  <2>5. anchor - T0(scenario) \in -MaxStamp .. MaxStamp BY <2>2, <2>3, <2>4
  <2> QED BY <2>5, ShiftsAreSound
<1> QED BY <1>1, InvCorrect, PTL
=============================================================================
