---------------------------- MODULE Roster_proofs ----------------------------
(***************************************************************************)
(* What a bundle says of every service, for any services, files, rows and  *)
(* windows: with WellSized settings the verdict on a source is the one of  *)
(* all the polls in the window, and records come only with "data".         *)
(*                                                                         *)
(* The invariant says of which polls the buffer's history tells (none that *)
(* a capture still needs is forgotten), that every record was read by some *)
(* poll, and that the two halves of a capture were judged by the polls     *)
(* that overlap them.                                                      *)
(***************************************************************************)
EXTENDS Roster, FiniteSetTheorems, FunctionTheorems, WellFoundedInduction, TLAPS

-----------------------------------------------------------------------------
(* The sum of the counts of a finite set of coverages. *)

Chosen(s) == CHOOSE x \in s : TRUE

Sums(g, D) ==
  g = [s \in D |-> IF s = {} THEN 0
                   ELSE Chosen(s).count + g[s \ {Chosen(s)}]]

Small(S, n) == {s \in SUBSET S : IsFiniteSet(s) /\ Cardinality(s) <= n}

LEMMA LessIsSmaller ==
  ASSUME NEW S, NEW n \in Nat, NEW s \in Small(S, n + 1), s # {}
  PROVE  Chosen(s) \in s /\ s \ {Chosen(s)} \in Small(S, n)
<1>1. Chosen(s) \in s BY DEF Chosen
<1>2. IsFiniteSet(s) /\ Cardinality(s) <= n + 1 /\ s \in SUBSET S BY DEF Small
<1>3. /\ IsFiniteSet(s \ {Chosen(s)})
      /\ Cardinality(s \ {Chosen(s)}) = Cardinality(s) - 1
  BY <1>1, <1>2, FS_RemoveElement
<1>4. Cardinality(s) \in Nat BY <1>2, FS_CardinalityType
<1> QED BY <1>1, <1>2, <1>3, <1>4 DEF Small

(* Summing is well defined, however many there are. *)
LEMMA SumsExist ==
  ASSUME NEW S, IsFiniteSet(S)
  PROVE  \E g : Sums(g, SUBSET S)
<1> DEFINE P(n) == \E g : Sums(g, Small(S, n))
           F == {n \in Nat : ~P(n)}
<1>1. P(0)
  <2> DEFINE g == [s \in Small(S, 0) |-> 0]
  <2>1. \A s \in Small(S, 0) : s = {}
    <3> SUFFICES ASSUME NEW s \in Small(S, 0) PROVE s = {}
      OBVIOUS
    <3>1. IsFiniteSet(s) /\ Cardinality(s) <= 0 BY DEF Small
    <3> QED BY <3>1, FS_CardinalityType, FS_EmptySet
  <2>2. Sums(g, Small(S, 0)) BY <2>1 DEF Sums
  <2> QED BY <2>2
<1>2. ASSUME NEW n \in Nat, P(n) PROVE P(n + 1)
  <2>1. PICK g : Sums(g, Small(S, n)) BY <1>2
  <2> DEFINE h == [s \in Small(S, n + 1) |->
                     IF s = {} THEN 0 ELSE Chosen(s).count + g[s \ {Chosen(s)}]]
  <2>2. ASSUME NEW s \in Small(S, n) PROVE h[s] = g[s]
    <3>1. s \in Small(S, n + 1)
      <4>1. Cardinality(s) \in Nat /\ Cardinality(s) <= n
        BY FS_CardinalityType DEF Small
      <4> QED BY <4>1 DEF Small
    <3> QED BY <2>1, <3>1 DEF Sums
  <2>3. ASSUME NEW s \in Small(S, n + 1), s # {}
        PROVE  h[s] = Chosen(s).count + h[s \ {Chosen(s)}]
    <3>1. s \ {Chosen(s)} \in Small(S, n) BY <2>3, LessIsSmaller
    <3>2. h[s \ {Chosen(s)}] = g[s \ {Chosen(s)}] BY <2>2, <3>1
    <3> QED BY <2>3, <3>2
  <2>4. \A s \in Small(S, n + 1) : s = {} => h[s] = 0 OBVIOUS
  <2>5. h = [s \in Small(S, n + 1) |-> h[s]] OBVIOUS
  <2> HIDE DEF h
  <2>6. Sums(h, Small(S, n + 1)) BY <2>3, <2>4, <2>5 DEF Sums
  <2> QED BY <2>6
<1> HIDE DEF P
<1>3. \A n \in Nat : P(n)
  <2> SUFFICES ASSUME F # {} PROVE FALSE
    OBVIOUS
  <2>1. PICK n \in F : \A m \in F : <<m, n>> \notin OpToRel(<, Nat)
    <3>1. F \in SUBSET Nat OBVIOUS
    <3> HIDE DEF F
    <3> QED BY <3>1, NatLessThanWellFounded, WFMin
  <2>2. n # 0 BY <1>1
  <2>3. n - 1 \in Nat /\ n - 1 < n BY <2>2
  <2>4. n - 1 \notin F BY <2>1, <2>3 DEF OpToRel
  <2>5. P(n - 1) BY <2>3, <2>4
  <2>6. P(n - 1 + 1) BY <1>2, <2>3, <2>5
  <2> QED BY <2>6
<1>4. Cardinality(S) \in Nat BY FS_CardinalityType
<1>5. SUBSET S = Small(S, Cardinality(S))
  <2>1. \A s \in SUBSET S : IsFiniteSet(s) /\ Cardinality(s) <= Cardinality(S)
    BY FS_Subset
  <2> QED BY <2>1 DEF Small
<1> QED BY <1>3, <1>4, <1>5 DEF P

(* The sum of natural numbers is one, and not 0 if one of them is not. *)
Total(S) == MapThenSumSet(LAMBDA c : c.count, S)

LEMMA TotalIs ==
  ASSUME NEW S, IsFiniteSet(S), \A c \in S : c.count \in Nat
  PROVE  Total(S) \in Nat /\ (Total(S) > 0 <=> \E c \in S : c.count > 0)
<1> DEFINE g == CHOOSE f : Sums(f, SUBSET S)
           P(s) == g[s] \in Nat /\ (g[s] > 0 <=> \E c \in s : c.count > 0)
           F == {Cardinality(s) : s \in {t \in SUBSET S : ~P(t)}}
<1>1. Total(S) = g[S]
  BY Zenon DEF Total, MapThenSumSet, MapThenFoldSet, Sums, Chosen
<1>2. Sums(g, SUBSET S) BY SumsExist
<1> HIDE DEF g
<1>3. g[{}] = 0 BY <1>2 DEF Sums
<1>4. \A s \in SUBSET S :
        s # {} => g[s] = Chosen(s).count + g[s \ {Chosen(s)}]
  BY <1>2 DEF Sums
<1>5. \A s \in SUBSET S : IsFiniteSet(s) /\ Cardinality(s) \in Nat
  BY FS_Subset, FS_CardinalityType
<1>6. ASSUME NEW s \in SUBSET S, s # {}, P(s \ {Chosen(s)}) PROVE P(s)
  <2> DEFINE t == s \ {Chosen(s)}
  <2>1. Chosen(s) \in s BY <1>6 DEF Chosen
  <2>2. g[s] = Chosen(s).count + g[t] /\ Chosen(s).count \in Nat
    BY <1>4, <1>6, <2>1
  <2>3. g[t] \in Nat /\ (g[t] > 0 <=> \E c \in t : c.count > 0) BY <1>6
  <2>4. \A c \in s : c = Chosen(s) \/ c \in t OBVIOUS
  <2>5. t \subseteq s OBVIOUS
  <2> HIDE DEF t
  <2> QED BY <2>1, <2>2, <2>3, <2>4, <2>5
<1>7. P({}) BY <1>3
<1> HIDE DEF P
<1>8. \A s \in SUBSET S : P(s)
  <2> SUFFICES ASSUME NEW s0 \in SUBSET S, ~P(s0) PROVE FALSE
    OBVIOUS
  <2>0. F \in SUBSET Nat /\ F # {} BY <1>5
  <2>1. PICK n \in F : \A m \in F : <<m, n>> \notin OpToRel(<, Nat)
    <3> HIDE DEF F
    <3> QED BY <2>0, NatLessThanWellFounded, WFMin
  <2>2. PICK s \in SUBSET S : ~P(s) /\ Cardinality(s) = n OBVIOUS
  <2>3. s # {} BY <1>7, <2>2
  <2> DEFINE t == s \ {Chosen(s)}
  <2>4. ~P(t) BY <1>6, <2>2, <2>3
  <2>5. Chosen(s) \in s BY <2>3 DEF Chosen
  <2>6. Cardinality(t) = Cardinality(s) - 1 /\ t \in SUBSET S
    BY <1>5, <2>5, FS_RemoveElement
  <2>7. Cardinality(t) \in Nat /\ Cardinality(t) < n BY <1>5, <2>2, <2>6
  <2>8. Cardinality(t) \in F BY <2>4, <2>6
  <2>9. n \in Nat BY <2>0
  <2> HIDE DEF F, t
  <2> QED BY <2>1, <2>7, <2>8, <2>9 DEF OpToRel
<1>9. P(S) BY <1>8
<1> QED BY <1>1, <1>9 DEF P
-----------------------------------------------------------------------------
(* The inductive invariant. *)

Clocked ==
  /\ now \in Nat /\ lastPoll \in Nat
  /\ lastPoll <= now /\ now <= lastPoll + LoopInterval
  /\ pc \in {"idle", "finalize", "register"}
  /\ pc # "idle" => now = lastPoll
  /\ exists \subseteq Artifacts
  /\ faults \in Nat /\ faults <= MaxFaults

(* No line waits longer than the polls it was left out of. *)
NotLate ==
  /\ IsFiniteSet(unread)
  /\ \A l \in unread :
       /\ l.file \in Artifacts /\ l.ts \in Nat
       /\ l.ts <= now /\ lastPoll - faults * LoopInterval <= l.ts
  /\ \A t \in read : t \in Int /\ t <= lastPoll /\ lastPoll - Delay <= t

Polled ==
  /\ \A p \in polls :
       /\ p.from \in Nat /\ p.until \in Nat
       /\ p.until = p.from + LoopInterval /\ p.until <= lastPoll
       /\ p.found \subseteq Artifacts
  /\ pc = "finalize" =>
       \E p \in polls :
         p.until = lastPoll /\ p.from = lastPoll - LoopInterval

(* What the buffer's history says of a poll. *)
Covers(c, p, k) ==
  /\ c.from = p.from /\ c.until = p.until
  /\ c.present \in BOOLEAN /\ (c.present <=> k \in Present(p.found))
  /\ c.count \in Nat /\ (c.count > 0 <=> k \in p.got)

Remembered ==
  /\ history = [k \in Sources |-> history[k]]
  /\ \A k \in Listed :
       /\ IsFiniteSet(history[k])
       /\ \A c \in history[k] : \E p \in polls : Covers(c, p, k)
       /\ \A p \in polls :
            p.until >= lastPoll - RetentionSec =>
              \E c \in history[k] : Covers(c, p, k)

(* No record is there that no poll has read, after its time. *)
ReadBy(r, k, p) == k \in p.got /\ r.ts \in Int /\ r.ts <= p.until
Attributed ==
  \A k \in Sources : \A r \in records[k] : \E p \in polls : ReadBy(r, k, p)

(* The verdict on one half of a window, against the polls that overlap it. *)
Judged(e, k, start, end) ==
  LET P == {p \in polls : p.from < end /\ p.until > start} IN
  /\ e.listed \in BOOLEAN /\ (e.listed <=> P # {})
  /\ e.present \in BOOLEAN /\ (e.present <=> \E p \in P : k \in Present(p.found))
  /\ e.count \in Nat /\ (e.count > 0 <=> \E p \in P : k \in p.got)

(* The first half of the capture in progress. *)
HalfDone ==
  session # NoSession =>
    LET a == session.anchor IN
    /\ session = [anchor |-> a, pre |-> session.pre, roster |-> session.roster,
                  firedBy |-> session.firedBy]
    /\ a \in Int /\ a <= lastPoll
    /\ lastPoll - (IF pc = "finalize" THEN LoopInterval ELSE 0) < WindowEnd(a)
    /\ \A k \in Listed :
         /\ Judged(session.roster[k], k, WindowStart(a), a)
         /\ \A r \in session.pre[k] :
              \E p \in polls : ReadBy(r, k, p) /\ p.from < WindowEnd(a)

(* No poll to come overlaps the window of a bundle. *)
Closed ==
  \A i \in 1 .. Len(bundles) :
    bundles[i].anchor \in Int /\ WindowEnd(bundles[i].anchor) <= lastPoll

RosterInv ==
  /\ Clocked /\ NotLate /\ Polled /\ Remembered /\ Attributed
  /\ HalfDone /\ Closed /\ StatusExact /\ RecordsMeanData

-----------------------------------------------------------------------------
(* Facts about the operators. *)

LEMMA SettingsAreNumbers ==
  /\ LoopInterval \in Nat \ {0} /\ PreSec \in Nat /\ PostSec \in Nat \ {0}
  /\ RetentionSec \in Nat /\ MaxFaults \in Nat /\ Delay \in Nat
<1>1. /\ LoopInterval \in Nat \ {0} /\ PreSec \in Nat /\ PostSec \in Nat \ {0}
      /\ RetentionSec \in Nat /\ MaxFaults \in Nat
  BY RosterAssumption, SnapshotAssumption, BufferAssumption
<1>2. \A m \in Nat, n \in Nat : (m + 1) * n \in Nat BY SMTT(30)
<1> QED BY <1>1, <1>2 DEF Delay

(* Lines left out of at most so many polls are no older than Delay. *)
LEMMA DelayBounds ==
  ASSUME NEW n \in Nat
  PROVE  /\ n * LoopInterval \in Nat
         /\ (n + 1) * LoopInterval = n * LoopInterval + LoopInterval
         /\ n <= MaxFaults => n * LoopInterval + LoopInterval <= Delay
         /\ \A m \in Nat : n <= m => n * LoopInterval <= m * LoopInterval
<1>1. LoopInterval \in Nat /\ MaxFaults \in Nat BY SettingsAreNumbers
<1>2. \A m \in Nat, k \in Nat : m * k \in Nat BY SMTT(30)
<1>3. \A m \in Nat, k \in Nat : (m + 1) * k = m * k + k BY SMTT(30)
<1>4. \A m \in Nat, j \in Nat, k \in Nat : m <= j => m * k <= j * k BY SMTT(30)
<1>5. n * LoopInterval \in Nat /\ MaxFaults * LoopInterval \in Nat BY <1>1, <1>2
<1> QED BY <1>1, <1>3, <1>4, <1>5 DEF Delay

LEMMA CountIs ==
  ASSUME NEW S, IsFiniteSet(S)
  PROVE  Cardinality(S) \in Nat /\ (Cardinality(S) > 0 <=> S # {})
<1>1. Cardinality(S) \in Nat BY FS_CardinalityType
<1>2. Cardinality(S) = 0 <=> S = {} BY FS_EmptySet
<1> QED BY <1>1, <1>2

LEMMA ListedAre ==
  /\ Listed \subseteq Sources /\ Modality = Sources
  /\ \A k \in Listed :
       /\ k = <<k[1], k[2]>>
       /\ \/ k[1] \in {"log", "metric", "trace"} /\ k[2] \in Expected /\ k[2] # Node
          \/ k[1] = "metric" /\ k[2] = Node
BY RosterAssumption DEF Listed, Sources

(* A source is present if and only if the file that stands for it is.      *)
LEMMA PresentIs ==
  ASSUME NEW k \in Listed, NEW files, files \subseteq Artifacts
  PROVE  k \in Present(files) <=> \E f \in files : StandsFor(f, k)
<1>1. /\ k = <<k[1], k[2]>>
      /\ \/ k[1] \in {"log", "metric", "trace"} /\ k[2] \in Expected /\ k[2] # Node
         \/ k[1] = "metric" /\ k[2] = Node
  BY ListedAre
<1>2. \A f \in files : f = [dir |-> f.dir, name |-> f.name]
  BY RosterAssumption DEF IsArtifact
<1>3. CASE k[1] = "log"
  <2>1. k \in Present(files) <=> \E f \in files : f.dir = "log" /\ k = <<"log", Canonical(f.name)>>
    BY <1>3, <1>1 DEF Present
  <2>2. \A f : StandsFor(f, k) <=> f.dir = "log" /\ Canonical(f.name) = k[2]
    BY <1>3 DEF StandsFor
  <2> QED BY <1>1, <1>3, <2>1, <2>2
<1>4. CASE k[1] = "metric" /\ k[2] = Node
  <2>1. k \in Present(files) <=> [dir |-> "metric", name |-> "system"] \in files
    BY <1>1, <1>4, RosterAssumption DEF Present
  <2>2. \A f : StandsFor(f, k) <=> f.dir = "metric" /\ f.name = "system"
    BY <1>4 DEF StandsFor
  <2> QED BY <1>2, <2>1, <2>2
<1>5. CASE k[1] = "metric" /\ k[2] # Node
  <2>1. k \in Present(files) <=> [dir |-> "metric", name |-> "container"] \in files
    BY <1>1, <1>5, RosterAssumption DEF Present
  <2>2. \A f : StandsFor(f, k) <=> f.dir = "metric" /\ f.name = "container"
    BY <1>5 DEF StandsFor
  <2> QED BY <1>2, <2>1, <2>2
<1>6. CASE k[1] = "trace"
  <2>1. k \in Present(files) <=> [dir |-> "trace", name |-> "all_traces"] \in files
    BY <1>1, <1>6 DEF Present
  <2>2. \A f : StandsFor(f, k) <=> f.dir = "trace" /\ f.name = "all_traces"
    BY <1>6 DEF StandsFor
  <2> QED BY <1>2, <2>1, <2>2
<1> QED BY <1>1, <1>3, <1>4, <1>5, <1>6

(* What the buffer answers about a span it still remembers.                *)
LEMMA AggregateIs ==
  ASSUME Clocked, Polled, Remembered, NEW k \in Listed, NEW start \in Int,
         NEW end \in Int, lastPoll - RetentionSec <= start
  PROVE  Judged(AggregateRoster(start, end, k), k, start, end)
<1> DEFINE H == history[k]
           O == Overlapping(start, end, k)
           P == {p \in polls : p.from < end /\ p.until > start}
           e == AggregateRoster(start, end, k)
<1>1. /\ IsFiniteSet(H)
      /\ \A c \in H : \E p \in polls : Covers(c, p, k)
      /\ \A p \in polls : p.until >= lastPoll - RetentionSec =>
           \E c \in H : Covers(c, p, k)
  BY DEF Remembered
<1>2. O = {c \in H : c.from < end /\ c.until > start} BY DEF Overlapping
<1>3. /\ e.listed = (O # {}) /\ e.present = (\E c \in O : c.present)
      /\ e.count = Total(O)
  BY DEF AggregateRoster, Total
<1> HIDE DEF e, O, H
<1>4. IsFiniteSet(O) BY <1>1, <1>2, FS_Subset
<1>5. \A c \in O : \E p \in P : Covers(c, p, k) BY <1>1, <1>2 DEF Covers
<1>6. \A p \in P : \E c \in O : Covers(c, p, k)
  <2> SUFFICES ASSUME NEW p \in P PROVE \E c \in O : Covers(c, p, k)
    OBVIOUS
  <2>1. p \in polls /\ p.from < end /\ p.until > start /\ p.until \in Nat
    BY DEF Polled
  <2>2. p.until >= lastPoll - RetentionSec
    BY <2>1, SettingsAreNumbers DEF Clocked
  <2>3. PICK c \in H : Covers(c, p, k) BY <1>1, <2>1, <2>2
  <2> QED BY <1>2, <2>1, <2>3 DEF Covers
<1>7. \A c \in O : c.count \in Nat BY <1>5 DEF Covers
<1>8. Total(O) \in Nat /\ (Total(O) > 0 <=> \E c \in O : c.count > 0)
  BY <1>4, <1>7, TotalIs
<1> HIDE DEF P
<1>9. O # {} <=> P # {} BY <1>5, <1>6
<1>10. (\E c \in O : c.present) <=> \E p \in P : k \in Present(p.found)
  BY <1>5, <1>6 DEF Covers
<1>11. (\E c \in O : c.count > 0) <=> \E p \in P : k \in p.got
  BY <1>5, <1>6 DEF Covers
<1>12. e.listed \in BOOLEAN /\ e.present \in BOOLEAN BY <1>3
<1>13. (e.listed <=> P # {}) /\ (e.present <=> \E p \in P : k \in Present(p.found))
  BY <1>3, <1>9, <1>10
<1>14. e.count \in Nat /\ (e.count > 0 <=> \E p \in P : k \in p.got)
  BY <1>3, <1>8, <1>11
<1> QED BY <1>12, <1>13, <1>14 DEF Judged, P, e
-----------------------------------------------------------------------------
(* A poll keeps the invariant. *)

(* The poll as the history variable remembers it. *)
NewPoll(files) ==
  [from |-> lastPoll, until |-> now, found |-> files,
   got |-> {k \in Sources : BatchOf(k, files).records # {}}]

LEMMA PollIs ==
  ASSUME NEW failing, Poll(failing)
  PROVE  /\ pc = "idle" /\ pc' = "finalize" /\ now = lastPoll + LoopInterval
         /\ now' = now /\ lastPoll' = now /\ exists' = exists
         /\ failing # {} => faults < MaxFaults
         /\ faults' = faults + Cardinality(failing)
         /\ unread' = {l \in unread : l.file \in failing}
         /\ read' = {l.ts : l \in {x \in unread \ unread' : x.ok}}
         /\ polls' = polls \cup {NewPoll(exists \ failing)}
         /\ records' = [k \in Sources |-> KeptRecords(
              records[k] \cup BatchOf(k, exists \ failing).records, now)]
         /\ history' = [k \in Sources |-> KeptHistory(history[k] \cup
              (IF k \in Listed THEN {BatchCoverage(BatchOf(k, exists \ failing))}
               ELSE {}), now)]
         /\ bundles' = bundles /\ session' = session
<1> DEFINE files == exists \ failing
           batch == [k \in Sources |-> BatchOf(k, files)]
<1>1. \A k \in Sources : batch[k] = BatchOf(k, files) OBVIOUS
<1>2. {k \in Sources : batch[k].records # {}} =
        {k \in Sources : BatchOf(k, files).records # {}}
  BY <1>1
<1>3. [k \in Sources |-> KeptRecords(records[k] \cup batch[k].records, now)] =
      [k \in Sources |-> KeptRecords(records[k] \cup BatchOf(k, files).records, now)]
  BY <1>1
<1>4. [k \in Sources |-> KeptHistory(history[k] \cup
         (IF k \in Listed THEN {BatchCoverage(batch[k])} ELSE {}), now)] =
      [k \in Sources |-> KeptHistory(history[k] \cup
         (IF k \in Listed THEN {BatchCoverage(BatchOf(k, files))} ELSE {}), now)]
  BY <1>1
<1>5. /\ polls' = polls \cup {[from |-> lastPoll, until |-> now, found |-> files,
                               got |-> {k \in Sources : batch[k].records # {}}]}
      /\ records' = [k \in Sources |->
                       KeptRecords(records[k] \cup batch[k].records, now)]
      /\ history' = [k \in Sources |-> KeptHistory(history[k] \cup
           (IF k \in Listed THEN {BatchCoverage(batch[k])} ELSE {}), now)]
  BY DEF Poll
<1> HIDE DEF batch
<1>6. /\ pc = "idle" /\ pc' = "finalize" /\ now = lastPoll + LoopInterval
      /\ now' = now /\ lastPoll' = now /\ exists' = exists
      /\ failing # {} => faults < MaxFaults
      /\ faults' = faults + Cardinality(failing)
      /\ unread' = {l \in unread : l.file \in failing}
      /\ read' = {l.ts : l \in {x \in unread \ unread' : x.ok}}
      /\ bundles' = bundles /\ session' = session
  BY DEF Poll
<1> QED BY <1>2, <1>3, <1>4, <1>5, <1>6 DEF NewPoll

(* The lines of a poll become finitely many records, none of a later time. *)
LEMMA BatchIs ==
  ASSUME NotLate, NEW k, NEW files
  PROVE  /\ IsFiniteSet(BatchOf(k, files).records)
         /\ \A r \in BatchOf(k, files).records : r.ts \in Int /\ r.ts <= now
<1> DEFINE U == {l \in unread : l.file \in files}
           D == {x \in U : x.ok /\ k = <<x.file.dir, ServiceOf(x.file, x.row)>>}
           R == BatchOf(k, files).records
           f == [l \in D |-> [ts |-> l.ts, kind |-> l.file]]
<1>1. R = {[ts |-> l.ts, kind |-> l.file] : l \in D} BY DEF BatchOf, Normalized
<1>2. D \subseteq unread OBVIOUS
<1> HIDE DEF D, R
<1>3. IsFiniteSet(D) BY <1>2, FS_Subset DEF NotLate
<1>4. f \in Surjection(D, R)
  <2>1. f \in [D -> R] BY <1>1
  <2>2. \A r \in R : \E l \in D : f[l] = r BY <1>1
  <2> HIDE DEF f
  <2> QED BY <2>1, <2>2 DEF Surjection
<1> HIDE DEF f
<1>5. IsFiniteSet(R) BY <1>3, <1>4, FS_Surjection
<1>6. \A r \in R : r.ts \in Int /\ r.ts <= now BY <1>1, <1>2 DEF NotLate
<1> QED BY <1>5, <1>6 DEF R

LEMMA PollKeepsClock ==
  ASSUME Clocked, NotLate, NEW failing \in {{}} \cup {{f} : f \in exists},
         Poll(failing)
  PROVE  Clocked' /\ NotLate'
<1>1. /\ pc' = "finalize" /\ now = lastPoll + LoopInterval
      /\ now' = now /\ lastPoll' = now /\ exists' = exists
      /\ failing # {} => faults < MaxFaults
      /\ faults' = faults + Cardinality(failing)
      /\ unread' = {l \in unread : l.file \in failing}
      /\ read' = {l.ts : l \in {x \in unread \ unread' : x.ok}}
  BY PollIs
<1>2. /\ LoopInterval \in Nat \ {0} /\ MaxFaults \in Nat /\ Delay \in Nat
  BY SettingsAreNumbers
<1>3. \/ failing = {} /\ Cardinality(failing) = 0
      \/ failing # {} /\ Cardinality(failing) = 1
  <2>1. CASE failing = {} BY <2>1, FS_EmptySet
  <2>2. CASE \E f \in exists : failing = {f}
    <3>1. PICK f \in exists : failing = {f} BY <2>2
    <3>2. Cardinality({f}) = 1 BY FS_Singleton
    <3> QED BY <3>1, <3>2
  <2> QED BY <2>1, <2>2
<1>4. faults \in Nat /\ faults <= MaxFaults /\ faults' \in Nat /\ faults' <= MaxFaults
  BY <1>1, <1>2, <1>3 DEF Clocked
<1>5. Clocked' BY <1>1, <1>2, <1>4 DEF Clocked
<1>6. /\ faults * LoopInterval \in Nat
      /\ (faults + 1) * LoopInterval = faults * LoopInterval + LoopInterval
      /\ faults * LoopInterval + LoopInterval <= Delay
  BY <1>4, DelayBounds
<1> DEFINE m == faults * LoopInterval
           n == faults' * LoopInterval
<1>7. failing # {} => n = m + LoopInterval
  <2>1. failing # {} => faults' = faults + 1 BY <1>1, <1>3
  <2> QED BY <1>6, <2>1
<1>8. \A l \in unread : l.file \in Artifacts /\ l.ts \in Nat /\ l.ts <= now
                        /\ lastPoll - m <= l.ts
  BY DEF NotLate
<1>9. m \in Nat /\ m + LoopInterval <= Delay BY <1>6
<1> HIDE DEF m, n
<1>10. IsFiniteSet(unread')
  <2>1. unread' \subseteq unread BY <1>1
  <2> QED BY <2>1, FS_Subset DEF NotLate
<1>11. ASSUME NEW l \in unread'
       PROVE  l.file \in Artifacts /\ l.ts \in Nat /\ l.ts <= now
              /\ now - n <= l.ts
  <2>1. l \in unread /\ failing # {} BY <1>1
  <2> QED BY <1>1, <1>2, <1>7, <1>8, <1>9, <2>1 DEF Clocked
<1>12. ASSUME NEW t \in read'
       PROVE  t \in Int /\ t <= now /\ now - Delay <= t
  <2>1. PICK l \in unread : t = l.ts BY <1>1
  <2> QED BY <1>1, <1>2, <1>8, <1>9, <2>1 DEF Clocked
<1>13. NotLate' BY <1>1, <1>10, <1>11, <1>12 DEF NotLate, n
<1> QED BY <1>5, <1>13

LEMMA PollKeepsPolls ==
  ASSUME Clocked, Polled, NEW failing, Poll(failing)
  PROVE  Polled'
<1> DEFINE N == NewPoll(exists \ failing)
<1>1. /\ now = lastPoll + LoopInterval /\ lastPoll' = now
      /\ polls' = polls \cup {N}
  BY PollIs
<1>2. /\ N.from = lastPoll /\ N.until = now /\ N.found \subseteq Artifacts
  BY DEF NewPoll, Clocked
<1> HIDE DEF N
<1>3. lastPoll \in Nat /\ now \in Nat /\ lastPoll < now
      /\ lastPoll = now - LoopInterval /\ LoopInterval \in Nat
  BY <1>1, SettingsAreNumbers DEF Clocked
<1>4. \A p \in polls' : /\ p.from \in Nat /\ p.until \in Nat
                        /\ p.until = p.from + LoopInterval /\ p.until <= now
                        /\ p.found \subseteq Artifacts
  BY <1>1, <1>2, <1>3 DEF Polled
<1>5. N \in polls' /\ N.until = now /\ N.from = now - LoopInterval
  BY <1>1, <1>2, <1>3
<1> QED BY <1>1, <1>4, <1>5 DEF Polled

LEMMA PollKeepsHistory ==
  ASSUME Clocked, NotLate, Polled, Remembered, NEW failing, Poll(failing)
  PROVE  Remembered'
<1> DEFINE files == exists \ failing
           N == NewPoll(files)
           R(k) == BatchOf(k, files).records
           B(k) == BatchCoverage(BatchOf(k, files))
<1>1. /\ now = lastPoll + LoopInterval /\ lastPoll' = now
      /\ polls' = polls \cup {N}
      /\ history' = [k \in Sources |-> KeptHistory(history[k] \cup
           (IF k \in Listed THEN {B(k)} ELSE {}), now)]
  BY PollIs
<1>2. ASSUME NEW k \in Listed PROVE Covers(B(k), N, k)
  <2>1. IsFiniteSet(R(k)) BY BatchIs
  <2>2. Cardinality(R(k)) \in Nat /\ (Cardinality(R(k)) > 0 <=> R(k) # {})
    BY <2>1, CountIs
  <2>3. k \in N.got <=> R(k) # {} BY ListedAre DEF NewPoll
  <2>4. /\ B(k).from = lastPoll /\ B(k).until = now
        /\ B(k).present = (k \in Present(files))
        /\ B(k).count = Cardinality(R(k))
    BY DEF BatchCoverage, BatchOf
  <2>5. N.from = lastPoll /\ N.until = now /\ N.found = files BY DEF NewPoll
  <2> HIDE DEF B, N, R, files
  <2>6. B(k).present \in BOOLEAN /\ (B(k).present <=> k \in Present(N.found))
    <3>1. B(k).present \in BOOLEAN /\ (B(k).present <=> k \in Present(files))
      <4>1. B(k).present = (k \in Present(files)) BY <2>4
      <4>2. (k \in Present(files)) \in BOOLEAN OBVIOUS
      <4> QED BY <4>1, <4>2
    <3> QED BY <2>5, <3>1
  <2>7. B(k).count \in Nat /\ (B(k).count > 0 <=> k \in N.got)
    BY <2>2, <2>3, <2>4
  <2> QED BY <2>4, <2>5, <2>6, <2>7 DEF Covers
<1> HIDE DEF B, N, files
<1>3. lastPoll \in Nat /\ now \in Nat /\ lastPoll <= now /\ RetentionSec \in Nat
  BY SettingsAreNumbers DEF Clocked
<1>4. \A p \in polls : p.until \in Nat BY DEF Polled
<1>5. ASSUME NEW k \in Listed
      PROVE  /\ IsFiniteSet(history'[k])
             /\ \A c \in history'[k] : \E p \in polls' : Covers(c, p, k)
             /\ \A p \in polls' :
                  p.until >= now - RetentionSec =>
                    \E c \in history'[k] : Covers(c, p, k)
  <2>0. k \in Sources BY ListedAre
  <2>1. history'[k] = KeptHistory(history[k] \cup {B(k)}, now) BY <1>1, <2>0
  <2>2. history'[k] = {c \in history[k] \cup {B(k)} : c.until >= now - RetentionSec}
    BY <2>1 DEF KeptHistory, Threshold
  <2>3. /\ IsFiniteSet(history[k])
        /\ \A c \in history[k] : \E p \in polls : Covers(c, p, k)
        /\ \A p \in polls : p.until >= lastPoll - RetentionSec =>
             \E c \in history[k] : Covers(c, p, k)
    BY DEF Remembered
  <2>4. IsFiniteSet(history'[k])
    <3>1. IsFiniteSet(history[k] \cup {B(k)}) BY <2>3, FS_AddElement
    <3> QED BY <2>2, <3>1, FS_Subset
  <2>5. \A c \in history'[k] : \E p \in polls' : Covers(c, p, k)
    BY <1>1, <1>2, <2>2, <2>3
  <2>6. ASSUME NEW p \in polls', p.until >= now - RetentionSec
        PROVE  \E c \in history'[k] : Covers(c, p, k)
    <3>1. CASE p = N
      <4>1. Covers(B(k), N, k) BY <1>2
      <4>2. B(k).until = N.until BY <4>1 DEF Covers
      <4> QED BY <2>2, <2>6, <3>1, <4>1, <4>2
    <3>2. CASE p \in polls
      <4>1. p.until >= lastPoll - RetentionSec BY <1>3, <1>4, <2>6, <3>2
      <4>2. PICK c \in history[k] : Covers(c, p, k) BY <2>3, <3>2, <4>1
      <4>3. c.until = p.until BY <4>2 DEF Covers
      <4> QED BY <2>2, <2>6, <4>2, <4>3
    <3> QED BY <1>1, <3>1, <3>2
  <2> QED BY <2>4, <2>5, <2>6
<1>6. history' = [k \in Sources |-> history'[k]] BY <1>1
<1> QED BY <1>1, <1>5, <1>6 DEF Remembered, Covers

LEMMA PollKeepsRecords ==
  ASSUME NotLate, Attributed, NEW failing, Poll(failing)
  PROVE  Attributed'
<1> DEFINE files == exists \ failing
           N == NewPoll(files)
           R(k) == BatchOf(k, files).records
<1>1. /\ polls' = polls \cup {N}
      /\ records' = [k \in Sources |-> KeptRecords(records[k] \cup R(k), now)]
  BY PollIs
<1> SUFFICES ASSUME NEW k \in Sources, NEW r \in records'[k]
    PROVE  \E p \in polls' : ReadBy(r, k, p)
  BY DEF Attributed, ReadBy
<1>2. r \in records[k] \/ r \in R(k) BY <1>1 DEF KeptRecords
<1>3. r \in R(k) => ReadBy(r, k, N)
  <2>1. r \in R(k) => r.ts \in Int /\ r.ts <= now BY BatchIs
  <2>2. r \in R(k) => k \in N.got BY DEF NewPoll
  <2>3. N.until = now BY DEF NewPoll
  <2> QED BY <2>1, <2>2, <2>3 DEF ReadBy
<1>4. r \in records[k] => \E p \in polls : ReadBy(r, k, p) BY DEF Attributed
<1> QED BY <1>1, <1>2, <1>3, <1>4

LEMMA PollKeepsHalves ==
  ASSUME Clocked, Polled, HalfDone, NEW failing, Poll(failing)
  PROVE  HalfDone'
<1> DEFINE N == NewPoll(exists \ failing)
<1>1. /\ pc = "idle" /\ pc' = "finalize" /\ now = lastPoll + LoopInterval
      /\ lastPoll' = now /\ polls' = polls \cup {N} /\ session' = session
  BY PollIs
<1>2. N.from = lastPoll BY DEF NewPoll
<1> HIDE DEF N
<1> SUFFICES ASSUME session # NoSession PROVE HalfDone'
  BY <1>1 DEF HalfDone
<1> DEFINE a == session.anchor
<1>3. /\ session = [anchor |-> a, pre |-> session.pre, roster |-> session.roster,
                    firedBy |-> session.firedBy]
      /\ a \in Int /\ a <= lastPoll
      /\ lastPoll < WindowEnd(a)
      /\ \A k \in Listed :
           /\ Judged(session.roster[k], k, WindowStart(a), a)
           /\ \A r \in session.pre[k] :
                \E p \in polls : ReadBy(r, k, p) /\ p.from < WindowEnd(a)
  <2>1. lastPoll - 0 = lastPoll BY DEF Clocked
  <2> QED BY <1>1, <2>1 DEF HalfDone
<1> HIDE DEF a
<1>4. lastPoll \in Nat /\ now - LoopInterval = lastPoll /\ lastPoll <= now /\ now \in Nat
  BY <1>1, SettingsAreNumbers DEF Clocked
<1>5. {p \in polls' : p.from < a /\ p.until > WindowStart(a)} =
      {p \in polls : p.from < a /\ p.until > WindowStart(a)}
  BY <1>1, <1>2, <1>3, <1>4
<1>6. ASSUME NEW k \in Listed PROVE Judged(session.roster[k], k, WindowStart(a), a)'
  <2>1. Judged(session.roster[k], k, WindowStart(a), a) BY <1>3
  <2>2. a' = a BY <1>1 DEF a
  <2> QED BY <1>1, <1>5, <2>1, <2>2 DEF Judged, WindowStart
<1>7. \A k \in Listed : \A r \in session.pre[k] :
        \E p \in polls' : ReadBy(r, k, p) /\ p.from < WindowEnd(a)
  BY <1>1, <1>3
<1>8. a' = a BY <1>1 DEF a
<1>9. a <= now BY <1>3, <1>4
<1> QED BY <1>1, <1>3, <1>4, <1>6, <1>7, <1>8, <1>9
     DEF HalfDone, a, ReadBy, WindowEnd, WindowStart

LEMMA PollKeepsBundles ==
  ASSUME Clocked, Closed, StatusExact, RecordsMeanData, NEW failing, Poll(failing)
  PROVE  Closed' /\ StatusExact' /\ RecordsMeanData'
<1> DEFINE N == NewPoll(exists \ failing)
<1>1. /\ now = lastPoll + LoopInterval
      /\ lastPoll' = now /\ polls' = polls \cup {N} /\ bundles' = bundles
  BY PollIs
<1>2. N.from = lastPoll BY DEF NewPoll
<1> HIDE DEF N
<1>3. lastPoll \in Nat /\ lastPoll <= now /\ now \in Nat BY DEF Clocked
<1>4. ASSUME NEW i \in 1 .. Len(bundles)
      PROVE  bundles[i].anchor \in Int /\ WindowEnd(bundles[i].anchor) <= lastPoll
  BY DEF Closed
<1>5. Closed'
  <2>1. \A i \in 1 .. Len(bundles) : WindowEnd(bundles[i].anchor) \in Int
    BY <1>4, SettingsAreNumbers DEF WindowEnd
  <2> QED BY <1>1, <1>3, <1>4, <2>1 DEF Closed, WindowEnd
<1>6. ASSUME NEW i \in 1 .. Len(bundles)
      PROVE  PollsOf(bundles[i])' = PollsOf(bundles[i])
  <2>1. WindowEnd(bundles[i].anchor) \in Int
    BY <1>4, SettingsAreNumbers DEF WindowEnd
  <2>2. ~(lastPoll < WindowEnd(bundles[i].anchor)) BY <1>3, <1>4, <2>1
  <2> QED BY <1>1, <1>2, <2>2 DEF PollsOf, WindowEnd, WindowStart
<1>7. StatusExact' BY <1>1, <1>6 DEF StatusExact
<1>8. RecordsMeanData' BY <1>1 DEF RecordsMeanData, WindowStart
<1> QED BY <1>5, <1>7, <1>8
-----------------------------------------------------------------------------
(* So does a bundle: its two halves make one verdict. *)

LEMMA BundleIs ==
  ASSUME WellSized, Clocked, Polled, Remembered, Attributed, HalfDone,
         pc = "finalize", Ready(now)
  PROVE  LET b == Assemble(session) IN
         /\ b.anchor \in Int /\ WindowEnd(b.anchor) <= lastPoll
         /\ \A k \in Listed :
              /\ b.info[k].listed
              /\ b.info[k].status =
                   IF \E p \in PollsOf(b) : k \in p.got THEN "data"
                   ELSE IF \E p \in PollsOf(b) : \E f \in p.found : StandsFor(f, k)
                        THEN "empty" ELSE "missing"
              /\ (\E r \in b.records[k] : r.ts > WindowStart(b.anchor)) =>
                   b.info[k].status = "data"
<1> DEFINE a == session.anchor
           b == Assemble(session)
           pre == session.roster
           post == SnapshotCoverage(a, WindowEnd(a))
           P == PollsOf(b)
<1>1. /\ a \in Int /\ a <= lastPoll
      /\ lastPoll - LoopInterval < WindowEnd(a) /\ WindowEnd(a) <= lastPoll
      /\ \A k \in Listed :
           /\ Judged(pre[k], k, WindowStart(a), a)
           /\ \A r \in session.pre[k] :
                \E p \in polls : ReadBy(r, k, p) /\ p.from < WindowEnd(a)
  BY DEF HalfDone, Ready, Clocked
<1>2. /\ b.anchor = a
      /\ b.records = [k \in Modality |->
                        session.pre[k] \cup Span(records[k], a, WindowEnd(a))]
      /\ b.info = ModalityInfo(pre, post, b.records)
  <2>1. \A k \in Modality : SnapshotRecords(a, WindowEnd(a))[k] =
                              Span(records[k], a, WindowEnd(a))
    BY DEF SnapshotRecords
  <2> QED BY <2>1 DEF Assemble
<1>3. P = {p \in polls : p.from < WindowEnd(a) /\ p.until > WindowStart(a)}
  BY <1>2 DEF PollsOf
<1>4. /\ PreSec \in Nat /\ PostSec \in Nat \ {0} /\ RetentionSec \in Nat
      /\ LoopInterval \in Nat \ {0} /\ lastPoll \in Nat
      /\ LoopInterval + PostSec <= RetentionSec + 1
      /\ WindowStart(a) = a - PreSec /\ WindowEnd(a) = a + PostSec
  BY SettingsAreNumbers DEF Clocked, WellSized, WindowStart, WindowEnd
<1>5. \A p \in polls : p.from \in Nat /\ p.until \in Nat
                       /\ p.until = p.from + LoopInterval /\ p.until <= lastPoll
                       /\ p.found \subseteq Artifacts
  BY DEF Polled
<1> HIDE DEF a, b, pre, post, P
<1>6. P # {}
  <2>1. PICK p \in polls : p.until = lastPoll /\ p.from = lastPoll - LoopInterval
    BY DEF Polled
  <2>2. p.from < WindowEnd(a) /\ p.until > WindowStart(a)
    BY <1>1, <1>4, <2>1
  <2> QED BY <1>3, <2>1, <2>2
<1>7. ASSUME NEW k \in Listed
      PROVE  /\ b.info[k].listed
             /\ b.info[k].status =
                  IF \E p \in P : k \in p.got THEN "data"
                  ELSE IF \E p \in P : \E f \in p.found : StandsFor(f, k)
                       THEN "empty" ELSE "missing"
  <2> DEFINE A == {p \in polls : p.from < a /\ p.until > WindowStart(a)}
             Z == {p \in polls : p.from < WindowEnd(a) /\ p.until > a}
             x == pre[k]
             y == post[k]
  <2>0. k \in Modality BY ListedAre
  <2>1. Judged(x, k, WindowStart(a), a) BY <1>1
  <2>2. Judged(y, k, a, WindowEnd(a))
    <3>1. y = AggregateRoster(a, WindowEnd(a), k)
      BY <2>0 DEF post, SnapshotCoverage
    <3>2. lastPoll - RetentionSec <= a /\ WindowEnd(a) \in Int BY <1>1, <1>4
    <3> QED BY <1>1, <3>1, <3>2, AggregateIs
  <2>3. P = A \cup Z
    <3>1. \A p \in A : p \in P BY <1>1, <1>3, <1>4, <1>5
    <3>2. \A p \in Z : p \in P BY <1>1, <1>3, <1>4, <1>5
    <3>3. \A p \in P : p \in A \/ p \in Z BY <1>1, <1>3, <1>4, <1>5
    <3> QED BY <3>1, <3>2, <3>3
  <2>4. /\ x.listed \in BOOLEAN /\ (x.listed <=> A # {})
        /\ x.present \in BOOLEAN /\ (x.present <=> \E p \in A : k \in Present(p.found))
        /\ x.count \in Nat /\ (x.count > 0 <=> \E p \in A : k \in p.got)
    BY <2>1 DEF Judged
  <2>5. /\ y.listed \in BOOLEAN /\ (y.listed <=> Z # {})
        /\ y.present \in BOOLEAN /\ (y.present <=> \E p \in Z : k \in Present(p.found))
        /\ y.count \in Nat /\ (y.count > 0 <=> \E p \in Z : k \in p.got)
    BY <2>2 DEF Judged
  <2>6. /\ b.info[k].listed = (x.listed \/ y.listed)
        /\ b.info[k].status = IF x.count + y.count > 0 THEN "data"
                              ELSE IF x.present \/ y.present THEN "empty"
                              ELSE "missing"
    BY <1>2, <2>0 DEF ModalityInfo
  <2>7. \A p \in P : k \in Present(p.found) <=>
                       \E f \in p.found : StandsFor(f, k)
    BY <1>3, <1>5, PresentIs
  <2> HIDE DEF A, Z, x, y
  <2>8. x.listed \/ y.listed BY <1>6, <2>3, <2>4, <2>5
  <2>9. x.count + y.count > 0 <=> \E p \in P : k \in p.got
    BY <2>3, <2>4, <2>5
  <2>10. x.present \/ y.present <=> \E p \in P : \E f \in p.found : StandsFor(f, k)
    BY <2>3, <2>4, <2>5, <2>7
  <2> QED BY <2>6, <2>8, <2>9, <2>10
<1>8. ASSUME NEW k \in Listed, NEW r \in b.records[k], r.ts > WindowStart(a)
      PROVE  b.info[k].status = "data"
  <2>0. k \in Modality /\ k \in Sources BY ListedAre
  <2>1. \E p \in polls : ReadBy(r, k, p) /\ p.from < WindowEnd(a)
    <3>1. CASE r \in session.pre[k] BY <1>1, <3>1
    <3>2. CASE r \in records[k]
      <4>1. PICK p \in polls : ReadBy(r, k, p) BY <2>0, <3>2 DEF Attributed
      <4>2. p.from < WindowEnd(a) BY <1>1, <1>4, <1>5
      <4> QED BY <4>1, <4>2
    <3> QED BY <1>2, <2>0, <3>1, <3>2 DEF Span
  <2>2. PICK p \in polls : ReadBy(r, k, p) /\ p.from < WindowEnd(a) BY <2>1
  <2>3. k \in p.got /\ p.until > WindowStart(a)
    BY <1>1, <1>4, <1>5, <1>8, <2>2 DEF ReadBy
  <2>4. p \in P BY <1>3, <2>2, <2>3
  <2> QED BY <1>7, <2>3, <2>4
<1> QED BY <1>1, <1>2, <1>7, <1>8 DEF P, b

LEMMA HistoryStays ==
  ASSUME Remembered, UNCHANGED <<lastPoll, polls, history>>
  PROVE  Remembered'
<1>1. lastPoll' = lastPoll /\ polls' = polls /\ history' = history OBVIOUS
<1> QED BY <1>1 DEF Remembered, Covers

LEMMA FinalizeKeeps ==
  ASSUME WellSized, RosterInv, Finalize
  PROVE  RosterInv'
<1>1. /\ pc = "finalize" /\ pc' = "register" /\ bundles' = Bundles(now)
      /\ session' = IF Ready(now) THEN NoSession ELSE session
      /\ now' = now /\ lastPoll' = lastPoll /\ exists' = exists
      /\ unread' = unread /\ faults' = faults /\ read' = read
      /\ polls' = polls /\ records' = records /\ history' = history
  BY DEF Finalize, FinalizeReady, environment, bufferVars
<1>2. /\ Clocked /\ NotLate /\ Polled /\ Remembered /\ Attributed /\ HalfDone
      /\ Closed /\ StatusExact /\ RecordsMeanData
  BY DEF RosterInv
<1>3. Clocked' BY <1>1, <1>2 DEF Clocked
<1>4. NotLate' BY <1>1, <1>2 DEF NotLate
<1>5. Polled' BY <1>1, <1>2 DEF Polled
<1>6. Remembered' BY <1>1, <1>2 DEF Remembered, Covers
<1>7. Attributed' BY <1>1, <1>2 DEF Attributed, ReadBy
<1>8. HalfDone'
  <2> SUFFICES ASSUME ~Ready(now), session # NoSession PROVE HalfDone'
    BY <1>1 DEF HalfDone
  <2> DEFINE a == session.anchor
  <2>1. /\ session = [anchor |-> a, pre |-> session.pre, roster |-> session.roster,
                      firedBy |-> session.firedBy]
        /\ a \in Int /\ a <= lastPoll
        /\ \A k \in Listed :
             /\ Judged(session.roster[k], k, WindowStart(a), a)
             /\ \A r \in session.pre[k] :
                  \E p \in polls : ReadBy(r, k, p) /\ p.from < WindowEnd(a)
    BY <1>2 DEF HalfDone
  <2>2. now = lastPoll /\ lastPoll \in Nat BY <1>1, <1>2 DEF Clocked
  <2>3. WindowEnd(a) \in Int BY <2>1, SettingsAreNumbers DEF WindowEnd
  <2>4. lastPoll - 0 < WindowEnd(a) BY <2>2, <2>3 DEF Ready
  <2>5. session' = session BY <1>1
  <2>6. a' = a BY <2>5
  <2> HIDE DEF a
  <2>7. \A k \in Listed : Judged(session.roster[k], k, WindowStart(a), a)'
    BY <1>1, <2>1, <2>5, <2>6 DEF Judged, WindowStart
  <2> QED BY <1>1, <2>1, <2>4, <2>5, <2>6, <2>7
       DEF HalfDone, a, ReadBy, WindowEnd, WindowStart
<1>9. Closed' /\ StatusExact' /\ RecordsMeanData'
  <2>1. CASE Ready(now)
    <3> DEFINE b == Assemble(session)
    <3>1. bundles' = <<b>> BY <1>1, <2>1 DEF Bundles
    <3>2. /\ b.anchor \in Int /\ WindowEnd(b.anchor) <= lastPoll
          /\ \A k \in Listed :
               /\ b.info[k].listed
               /\ b.info[k].status =
                    IF \E p \in PollsOf(b) : k \in p.got THEN "data"
                    ELSE IF \E p \in PollsOf(b) : \E f \in p.found : StandsFor(f, k)
                         THEN "empty" ELSE "missing"
               /\ (\E r \in b.records[k] : r.ts > WindowStart(b.anchor)) =>
                    b.info[k].status = "data"
      BY <1>1, <1>2, <2>1, BundleIs
    <3> HIDE DEF b
    <3>3. Len(bundles') = 1 /\ bundles'[1] = b BY <3>1
    <3>4. \A i \in 1 .. Len(bundles') : bundles'[i] = b BY <3>3
    <3>5. PollsOf(b)' = {p \in polls : p.from < WindowEnd(b'.anchor)
                                       /\ p.until > WindowStart(b'.anchor)}
      BY <1>1 DEF PollsOf, WindowEnd, WindowStart
    <3>6. \A x : {p \in polls' : p.from < WindowEnd(x.anchor)
                                 /\ p.until > WindowStart(x.anchor)} = PollsOf(x)
      BY <1>1 DEF PollsOf
    <3>7. Closed' BY <1>1, <3>2, <3>4 DEF Closed, WindowEnd
    <3>8. StatusExact'
      <4> SUFFICES ASSUME NEW i \in 1 .. Len(bundles'), NEW k \in Listed
          PROVE  /\ bundles'[i].info[k].listed
                 /\ bundles'[i].info[k].status =
                      IF \E p \in PollsOf(bundles[i])' : k \in p.got THEN "data"
                      ELSE IF \E p \in PollsOf(bundles[i])' :
                                \E f \in p.found : StandsFor(f, k)
                           THEN "empty" ELSE "missing"
        BY DEF StatusExact
      <4>1. bundles'[i] = b BY <3>4
      <4>2. PollsOf(bundles[i])' = PollsOf(b)
        BY <3>6, <4>1 DEF PollsOf, WindowEnd, WindowStart
      <4> QED BY <3>2, <4>1, <4>2
    <3>9. RecordsMeanData' BY <3>2, <3>4 DEF RecordsMeanData, WindowStart
    <3> QED BY <3>7, <3>8, <3>9
  <2>2. CASE ~Ready(now)
    <3>1. bundles' = <<>> BY <1>1, <2>2 DEF Bundles
    <3>2. 1 .. Len(bundles') = {} BY <3>1
    <3> QED BY <3>2 DEF Closed, StatusExact, RecordsMeanData
  <2> QED BY <2>1, <2>2
<1> QED BY <1>3, <1>4, <1>5, <1>6, <1>7, <1>8, <1>9 DEF RosterInv

(* And a capture that opens or absorbs a trigger. *)
LEMMA RegisterKeeps ==
  ASSUME WellSized, RosterInv, Register
  PROVE  RosterInv'
<1>1. PICK T \in {{}} \cup {{t} : t \in read \cup {now}} :
        RegisterTriggers({[modality |-> "any", time |-> t] : t \in T})
  BY DEF Register
<1>2. /\ pc = "register" /\ pc' = "idle" /\ read' = {}
      /\ now' = now /\ lastPoll' = lastPoll /\ exists' = exists
      /\ unread' = unread /\ faults' = faults /\ bundles' = bundles
      /\ polls' = polls /\ records' = records /\ history' = history
  BY DEF Register, environment, bufferVars
<1>3. /\ Clocked /\ NotLate /\ Polled /\ Remembered /\ Attributed /\ HalfDone
      /\ Closed /\ StatusExact /\ RecordsMeanData
  BY DEF RosterInv
<1>4. Clocked' BY <1>2, <1>3 DEF Clocked
<1>5. NotLate' BY <1>2, <1>3 DEF NotLate
<1>6. Polled' BY <1>2, <1>3 DEF Polled
<1>7. Remembered' BY <1>2, <1>3, HistoryStays
<1>8. Attributed' BY <1>2, <1>3 DEF Attributed, ReadBy
<1>9. Closed' BY <1>2, <1>3 DEF Closed, WindowEnd
<1>10. StatusExact'
  <2>1. \A i : PollsOf(bundles[i])' = PollsOf(bundles[i])
    BY <1>2 DEF PollsOf, WindowEnd, WindowStart
  <2> QED BY <1>2, <1>3, <2>1 DEF StatusExact
<1>11. RecordsMeanData' BY <1>2, <1>3 DEF RecordsMeanData, WindowStart
<1> DEFINE E == {[modality |-> "any", time |-> t] : t \in T}
<1>12. now = lastPoll /\ lastPoll \in Nat BY <1>2, <1>3 DEF Clocked
<1>13. \A e \in E : e.time \in Int /\ e.time <= lastPoll /\ lastPoll - Delay <= e.time
  <2>1. \A t \in read \cup {now} : t \in Int /\ t <= lastPoll /\ lastPoll - Delay <= t
    BY <1>3, <1>12, SettingsAreNumbers DEF NotLate
  <2>2. T \subseteq read \cup {now} OBVIOUS
  <2> QED BY <2>1, <2>2
<1> HIDE DEF E
<1>14. HalfDone'
  <2>1. CASE UNCHANGED session
    <3> SUFFICES ASSUME session # NoSession PROVE HalfDone'
      BY <2>1 DEF HalfDone
    <3> DEFINE a == session.anchor
    <3>1. a' = a BY <2>1
    <3>2. \A k \in Listed : Judged(session.roster[k], k, WindowStart(a), a)
      BY <1>3 DEF HalfDone
    <3> HIDE DEF a
    <3>3. \A k \in Listed : Judged(session.roster[k], k, WindowStart(a), a)'
      BY <1>2, <2>1, <3>1, <3>2 DEF Judged, WindowStart
    <3> QED BY <1>2, <1>3, <2>1, <3>1, <3>3
         DEF HalfDone, a, ReadBy, WindowEnd, WindowStart
  <2>2. CASE AbsorbTriggers(E)
    <3> DEFINE a == session.anchor
    <3>1. /\ session # NoSession
          /\ session' = [session EXCEPT !.firedBy = @ \cup Fired(E)]
      BY <2>2 DEF AbsorbTriggers
    <3>2. /\ session = [anchor |-> a, pre |-> session.pre, roster |-> session.roster,
                        firedBy |-> session.firedBy]
          /\ a \in Int /\ a <= lastPoll /\ lastPoll - 0 < WindowEnd(a)
          /\ \A k \in Listed :
               /\ Judged(session.roster[k], k, WindowStart(a), a)
               /\ \A r \in session.pre[k] :
                    \E p \in polls : ReadBy(r, k, p) /\ p.from < WindowEnd(a)
      BY <1>2, <1>3, <3>1 DEF HalfDone
    <3> DEFINE F == session.firedBy \cup Fired(E)
    <3>3. session' = [anchor |-> a, pre |-> session.pre, roster |-> session.roster,
                      firedBy |-> F]
      BY <3>1, <3>2
    <3> HIDE DEF F
    <3>4. /\ session'.anchor = a /\ session'.pre = session.pre
          /\ session'.roster = session.roster /\ session'.firedBy = F
      BY <3>3
    <3> HIDE DEF a
    <3>5. \A k \in Listed :
            Judged(session'.roster[k], k, WindowStart(a), a)
      BY <3>2, <3>4
    <3>6. \A k \in Listed :
            Judged(session.roster[k], k, WindowStart(session.anchor), session.anchor)'
      BY <1>2, <3>4, <3>5 DEF Judged, WindowStart
    <3> QED BY <1>2, <3>2, <3>3, <3>4, <3>6
         DEF HalfDone, ReadBy, WindowEnd, WindowStart
  <2>3. CASE OpenSession(E)
    <3>1. PICK a \in {e.time : e \in E} : session' = NewSession(a, E)
      BY <2>3 DEF OpenSession
    <3>2. a \in Int /\ a <= lastPoll /\ lastPoll - Delay <= a BY <1>13, <3>1
    <3>3. session' = [anchor |-> a,
                      pre |-> SnapshotRecords(WindowStart(a), a),
                      roster |-> SnapshotCoverage(WindowStart(a), a),
                      firedBy |-> Fired(E)]
      BY <3>1 DEF NewSession
    <3>4. /\ PreSec \in Nat /\ PostSec \in Nat \ {0} /\ RetentionSec \in Nat
          /\ LoopInterval \in Nat \ {0} /\ lastPoll \in Nat /\ Delay \in Nat
          /\ Delay < PostSec /\ Delay + PreSec <= RetentionSec
          /\ WindowStart(a) = a - PreSec /\ WindowEnd(a) = a + PostSec
      BY <1>12, SettingsAreNumbers DEF WellSized, WindowStart, WindowEnd
    <3>5. lastPoll - 0 < WindowEnd(a) /\ lastPoll - RetentionSec <= WindowStart(a)
          /\ WindowStart(a) \in Int
      BY <3>2, <3>4
    <3>6. ASSUME NEW k \in Listed
          PROVE  Judged(session'.roster[k], k, WindowStart(a), a)
      <4>1. session'.roster[k] = AggregateRoster(WindowStart(a), a, k)
        BY <3>3, ListedAre DEF SnapshotCoverage
      <4> QED BY <1>3, <3>2, <3>5, <4>1, AggregateIs
    <3>7. ASSUME NEW k \in Listed, NEW r \in session'.pre[k]
          PROVE  \E p \in polls : ReadBy(r, k, p) /\ p.from < WindowEnd(a)
      <4>0. k \in Modality /\ k \in Sources BY ListedAre
      <4>1. session'.pre[k] = Span(records[k], WindowStart(a), a)
        BY <3>3, <4>0 DEF SnapshotRecords
      <4>2. r \in records[k] BY <4>1 DEF Span
      <4>3. PICK p \in polls : ReadBy(r, k, p) BY <1>3, <4>0, <4>2 DEF Attributed
      <4>4. /\ p.from \in Nat /\ p.until = p.from + LoopInterval
            /\ p.until <= lastPoll
        BY <1>3 DEF Polled
      <4>5. p.from < WindowEnd(a) BY <3>2, <3>4, <4>4
      <4> QED BY <4>3, <4>5
    <3>8. session'.anchor = a BY <3>3
    <3>9. \A k \in Listed :
            Judged(session.roster[k], k, WindowStart(session.anchor), session.anchor)'
      BY <1>2, <3>6, <3>8 DEF Judged, WindowStart
    <3>10. session' = [anchor |-> session'.anchor, pre |-> session'.pre,
                       roster |-> session'.roster, firedBy |-> session'.firedBy]
      BY <3>3
    <3> QED BY <1>2, <3>2, <3>5, <3>7, <3>8, <3>9, <3>10
         DEF HalfDone, ReadBy, WindowEnd, WindowStart
  <2> QED BY <1>1, <2>1, <2>2, <2>3 DEF RegisterTriggers, E
<1> QED BY <1>4, <1>5, <1>6, <1>7, <1>8, <1>9, <1>10, <1>11, <1>14 DEF RosterInv

(* Nothing of this is disturbed by what the services do. *)
LEMMA EnvironmentKeeps ==
  ASSUME RosterInv, Clocked', NotLate',
         UNCHANGED <<pc, lastPoll, polls, records, history, bundles, session>>
  PROVE  RosterInv'
<1>1. /\ pc' = pc /\ lastPoll' = lastPoll /\ polls' = polls
      /\ records' = records /\ history' = history
      /\ bundles' = bundles /\ session' = session
  OBVIOUS
<1>2. /\ Polled /\ Remembered /\ Attributed /\ HalfDone
      /\ Closed /\ StatusExact /\ RecordsMeanData
  BY DEF RosterInv
<1>3. Polled' BY <1>1, <1>2 DEF Polled
<1>4. Remembered' BY <1>1, <1>2, HistoryStays
<1>5. Attributed' BY <1>1, <1>2 DEF Attributed, ReadBy
<1>6. Closed' BY <1>1, <1>2 DEF Closed, WindowEnd
<1>7. StatusExact'
  <2>1. \A i : PollsOf(bundles[i])' = PollsOf(bundles[i])
    BY <1>1 DEF PollsOf, WindowEnd, WindowStart
  <2> QED BY <1>1, <1>2, <2>1 DEF StatusExact
<1>8. RecordsMeanData' BY <1>1, <1>2 DEF RecordsMeanData, WindowStart
<1>9. HalfDone'
  <2> SUFFICES ASSUME session # NoSession PROVE HalfDone'
    BY <1>1 DEF HalfDone
  <2> DEFINE a == session.anchor
  <2>2. a' = a BY <1>1
  <2>3. \A k \in Listed : Judged(session.roster[k], k, WindowStart(a), a)
    BY <1>2 DEF HalfDone
  <2> HIDE DEF a
  <2>4. \A k \in Listed : Judged(session.roster[k], k, WindowStart(a), a)'
    BY <1>1, <2>2, <2>3 DEF Judged, WindowStart
  <2> QED BY <1>1, <1>2, <2>2, <2>4 DEF HalfDone, a, ReadBy, WindowEnd, WindowStart
<1> QED BY <1>3, <1>4, <1>5, <1>6, <1>7, <1>8, <1>9 DEF RosterInv

LEMMA EnvironmentSteps ==
  ASSUME RosterInv,
         \/ \E f \in Artifacts : CreateFile(f) \/ RemoveFile(f)
         \/ \E f \in Artifacts, ok \in BOOLEAN : \E row \in Rows(f) : Write(f, row, ok)
         \/ ClockAdvances
         \/ UNCHANGED vars
  PROVE  RosterInv'
<1>0. Clocked /\ NotLate BY DEF RosterInv
<1>1. ASSUME NEW f \in Artifacts, CreateFile(f) PROVE RosterInv'
  <2>1. Clocked' BY <1>0, <1>1 DEF CreateFile, Clocked
  <2>2. NotLate' BY <1>0, <1>1 DEF CreateFile, NotLate
  <2> QED BY <1>1, <2>1, <2>2, EnvironmentKeeps DEF CreateFile, bufferVars
<1>2. ASSUME NEW f \in Artifacts, RemoveFile(f) PROVE RosterInv'
  <2>1. /\ faults' = faults + 1 /\ faults < MaxFaults /\ unread' \subseteq unread
        /\ now' = now /\ lastPoll' = lastPoll /\ read' = read /\ pc' = pc
        /\ exists' \subseteq exists
    BY <1>2 DEF RemoveFile
  <2>2. Clocked' BY <1>0, <2>1, SettingsAreNumbers DEF Clocked
  <2>3. NotLate'
    <3>1. faults \in Nat /\ faults + 1 \in Nat /\ lastPoll \in Nat
      BY <1>0 DEF Clocked
    <3> DEFINE m == faults * LoopInterval
               n == faults' * LoopInterval
    <3>2. m \in Nat /\ n \in Nat /\ m <= n
      <4>1. m \in Nat BY <3>1, DelayBounds
      <4>2. n \in Nat BY <2>1, <3>1, DelayBounds
      <4>3. (faults + 1) * LoopInterval = m + LoopInterval BY <3>1, DelayBounds
      <4> QED BY <2>1, <4>1, <4>2, <4>3, SettingsAreNumbers
    <3>3. \A l \in unread : /\ l.file \in Artifacts /\ l.ts \in Nat
                            /\ l.ts <= now /\ lastPoll - m <= l.ts
      BY <1>0 DEF NotLate
    <3> HIDE DEF m, n
    <3>4. \A l \in unread' : lastPoll - n <= l.ts BY <2>1, <3>1, <3>2, <3>3
    <3>5. IsFiniteSet(unread') BY <1>0, <2>1, FS_Subset DEF NotLate
    <3> QED BY <1>0, <2>1, <3>3, <3>4, <3>5 DEF NotLate, n
  <2> QED BY <1>2, <2>2, <2>3, EnvironmentKeeps DEF RemoveFile, bufferVars
<1>3. ASSUME NEW f \in Artifacts, NEW ok \in BOOLEAN, NEW row \in Rows(f),
             Write(f, row, ok)
      PROVE  RosterInv'
  <2> DEFINE l == [file |-> f, row |-> row, ts |-> now, ok |-> ok]
  <2>1. /\ unread' = unread \cup {l} /\ faults' = faults /\ read' = read
        /\ now' = now /\ lastPoll' = lastPoll /\ pc' = pc /\ exists' = exists
    BY <1>3 DEF Write
  <2>2. Clocked' BY <1>0, <2>1 DEF Clocked
  <2>3. l.file = f /\ l.ts = now OBVIOUS
  <2> HIDE DEF l
  <2>4. NotLate'
    <3>1. IsFiniteSet(unread') BY <1>0, <2>1, FS_AddElement DEF NotLate
    <3>2. faults * LoopInterval \in Nat BY <1>0, DelayBounds DEF Clocked
    <3> DEFINE m == faults * LoopInterval
    <3> HIDE DEF m
    <3>3. lastPoll - m <= now BY <1>0, <3>2 DEF Clocked, m
    <3>4. \A x \in unread : /\ x.file \in Artifacts /\ x.ts \in Nat
                            /\ x.ts <= now /\ lastPoll - m <= x.ts
      BY <1>0 DEF NotLate, m
    <3>5. now \in Nat /\ now <= now BY <1>0 DEF Clocked
    <3>6. \A x \in unread' : /\ x.file \in Artifacts /\ x.ts \in Nat
                             /\ x.ts <= now /\ lastPoll - m <= x.ts
      BY <2>1, <2>3, <3>3, <3>4, <3>5
    <3> QED BY <1>0, <2>1, <3>1, <3>6 DEF NotLate, m
  <2> QED BY <1>3, <2>2, <2>4, EnvironmentKeeps DEF Write, bufferVars
<1>4. ASSUME ClockAdvances PROVE RosterInv'
  <2>1. /\ now' = now + 1 /\ now < lastPoll + LoopInterval /\ pc = "idle"
        /\ lastPoll' = lastPoll /\ pc' = pc
        /\ exists' = exists /\ unread' = unread /\ faults' = faults /\ read' = read
    BY <1>4 DEF ClockAdvances, environment
  <2>2. Clocked' BY <1>0, <2>1, SettingsAreNumbers DEF Clocked
  <2>3. NotLate'
    <3>1. now \in Nat BY <1>0 DEF Clocked
    <3>2. \A x \in unread : x.ts <= now + 1 BY <1>0, <3>1 DEF NotLate
    <3> QED BY <1>0, <2>1, <3>2 DEF NotLate
  <2> QED BY <1>4, <2>2, <2>3, EnvironmentKeeps DEF ClockAdvances, bufferVars
<1>5. ASSUME UNCHANGED vars PROVE RosterInv'
  <2>1. Clocked' BY <1>0, <1>5 DEF vars, environment, Clocked
  <2>2. NotLate' BY <1>0, <1>5 DEF vars, environment, NotLate
  <2> QED BY <1>5, <2>1, <2>2, EnvironmentKeeps DEF vars, bufferVars
<1> QED BY <1>1, <1>2, <1>3, <1>4, <1>5

(* Whatever files appear, stay empty, vanish or fail, no poll that a       *)
(* capture still needs is forgotten, and every record was read by a poll   *)
(* whose coverage is remembered with it.                                   *)
THEOREM RosterInvCorrect ==
  ASSUME WellSized
  PROVE  Spec => []RosterInv
<1>1. Init => RosterInv
  <2> SUFFICES ASSUME Init PROVE RosterInv
    OBVIOUS
  <2>1. /\ now = 0 /\ lastPoll = 0 /\ pc = "idle" /\ exists = {} /\ unread = {}
        /\ read = {} /\ bundles = <<>> /\ polls = {} /\ faults = 0
        /\ records = [m \in Modality |-> {}] /\ history = [m \in Modality |-> {}]
        /\ session = NoSession
    BY DEF Init, BufferInit, SnapshotInit
  <2>2. IsFiniteSet({}) BY FS_EmptySet
  <2>3. Clocked BY <2>1, SettingsAreNumbers DEF Clocked
  <2>4. NotLate BY <2>1, <2>2 DEF NotLate
  <2>5. Polled BY <2>1 DEF Polled
  <2>6. Remembered
    <3>1. history = [k \in Sources |-> history[k]] /\ \A k \in Sources : history[k] = {}
      BY <2>1, ListedAre
    <3> QED BY <2>1, <2>2, <3>1, ListedAre DEF Remembered
  <2>7. Attributed BY <2>1, ListedAre DEF Attributed
  <2>8. HalfDone BY <2>1 DEF HalfDone
  <2>9. 1 .. Len(<<>>) = {} OBVIOUS
  <2>10. Closed /\ StatusExact /\ RecordsMeanData
    BY <2>1, <2>9 DEF Closed, StatusExact, RecordsMeanData
  <2> QED BY <2>3, <2>4, <2>5, <2>6, <2>7, <2>8, <2>10 DEF RosterInv
<1>2. RosterInv /\ [Next]_vars => RosterInv'
  <2> SUFFICES ASSUME RosterInv, [Next]_vars PROVE RosterInv'
    OBVIOUS
  <2>1. ASSUME NEW failing \in {{}} \cup {{f} : f \in exists}, Poll(failing)
        PROVE  RosterInv'
    <3>1. /\ Clocked /\ NotLate /\ Polled /\ Remembered /\ Attributed /\ HalfDone
          /\ Closed /\ StatusExact /\ RecordsMeanData
      BY DEF RosterInv
    <3>2. Clocked' /\ NotLate' BY <2>1, <3>1, PollKeepsClock
    <3>3. Polled' BY <2>1, <3>1, PollKeepsPolls
    <3>4. Remembered' BY <2>1, <3>1, PollKeepsHistory
    <3>5. Attributed' BY <2>1, <3>1, PollKeepsRecords
    <3>6. HalfDone' BY <2>1, <3>1, PollKeepsHalves
    <3>7. Closed' /\ StatusExact' /\ RecordsMeanData'
      BY <2>1, <3>1, PollKeepsBundles
    <3> QED BY <3>2, <3>3, <3>4, <3>5, <3>6, <3>7 DEF RosterInv
  <2>2. CASE Finalize BY <2>2, FinalizeKeeps
  <2>3. CASE Register BY <2>3, RegisterKeeps
  <2>4. CASE Horizon
    <3>1. UNCHANGED vars BY <2>4 DEF Horizon
    <3> QED BY <3>1, EnvironmentSteps
  <2>5. CASE \/ \E f \in Artifacts : CreateFile(f) \/ RemoveFile(f)
             \/ \E f \in Artifacts, ok \in BOOLEAN : \E row \in Rows(f) : Write(f, row, ok)
             \/ ClockAdvances
             \/ UNCHANGED vars
    BY <2>5, EnvironmentSteps
  <2> QED BY <2>1, <2>2, <2>3, <2>4, <2>5 DEF Next
<1> QED BY <1>1, <1>2, PTL DEF Spec

(* A bundle's verdict on a source - data, empty or missing - is the one of *)
(* all the polls in its window, though its halves were judged minutes      *)
(* apart and the buffer has forgotten polls in between.                    *)
THEOREM StatusExactCorrect ==
  ASSUME WellSized
  PROVE  Spec => []StatusExact
<1>1. RosterInv => StatusExact BY DEF RosterInv
<1> QED BY <1>1, RosterInvCorrect, PTL

(* A bundle never carries records of an expected service that it calls     *)
(* empty or missing.                                                       *)
THEOREM RecordsMeanDataCorrect ==
  ASSUME WellSized
  PROVE  Spec => []RecordsMeanData
<1>1. RosterInv => RecordsMeanData BY DEF RosterInv
<1> QED BY <1>1, RosterInvCorrect, PTL
==============================================================================
