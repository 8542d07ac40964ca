------------------------- MODULE RunnerBuffer_proofs --------------------------
(***************************************************************************)
(* The facts about the operators of module Runner that all its proofs use, *)
(* type correctness, and the inductive invariant below its properties: how *)
(* long a tick takes, what a poll reads, and that the buffer loses nothing *)
(* but what is older than the retention.  On it rests where the anchor of  *)
(* a capture lies: after the bundle before it, near the tick that opens    *)
(* it, and not so far back that the buffer could have evicted what the     *)
(* capture needs.                                                          *)
(***************************************************************************)
EXTENDS Runner, FiniteSetTheorems, WellFoundedInduction, TLAPS

-----------------------------------------------------------------------------
(* Facts about the constants and the operators. *)

Evidence == [modality : Modality, time : Time]

(* Every source the loop polls has a modality of its own.                  *)
LEMMA SourceInModality ==
  ASSUME NEW i \in 1 .. Len(Sources)
  PROVE  Sources[i] \in Modality
BY RunnerAssumption

(* The clock counts seconds from the start.                                *)
LEMMA TimeInNat == Time \subseteq Nat
BY RunnerAssumption DEF Time

(* The detectors that run read sources the collector has.                  *)
LEMMA ModalityOfDetector ==
  ASSUME NEW d \in Detectors
  PROVE  /\ ModalityOf(d) \in Modality
         /\ d = "latency_spike" => "trace" \in Modality
BY RunnerAssumption DEF ModalityOf, DetectorTypes

(* There are finitely many records: the clock and the detectors are finite.*)
LEMMA RecordFinite == IsFiniteSet(Record)
<1> DEFINE K == Detectors \cup {"normal"}
           f == [p \in Time \X K |-> [ts |-> p[1], kind |-> p[2]]]
<1>1. IsFiniteSet(Time)
  BY RunnerAssumption, FS_Interval, 0 \in Int, MaxTime \in Int DEF Time
<1>2. IsFiniteSet(K)
  <2>1. IsFiniteSet(DetectorTypes)
    <3> DEFINE A == {"nginx_error"}
               B == A \cup {"error_rate"}
               C == B \cup {"trace_5xx"}
               D == C \cup {"restart_marker"}
               E == D \cup {"cpu_spike"}
               F == E \cup {"latency_spike"}
    <3>1. IsFiniteSet(A) BY FS_Singleton
    <3> HIDE DEF A
    <3>2. IsFiniteSet(B) BY <3>1, FS_AddElement
    <3> HIDE DEF B
    <3>3. IsFiniteSet(C) BY <3>2, FS_AddElement
    <3> HIDE DEF C
    <3>4. IsFiniteSet(D) BY <3>3, FS_AddElement
    <3> HIDE DEF D
    <3>5. IsFiniteSet(E) BY <3>4, FS_AddElement
    <3> HIDE DEF E
    <3>6. IsFiniteSet(F) BY <3>5, FS_AddElement
    <3>7. DetectorTypes = F
      BY DEF DetectorTypes, BatchDetectors, WindowDetectors, A, B, C, D, E
    <3> QED BY <3>6, <3>7
  <2>2. Detectors \in SUBSET DetectorTypes BY RunnerAssumption
  <2>3. IsFiniteSet(Detectors) BY <2>1, <2>2, FS_Subset
  <2> QED BY <2>3, FS_AddElement
<1>3. IsFiniteSet(Time \X K) BY <1>1, <1>2, FS_Product
<1>4. f \in Surjection(Time \X K, Record)
  <2>1. ASSUME NEW r \in Record PROVE \E p \in Time \X K : f[p] = r
    <3>1. <<r.ts, r.kind>> \in Time \X K BY DEF Record
    <3>2. f[<<r.ts, r.kind>>] = r BY <3>1 DEF Record
    <3> QED BY <3>1, <3>2
  <2>2. f \in [Time \X K -> Record] BY DEF Record
  <2> QED BY <2>1, <2>2 DEF Surjection
<1> HIDE DEF f, K
<1> QED BY <1>3, <1>4, FS_Surjection

(* So every set of records the model speaks of has a size. *)
LEMMA RecordsCount ==
  ASSUME NEW S \in SUBSET Record
  PROVE  IsFiniteSet(S) /\ Cardinality(S) \in Nat
<1>1. IsFiniteSet(S) BY RecordFinite, FS_Subset
<1> QED BY <1>1, FS_CardinalityType

-----------------------------------------------------------------------------
(* The types. *)

(* Whatever the detectors report names a modality and a time stamp of the  *)
(* horizon.                                                                *)
LEMMA EvidenceType ==
  ASSUME TypeOK, NEW latency \in LatencyEvidences
  PROVE  Evidences(latency) \subseteq Evidence
<1>1. ASSUME NEW d \in Detectors \cap BatchDetectors
      PROVE  CountEvidence(d) \subseteq Evidence
  <2> DEFINE b == batches[ModalityOf(d)]
  <2>1. ModalityOf(d) \in Modality BY ModalityOfDetector
  <2>2. b \in Batch \cup {NoBatch} BY <2>1 DEF TypeOK
  <2>3. CASE b = NoBatch
    <3>1. Signals(Since(b.records), d) = {} BY <2>3 DEF NoBatch, Signals, Since
    <3>2. Cardinality(Signals(Since(b.records), d)) = 0 BY <3>1, FS_EmptySet
    <3>3. ~(0 > Floor) BY RunnerAssumption
    <3> QED BY <3>2, <3>3 DEF CountEvidence
  <2>4. CASE b \in Batch
    <3>1. b.modality \in Modality /\ b.until \in Time BY <2>4 DEF Batch
    <3> QED BY <3>1 DEF CountEvidence, Evidence
  <2> QED BY <2>2, <2>3, <2>4
<1>2. ASSUME NEW d \in Detectors \cap WindowDetectors
      PROVE  WindowEvidence(d) \subseteq Evidence
  <2>1. ModalityOf(d) \in Modality BY ModalityOfDetector
  <2>2. WindowSignals(d) \subseteq Record
    BY <2>1 DEF TypeOK, WindowSignals, Signals, Scan, Span
  <2>3. \A r \in WindowSignals(d) : r.ts \in Time BY <2>2 DEF Record
  <2> QED BY <2>1, <2>3 DEF WindowEvidence, Evidence
<1>3. latency \subseteq Evidence
  <2>1. CASE "latency_spike" \notin Detectors
    BY <2>1 DEF LatencyEvidences
  <2>2. CASE "latency_spike" \in Detectors
    <3>1. "trace" \in Modality BY <2>2, ModalityOfDetector
    <3>2. batches["trace"].records \subseteq Record
      BY <3>1 DEF TypeOK, Batch, NoBatch
    <3>3. \A r \in batches["trace"].records : r.ts \in Time BY <3>2 DEF Record
    <3>4. \A r \in Signals(Since(batches["trace"].records), "latency_spike") :
             [modality |-> "trace", time |-> r.ts] \in Evidence
      BY <3>1, <3>3 DEF Signals, Since, Evidence
    <3> QED BY <2>2, <3>4 DEF LatencyEvidences
  <2> QED BY <2>1, <2>2
<1>4. CountEvidences \subseteq Evidence BY <1>1 DEF CountEvidences
<1>5. WindowEvidences \subseteq Evidence BY <1>2 DEF WindowEvidences
<1> QED BY <1>3, <1>4, <1>5 DEF Evidences

(* Registering what fired leaves a capture behind. *)
LEMMA OpenType ==
  ASSUME TypeOK, NEW latency \in LatencyEvidences,
         OpenSession(Evidences(latency))
  PROVE  IsSession(session')
<1> DEFINE ev == Evidences(latency)
<1>0. ev \subseteq Evidence BY EvidenceType
<1>1. PICK a \in {e.time : e \in ev} : session' = NewSession(a, ev)
  BY DEF OpenSession
<1>2. a \in Time BY <1>0 DEF Evidence
<1>3. Fired(ev) \in (SUBSET Modality) \ {{}}
  <2>1. PICK e \in ev : TRUE BY DEF OpenSession
  <2>2. e.modality \in Fired(ev) BY <2>1 DEF Fired
  <2>3. Fired(ev) \subseteq Modality BY <1>0 DEF Evidence, Fired
  <2> QED BY <2>2, <2>3
<1>4. SnapshotRecords(WindowStart(a), a) \in [Modality -> SUBSET Record]
  BY DEF TypeOK, SnapshotRecords, Span
<1> QED BY <1>1, <1>2, <1>3, <1>4 DEF NewSession, IsSession

(* Absorbing what fired leaves the capture a capture.                      *)
LEMMA AbsorbType ==
  ASSUME TypeOK, NEW latency \in LatencyEvidences,
         AbsorbTriggers(Evidences(latency))
  PROVE  IsSession(session')
<1> DEFINE ev == Evidences(latency)
<1>0. ev \subseteq Evidence BY EvidenceType
<1> HIDE DEF ev
<1>1. IsSession(session) BY DEF TypeOK, AbsorbTriggers
<1>2. Fired(ev) \subseteq Modality BY <1>0 DEF Evidence, Fired
<1>3. session' = [session EXCEPT !.firedBy = @ \cup Fired(ev)]
  BY DEF AbsorbTriggers, ev
<1>4. session'.firedBy = session.firedBy \cup Fired(ev)
      /\ session'.anchor = session.anchor /\ session'.pre = session.pre
      /\ DOMAIN session' = DOMAIN session
  BY <1>1, <1>3 DEF IsSession
<1>5. session'.firedBy \in (SUBSET Modality) \ {{}}
  BY <1>1, <1>2, <1>4 DEF IsSession
<1> QED BY <1>1, <1>4, <1>5 DEF IsSession

LEMMA TypeInit == Init => TypeOK
<1> SUFFICES ASSUME Init PROVE TypeOK OBVIOUS
<1>1. 0 \in Time BY RunnerAssumption DEF Time
<1>2. 1 \in 1 .. Len(Sources) BY RunnerAssumption
<1>3. wakeAt \in 0 .. MaxTime + LoopInterval BY RunnerAssumption DEF Init
<1>4. hasFile \in [Modality -> BOOLEAN] BY DEF Init
<1> QED BY <1>1, <1>2, <1>3, <1>4 DEF Init, TypeOK, BufferInit, SnapshotInit

(* No step of the loop or of its environment leaves the types.             *)
LEMMA TypeStep == TypeOK /\ [Next]_vars => TypeOK'
<1> SUFFICES ASSUME TypeOK, [Next]_vars PROVE TypeOK' OBVIOUS
<1> USE DEF TypeOK
<1>1. ASSUME NEW m \in Modality, NEW r \in Record, Write(m, r)
      PROVE  TypeOK'
  BY <1>1 DEF Write, loopVars, bufferVars
<1>2. CASE ClockAdvances
  <2>1. now' \in Time BY <1>2, RunnerAssumption DEF ClockAdvances, Time
  <2> QED BY <1>2, <2>1 DEF ClockAdvances, loopVars, bufferVars
<1>3. CASE PollBegin
  BY <1>3 DEF PollBegin, fileVars, bufferVars
<1>4. CASE PollRead
  <2>1. Source \in Modality BY SourceInModality DEF Source
  <2>2. next' \in 1 .. Len(Sources) BY <1>4, RunnerAssumption DEF PollRead
  <2>3. batches' \in [Modality -> Batch \cup {NoBatch}]
    BY <1>4, <2>1 DEF PollRead, Batch
  <2>4. /\ lastPoll' \in [Modality -> Time]
        /\ unread' \in [Modality -> SUBSET Record]
        /\ seen' \in [Modality -> SUBSET Record]
    BY <1>4, <2>1 DEF PollRead
  <2>5. pc' \in {"poll", "append"} BY <1>4 DEF PollRead
  <2> QED BY <1>4, <2>2, <2>3, <2>4, <2>5 DEF PollRead, bufferVars
<1>5. CASE Append1
  <2>1. Source \in Modality BY SourceInModality DEF Source
  <2>2. next' \in 1 .. Len(Sources) BY <1>5, RunnerAssumption DEF Append1
  <2> DEFINE b == batches[Source]
  <2>3. b.records \in SUBSET Record /\ b.from \in Time /\ b.until \in Time
        /\ b.present \in BOOLEAN
    <3>1. 0 \in Time BY RunnerAssumption DEF Time
    <3>2. b \in Batch \cup {NoBatch} BY <2>1
    <3>3. CASE b = NoBatch BY <3>1, <3>3 DEF NoBatch
    <3>4. CASE b \in Batch BY <3>4 DEF Batch
    <3> HIDE DEF b
    <3> QED BY <3>2, <3>3, <3>4
  <2>4. NewWatermark(b) \in Time BY <2>3 DEF NewWatermark
  <2>5. BatchCoverage(b) \in Coverage
    BY <2>3, RecordsCount DEF BatchCoverage, Coverage
  <2>6. /\ watermark' \in Time
        /\ records' \in [Modality -> SUBSET Record]
        /\ history' \in [Modality -> SUBSET Coverage]
    BY <1>5, <2>3, <2>4, <2>5
       DEF Append1, AppendBatch, KeptRecords, KeptHistory
  <2>7. pc' \in {"append", "finalize"} BY <1>5 DEF Append1
  <2> QED BY <1>5, <2>2, <2>6, <2>7 DEF Append1, fileVars
<1>6. CASE Finalize
  <2>1. PICK t \in {batches[m].until : m \in Modality} :
           /\ outbox' = Bundles(t)
           /\ FinalizeReady(t)
           /\ detectSince' = IF Ready(t) THEN WindowEnd(session.anchor)
                                         ELSE detectSince
           /\ shipped' = IF Ready(t)
                THEN [m \in Modality |->
                        shipped[m] \cup Assemble(session).records[m]]
                ELSE shipped
    BY <1>6 DEF Finalize
  <2>2. CASE ~Ready(t)
    <3>1. outbox' = <<>> /\ detectSince' = detectSince /\ shipped' = shipped
          /\ session' = session
      BY <2>1, <2>2 DEF Bundles, FinalizeReady
    <3> QED BY <1>6, <3>1 DEF Finalize, fileVars, bufferVars
  <2>3. CASE Ready(t)
    <3>1. IsSession(session) BY <2>3 DEF Ready
    <3>2. Assemble(session).records \in [Modality -> SUBSET Record]
      BY <3>1 DEF IsSession, Assemble, SnapshotRecords, Span
    <3>3. IsBundle(Assemble(session))
      BY <3>1, <3>2 DEF IsSession, IsBundle, Assemble
    <3>4. outbox' = <<Assemble(session)>> BY <2>1, <2>3 DEF Bundles
    <3>5. outbox' = <<outbox'[1]>> /\ IsBundle(outbox'[1])
      BY <3>3, <3>4
    <3>6. session' = NoSession BY <2>1, <2>3 DEF FinalizeReady
    <3>7. detectSince' \in 0 .. MaxTime + PostSec
      <4>1. detectSince' = session.anchor + PostSec
        BY <2>1, <2>3 DEF WindowEnd
      <4>2. session.anchor \in 0 .. MaxTime BY <3>1 DEF IsSession, Time
      <4> HIDE DEF TypeOK
      <4> QED BY <4>1, <4>2, RunnerAssumption, SnapshotAssumption
    <3>8. shipped' \in [Modality -> SUBSET Record] BY <2>1, <2>3, <3>2
    <3> QED BY <1>6, <3>5, <3>6, <3>7, <3>8
            DEF Finalize, fileVars, bufferVars, IsBundle
  <2> QED BY <2>2, <2>3
<1>7. CASE EvaluateAndRegister
  <2>1. PICK latency \in LatencyEvidences :
           RegisterTriggers(Evidences(latency))
    BY <1>7 DEF EvaluateAndRegister
  <2> DEFINE ev == Evidences(latency)
  <2>3. session' # NoSession => IsSession(session')
    <3> HIDE DEF TypeOK
    <3>1. CASE UNCHANGED session BY <3>1 DEF TypeOK, IsSession
    <3>2. CASE OpenSession(ev) BY <3>2, OpenType
    <3>3. CASE AbsorbTriggers(ev) BY <3>3, AbsorbType
    <3> QED BY <2>1, <3>1, <3>2, <3>3 DEF RegisterTriggers
  <2>4. batches' \in [Modality -> Batch \cup {NoBatch}]
    BY <1>7 DEF EvaluateAndRegister
  <2> QED BY <1>7, <2>3, <2>4
          DEF EvaluateAndRegister, fileVars, bufferVars, IsSession
<1>8. CASE Send
  <2>1. outbox' = <<>>
    <3>1. outbox = <<outbox[1]>> BY <1>8 DEF Send
    <3> HIDE DEF TypeOK
    <3>2. \A x : Tail(<<x>>) = <<>> OBVIOUS
    <3> QED BY <1>8, <3>1, <3>2 DEF Send
  <2> QED BY <1>8, <2>1 DEF Send, fileVars, bufferVars
<1>9. CASE Sleep
  <2>1. wakeAt' \in 0 .. MaxTime + LoopInterval
    BY <1>9, RunnerAssumption DEF Sleep, Time
  <2> QED BY <1>9, <2>1 DEF Sleep, fileVars, bufferVars
<1>10. CASE Wake
  BY <1>10 DEF Wake, fileVars, bufferVars
<1>11. CASE UNCHANGED vars
  BY <1>11 DEF vars, loopVars, fileVars, bufferVars
<1> QED
  BY <1>1, <1>2, <1>3, <1>4, <1>5, <1>6, <1>7, <1>8, <1>9, <1>10, <1>11
     DEF Next, Tick, Horizon

(* Every variable of the loop keeps its type in every reachable state      *)
(* (runner.py:54-126): no batch, capture or bundle is ever half built.     *)
THEOREM TypeCorrect == Spec => []TypeOK
BY TypeInit, TypeStep, PTL DEF Spec

-----------------------------------------------------------------------------
(* The inductive invariant, part by part. *)

(* The source of m was polled in this tick, its batch is at hand. *)
Polled(m) ==
  \/ pc \in {"append", "finalize", "evaluate"}
  \/ pc \in {"poll", "read"} /\ \E i \in 1 .. next - 1 : Sources[i] = m

(* The batch of m, if there is one, is in the buffer. *)
Appended(m) ==
  \/ pc \in {"finalize", "evaluate", "send", "sleep"}
  \/ pc = "append" /\ \E i \in 1 .. next - 1 : Sources[i] = m

(* How far m had been observed when the last tick was over. *)
From(m) == IF Polled(m) THEN batches[m].from ELSE lastPoll[m]

(* Each phase of a tick takes its time, and no more. *)
Clock ==
  /\ tickAt <= now
  /\ pc \in {"poll", "read", "append", "finalize", "evaluate"}
       => now <= tickAt + PollSpan
  /\ pc = "send" => now <= tickAt + PollSpan + SendSpan
  /\ pc # "sleep" => tickAt = wakeAt
  /\ pc = "sleep" => now <= wakeAt /\ wakeAt <= tickAt + Cadence
  /\ pc = "read" => tickAt <= polledAt /\ polledAt <= now
  /\ pc \in {"finalize", "evaluate", "send", "sleep"} => next = 1

(* What is unread was written after the last poll, what a batch holds      *)
(* after the poll before it; polls follow one another within a Cadence.    *)
PollOK(m) ==
  /\ lastPoll[m] <= now
  /\ \A r \in unread[m] : r.ts <= now /\ lastPoll[m] <= r.ts + Lateness
  /\ Polled(m) =>
       /\ batches[m] \in Batch /\ batches[m].modality = m
       /\ batches[m].from <= tickAt /\ tickAt <= batches[m].from + Cadence
       /\ tickAt <= batches[m].until /\ batches[m].until <= tickAt + PollSpan
       /\ batches[m].until = lastPoll[m]
       /\ \A r \in batches[m].records :
            /\ batches[m].from <= r.ts + Lateness
            /\ r.ts <= batches[m].until + PollSpan
  /\ ~Polled(m) =>
       /\ batches[m] = NoBatch
       /\ pc \in {"poll", "read"} =>
            lastPoll[m] <= tickAt /\ tickAt <= lastPoll[m] + Cadence
       /\ pc \in {"send", "sleep"} =>
            tickAt <= lastPoll[m] /\ lastPoll[m] <= tickAt + PollSpan

Polls == \A m \in Modality : PollOK(m)

(* Whatever was read is in the buffer, on its way to it, or too old.       *)
BufferOK(m) ==
  /\ records[m] \subseteq seen[m]
  /\ Polled(m) => batches[m].records \subseteq seen[m]
  /\ Polled(m) /\ Appended(m) =>
       watermark # NoTime /\ batches[m].until <= watermark
  /\ \A r \in seen[m] :
       \/ r \in records[m]
       \/ ~Appended(m) /\ r \in batches[m].records
       \/ watermark # NoTime /\ r.ts < Threshold(watermark)

Buffered ==
  /\ watermark # NoTime => watermark <= tickAt + PollSpan
  /\ \A m \in Modality : BufferOK(m)

(* A capture begins at most PollSpan before the lower bound in force.      *)
AnchorNearWindow ==
  session # NoSession /\ detectSince # NoTime =>
    session.anchor + PollSpan >= detectSince

(* The end of a capture's window is still ahead when a tick begins, and    *)
(* remains so for the sources until it is closed.                          *)
WindowAhead ==
  session # NoSession =>
    \A m \in Modality :
      /\ From(m) < WindowEnd(session.anchor)
      /\ pc = "evaluate" => batches[m].until < WindowEnd(session.anchor)

(* Without a capture in progress, what a window detector still sees of     *)
(* earlier ticks does not suffice for it to fire: it would have.           *)
OldSignals(d) ==
  {r \in Signals(records[ModalityOf(d)], d) :
     /\ LookbackStart(From(ModalityOf(d))) <= r.ts
     /\ r.ts + Lateness < From(ModalityOf(d))}

Quiet ==
  session = NoSession =>
    \A d \in Detectors \cap WindowDetectors :
      Cardinality(OldSignals(d)) < MinOver

(* Which sources a step polls and which batch it appends. *)
LEMMA PollReadPolled ==
  ASSUME TypeOK, PollRead, NEW m \in Modality
  PROVE  ~Polled(Source) /\ (Polled(m)' <=> Polled(m) \/ m = Source)
<1>1. PICK k \in 1 .. Len(Sources) : Sources[k] = m BY RunnerAssumption
<1>2. /\ Len(Sources) \in Nat /\ next \in 1 .. Len(Sources)
      /\ \A i, j \in 1 .. Len(Sources) : Sources[i] = Sources[j] => i = j
      /\ pc = "read"
  BY RunnerAssumption DEF TypeOK, PollRead
<1>3. ~Polled(Source) BY <1>2 DEF Polled, Source
<1>4. CASE next < Len(Sources)
  <2>1. pc' = "poll" /\ next' = next + 1 BY <1>4 DEF PollRead
  <2>2. Polled(m)' <=> \E i \in 1 .. next : Sources[i] = m
    BY <2>1, <1>2 DEF Polled
  <2>3. Polled(m) <=> \E i \in 1 .. next - 1 : Sources[i] = m
    BY <1>2 DEF Polled
  <2>4. 1 .. next = (1 .. next - 1) \cup {next} BY <1>2
  <2> QED BY <1>3, <2>2, <2>3, <2>4 DEF Source
<1>5. CASE ~(next < Len(Sources))
  <2>1. pc' = "append" BY <1>5 DEF PollRead
  <2>2. next = Len(Sources) BY <1>2, <1>5
  <2>3. k = next \/ k \in 1 .. next - 1 BY <1>2, <2>2
  <2>4. Polled(m) \/ m = Source BY <1>1, <1>2, <2>3 DEF Polled, Source
  <2> QED BY <1>3, <2>1, <2>4 DEF Polled
<1> QED BY <1>4, <1>5

(* Appending makes the batch of the source whose turn it is one of the     *)
(* appended ones, and of no other source.                                  *)
LEMMA Append1Appended ==
  ASSUME TypeOK, Append1, NEW m \in Modality
  PROVE  /\ ~Appended(Source) /\ (Appended(m)' <=> Appended(m) \/ m = Source)
         /\ Polled(m) /\ Polled(m)'
<1>1. PICK k \in 1 .. Len(Sources) : Sources[k] = m BY RunnerAssumption
<1>2. /\ Len(Sources) \in Nat /\ next \in 1 .. Len(Sources)
      /\ \A i, j \in 1 .. Len(Sources) : Sources[i] = Sources[j] => i = j
      /\ pc = "append"
  BY RunnerAssumption DEF TypeOK, Append1
<1>3. ~Appended(Source) BY <1>2 DEF Appended, Source
<1>4. CASE next < Len(Sources)
  <2>1. pc' = "append" /\ next' = next + 1 BY <1>2, <1>4 DEF Append1
  <2>2. Appended(m)' <=> \E i \in 1 .. next : Sources[i] = m
    BY <2>1, <1>2 DEF Appended
  <2>3. Appended(m) <=> \E i \in 1 .. next - 1 : Sources[i] = m
    BY <1>2 DEF Appended
  <2>4. 1 .. next = (1 .. next - 1) \cup {next} BY <1>2
  <2> QED BY <1>2, <1>3, <2>1, <2>2, <2>3, <2>4 DEF Source, Polled
<1>5. CASE ~(next < Len(Sources))
  <2>1. pc' = "finalize" BY <1>5 DEF Append1
  <2>2. next = Len(Sources) BY <1>2, <1>5
  <2>3. k = next \/ k \in 1 .. next - 1 BY <1>2, <2>2
  <2>4. Appended(m) \/ m = Source BY <1>1, <1>2, <2>3 DEF Appended, Source
  <2> QED BY <1>2, <1>3, <2>1, <2>4 DEF Appended, Polled
<1> QED BY <1>4, <1>5

(* The times of a state are natural numbers. *)
LEMMA TimesInNat ==
  ASSUME TypeOK
  PROVE  /\ now \in Nat /\ tickAt \in Nat /\ wakeAt \in Nat /\ polledAt \in Nat
         /\ \A m \in Modality : lastPoll[m] \in Nat
         /\ PollSpan \in Nat /\ SendSpan \in Nat /\ LoopInterval \in Nat
         /\ Lateness \in Nat /\ Cadence \in Nat
<1>1. now \in Time /\ tickAt \in Time /\ polledAt \in Time
      /\ lastPoll \in [Modality -> Time]
  BY DEF TypeOK
<1>2. wakeAt \in 0 .. MaxTime + LoopInterval BY DEF TypeOK
<1>3. PollSpan \in Nat /\ SendSpan \in Nat /\ LoopInterval \in Nat
      /\ Lateness \in Nat
  BY RunnerAssumption
<1>4. Cadence \in Nat BY <1>3 DEF Cadence
<1>5. wakeAt \in Nat BY <1>2, <1>3, RunnerAssumption
<1>6. \A m \in Modality : lastPoll[m] \in Nat BY <1>1, TimeInNat
<1> QED BY <1>1, <1>3, <1>4, <1>5, <1>6, TimeInNat

(* A tick of runner.py:75-126 takes at most PollSpan until its detectors   *)
(* are done, SendSpan more for the send, and begins no later than a        *)
(* Cadence after the one before it.                                        *)
THEOREM ClockCorrect == Spec => []Clock
<1>1. Init => Clock
  BY RunnerAssumption DEF Init, Clock
<1>2. TypeOK /\ Clock /\ [Next]_vars => Clock'
  <2> SUFFICES ASSUME TypeOK, Clock, [Next]_vars PROVE Clock' OBVIOUS
  <2> USE TimesInNat DEF Clock
  <2>1. ASSUME NEW m \in Modality, NEW r \in Record, Write(m, r)
        PROVE  Clock'
    BY <2>1 DEF Write, loopVars
  <2>2. CASE ClockAdvances
    BY <2>2 DEF ClockAdvances, loopVars
  <2>3. CASE PollBegin
    BY <2>3 DEF PollBegin, fileVars
  <2>4. CASE PollRead
    BY <2>4 DEF PollRead
  <2>5. CASE Append1
    BY <2>5 DEF Append1, fileVars
  <2>6. CASE Finalize
    BY <2>6 DEF Finalize, fileVars
  <2>7. CASE EvaluateAndRegister
    BY <2>7 DEF EvaluateAndRegister, fileVars
  <2>8. CASE Send
    BY <2>8 DEF Send, fileVars
  <2>9. CASE Sleep
    BY <2>9, RunnerAssumption DEF Sleep, fileVars, Cadence
  <2>10. CASE Wake
    BY <2>10, RunnerAssumption DEF Wake, fileVars
  <2>11. CASE UNCHANGED vars
    BY <2>11 DEF vars, loopVars, fileVars
  <2> QED
    BY <2>1, <2>2, <2>3, <2>4, <2>5, <2>6, <2>7, <2>8, <2>9, <2>10, <2>11
       DEF Next, Tick, Horizon
<1> QED BY <1>1, <1>2, TypeCorrect, PTL DEF Spec

(* What a poll of tail.py:60-82 reads was written after the poll before    *)
(* it, and two polls of one source lie at most a Cadence apart.            *)
THEOREM PollsCorrect == Spec => []Polls
<1>1. Init => Polls
  <2> SUFFICES ASSUME Init, NEW m \in Modality PROVE PollOK(m)
    BY DEF Polls
  <2>1. ~Polled(m) BY DEF Init, Polled
  <2> QED BY <2>1, RunnerAssumption DEF Init, Cadence, PollOK
<1>2. TypeOK /\ Clock /\ Polls /\ [Next]_vars => Polls'
  <2> SUFFICES ASSUME TypeOK, Clock, Polls, [Next]_vars, NEW m \in Modality
               PROVE  PollOK(m)'
    BY DEF Polls
  <2>0. PollOK(m) BY DEF Polls
  <2> USE TimesInNat DEF PollOK
  <2>1. ASSUME NEW n \in Modality, NEW r \in Record, Write(n, r)
        PROVE  PollOK(m)'
    <3>1. Polled(m)' <=> Polled(m) BY <2>1 DEF Write, loopVars, Polled
    <3>2. r.ts \in Nat BY TimeInNat DEF Record
    <3>3. \A q \in unread'[m] : q \in unread[m] \/ q = r
      BY <2>1 DEF Write, TypeOK
    <3>4. \A q \in unread'[m] : q.ts <= now /\ lastPoll[m] <= q.ts + Lateness
      BY <2>0, <2>1, <3>2, <3>3 DEF Write
    <3> QED BY <2>0, <2>1, <3>1, <3>4 DEF Write, loopVars
  <2>2. CASE ClockAdvances
    <3>1. Polled(m)' <=> Polled(m) BY <2>2 DEF ClockAdvances, loopVars, Polled
    <3>2. \A q \in unread[m] : q.ts \in Nat BY TimeInNat DEF TypeOK, Record
    <3> QED BY <2>0, <2>2, <3>1, <3>2 DEF ClockAdvances, loopVars
  <2>3. CASE PollBegin
    <3>1. Polled(m)' <=> Polled(m) BY <2>3 DEF PollBegin, Polled
    <3> QED BY <2>0, <2>3, <3>1 DEF PollBegin, fileVars
  <2>4. CASE PollRead
    <3>1. ~Polled(Source) /\ (Polled(m)' <=> Polled(m) \/ m = Source)
      BY <2>4, PollReadPolled
    <3>2. CASE m # Source
      <4>1. batches'[m] = batches[m] /\ lastPoll'[m] = lastPoll[m]
            /\ unread'[m] = unread[m]
        BY <2>4, <3>2 DEF PollRead, TypeOK
      <4>2. pc = "read" /\ pc' \in {"poll", "append"} BY <2>4 DEF PollRead
      <4> QED BY <2>0, <2>4, <3>1, <3>2, <4>1, <4>2 DEF PollRead
    <3>3. CASE m = Source
      <4>1. /\ batches'[m] = [modality |-> m, from |-> lastPoll[m],
                              until |-> polledAt, records |-> unread[m],
                              present |-> hasFile[m]]
            /\ lastPoll'[m] = polledAt
            /\ unread'[m] = {}
        BY <2>4, <3>3 DEF PollRead, TypeOK
      <4>2. batches'[m] \in Batch BY <4>1 DEF TypeOK, Batch
      <4>3. tickAt <= polledAt /\ polledAt <= now /\ now <= tickAt + PollSpan
            /\ lastPoll[m] <= tickAt /\ tickAt <= lastPoll[m] + Cadence
        BY <2>0, <2>4, <3>1, <3>3 DEF PollRead, Clock
      <4>4. \A q \in unread[m] : q.ts \in Nat /\ q.ts <= now
                                  /\ lastPoll[m] <= q.ts + Lateness
        BY <2>0, TimeInNat DEF TypeOK, Record
      <4>5. \A q \in unread[m] : q.ts <= polledAt + PollSpan
        BY <4>3, <4>4
      <4> QED BY <2>4, <3>1, <3>3, <4>1, <4>2, <4>3, <4>4, <4>5 DEF PollRead
    <3> QED BY <3>2, <3>3
  <2>5. CASE Append1
    <3>1. Polled(m) /\ Polled(m)' BY <2>5, Append1Appended
    <3> QED BY <2>0, <2>5, <3>1 DEF Append1, fileVars
  <2>6. CASE Finalize
    <3>1. Polled(m) /\ Polled(m)' BY <2>6 DEF Finalize, Polled
    <3> QED BY <2>0, <2>6, <3>1 DEF Finalize, fileVars
  <2>7. CASE EvaluateAndRegister
    <3>1. Polled(m) /\ ~Polled(m)' BY <2>7 DEF EvaluateAndRegister, Polled
    <3>2. batches'[m] = NoBatch BY <2>7 DEF EvaluateAndRegister
    <3> QED BY <2>0, <2>7, <3>1, <3>2 DEF EvaluateAndRegister, fileVars
  <2>8. CASE Send
    <3>1. ~Polled(m) /\ ~Polled(m)' BY <2>8 DEF Send, Polled
    <3> QED BY <2>0, <2>8, <3>1 DEF Send, fileVars
  <2>9. CASE Sleep
    <3>1. ~Polled(m) /\ ~Polled(m)' BY <2>9 DEF Sleep, Polled
    <3> QED BY <2>0, <2>9, <3>1 DEF Sleep, fileVars
  <2>10. CASE Wake
    <3>1. ~Polled(m) /\ ~Polled(m)' BY <2>10 DEF Wake, Polled, Clock
    <3>2. tickAt' <= lastPoll[m] + Cadence
      BY <2>0, <2>10, <3>1 DEF Wake, Clock
    <3> QED BY <2>0, <2>10, <3>1, <3>2 DEF Wake, fileVars
  <2>11. CASE UNCHANGED vars
    <3>1. Polled(m)' <=> Polled(m) BY <2>11 DEF vars, loopVars, Polled
    <3> QED BY <2>0, <2>11, <3>1 DEF vars, loopVars, fileVars
  <2> QED
    BY <2>1, <2>2, <2>3, <2>4, <2>5, <2>6, <2>7, <2>8, <2>9, <2>10, <2>11
       DEF Next, Tick, Horizon
<1> QED BY <1>1, <1>2, TypeCorrect, ClockCorrect, PTL DEF Spec

(* What appending a batch does to the watermark. *)
LEMMA WatermarkMoves ==
  ASSUME TypeOK, Polls, Append1
  PROVE  /\ Source \in Modality /\ PollOK(Source) /\ Polled(Source)
         /\ batches[Source].until \in Nat
         /\ watermark' = NewWatermark(batches[Source])
         /\ watermark' \in Nat /\ watermark' # NoTime
         /\ batches[Source].until <= watermark'
         /\ watermark # NoTime => watermark <= watermark'
         /\ watermark' = batches[Source].until \/ watermark' = watermark
<1>1. Source \in Modality BY SourceInModality DEF Source, TypeOK
<1>2. PollOK(Source) /\ Polled(Source)
  BY <1>1, Append1Appended DEF Polls
<1>3. batches[Source].until \in Nat
  BY <1>2, TimeInNat DEF PollOK, Batch
<1>4. watermark # NoTime => watermark \in Nat BY TimeInNat DEF TypeOK
<1>5. watermark' = NewWatermark(batches[Source])
  BY DEF Append1, AppendBatch
<1> QED BY <1>1, <1>2, <1>3, <1>4, <1>5, BufferAssumption DEF NewWatermark

(* A line that was read is in the buffer, in this tick's batch on its way  *)
(* there, or older than the retention (memory_buffer.py:50-63, 102-110):   *)
(* append loses nothing else.                                              *)
THEOREM BufferCorrect == Spec => []Buffered
<1>1. Init => Buffered
  BY DEF Init, BufferInit, Buffered, BufferOK, Polled
<1>2. TypeOK /\ Clock /\ Polls /\ Buffered /\ [Next]_vars => Buffered'
  <2> SUFFICES ASSUME TypeOK, Clock, Polls, Buffered, [Next]_vars
               PROVE  Buffered'
    OBVIOUS
  <2>0. ASSUME NEW m \in Modality PROVE BufferOK(m) /\ PollOK(m)
    BY DEF Buffered, Polls
  <2> USE TimesInNat, BufferAssumption DEF BufferOK
  <2>a. watermark # NoTime => watermark \in Nat /\ watermark <= tickAt + PollSpan
    BY TimeInNat DEF TypeOK, Buffered
  <2>b. ASSUME bufferVars' = bufferVars, seen' = seen, tickAt' = tickAt,
               \A m \in Modality : (Polled(m)' => Polled(m) /\ batches'[m] = batches[m])
                                 /\ (Appended(m)' <=> Appended(m))
                                 /\ (Appended(m) \/ batches'[m] = batches[m])
        PROVE  Buffered'
    BY <2>0, <2>b, <2>a DEF bufferVars, Buffered, Threshold
  <2>1. ASSUME NEW n \in Modality, NEW r \in Record, Write(n, r)
        PROVE  Buffered'
    BY <2>1, <2>b DEF Write, loopVars, Polled, Appended
  <2>2. CASE ClockAdvances
    BY <2>2, <2>b DEF ClockAdvances, loopVars, Polled, Appended
  <2>3. CASE PollBegin
    BY <2>3, <2>b DEF PollBegin, Polled, Appended
  <2>4. CASE PollRead
    <3>1. ASSUME NEW m \in Modality PROVE BufferOK(m)'
      <4>1. ~Polled(Source) /\ (Polled(m)' <=> Polled(m) \/ m = Source)
        BY <2>4, PollReadPolled
      <4>2. ~Appended(m) /\ ~Appended(m)'
        BY <2>4 DEF PollRead, Appended
      <4>3. records' = records /\ watermark' = watermark
        BY <2>4 DEF PollRead, bufferVars
      <4>4. CASE m # Source
        <5>1. batches'[m] = batches[m] /\ seen'[m] = seen[m]
          BY <2>4, <4>4 DEF PollRead, TypeOK
        <5> QED BY <2>0, <4>1, <4>2, <4>3, <4>4, <5>1
      <4>5. CASE m = Source
        <5>1. batches'[m].records = unread[m] /\ seen'[m] = seen[m] \cup unread[m]
          BY <2>4, <4>5 DEF PollRead, TypeOK
        <5>2. batches[m].records = {} BY <2>0, <4>1, <4>5 DEF PollOK, NoBatch
        <5> QED BY <2>0, <4>1, <4>2, <4>3, <4>5, <5>1, <5>2
      <4> QED BY <4>4, <4>5
    <3> QED BY <2>4, <2>a, <3>1 DEF PollRead, Buffered, bufferVars
  <2>5. CASE Append1
    <3> DEFINE b == batches[Source]
               w == NewWatermark(b)
    <3>1. /\ Source \in Modality /\ PollOK(Source) /\ Polled(Source)
          /\ b.until \in Nat /\ watermark' = w /\ w \in Nat /\ w # NoTime
          /\ b.until <= w /\ (watermark # NoTime => watermark <= w)
          /\ w = b.until \/ w = watermark
      BY <2>5, WatermarkMoves
    <3>2. b.modality = Source /\ b.until <= tickAt + PollSpan
      BY <3>1 DEF PollOK
    <3>3. \A m \in Modality : records'[m] =
             KeptRecords(records[m] \cup
                           (IF m = Source THEN b.records ELSE {}), w)
      BY <2>5, <3>2 DEF Append1, AppendBatch
    <3>4. seen' = seen /\ batches' = batches /\ tickAt' = tickAt
      BY <2>5 DEF Append1
    <3> HIDE DEF w
    <3>5. ASSUME NEW m \in Modality PROVE BufferOK(m)'
      <4>1. /\ ~Appended(Source) /\ (Appended(m)' <=> Appended(m) \/ m = Source)
            /\ Polled(m) /\ Polled(m)'
        BY <2>5, Append1Appended
      <4>2. \A q \in seen[m] : q.ts \in Nat BY TimeInNat DEF TypeOK, Record
      <4>3. records'[m] \subseteq seen'[m]
        BY <2>0, <3>3, <3>4, <4>1 DEF KeptRecords
      <4>4. batches'[m].records \subseteq seen'[m] BY <2>0, <3>4, <4>1
      <4>5. Appended(m)' => batches'[m].until <= w
        <5>1. CASE m = Source BY <3>1, <3>4, <5>1
        <5>2. CASE m # Source
          <6>1. batches[m].until \in Nat
            BY <2>0, <4>1, TimeInNat DEF PollOK, Batch
          <6> QED BY <2>0, <2>a, <3>1, <3>4, <4>1, <5>2, <6>1
        <5> QED BY <5>1, <5>2
      <4>6. ASSUME NEW q \in seen[m]
            PROVE  \/ q \in records'[m]
                   \/ ~Appended(m)' /\ q \in batches'[m].records
                   \/ q.ts < Threshold(w)
        <5>1. CASE q \in records[m]
          BY <3>1, <3>3, <4>2, <5>1 DEF KeptRecords, Threshold
        <5>2. CASE ~Appended(m) /\ q \in batches[m].records
          BY <3>1, <3>3, <3>4, <4>1, <4>2, <5>2 DEF KeptRecords, Threshold
        <5>3. CASE watermark # NoTime /\ q.ts < Threshold(watermark)
          BY <2>a, <3>1, <4>2, <5>3 DEF Threshold
        <5> QED BY <2>0, <5>1, <5>2, <5>3
      <4> QED BY <3>1, <3>4, <4>1, <4>3, <4>4, <4>5, <4>6
    <3> QED BY <2>a, <3>1, <3>2, <3>4, <3>5 DEF Buffered
  <2>6. CASE Finalize
    BY <2>6, <2>b DEF Finalize, Polled, Appended
  <2>7. CASE EvaluateAndRegister
    BY <2>7, <2>b DEF EvaluateAndRegister, Polled, Appended
  <2>8. CASE Send
    BY <2>8, <2>b DEF Send, Polled, Appended
  <2>9. CASE Sleep
    BY <2>9, <2>b DEF Sleep, Polled, Appended
  <2>10. CASE Wake
    <3>1. ASSUME NEW m \in Modality PROVE BufferOK(m)'
      <4>1. Appended(m) /\ ~Polled(m)' BY <2>10 DEF Wake, Appended, Polled, Clock
      <4> QED BY <2>0, <2>10, <4>1 DEF Wake, bufferVars
    <3>2. tickAt <= tickAt' /\ tickAt' \in Nat BY <2>10 DEF Wake, Clock
    <3> QED BY <2>10, <2>a, <3>1, <3>2 DEF Buffered, Wake, bufferVars
  <2>11. CASE UNCHANGED vars
    BY <2>11, <2>b DEF vars, loopVars, Polled, Appended
  <2> QED
    BY <2>1, <2>2, <2>3, <2>4, <2>5, <2>6, <2>7, <2>8, <2>9, <2>10, <2>11
       DEF Next, Tick, Horizon
<1> QED BY <1>1, <1>2, TypeCorrect, ClockCorrect, PollsCorrect, PTL DEF Spec

-----------------------------------------------------------------------------
(* Where an anchor lies. *)

(* The detectors' lower bound, once it is set, is a time.                  *)
LEMMA SinceIsTime ==
  ASSUME TypeOK, detectSince # NoTime
  PROVE  detectSince \in Nat
BY RunnerAssumption, SnapshotAssumption DEF TypeOK

(* _lookback_start (detector.py:45-49) never reaches behind the lower      *)
(* bound nor beyond the lookback, and moves forward with the batch.        *)
LEMMA LookbackStartBounds ==
  ASSUME TypeOK, NEW u \in Nat
  PROVE  /\ LookbackStart(u) \in Int
         /\ u - WindowSec <= LookbackStart(u)
         /\ detectSince # NoTime => detectSince <= LookbackStart(u)
         /\ \A v \in Nat : v <= u => LookbackStart(v) <= LookbackStart(u)
<1>1. WindowSec \in Nat BY RunnerAssumption
<1>2. CASE detectSince = NoTime BY <1>1, <1>2 DEF LookbackStart
<1>3. CASE detectSince # NoTime
  <2>1. detectSince \in Nat BY <1>3, SinceIsTime
  <2> QED BY <1>1, <1>3, <2>1 DEF LookbackStart
<1> QED BY <1>2, <1>3

(* A count fires at its batch's observed_until; a counted signal is        *)
(* younger than the lower bound, so that time precedes the bound by        *)
(* PollSpan at most.                                                       *)
LEMMA CountEvidenceTime ==
  ASSUME TypeOK, Polls, pc = "evaluate",
         NEW d \in Detectors \cap BatchDetectors, NEW e \in CountEvidence(d)
  PROVE  /\ e.modality \in Modality
         /\ e.time = batches[e.modality].until
         /\ detectSince # NoTime => detectSince <= e.time + PollSpan
<1> DEFINE m == ModalityOf(d)
           S == Signals(Since(batches[m].records), d)
<1>1. m \in Modality /\ PollOK(m) /\ Polled(m)
  BY ModalityOfDetector DEF Polls, Polled
<1>2. batches[m] \in Batch /\ batches[m].modality = m BY <1>1 DEF PollOK
<1>3. Cardinality(S) > Floor
      /\ e = [modality |-> batches[m].modality, time |-> batches[m].until]
  BY DEF CountEvidence
<1>4. S # {}
  <2> SUFFICES ASSUME S = {} PROVE FALSE OBVIOUS
  <2>1. Cardinality(S) = 0 BY FS_EmptySet
  <2> HIDE DEF S
  <2> QED BY <1>3, <2>1, RunnerAssumption
<1>5. PICK r \in batches[m].records : detectSince = NoTime \/ r.ts >= detectSince
  BY <1>4 DEF Signals, Since
<1>6. r.ts <= batches[m].until + PollSpan BY <1>1 DEF PollOK
<1>7. r.ts \in Nat /\ batches[m].until \in Nat
  BY <1>2, TimeInNat DEF Batch, Record
<1>8. detectSince # NoTime => detectSince <= batches[m].until + PollSpan
  BY <1>5, <1>6, <1>7, SinceIsTime, TimesInNat
<1> HIDE DEF m, S
<1> QED BY <1>1, <1>2, <1>3, <1>8

(* latency_spike fires at the time stamp of a record of its batch.         *)
LEMMA LatencyEvidenceTime ==
  ASSUME TypeOK, Polls, pc = "evaluate",
         NEW latency \in LatencyEvidences, NEW e \in latency
  PROVE  /\ e.modality \in Modality /\ e.time \in Nat
         /\ detectSince # NoTime => detectSince <= e.time
         /\ e.time <= batches[e.modality].until + PollSpan
         /\ batches[e.modality].from <= e.time + Lateness
<1> DEFINE S == Signals(Since(batches["trace"].records), "latency_spike")
<1>1. "latency_spike" \in Detectors /\ \E r \in S : e = [modality |-> "trace", time |-> r.ts]
  BY DEF LatencyEvidences
<1>2. PICK r \in S : e = [modality |-> "trace", time |-> r.ts] BY <1>1
<1>3. "trace" \in Modality BY <1>1, ModalityOfDetector
<1>4. PollOK("trace") /\ Polled("trace") BY <1>3 DEF Polls, Polled
<1>5. batches["trace"] \in Batch BY <1>4 DEF PollOK
<1>6. r \in batches["trace"].records /\ (detectSince = NoTime \/ r.ts >= detectSince)
  BY <1>2 DEF Signals, Since
<1>7. r.ts \in Nat BY <1>5, <1>6, TimeInNat DEF Batch, Record
<1>8. r.ts <= batches["trace"].until + PollSpan
      /\ batches["trace"].from <= r.ts + Lateness
  BY <1>4, <1>6 DEF PollOK
<1>9. detectSince # NoTime => detectSince <= r.ts
  BY <1>6, <1>7, SinceIsTime
<1> HIDE DEF S
<1> QED BY <1>2, <1>3, <1>7, <1>8, <1>9

(* A window detector fires at the time stamp of the sample that completes  *)
(* the count, inside its lookback.                                         *)
LEMMA WindowEvidenceTime ==
  ASSUME TypeOK, Polls, pc = "evaluate",
         NEW d \in Detectors \cap WindowDetectors, NEW e \in WindowEvidence(d)
  PROVE  /\ e.modality = ModalityOf(d) /\ e.modality \in Modality
         /\ e.time \in Nat
         /\ detectSince # NoTime => detectSince <= e.time
         /\ e.time < batches[e.modality].until
         /\ IsConfirming(e.time, WindowSignals(d))
<1> DEFINE m == ModalityOf(d)
<1>1. m \in Modality /\ PollOK(m) /\ Polled(m)
  BY ModalityOfDetector DEF Polls, Polled
<1>2. batches[m].until \in Nat BY <1>1, TimeInNat DEF PollOK, Batch
<1>3. PICK r \in WindowSignals(d) :
        e = [modality |-> m, time |-> r.ts] /\ IsConfirming(r.ts, WindowSignals(d))
  BY DEF WindowEvidence
<1>4. r \in records[m] /\ LookbackStart(batches[m].until) <= r.ts
      /\ r.ts < batches[m].until
  BY <1>3 DEF WindowSignals, Signals, Scan, Span
<1>5. r.ts \in Nat BY <1>1, <1>4, TimeInNat DEF TypeOK, Record
<1>6. detectSince # NoTime => detectSince <= r.ts
  BY <1>2, <1>4, <1>5, LookbackStartBounds, SinceIsTime
<1> QED BY <1>1, <1>3, <1>4, <1>5, <1>6

(* Whatever fires: its time, against the bounds of the tick. *)
LEMMA EvidenceTime ==
  ASSUME TypeOK, Polls, pc = "evaluate",
         NEW latency \in LatencyEvidences, NEW e \in Evidences(latency)
  PROVE  /\ e.modality \in Modality /\ e.time \in Nat
         /\ detectSince # NoTime => detectSince <= e.time + PollSpan
         /\ e.time <= batches[e.modality].until + PollSpan
<1>1. \A m \in Modality : batches[m].until \in Nat
  <2> SUFFICES ASSUME NEW m \in Modality PROVE batches[m].until \in Nat
    OBVIOUS
  <2>1. PollOK(m) /\ Polled(m) BY DEF Polls, Polled
  <2> QED BY <2>1, TimeInNat DEF PollOK, Batch
<1>2. CASE \E d \in Detectors \cap BatchDetectors : e \in CountEvidence(d)
  BY <1>1, <1>2, CountEvidenceTime, TimesInNat
<1>3. CASE \E d \in Detectors \cap WindowDetectors : e \in WindowEvidence(d)
  BY <1>1, <1>3, WindowEvidenceTime, TimesInNat, SinceIsTime
<1>4. CASE e \in latency
  BY <1>1, <1>4, LatencyEvidenceTime, TimesInNat, SinceIsTime
<1> QED BY <1>2, <1>3, <1>4 DEF Evidences, CountEvidences, WindowEvidences

(* Where the anchor of a new capture comes from. *)
LEMMA OpensAtEvidence ==
  ASSUME EvaluateAndRegister, session = NoSession, session' # NoSession
  PROVE  \E latency \in LatencyEvidences : \E e \in Evidences(latency) :
           session' = NewSession(e.time, Evidences(latency))
<1>1. PICK latency \in LatencyEvidences : RegisterTriggers(Evidences(latency))
  BY DEF EvaluateAndRegister
<1>2. OpenSession(Evidences(latency))
  BY <1>1 DEF RegisterTriggers, AbsorbTriggers
<1> QED BY <1>2 DEF OpenSession

(* A trigger during a capture leaves its anchor and first half alone       *)
(* (assembler.py:90-93).                                                   *)
LEMMA AbsorbKeepsAnchor ==
  ASSUME TypeOK, EvaluateAndRegister, session # NoSession
  PROVE  session'.anchor = session.anchor /\ session'.pre = session.pre
         /\ DOMAIN session' = DOMAIN session
<1>1. PICK latency \in LatencyEvidences : RegisterTriggers(Evidences(latency))
  BY DEF EvaluateAndRegister
<1>2. DOMAIN session = {"anchor", "pre", "roster", "firedBy"}
  BY DEF TypeOK, IsSession
<1> QED BY <1>1, <1>2 DEF RegisterTriggers, OpenSession, AbsorbTriggers

(* A capture begins no more than PollSpan before the end of the window of  *)
(* the bundle before it: runner.py:87 hands that end to the detectors, and *)
(* only a count whose own batch ends before it can fire earlier.           *)
THEOREM AnchorNear == Spec => []AnchorNearWindow
<1>1. Init => AnchorNearWindow
  BY DEF Init, SnapshotInit, AnchorNearWindow
<1>2. TypeOK /\ Polls /\ AnchorNearWindow /\ [Next]_vars => AnchorNearWindow'
  <2> SUFFICES ASSUME TypeOK, Polls, AnchorNearWindow, [Next]_vars
               PROVE  AnchorNearWindow'
    OBVIOUS
  <2> USE DEF AnchorNearWindow
  <2>1. CASE session' = session /\ detectSince' = detectSince
    BY <2>1
  <2>2. CASE Finalize
    <3>1. PICK t : /\ FinalizeReady(t)
                   /\ detectSince' = IF Ready(t) THEN WindowEnd(session.anchor)
                                                 ELSE detectSince
      BY <2>2 DEF Finalize
    <3> QED BY <3>1 DEF FinalizeReady
  <2>3. CASE EvaluateAndRegister
    <3>1. detectSince' = detectSince BY <2>3 DEF EvaluateAndRegister
    <3>2. CASE session # NoSession
      BY <2>3, <3>1, <3>2, AbsorbKeepsAnchor
    <3>3. CASE session = NoSession /\ session' # NoSession
      <4>0. PICK latency \in LatencyEvidences :
               \E e \in Evidences(latency) :
                  session' = NewSession(e.time, Evidences(latency))
        BY <2>3, <3>3, OpensAtEvidence
      <4>1. PICK e \in Evidences(latency) :
               session' = NewSession(e.time, Evidences(latency))
        BY <4>0
      <4>2. session'.anchor = e.time BY <4>1 DEF NewSession
      <4>3. pc = "evaluate" BY <2>3 DEF EvaluateAndRegister
      <4> QED BY <3>1, <4>2, <4>3, EvidenceTime
    <3> QED BY <3>2, <3>3
  <2> QED
    BY <2>1, <2>2, <2>3
       DEF Next, Tick, Horizon, Write, ClockAdvances, PollBegin, PollRead,
           Append1, Send, Sleep, Wake, vars, loopVars
<1> QED BY <1>1, <1>2, TypeCorrect, PollsCorrect, PTL DEF Spec

(* When the sources of a tick are polled at one instant, no capture begins *)
(* inside the window of the bundle before it: the lower bound of the       *)
(* detectors (runner.py:87) does what it is for, for every setting.        *)
THEOREM AnchorCorrect ==
  ASSUME PollSpan = 0
  PROVE  Spec => []AnchorAfterWindow
<1>1. TypeOK /\ AnchorNearWindow => AnchorAfterWindow
  <2> SUFFICES ASSUME TypeOK, AnchorNearWindow, session # NoSession,
                      detectSince # NoTime
               PROVE  session.anchor >= detectSince
    BY DEF AnchorAfterWindow
  <2>1. session.anchor \in Nat BY TimeInNat DEF TypeOK, IsSession
  <2> QED BY <2>1, SinceIsTime DEF AnchorNearWindow
<1> QED BY <1>1, TypeCorrect, AnchorNear, PTL
-----------------------------------------------------------------------------
(* A window detector that has enough samples fires. *)

(* A set of times has a first one.                                         *)
LEMMA LeastTime ==
  ASSUME NEW T \in SUBSET Nat, T # {}
  PROVE  \E t \in T : \A u \in T : t <= u
<1>1. PICK t \in T : \A u \in T : <<u, t>> \notin OpToRel(<, Nat)
  BY NatLessThanWellFounded, WFMin
<1>2. \A u \in T : ~(u < t) BY <1>1 DEF OpToRel
<1> QED BY <1>2

(* The sample that completes the count exists.                             *)
LEMMA ConfirmingExists ==
  ASSUME NEW S \in SUBSET Record, Cardinality(S) >= MinOver
  PROVE  \E r \in S : IsConfirming(r.ts, S)
<1> DEFINE UpTo(t) == {r \in S : r.ts <= t}
           T == {t \in Nat : Cardinality(UpTo(t)) >= MinOver}
<1>1. \A t : UpTo(t) \in SUBSET Record OBVIOUS
<1>2. \A t : Cardinality(UpTo(t)) \in Nat BY <1>1, RecordsCount
<1>3. MinOver \in Nat /\ MinOver > 0 /\ MaxTime \in Nat BY RunnerAssumption
<1>4. \A r \in S : r.ts \in Nat /\ r.ts <= MaxTime
  BY <1>3 DEF Record, Time
<1>5. UpTo(MaxTime) = S BY <1>4
<1>6. MaxTime \in T BY <1>3, <1>5
<1>7. PICK t \in T : \A u \in T : t <= u BY <1>6, LeastTime
<1> DEFINE Before == {r \in S : r.ts < t}
<1>8. Cardinality(Before) < MinOver
  <2>1. CASE t = 0
    <3>1. Before = {} BY <1>4, <2>1
    <3> HIDE DEF Before
    <3> QED BY <1>3, <3>1, FS_EmptySet
  <2>2. CASE t # 0
    <3>1. t - 1 \in Nat /\ t - 1 \notin T BY <1>7, <2>2
    <3>2. Before = UpTo(t - 1) BY <1>4, <1>7
    <3>3. Cardinality(UpTo(t - 1)) \in Nat BY <1>2
    <3>4. ~(Cardinality(UpTo(t - 1)) >= MinOver) BY <3>1
    <3> HIDE DEF UpTo, T, Before
    <3> QED BY <1>3, <3>2, <3>3, <3>4
  <2> QED BY <2>1, <2>2
<1>9. \E r \in S : r.ts = t
  <2> SUFFICES ASSUME \A r \in S : r.ts # t PROVE FALSE OBVIOUS
  <2>1. Before = UpTo(t) BY <1>4, <1>7
  <2>2. Cardinality(UpTo(t)) >= MinOver BY <1>7
  <2> QED BY <1>2, <1>3, <1>8, <2>1, <2>2
<1>10. Cardinality(UpTo(t)) >= MinOver BY <1>7
<1> HIDE DEF T
<1> QED BY <1>8, <1>9, <1>10 DEF IsConfirming
-----------------------------------------------------------------------------
(* Fresh anchors: without a capture in progress every signal the detectors *)
(* could have fired on earlier has been used up, so what fires now was     *)
(* read in this tick or misses only signals of this tick.                  *)

(* A step other than the end of a tick leaves From alone. *)
LEMMA FromSteady ==
  ASSUME TypeOK, Clock, Polls, [Next]_vars, ~EvaluateAndRegister,
         NEW m \in Modality
  PROVE  From(m)' = From(m)
<1> USE DEF From
<1>1. CASE PollRead
  <2>1. ~Polled(Source) /\ (Polled(m)' <=> Polled(m) \/ m = Source)
    BY <1>1, PollReadPolled
  <2>2. CASE m # Source
    BY <1>1, <2>1, <2>2 DEF PollRead, TypeOK
  <2>3. CASE m = Source
    BY <1>1, <2>1, <2>3 DEF PollRead, TypeOK
  <2> QED BY <2>2, <2>3
<1>2. CASE Append1
  BY <1>2, Append1Appended DEF Append1
<1>3. CASE Wake
  <2>1. ~Polled(m) /\ ~Polled(m)' BY <1>3 DEF Wake, Polled, Clock
  <2> QED BY <1>3, <2>1 DEF Wake
<1>4. ASSUME \E n \in Modality, r \in Record : Write(n, r)
      PROVE  From(m)' = From(m)
  BY <1>4 DEF Write, loopVars, Polled
<1>5. CASE ClockAdvances BY <1>5 DEF ClockAdvances, loopVars, Polled
<1>6. CASE PollBegin BY <1>6 DEF PollBegin, Polled
<1>7. CASE Finalize BY <1>7 DEF Finalize, Polled
<1>8. CASE Send \/ Sleep BY <1>8 DEF Send, Sleep, Polled
<1>9. CASE UNCHANGED vars BY <1>9 DEF vars, loopVars, Polled
<1> QED
  BY <1>1, <1>2, <1>3, <1>4, <1>5, <1>6, <1>7, <1>8, <1>9
     DEF Next, Tick, Horizon

(* The times of a batch at the end of a tick. *)
LEMMA BatchTimes ==
  ASSUME TypeOK, Polls, pc \in {"finalize", "evaluate"}, NEW m \in Modality
  PROVE  /\ batches[m].from \in Nat /\ batches[m].until \in Nat
         /\ batches[m].from <= batches[m].until
         /\ tickAt <= batches[m].from + Cadence
         /\ tickAt <= batches[m].until /\ batches[m].until <= tickAt + PollSpan
         /\ From(m) = batches[m].from
<1>1. PollOK(m) /\ Polled(m) BY DEF Polls, Polled
<1>2. batches[m].from \in Nat /\ batches[m].until \in Nat
  BY <1>1, TimeInNat DEF PollOK, Batch
<1> QED BY <1>1, <1>2, TimesInNat DEF PollOK, From

(* Between captures a window detector fires on a sample no older than the  *)
(* poll before this one, less Lateness.                                    *)
LEMMA FreshWindowEvidence ==
  ASSUME TypeOK, Polls, Quiet, session = NoSession, pc = "evaluate",
         NEW d \in Detectors \cap WindowDetectors, NEW e \in WindowEvidence(d)
  PROVE  tickAt <= e.time + Lateness + Cadence
<1> DEFINE m == ModalityOf(d)
           Until == {r \in WindowSignals(d) : r.ts <= e.time}
<1>1. m \in Modality BY ModalityOfDetector
<1>2. e.time \in Nat /\ IsConfirming(e.time, WindowSignals(d))
  BY WindowEvidenceTime
<1>3. Cardinality(Until) >= MinOver BY <1>2 DEF IsConfirming
<1>4. /\ batches[m].from \in Nat /\ batches[m].until \in Nat
      /\ batches[m].from <= batches[m].until
      /\ tickAt <= batches[m].from + Cadence /\ From(m) = batches[m].from
  BY <1>1, BatchTimes
<1>5. batches[m].from <= e.time + Lateness
  <2> SUFFICES ASSUME e.time + Lateness < batches[m].from PROVE FALSE
    BY <1>2, <1>4, TimesInNat
  <2>1. Until \subseteq OldSignals(d)
    <3> SUFFICES ASSUME NEW r \in Until PROVE r \in OldSignals(d) OBVIOUS
    <3>1. r \in records[m] /\ r.kind = d /\ r.ts <= e.time
          /\ LookbackStart(batches[m].until) <= r.ts
      BY DEF WindowSignals, Signals, Scan, Span
    <3>2. r.ts \in Nat BY <1>1, <3>1, TimeInNat DEF TypeOK, Record
    <3>3. LookbackStart(From(m)) <= r.ts
      BY <1>4, <3>1, <3>2, LookbackStartBounds
    <3>4. r.ts + Lateness < From(m) BY <1>2, <1>4, <3>1, <3>2, TimesInNat
    <3> QED BY <3>1, <3>3, <3>4 DEF OldSignals, Signals
  <2>2. OldSignals(d) \in SUBSET Record
    BY <1>1 DEF OldSignals, Signals, TypeOK
  <2>3. Cardinality(Until) <= Cardinality(OldSignals(d))
    BY <2>1, <2>2, RecordsCount, FS_Subset
  <2>4. Cardinality(OldSignals(d)) < MinOver BY DEF Quiet
  <2>5. Until \in SUBSET Record BY <2>1, <2>2
  <2>6. Cardinality(Until) \in Nat /\ Cardinality(OldSignals(d)) \in Nat
    BY <2>2, <2>5, RecordsCount
  <2> HIDE DEF Until
  <2> QED BY <1>3, <2>3, <2>4, <2>6, RunnerAssumption
<1> QED BY <1>2, <1>4, <1>5, TimesInNat

(* So does every detector.                                                 *)
LEMMA FreshEvidence ==
  ASSUME TypeOK, Polls, Quiet, session = NoSession, pc = "evaluate",
         NEW latency \in LatencyEvidences, NEW e \in Evidences(latency)
  PROVE  e.time \in Nat /\ tickAt <= e.time + Lateness + Cadence
<1>1. e.modality \in Modality /\ e.time \in Nat BY EvidenceTime
<1>2. /\ batches[e.modality].from \in Nat
      /\ tickAt <= batches[e.modality].from + Cadence
      /\ tickAt <= batches[e.modality].until
      /\ batches[e.modality].until \in Nat
  BY <1>1, BatchTimes
<1>3. CASE \E d \in Detectors \cap BatchDetectors : e \in CountEvidence(d)
  BY <1>1, <1>2, <1>3, CountEvidenceTime, TimesInNat
<1>4. CASE \E d \in Detectors \cap WindowDetectors : e \in WindowEvidence(d)
  BY <1>1, <1>4, FreshWindowEvidence
<1>5. CASE e \in latency
  BY <1>1, <1>2, <1>5, LatencyEvidenceTime, TimesInNat
<1> QED BY <1>3, <1>4, <1>5 DEF Evidences, CountEvidences, WindowEvidences

(* No evidence, no signals to count. *)
LEMMA NoEvidenceNoSignals ==
  ASSUME TypeOK, NEW d \in Detectors \cap WindowDetectors,
         WindowEvidence(d) = {}
  PROVE  WindowSignals(d) \in SUBSET Record
         /\ Cardinality(WindowSignals(d)) < MinOver
<1>1. ModalityOf(d) \in Modality BY ModalityOfDetector
<1>2. WindowSignals(d) \in SUBSET Record
  BY <1>1 DEF TypeOK, WindowSignals, Signals, Scan, Span
<1>3. ~(Cardinality(WindowSignals(d)) >= MinOver)
  <2> SUFFICES ASSUME Cardinality(WindowSignals(d)) >= MinOver PROVE FALSE
    OBVIOUS
  <2>1. PICK r \in WindowSignals(d) : IsConfirming(r.ts, WindowSignals(d))
    BY <1>2, ConfirmingExists
  <2> QED BY <2>1 DEF WindowEvidence
<1>4. Cardinality(WindowSignals(d)) \in Nat BY <1>2, RecordsCount
<1> QED BY <1>2, <1>3, <1>4, RunnerAssumption
(* With settings of sufficient size a capture opens on fresh signals, the  *)
(* end of its window is still ahead, and between captures no window        *)
(* detector sits on enough old samples to fire late (runner.py:85-102).    *)
THEOREM AnchorFresh ==
  ASSUME WellSized, ~IsSession(NoSession)
  PROVE  Spec => [](Quiet /\ WindowAhead)
<1> USE TimesInNat
<1>0. /\ RetentionSec \in Nat /\ PostSec \in Nat /\ MinOver \in Nat \ {0}
      /\ PostSec > Cadence + PollSpan + Lateness
  BY RunnerAssumption, BufferAssumption, SnapshotAssumption
     DEF WellSized, Staleness, Gap
<1>1. Init => Quiet /\ WindowAhead
  <2> SUFFICES ASSUME Init PROVE Quiet BY DEF Init, SnapshotInit, WindowAhead
  <2>1. \A d \in Detectors : OldSignals(d) = {}
    BY ModalityOfDetector DEF Init, BufferInit, OldSignals, Signals
  <2> QED BY <1>0, <2>1, FS_EmptySet DEF Quiet
<1>2. TypeOK /\ Clock /\ Polls /\ Quiet /\ WindowAhead /\ [Next]_vars
        => Quiet' /\ WindowAhead'
  <2> SUFFICES ASSUME TypeOK, Clock, Polls, Quiet, WindowAhead, [Next]_vars
               PROVE  Quiet' /\ WindowAhead'
    OBVIOUS
  <2>a. \A m \in Modality : From(m) \in Nat
    <3> SUFFICES ASSUME NEW m \in Modality PROVE From(m) \in Nat OBVIOUS
    <3>1. PollOK(m) BY DEF Polls
    <3> QED BY <3>1, TimeInNat DEF From, PollOK, Batch
  <2>1. CASE Append1
    <3>1. session' = session /\ detectSince' = detectSince
          /\ pc' # "evaluate"
      BY <2>1 DEF Append1
    <3>2. \A m \in Modality : From(m)' = From(m)
      BY <2>1, FromSteady DEF Append1, EvaluateAndRegister
    <3>3. ASSUME NEW d \in Detectors \cap WindowDetectors, Quiet,
                 session = NoSession
          PROVE  Cardinality(OldSignals(d)') < MinOver
      <4> DEFINE m == ModalityOf(d)
      <4>1. m \in Modality BY ModalityOfDetector
      <4>2. PollOK(Source) /\ Polled(Source) BY <2>1, WatermarkMoves
      <4>3. PollOK(m) /\ Polled(m)
        BY <2>1, <4>1, Append1Appended DEF Polls
      <4>4. \A q \in records'[m] : q \in records[m] \/ q \in batches[m].records
        BY <2>1, <4>1, <4>2 DEF Append1, AppendBatch, KeptRecords, PollOK
      <4>5. \A q \in batches[m].records : From(m) <= q.ts + Lateness
        BY <4>3 DEF From, PollOK
      <4>6. \A q \in batches[m].records : q.ts \in Nat
        BY <4>3, TimeInNat DEF PollOK, Batch, Record
      <4>7. LookbackStart(From(m))' = LookbackStart(From(m))
        BY <3>1, <3>2, <4>1 DEF LookbackStart
      <4>8. OldSignals(d)' \subseteq OldSignals(d)
        <5> SUFFICES ASSUME NEW q \in OldSignals(d)' PROVE q \in OldSignals(d)
          OBVIOUS
        <5>1. /\ q \in records'[m] /\ q.kind = d
              /\ LookbackStart(From(m)) <= q.ts /\ q.ts + Lateness < From(m)
          BY <3>2, <4>1, <4>7 DEF OldSignals, Signals
        <5>2. q \in records[m] BY <2>a, <4>1, <4>4, <4>5, <4>6, <5>1
        <5> QED BY <5>1, <5>2 DEF OldSignals, Signals
      <4>9. OldSignals(d) \in SUBSET Record
        BY <4>1 DEF OldSignals, Signals, TypeOK
      <4>10. OldSignals(d)' \in SUBSET Record BY <4>8, <4>9
      <4>11. Cardinality(OldSignals(d)') <= Cardinality(OldSignals(d))
        BY <4>8, <4>9, RecordsCount, FS_Subset
      <4>12. Cardinality(OldSignals(d)') \in Nat
             /\ Cardinality(OldSignals(d)) \in Nat
        BY <4>9, <4>10, RecordsCount
      <4> QED BY <1>0, <3>3, <4>11, <4>12 DEF Quiet
    <3>4. Quiet' BY <3>1, <3>3 DEF Quiet
    <3> QED BY <3>1, <3>2, <3>4 DEF WindowAhead
  <2>2. CASE Finalize
    <3>1. PICK t \in {batches[m].until : m \in Modality} :
             /\ IsObservedUntil(t)
             /\ FinalizeReady(t)
             /\ detectSince' = IF Ready(t) THEN WindowEnd(session.anchor)
                                           ELSE detectSince
      BY <2>2 DEF Finalize
    <3>2. records' = records /\ batches' = batches /\ pc = "finalize"
      BY <2>2 DEF Finalize, bufferVars
    <3>3. \A m \in Modality : From(m)' = From(m)
      BY <2>2, FromSteady DEF Finalize, EvaluateAndRegister
    <3>4. CASE ~Ready(t)
      <4>1. session' = session /\ detectSince' = detectSince
        BY <3>1, <3>4 DEF FinalizeReady
      <4>2. \A d \in Detectors : OldSignals(d)' = OldSignals(d)
        BY <3>2, <3>3, <4>1, ModalityOfDetector
           DEF OldSignals, Signals, LookbackStart
      <4>3. Quiet' BY <4>1, <4>2 DEF Quiet
      <4>4. ASSUME session # NoSession, NEW m \in Modality
            PROVE  batches[m].until < WindowEnd(session.anchor)
        <5>1. t \in Nat /\ batches[m].until \in Nat /\ batches[m].until <= t
          BY <3>1, <3>2, BatchTimes DEF IsObservedUntil
        <5>2. session.anchor \in Nat BY <4>4, TimeInNat DEF TypeOK, IsSession
        <5>3. t < session.anchor + PostSec
          BY <1>0, <3>4, <4>4, <5>1, <5>2 DEF Ready, WindowEnd
        <5> QED BY <1>0, <5>1, <5>2, <5>3 DEF WindowEnd
      <4> QED BY <3>2, <3>3, <4>1, <4>3, <4>4 DEF WindowAhead
    <3>5. CASE Ready(t)
      <4>1. session' = NoSession /\ detectSince' = WindowEnd(session.anchor)
            /\ session # NoSession
        BY <3>1, <3>5 DEF FinalizeReady, Ready
      <4>2. session.anchor \in Nat BY <4>1, TimeInNat DEF TypeOK, IsSession
      <4>3. detectSince' \in Nat BY <1>0, <4>1, <4>2 DEF WindowEnd
      <4>4. ASSUME NEW d \in Detectors PROVE OldSignals(d)' = {}
        <5> DEFINE m == ModalityOf(d)
        <5>1. m \in Modality BY ModalityOfDetector
        <5>2. From(m) < detectSince' /\ From(m) \in Nat
          BY <2>a, <4>1, <5>1 DEF WindowAhead
        <5>3. detectSince' <= LookbackStart(From(m))'
          <6>1. detectSince' # NoTime BY <4>3, BufferAssumption
          <6>2. WindowSec \in Nat BY RunnerAssumption
          <6>3. From(m)' = From(m) BY <3>3, <5>1
          <6>4. LookbackStart(From(m))' =
                  IF detectSince' = NoTime \/ detectSince' < From(m) - WindowSec
                  THEN From(m) - WindowSec ELSE detectSince'
            BY <6>3 DEF LookbackStart
          <6> QED BY <4>3, <5>2, <6>1, <6>2, <6>4
        <5>4. LookbackStart(From(m))' \in Int
          <6>1. WindowSec \in Nat BY RunnerAssumption
          <6>2. From(m)' \in Nat BY <3>3, <5>1, <5>2
          <6> QED BY <4>3, <6>1, <6>2 DEF LookbackStart
        <5>5. ASSUME NEW q \in OldSignals(d)' PROVE FALSE
          <6>1. /\ q \in records[m]
                /\ LookbackStart(From(m))' <= q.ts /\ q.ts + Lateness < From(m)
            BY <3>2, <3>3, <5>1 DEF OldSignals, Signals
          <6>2. q.ts \in Nat BY <5>1, <6>1, TimeInNat DEF TypeOK, Record
          <6> QED BY <4>3, <5>2, <5>3, <5>4, <6>1, <6>2
        <5> QED BY <5>5
      <4>5. Quiet' BY <1>0, <4>4, FS_EmptySet DEF Quiet
      <4> QED BY <4>1, <4>5 DEF WindowAhead
    <3> QED BY <3>4, <3>5
  <2>3. CASE EvaluateAndRegister
    <3>1. PICK latency \in LatencyEvidences :
             RegisterTriggers(Evidences(latency))
      BY <2>3 DEF EvaluateAndRegister
    <3>2. /\ pc = "evaluate" /\ pc' = "send" /\ detectSince' = detectSince
          /\ records' = records /\ lastPoll' = lastPoll
      BY <2>3 DEF EvaluateAndRegister, bufferVars
    <3>3. ASSUME NEW m \in Modality
          PROVE  /\ From(m)' = batches[m].until /\ batches[m].until \in Nat
                 /\ batches[m].until <= tickAt + PollSpan
      <4>1. PollOK(m) /\ Polled(m) /\ ~Polled(m)'
        BY <3>2 DEF Polls, Polled
      <4> QED BY <3>2, <4>1, BatchTimes DEF From, PollOK
    <3>4. CASE Evidences(latency) = {} /\ session = NoSession
      <4>1. session' = NoSession
        BY <3>1, <3>4 DEF RegisterTriggers, OpenSession, AbsorbTriggers
      <4>2. ASSUME NEW d \in Detectors \cap WindowDetectors
            PROVE  Cardinality(OldSignals(d)') < MinOver
        <5> DEFINE m == ModalityOf(d)
        <5>1. m \in Modality BY ModalityOfDetector
        <5>2. WindowEvidence(d) = {} BY <3>4 DEF Evidences, WindowEvidences
        <5>3. WindowSignals(d) \in SUBSET Record
              /\ Cardinality(WindowSignals(d)) < MinOver
          BY <5>2, NoEvidenceNoSignals
        <5>4. LookbackStart(From(m))' = LookbackStart(batches[m].until)
          BY <3>2, <3>3, <5>1 DEF LookbackStart
        <5>5. OldSignals(d)' \subseteq WindowSignals(d)
          <6> SUFFICES ASSUME NEW q \in OldSignals(d)'
                       PROVE  q \in WindowSignals(d)
            OBVIOUS
          <6>1. /\ q \in records[m] /\ q.kind = d
                /\ LookbackStart(batches[m].until) <= q.ts
                /\ q.ts + Lateness < batches[m].until
            BY <3>2, <3>3, <5>1, <5>4 DEF OldSignals, Signals
          <6>2. q.ts \in Nat BY <5>1, <6>1, TimeInNat DEF TypeOK, Record
          <6>3. q.ts < batches[m].until BY <3>3, <5>1, <6>1, <6>2
          <6> QED BY <6>1, <6>3 DEF WindowSignals, Signals, Scan, Span
        <5>6. OldSignals(d)' \in SUBSET Record BY <5>3, <5>5
        <5>7. Cardinality(OldSignals(d)') <= Cardinality(WindowSignals(d))
          BY <5>3, <5>5, RecordsCount, FS_Subset
        <5>8. Cardinality(OldSignals(d)') \in Nat
              /\ Cardinality(WindowSignals(d)) \in Nat
          BY <5>3, <5>6, RecordsCount
        <5> QED BY <1>0, <5>3, <5>7, <5>8
      <4> QED BY <4>1, <4>2 DEF Quiet, WindowAhead
    <3>5. CASE Evidences(latency) # {} /\ session = NoSession
      <4>1. OpenSession(Evidences(latency))
        BY <3>1, <3>5 DEF RegisterTriggers, AbsorbTriggers
      <4>2. session' # NoSession BY <4>1, OpenType
      <4>3. PICK e \in Evidences(latency) :
               session' = NewSession(e.time, Evidences(latency))
        BY <4>1 DEF OpenSession
      <4>4. session'.anchor = e.time BY <4>3 DEF NewSession
      <4>5. e.time \in Nat /\ tickAt <= e.time + Lateness + Cadence
        BY <3>2, <3>5, FreshEvidence
      <4>6. \A m \in Modality : From(m)' < WindowEnd(e.time)
        BY <1>0, <3>3, <4>5 DEF WindowEnd
      <4>7. WindowAhead' BY <3>2, <4>4, <4>6 DEF WindowAhead
      <4> QED BY <4>2, <4>7 DEF Quiet
    <3>6. CASE session # NoSession
      <4>1. session' # NoSession
        <5>1. CASE session' = session BY <3>6, <5>1
        <5>2. CASE AbsorbTriggers(Evidences(latency)) BY <5>2, AbsorbType
        <5> QED BY <3>1, <3>6, <5>1, <5>2 DEF RegisterTriggers, OpenSession
      <4>2. session'.anchor = session.anchor BY <2>3, <3>6, AbsorbKeepsAnchor
      <4>3. \A m \in Modality : From(m)' < WindowEnd(session.anchor)
        BY <3>2, <3>3, <3>6 DEF WindowAhead
      <4>4. WindowAhead' BY <3>2, <4>2, <4>3 DEF WindowAhead, WindowEnd
      <4> QED BY <4>1, <4>4 DEF Quiet
    <3> QED BY <3>4, <3>5, <3>6
  <2>4. CASE ~Append1 /\ ~Finalize /\ ~EvaluateAndRegister
    <3>1. /\ records' = records /\ session' = session
          /\ detectSince' = detectSince
          /\ pc' = "evaluate" => pc = "evaluate" /\ batches' = batches
      BY <2>4 DEF Next, Tick, Horizon, Write, ClockAdvances, PollBegin,
                  PollRead, Send, Sleep, Wake, vars, loopVars, bufferVars
    <3>2. \A m \in Modality : From(m)' = From(m) BY <2>4, FromSteady
    <3>3. \A d \in Detectors : OldSignals(d)' = OldSignals(d)
      BY <3>1, <3>2, ModalityOfDetector DEF OldSignals, Signals, LookbackStart
    <3>4. Quiet' BY <3>1, <3>3 DEF Quiet
    <3> QED BY <3>1, <3>2, <3>4 DEF WindowAhead
  <2> QED BY <2>1, <2>2, <2>3, <2>4
<1> QED BY <1>1, <1>2, TypeCorrect, ClockCorrect, PollsCorrect, PTL DEF Spec

(* The buffer keeps what a capture still needs (memory_buffer.py:44): with *)
(* a retention of at least PostSec plus the distance two ticks can lie     *)
(* apart, nothing a source delivered since the anchor has been evicted     *)
(* when the window is complete.                                            *)
THEOREM PostKept ==
  ASSUME WellSized, ~IsSession(NoSession)
  PROVE  Spec => []PostStillBuffered
<1>1. TypeOK /\ Clock /\ Polls /\ Buffered /\ Quiet /\ WindowAhead
        => PostStillBuffered
  <2> SUFFICES ASSUME TypeOK, Clock, Polls, Buffered, WindowAhead,
                      pc = "finalize", Ready(watermark), NEW m \in Modality,
                      NEW r \in Span(seen[m], session.anchor,
                                     WindowEnd(session.anchor))
               PROVE  r \in records[m]
    BY DEF PostStillBuffered
  <2>1. /\ RetentionSec \in Nat /\ PostSec \in Nat
        /\ RetentionSec >= PostSec + Cadence + PollSpan - 1
    BY BufferAssumption, SnapshotAssumption, TimesInNat DEF WellSized, Gap
  <2>2. BufferOK(m) /\ Appended(m) BY DEF Buffered, Appended
  <2>3. r \in seen[m] /\ session.anchor <= r.ts BY DEF Span
  <2>4. r.ts \in Nat /\ session.anchor \in Nat
    BY <2>3, TimeInNat DEF TypeOK, Record, Ready, IsSession
  <2>5. batches[m].from < session.anchor + PostSec
        /\ tickAt <= batches[m].from + Cadence /\ batches[m].from \in Nat
    BY BatchTimes DEF WindowAhead, Ready, WindowEnd
  <2>6. ~(watermark # NoTime /\ r.ts < Threshold(watermark))
    <3> SUFFICES ASSUME watermark # NoTime, r.ts < Threshold(watermark)
                 PROVE  FALSE
      OBVIOUS
    <3>1. watermark \in Nat BY TimeInNat DEF TypeOK
    <3>2. watermark <= tickAt + PollSpan BY DEF Buffered
    <3> HIDE DEF Ready
    <3> QED BY <2>1, <2>3, <2>4, <2>5, <3>1, <3>2, TimesInNat DEF Threshold
  <2> QED BY <2>2, <2>3, <2>6 DEF BufferOK
<1> QED
  BY <1>1, TypeCorrect, ClockCorrect, PollsCorrect, BufferCorrect,
     AnchorFresh, PTL
===============================================================================
