------------------------------- MODULE Runner -------------------------------
(***************************************************************************)
(* The observation loop of rca_sdk/runtime/runner.py with everything it    *)
(* drives: one tick polls the sources in order, appends their batches to   *)
(* the buffer, closes a capture whose window has passed, evaluates the     *)
(* detectors, registers what fired and, last, sends the finished bundle.   *)
(*                                                                         *)
(* The collector is one thread.  What runs beside it are the services that *)
(* write the files it tails, and the clock.  Both can move while the       *)
(* sources are polled, while a bundle is sent and while the loop sleeps;   *)
(* the phases between neither read a file nor the clock, so a write or a   *)
(* tick of the clock there has the effect of one just after them.          *)
(***************************************************************************)
EXTENDS SnapshotManager, Sequences

CONSTANTS
  Sources,       \* the modalities in the order build_runner lists them
  Detectors,     \* the keys of trigger_conditions: the detectors that run
  WindowSec,     \* lookback of the window detectors, 210 in the code
  MinOver,       \* samples a window detector needs (min_over, threshold)
  Floor,         \* batch detectors fire strictly above it
  LoopInterval,  \* loop_interval_sec, 30 in the code
  PollSpan,      \* longest time the polls of one tick take
  SendSpan,      \* longest time a send takes, at most its 10 s timeout
  Existing,      \* sources whose file exists when the collector starts
  Lateness,      \* longest delay between a record's time and its write
  MaxTime,       \* horizon of the model's clock
  MaxRecords     \* records written within the horizon

(* Detector types by the way they choose the trigger time: the batch's     *)
(* observed_until, the slowest record's time stamp, or the time stamp of   *)
(* the sample that completes the count.                                    *)
BatchDetectors  == {"nginx_error", "error_rate", "trace_5xx"}
WindowDetectors == {"restart_marker", "cpu_spike"}
DetectorTypes   == BatchDetectors \cup WindowDetectors \cup {"latency_spike"}

ModalityOf(d) ==
  CASE d \in {"nginx_error", "error_rate", "restart_marker"} -> "log"
    [] d = "cpu_spike" -> "metric"
    [] d \in {"trace_5xx", "latency_spike"} -> "trace"

(* A record's kind is the detector it is a signal for, or "normal". *)
Kinds(m) == {"normal"} \cup {d \in Detectors : ModalityOf(d) = m}
Time     == 0 .. MaxTime
Record   == [ts : Time, kind : Detectors \cup {"normal"}]

ASSUME RunnerAssumption ==
  /\ Sources \in Seq({"log", "metric", "trace"})
  /\ Sources # <<>>
  /\ \A i, j \in 1 .. Len(Sources) : Sources[i] = Sources[j] => i = j
  /\ Modality = {Sources[i] : i \in 1 .. Len(Sources)}
  /\ Existing \subseteq Modality
  /\ Detectors \subseteq {d \in DetectorTypes : ModalityOf(d) \in Modality}
  /\ WindowSec \in Nat /\ MinOver \in Nat \ {0} /\ Floor \in Nat
  /\ LoopInterval \in Nat \ {0}
  /\ PollSpan \in Nat /\ SendSpan \in Nat /\ Lateness \in Nat
  /\ MaxTime \in Nat /\ MaxRecords \in Nat

VARIABLES
  now,          \* the wall clock
  pc,           \* phase of the tick
  next,         \* index in Sources of the source whose turn it is
  tickAt,       \* when this tick began
  wakeAt,       \* when the sleep ends
  polledAt,     \* `now` as the current poll took it
  lastPoll,     \* _last_poll_at of every collector
  unread,       \* lines of every source beyond the collector's offset
  hasFile,      \* whether the source's file exists
  batches,      \* this tick's batches
  detectSince,  \* _detect_since, or NoTime
  outbox,       \* this tick's finished bundles
  seen,         \* history variable: every record a poll has read
  shipped       \* history variable: every record a bundle has carried

loopVars == <<pc, next, tickAt, wakeAt, polledAt, lastPoll,
              batches, detectSince, outbox>>
fileVars == <<now, unread, hasFile>>
vars == <<loopVars, fileVars, bufferVars, session, seen, shipped>>

NoBatch == [modality |-> "none", from |-> 0, until |-> 0,
            records |-> {}, present |-> FALSE]

Init ==
  /\ BufferInit
  /\ SnapshotInit
  /\ now = 0
  /\ pc = "poll" /\ next = 1
  /\ tickAt = 0 /\ wakeAt = 0 /\ polledAt = 0
  /\ lastPoll = [m \in Modality |-> 0]
  /\ unread = [m \in Modality |-> {}]
  /\ hasFile = [m \in Modality |-> m \in Existing]
  /\ batches = [m \in Modality |-> NoBatch]
  /\ detectSince = NoTime
  /\ outbox = <<>>
  /\ seen = [m \in Modality |-> {}]
  /\ shipped = [m \in Modality |-> {}]

-----------------------------------------------------------------------------
(* The environment. *)

Written == UNION {{<<m, r>> : r \in seen[m] \cup unread[m]} : m \in Modality}

(* A service appends a line to the file of modality m; the file appears    *)
(* with its first line.  The line carries the time of what it reports, at  *)
(* most Lateness before it reaches the file.                               *)
Write(m, r) ==
  /\ pc \in {"poll", "read", "sleep"} \/ (pc = "send" /\ outbox # <<>>)
  /\ Cardinality(Written) < MaxRecords
  /\ r.kind \in Kinds(m)
  /\ r.ts <= now /\ now <= r.ts + Lateness
  /\ r \notin seen[m] \cup unread[m]
  /\ unread' = [unread EXCEPT ![m] = @ \cup {r}]
  /\ hasFile' = [hasFile EXCEPT ![m] = TRUE]
  /\ UNCHANGED <<now, loopVars, bufferVars, session, seen, shipped>>

(* The clock moves while the loop polls, sends or sleeps; how long each    *)
(* may take is bounded by PollSpan, SendSpan and LoopInterval.             *)
ClockAdvances ==
  /\ now < MaxTime
  /\ \/ pc = "poll" /\ next > 1 /\ now < tickAt + PollSpan
     \/ pc = "read" /\ now < tickAt + PollSpan
     \/ pc = "send" /\ outbox # <<>> /\ now < tickAt + PollSpan + SendSpan
     \/ pc = "sleep" /\ now < wakeAt
  /\ now' = now + 1
  /\ UNCHANGED <<loopVars, unread, hasFile, bufferVars, session, seen, shipped>>

-----------------------------------------------------------------------------
(* The tick. *)

Source == Sources[next]

(* poll takes the time before it reads: lines written in between are read  *)
(* although they are younger than observed_until.                          *)
PollBegin ==
  /\ pc = "poll"
  /\ pc' = "read"
  /\ polledAt' = now
  /\ UNCHANGED <<next, tickAt, wakeAt, lastPoll, batches, detectSince, outbox,
                 fileVars, bufferVars, session, seen, shipped>>

(* The rest of poll, and normalize: the new lines become the batch.        *)
PollRead ==
  /\ pc = "read"
  /\ batches' = [batches EXCEPT ![Source] =
       [modality |-> Source, from |-> lastPoll[Source], until |-> polledAt,
        records |-> unread[Source], present |-> hasFile[Source]]]
  /\ lastPoll' = [lastPoll EXCEPT ![Source] = polledAt]
  /\ unread' = [unread EXCEPT ![Source] = {}]
  /\ seen' = [seen EXCEPT ![Source] = @ \cup unread[Source]]
  /\ IF next < Len(Sources)
     THEN pc' = "poll" /\ next' = next + 1
     ELSE pc' = "append" /\ next' = 1
  /\ UNCHANGED <<now, hasFile, tickAt, wakeAt, polledAt, detectSince, outbox,
                 bufferVars, session, shipped>>

(* for batch in batches: self.buffer.append(batch) *)
Append1 ==
  /\ pc = "append"
  /\ AppendBatch(batches[Source])
  /\ IF next < Len(Sources)
     THEN pc' = pc /\ next' = next + 1
     ELSE pc' = "finalize" /\ next' = 1
  /\ UNCHANGED <<tickAt, wakeAt, polledAt, lastPoll, batches, detectSince,
                 outbox, fileVars, session, seen, shipped>>

(* max(batch.observed_until for batch in batches) *)
IsObservedUntil(t) ==
  /\ \E m \in Modality : batches[m].until = t
  /\ \A m \in Modality : batches[m].until <= t

(* finalize_ready, before the detectors run: the end of the bundle's       *)
(* window becomes their lower bound.                                       *)
Finalize ==
  /\ pc = "finalize"
  /\ \E t \in {batches[m].until : m \in Modality} :
       /\ IsObservedUntil(t)
       /\ outbox' = Bundles(t)
       /\ FinalizeReady(t)
       /\ detectSince' = IF Ready(t) THEN WindowEnd(session.anchor)
                                     ELSE detectSince
       /\ shipped' = IF Ready(t)
                     THEN [m \in Modality |->
                             shipped[m] \cup Assemble(session).records[m]]
                     ELSE shipped
  /\ pc' = "evaluate"
  /\ UNCHANGED <<next, tickAt, wakeAt, polledAt, lastPoll, batches,
                 fileVars, bufferVars, seen>>

(* Seeded faults: the boundary is excluded; the lower bound is ignored. *)
Since_Exclusive(S) == {r \in S : detectSince = NoTime \/ r.ts > detectSince}
Since_Ignored(S) == S

(* Records at or after the lower bound; before a first bundle, all.        *)
Since(S) == {r \in S : detectSince = NoTime \/ r.ts >= detectSince}
Signals(S, d) == {r \in S : r.kind = d}

(* NumericThresholdDetector with a count: one evidence at observed_until.  *)
CountEvidence(d) ==
  LET b == batches[ModalityOf(d)] IN
  IF Cardinality(Signals(Since(b.records), d)) > Floor
  THEN {[modality |-> b.modality, time |-> b.until]} ELSE {}

(* latency_spike: the slowest record of the batch gives the time.  Which   *)
(* one is slowest is not modelled: one set of evidences per candidate.     *)
LatencyEvidences ==
  LET slow == IF "latency_spike" \in Detectors
              THEN Signals(Since(batches["trace"].records), "latency_spike")
              ELSE {} IN
  IF slow = {} THEN {{}}
  ELSE {{[modality |-> "trace", time |-> r.ts]} : r \in slow}

(* Seeded fault: the lower bound is ignored. *)
LookbackStart_Ignored(until) == until - WindowSec

(* _lookback_start *)
LookbackStart(until) ==
  IF detectSince = NoTime \/ detectSince < until - WindowSec
  THEN until - WindowSec ELSE detectSince

(* The time stamp of the MinOver-th oldest record of S. *)
IsConfirming(t, S) ==
  /\ Cardinality({r \in S : r.ts <= t}) >= MinOver
  /\ Cardinality({r \in S : r.ts < t}) < MinOver

(* cpu_spike and restart_marker: count the samples of the lookback. *)
WindowSignals(d) ==
  LET b == batches[ModalityOf(d)] IN
  Signals(Scan(LookbackStart(b.until), b.until, ModalityOf(d)), d)

WindowEvidence(d) ==
  {[modality |-> ModalityOf(d), time |-> t] :
     t \in {u \in {r.ts : r \in WindowSignals(d)} :
              IsConfirming(u, WindowSignals(d))}}

(* Every detector sees its own modality's batch only. *)
CountEvidences ==
  UNION {CountEvidence(d) : d \in Detectors \cap BatchDetectors}
WindowEvidences ==
  UNION {WindowEvidence(d) : d \in Detectors \cap WindowDetectors}
Evidences(latency) == CountEvidences \cup WindowEvidences \cup latency

EvaluateAndRegister ==
  /\ pc = "evaluate"
  /\ \E latency \in LatencyEvidences : RegisterTriggers(Evidences(latency))
  /\ pc' = "send"
  /\ batches' = [m \in Modality |-> NoBatch]
  /\ UNCHANGED <<next, tickAt, wakeAt, polledAt, lastPoll, detectSince, outbox,
                 fileVars, bufferVars, seen, shipped>>

(* send: the result is logged, nothing is kept whatever it is. *)
Send ==
  /\ pc = "send" /\ outbox # <<>>
  /\ outbox' = Tail(outbox)
  /\ UNCHANGED <<pc, next, tickAt, wakeAt, polledAt, lastPoll, batches,
                 detectSince, fileVars, bufferVars, session, seen, shipped>>

(* time.sleep(loop_interval_sec), counted from the end of the tick. *)
Sleep ==
  /\ pc = "send" /\ outbox = <<>>
  /\ pc' = "sleep"
  /\ wakeAt' = now + LoopInterval
  /\ UNCHANGED <<next, tickAt, polledAt, lastPoll, batches, detectSince,
                 outbox, fileVars, bufferVars, session, seen, shipped>>

Wake ==
  /\ pc = "sleep" /\ now >= wakeAt
  /\ pc' = "poll"
  /\ tickAt' = now
  /\ UNCHANGED <<next, wakeAt, polledAt, lastPoll, batches, detectSince,
                 outbox, fileVars, bufferVars, session, seen, shipped>>

(* The model's clock ends here; the program's does not. *)
Horizon == now = MaxTime /\ pc = "sleep" /\ now < wakeAt /\ UNCHANGED vars

Tick == \/ PollBegin \/ PollRead \/ Append1 \/ Finalize
        \/ EvaluateAndRegister \/ Send \/ Sleep \/ Wake

Next ==
  \/ \E m \in Modality, r \in Record : Write(m, r)
  \/ ClockAdvances
  \/ Tick
  \/ Horizon

Spec == Init /\ [][Next]_vars

(* The process keeps running, a send returns within its timeout and the    *)
(* clock goes on; nothing obliges a service to write.                      *)
FairSpec == Spec /\ WF_vars(Tick) /\ WF_vars(ClockAdvances)

-----------------------------------------------------------------------------
(* What the loop guarantees. *)

(* Longest time from one tick's beginning to the next one's. *)
Cadence == PollSpan + SendSpan + LoopInterval

(* How far the observed time moves between two ticks. *)
Gap == Cadence + PollSpan

(* An anchor lies in the newest batches: no older than the poll before     *)
(* this tick's, less the time a line may be late.                          *)
Staleness == Gap + Lateness

(* The sizes the settings must have for the buffer to be enough: what      *)
(* precedes a fresh anchor is kept until the capture opens; what follows   *)
(* it until the tick that observes the end of the window, which the        *)
(* observed time passes by less than Gap; and that end is still ahead when *)
(* the capture opens.                                                      *)
WellSized ==
  /\ RetentionSec >= PreSec + Staleness
  /\ RetentionSec >= PostSec + Gap - 1
  /\ PostSec > Staleness

Coverage == [from : Time, until : Time, present : BOOLEAN, count : Nat]
Batch    == [modality : Modality, from : Time, until : Time,
             records : SUBSET Record, present : BOOLEAN]

IsSession(s) ==
  /\ DOMAIN s = {"anchor", "pre", "roster", "firedBy"}
  /\ s.anchor \in Time
  /\ s.pre \in [Modality -> SUBSET Record]
  /\ s.firedBy \in (SUBSET Modality) \ {{}}

IsBundle(b) ==
  /\ b.anchor \in Time
  /\ b.records \in [Modality -> SUBSET Record]
  /\ b.firedBy \in (SUBSET Modality) \ {{}}

(* Every variable has the type its comment says: what the buffer counts is *)
(* never negative, a capture names a modality that fired, and one bundle   *)
(* at most is on its way.                                                  *)
TypeOK ==
  /\ now \in Time
  /\ pc \in {"poll", "read", "append", "finalize", "evaluate", "send", "sleep"}
  /\ next \in 1 .. Len(Sources)
  /\ tickAt \in Time /\ polledAt \in Time
  /\ wakeAt \in 0 .. MaxTime + LoopInterval
  /\ lastPoll \in [Modality -> Time]
  /\ unread \in [Modality -> SUBSET Record]
  /\ hasFile \in [Modality -> BOOLEAN]
  /\ batches \in [Modality -> Batch \cup {NoBatch}]
  /\ detectSince \in 0 .. MaxTime + PostSec \cup {NoTime}
  /\ outbox = <<>> \/ (outbox = <<outbox[1]>> /\ IsBundle(outbox[1]))
  /\ seen \in [Modality -> SUBSET Record]
  /\ shipped \in [Modality -> SUBSET Record]
  /\ records \in [Modality -> SUBSET Record]
  /\ history \in [Modality -> SUBSET Coverage]
  /\ watermark \in Time \cup {NoTime}
  /\ session # NoSession => IsSession(session)

(* A bundle carries every line the services wrote of its window and        *)
(* nothing else: the rolling buffer evicted none of it, neither half cut   *)
(* into the other, and no line was still on its way.  Needs WellSized      *)
(* settings, sources polled at one instant and no late lines.              *)
BundleExact ==
  \A i \in 1 .. Len(outbox) : \A m \in Modality :
    outbox[i].records[m] =
      Span(seen[m] \cup unread[m],
           WindowStart(outbox[i].anchor), WindowEnd(outbox[i].anchor))

(* A signal that fires a detector by itself reaches the server: once the   *)
(* tick that read it is over, a bundle has carried it or the capture in    *)
(* progress will, its window covering the record and its first half        *)
(* holding it if it lies there.  (Floor = 0.)                              *)
LoneSignals == BatchDetectors \cup {"latency_spike"}

InCapture(m, r) ==
  /\ session # NoSession
  /\ \/ r \in session.pre[m]
     \/ session.anchor <= r.ts /\ r.ts < WindowEnd(session.anchor)

SignalsShipped ==
  pc = "sleep" =>
    \A m \in Modality : \A r \in seen[m] :
      r.kind \in LoneSignals => r \in shipped[m] \/ InCapture(m, r)

(* A new capture never starts inside the window of the bundle before it    *)
(* (tests/replay/test_scenarios.py:161).  Needs sources polled at one      *)
(* instant: it fails when they are not, see README.                        *)
AnchorAfterWindow ==
  session # NoSession /\ detectSince # NoTime => session.anchor >= detectSince

(* A capture opens on signals no bundle has carried: the samples of a      *)
(* window that was shipped are not counted again, whatever the lookback.   *)
Unshipped(d) ==
  Signals(seen[ModalityOf(d)] \ shipped[ModalityOf(d)], d)
Needed(d) ==
  CASE d \in WindowDetectors -> MinOver
    [] d \in BatchDetectors  -> Floor + 1
    [] OTHER                 -> 1

NewEvidenceOnly ==
  [][session = NoSession /\ session' # NoSession =>
       \E d \in Detectors : Cardinality(Unshipped(d)) >= Needed(d)]_vars

(* The buffer's own claim about its retention (memory_buffer.py:44): when  *)
(* the window of a capture has passed, everything observed from the anchor *)
(* on is still in the buffer, for every source.                            *)
PostStillBuffered ==
  pc = "finalize" /\ Ready(watermark) =>
    \A m \in Modality :
      Span(seen[m], session.anchor, WindowEnd(session.anchor))
        \subseteq records[m]

(* The claim of schemas/snapshot.py:41 about an interval: its record_count *)
(* is below its total_count only when truncation dropped records; nothing  *)
(* is truncated here.                                                      *)
NoFalseTruncation ==
  \A i \in 1 .. Len(outbox) : \A m \in Modality :
    outbox[i].info[m].count >= outbox[i].info[m].total

(* The abstract capture, of which the loop with its buffer is an           *)
(* implementation when the retention suffices: evicting is never noticed.  *)
CaptureView(s) == [anchor |-> s.anchor, pre |-> s.pre, firedBy |-> s.firedBy]
BundleView(b)  == [anchor |-> b.anchor, records |-> b.records,
                   firedBy |-> b.firedBy]

Promise == INSTANCE Capture WITH
  Anchors  <- Time,
  Skew     <- PollSpan,
  archive  <- seen,
  observed <- watermark,
  session  <- IF session = NoSession THEN NoSession ELSE CaptureView(session),
  since    <- detectSince,
  outbox   <- [i \in 1 .. Len(outbox) |-> BundleView(outbox[i])]

(* Every step of the loop is a step of Capture or none. *)
ImplementsCapture == Promise!Spec

(* A capture that has room to finish before the model's horizon closes. *)
CaptureCloses ==
  \A a \in Time :
    (session # NoSession /\ session.anchor = a
       /\ WindowEnd(a) + Cadence + PollSpan + SendSpan <= MaxTime)
      ~> (session = NoSession)
=============================================================================
