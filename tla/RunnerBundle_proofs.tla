------------------------- MODULE RunnerBundle_proofs --------------------------
(***************************************************************************)
(* The collector's loop with its rolling buffer implements the abstract    *)
(* captures of module Capture; and what a bundle carries, against what the *)
(* services wrote: all of its window and nothing else, no signal of a      *)
(* bundle before it, and no signal lost between two of them.               *)
(***************************************************************************)
EXTENDS RunnerBuffer_proofs

-----------------------------------------------------------------------------
(* The loop with its buffer implements the captures of module Capture.     *)

(* None is told apart from a capture, as Python tells it apart. *)
NoneIsNoCapture ==
  /\ ~IsSession(NoSession)
  /\ NoSession \notin [anchor : Time, pre : [Modality -> SUBSET Record],
                       firedBy : SUBSET Modality]

(* Bundles exist only while they are sent. *)
Outgoing == outbox # <<>> => pc \in {"evaluate", "send"}

(* A bundle is on its way only from the moment the capture closes until    *)
(* the end of the same tick's sends (runner.py:85-118).                    *)
THEOREM OutgoingCorrect == Spec => []Outgoing
<1>1. Init => Outgoing
  BY DEF Init, Outgoing
<1>2. TypeOK /\ Outgoing /\ [Next]_vars => Outgoing'
  BY DEF Outgoing, Next, Tick, Horizon, Write, ClockAdvances, PollBegin,
         PollRead, Append1, Finalize, EvaluateAndRegister, Send, Sleep, Wake,
         vars, loopVars, TypeOK
<1> QED BY <1>1, <1>2, TypeCorrect, PTL DEF Spec

SessionView == IF session = NoSession THEN NoSession ELSE CaptureView(session)
OutboxView  == [i \in 1 .. Len(outbox) |-> BundleView(outbox[i])]

(* The abstract capture is absent exactly when the session is.             *)
LEMMA SessionViewNone ==
  ASSUME NoneIsNoCapture, TypeOK
  PROVE  SessionView = NoSession <=> session = NoSession
<1> SUFFICES ASSUME session # NoSession PROVE CaptureView(session) # NoSession
  BY DEF SessionView
<1>1. IsSession(session) BY DEF TypeOK
<1>2. CaptureView(session) \in
        [anchor : Time, pre : [Modality -> SUBSET Record],
         firedBy : SUBSET Modality]
  BY <1>1 DEF CaptureView, IsSession
<1> QED BY <1>2 DEF NoneIsNoCapture

(* The abstract outbox of no bundle, and of one.                           *)
LEMMA OutboxViews ==
  /\ [i \in 1 .. Len(<<>>) |-> BundleView(<<>>[i])] = <<>>
  /\ \A b : [i \in 1 .. Len(<<b>>) |-> BundleView(<<b>>[i])] = <<BundleView(b)>>
OBVIOUS

(* What the buffer answers about a span it still holds is what was seen. *)
LEMMA SpanKept ==
  ASSUME TypeOK, Buffered, pc \in {"finalize", "evaluate"}, NEW m \in Modality,
         NEW start \in Int, NEW end \in Int,
         watermark # NoTime => watermark - RetentionSec <= start
  PROVE  Span(records[m], start, end) = Span(seen[m], start, end)
<1>1. BufferOK(m) /\ Appended(m) BY DEF Buffered, Appended
<1>2. records[m] \subseteq seen[m] BY <1>1 DEF BufferOK
<1>3. ASSUME NEW r \in seen[m], start <= r.ts PROVE r \in records[m]
  <2>1. r.ts \in Nat BY TimeInNat DEF TypeOK, Record
  <2>2. watermark # NoTime => watermark \in Nat BY TimeInNat DEF TypeOK
  <2>3. ~(watermark # NoTime /\ r.ts < Threshold(watermark))
    BY <1>3, <2>1, <2>2, BufferAssumption DEF Threshold
  <2> QED BY <1>1, <2>3 DEF BufferOK
<1> QED BY <1>2, <1>3 DEF Span

(* At the end of a tick the watermark is where the sources were observed. *)
LEMMA WatermarkBounds ==
  ASSUME TypeOK, Polls, Buffered, pc \in {"finalize", "evaluate"}
  PROVE  /\ watermark \in Nat /\ watermark # NoTime
         /\ watermark <= tickAt + PollSpan
         /\ \A m \in Modality : batches[m].until <= watermark
<1>1. \A m \in Modality : watermark # NoTime /\ batches[m].until <= watermark
  BY DEF Buffered, BufferOK, Polled, Appended
<1>2. \E m : m \in Modality
  <2>1. 1 \in 1 .. Len(Sources) BY RunnerAssumption
  <2> QED BY <2>1, SourceInModality
<1>3. watermark # NoTime BY <1>1, <1>2
<1>4. watermark \in Nat BY <1>3, TimeInNat DEF TypeOK
<1> QED BY <1>1, <1>3, <1>4 DEF Buffered

(* A capture that opens near the observed time, with all that was seen of  *)
(* its first half, opens in Capture.                                       *)
LEMMA OpenIsOpen ==
  ASSUME NoneIsNoCapture, TypeOK, EvaluateAndRegister,
         NEW latency \in LatencyEvidences, OpenSession(Evidences(latency)),
         NEW a \in Time, session'.anchor = a,
         \A m \in Modality : session'.pre[m] = Span(seen[m], WindowStart(a), a),
         detectSince # NoTime => a + PollSpan >= detectSince,
         a <= watermark + PollSpan, watermark <= a + Staleness
  PROVE  Promise!Open(a)
<1>1. IsSession(session') BY OpenType
<1>2. session = NoSession /\ session' # NoSession
  BY <1>1 DEF OpenSession, NoneIsNoCapture
<1>3. session'.firedBy \in (SUBSET Modality) \ {{}} BY <1>1 DEF IsSession
<1>4. session'.pre = Promise!Cut(a - PreSec, a)
  <2>1. session'.pre = [m \in Modality |-> session'.pre[m]]
    BY <1>1 DEF IsSession
  <2> QED BY <2>1 DEF Span, Promise!Cut, WindowStart
<1>5. CaptureView(session') = [anchor |-> a,
                               pre |-> Promise!Cut(a - PreSec, a),
                               firedBy |-> session'.firedBy]
  BY <1>4 DEF CaptureView
<1>6. UNCHANGED <<seen, watermark, detectSince, outbox>>
  BY DEF EvaluateAndRegister, bufferVars
<1> QED BY <1>2, <1>3, <1>5, <1>6 DEF Promise!Open

(* The loop opens a capture on fresh signals, and while all of its first   *)
(* half is buffered.                                                       *)
LEMMA OpensFresh ==
  ASSUME WellSized, NoneIsNoCapture, TypeOK, Polls, Buffered, Quiet,
         EvaluateAndRegister, NEW latency \in LatencyEvidences,
         OpenSession(Evidences(latency))
  PROVE  \E a \in Time : Promise!Open(a)
<1> DEFINE ev == Evidences(latency)
<1>1. PICK e \in ev : session' = NewSession(e.time, ev)
  BY DEF OpenSession
<1>2. session = NoSession /\ pc = "evaluate" /\ session' # NoSession
  BY OpenType DEF OpenSession, EvaluateAndRegister, NoneIsNoCapture
<1>3. e.time \in Time BY EvidenceType DEF Evidence
<1>4. /\ e.modality \in Modality /\ e.time \in Nat
      /\ detectSince # NoTime => detectSince <= e.time + PollSpan
      /\ e.time <= batches[e.modality].until + PollSpan
      /\ tickAt <= e.time + Lateness + Cadence
  BY <1>2, EvidenceTime, FreshEvidence
<1>5. /\ watermark \in Nat /\ watermark # NoTime
      /\ watermark <= tickAt + PollSpan
      /\ batches[e.modality].until <= watermark
      /\ batches[e.modality].until \in Nat
  BY <1>2, <1>4, WatermarkBounds, BatchTimes
<1>6. e.time <= watermark + PollSpan /\ watermark <= e.time + Staleness
  BY <1>4, <1>5, TimesInNat DEF Staleness, Gap
<1>7. \A m \in Modality :
        Span(records[m], WindowStart(e.time), e.time)
          = Span(seen[m], WindowStart(e.time), e.time)
  <2>1. RetentionSec \in Nat /\ PreSec \in Nat /\ Staleness \in Nat
        /\ RetentionSec >= PreSec + Staleness
    BY BufferAssumption, SnapshotAssumption, TimesInNat
       DEF WellSized, Staleness, Gap
  <2>2. watermark - RetentionSec <= WindowStart(e.time)
        /\ WindowStart(e.time) \in Int /\ e.time \in Int
    BY <1>4, <1>5, <1>6, <2>1 DEF WindowStart
  <2> QED BY <1>2, <2>2, SpanKept
<1>8. \A m \in Modality :
        session'.pre[m] = Span(seen[m], WindowStart(e.time), e.time)
  BY <1>1, <1>7 DEF NewSession, SnapshotRecords
<1>9. session'.anchor = e.time BY <1>1 DEF NewSession
<1>10. detectSince # NoTime => e.time + PollSpan >= detectSince
  BY <1>4, SinceIsTime, TimesInNat
<1> QED BY <1>3, <1>6, <1>8, <1>9, <1>10, OpenIsOpen

(* Absorbing a trigger changes who fired, and nothing else.                *)
LEMMA AbsorbIsAbsorb ==
  ASSUME NoneIsNoCapture, TypeOK, EvaluateAndRegister,
         NEW latency \in LatencyEvidences, AbsorbTriggers(Evidences(latency))
  PROVE  Promise!Absorb
<1> DEFINE ev == Evidences(latency)
<1>1. session # NoSession /\ session' = [session EXCEPT !.firedBy = @ \cup Fired(ev)]
  BY DEF AbsorbTriggers
<1>2. Fired(ev) \in SUBSET Modality BY EvidenceType DEF Evidence, Fired
<1>3. IsSession(session) BY <1>1 DEF TypeOK
<1>4. session' # NoSession BY AbsorbType DEF NoneIsNoCapture
<1>5. CaptureView(session')
        = [CaptureView(session) EXCEPT !.firedBy = @ \cup Fired(ev)]
  <2> DEFINE fired == Fired(ev)
  <2> HIDE DEF fired, ev
  <2>1. session' = [session EXCEPT !.firedBy = @ \cup fired] BY <1>1 DEF fired
  <2>2. session'.firedBy = session.firedBy \cup fired
        /\ session'.anchor = session.anchor /\ session'.pre = session.pre
    BY <1>3, <2>1 DEF IsSession
  <2>3. \A a, p, f, g :
          [[anchor |-> a, pre |-> p, firedBy |-> f] EXCEPT !.firedBy = @ \cup g]
            = [anchor |-> a, pre |-> p, firedBy |-> f \cup g]
    OBVIOUS
  <2>4. CaptureView(session')
          = [anchor |-> session.anchor, pre |-> session.pre,
             firedBy |-> session.firedBy \cup fired]
    BY <2>2 DEF CaptureView
  <2> QED BY <2>3, <2>4 DEF fired, CaptureView
<1>6. UNCHANGED <<seen, watermark, detectSince, outbox>>
  BY DEF EvaluateAndRegister, bufferVars
<1>7. SessionView # NoSession BY <1>1, SessionViewNone
<1> HIDE DEF ev
<1> QED
  BY <1>1, <1>2, <1>4, <1>5, <1>6, <1>7 DEF Promise!Absorb, SessionView

(* A capture that closes when its end was observed and all of its second   *)
(* half is buffered closes in Capture.                                     *)
LEMMA CloseIsClose ==
  ASSUME NoneIsNoCapture, TypeOK, Finalize, outbox = <<>>,
         session # NoSession, session' = NoSession,
         watermark >= WindowEnd(session.anchor),
         \A m \in Modality :
           Span(records[m], session.anchor, WindowEnd(session.anchor))
             = Span(seen[m], session.anchor, WindowEnd(session.anchor))
  PROVE  Promise!Close
<1>1. PICK t : /\ outbox' = Bundles(t)
               /\ FinalizeReady(t)
               /\ detectSince' = IF Ready(t) THEN WindowEnd(session.anchor)
                                             ELSE detectSince
  BY DEF Finalize
<1>2. Ready(t) BY <1>1 DEF FinalizeReady
<1>3. UNCHANGED <<seen, watermark>> BY DEF Finalize, bufferVars
<1>4. watermark >= session.anchor + PostSec BY DEF WindowEnd
<1> DEFINE post == Promise!Cut(session.anchor, session.anchor + PostSec)
           both == [m \in Modality |-> session.pre[m] \cup post[m]]
<1>5. Assemble(session).records = both
  BY DEF Assemble, SnapshotRecords, Span, WindowEnd, Promise!Cut
<1>6. Assemble(session).anchor = session.anchor
      /\ Assemble(session).firedBy = session.firedBy
  BY DEF Assemble
<1> HIDE DEF both, post
<1>7. BundleView(Assemble(session))
         = [anchor |-> session.anchor, records |-> both,
            firedBy |-> session.firedBy]
  BY <1>5, <1>6 DEF BundleView
<1>8. outbox' = <<Assemble(session)>> BY <1>1, <1>2 DEF Bundles
<1>9. OutboxView' = <<BundleView(Assemble(session))>>
  BY <1>8, OutboxViews DEF OutboxView
<1>10. OutboxView = <<>> BY OutboxViews DEF OutboxView
<1>11. detectSince' = session.anchor + PostSec
  BY <1>1, <1>2 DEF WindowEnd
<1>12. /\ SessionView # NoSession /\ SessionView.anchor = session.anchor
       /\ SessionView.pre = session.pre
       /\ SessionView.firedBy = session.firedBy
  BY SessionViewNone DEF SessionView, CaptureView
<1>13. SessionView' = NoSession BY DEF SessionView
<1>14. both = [m \in Modality |-> SessionView.pre[m] \cup post[m]]
  BY <1>12 DEF both
<1> QED
  BY <1>3, <1>4, <1>7, <1>9, <1>10, <1>11, <1>12, <1>13, <1>14
     DEF Promise!Close, SessionView, OutboxView, post

(* The loop closes a capture when that is so.                              *)
LEMMA ClosesWhole ==
  ASSUME NoneIsNoCapture, TypeOK, Polls, Buffered, PostStillBuffered, Outgoing,
         Finalize, session # NoSession, session' = NoSession
  PROVE  Promise!Close
<1>1. PICK t \in {batches[m].until : m \in Modality} : FinalizeReady(t)
  BY DEF Finalize
<1>2. Ready(t) BY <1>1 DEF FinalizeReady
<1>3. pc = "finalize" /\ outbox = <<>> BY DEF Finalize, Outgoing
<1>4. session.anchor \in Nat /\ PostSec \in Nat
  BY TimeInNat, SnapshotAssumption DEF TypeOK, IsSession
<1>5. watermark \in Nat /\ t \in Nat /\ t <= watermark
  BY <1>3, WatermarkBounds, BatchTimes
<1>6. watermark >= WindowEnd(session.anchor) /\ Ready(watermark)
  BY <1>2, <1>4, <1>5 DEF Ready, WindowEnd
<1>7. ASSUME NEW m \in Modality
      PROVE  Span(records[m], session.anchor, WindowEnd(session.anchor))
               = Span(seen[m], session.anchor, WindowEnd(session.anchor))
  <2>1. records[m] \subseteq seen[m] BY DEF Buffered, BufferOK
  <2>2. Span(seen[m], session.anchor, WindowEnd(session.anchor))
          \subseteq records[m]
    BY <1>3, <1>6 DEF PostStillBuffered
  <2> QED BY <2>1, <2>2 DEF Span
<1> QED BY <1>3, <1>5, <1>6, <1>7, CloseIsClose

(* Reading and appending observe; a bundle that was sent has left; and     *)
(* what moves none of these variables is no step of Capture.               *)
LEMMA ReadIsObserve ==
  ASSUME TypeOK, TypeOK', PollRead
  PROVE  Promise!Observe
<1>1. UNCHANGED <<watermark, session, detectSince, outbox>>
  BY DEF PollRead, bufferVars
<1>2. \A m \in Modality : seen[m] \subseteq seen'[m]
  BY SourceInModality DEF PollRead, TypeOK
<1>3. DOMAIN seen' = Modality BY DEF TypeOK
<1>4. watermark # NoTime => watermark' >= watermark
  BY <1>1, TimeInNat DEF TypeOK
<1> QED BY <1>1, <1>2, <1>3, <1>4 DEF Promise!Observe

LEMMA AppendIsObserve ==
  ASSUME TypeOK, Append1, watermark' # NoTime,
         watermark # NoTime => watermark' >= watermark
  PROVE  Promise!Observe
<1>1. UNCHANGED <<seen, session, detectSince, outbox>> /\ DOMAIN seen = Modality
  BY DEF Append1, TypeOK
<1> QED BY <1>1 DEF Promise!Observe

LEMMA SendIsEmit ==
  ASSUME TypeOK, Send
  PROVE  Promise!Emit
<1>1. PICK b : outbox = <<b>> BY DEF Send, TypeOK
<1>2. outbox' = <<>> BY <1>1 DEF Send
<1>3. OutboxView = <<BundleView(b)>> BY <1>1, OutboxViews DEF OutboxView
<1>4. OutboxView' = <<>> BY <1>2, OutboxViews DEF OutboxView
<1>5. OutboxView # <<>> /\ OutboxView' = Tail(OutboxView) BY <1>3, <1>4
<1>6. UNCHANGED <<seen, watermark, session, detectSince>>
  BY DEF Send, bufferVars
<1> QED BY <1>5, <1>6 DEF Promise!Emit, OutboxView

LEMMA IdleIsNoStep ==
  ASSUME UNCHANGED <<seen, watermark, session, detectSince, outbox>>
  PROVE  UNCHANGED Promise!vars
BY DEF Promise!vars

LEMMA InitIsInit == Init => Promise!Init
<1> SUFFICES ASSUME Init PROVE Promise!Init OBVIOUS
<1>1. OutboxView = <<>> BY OutboxViews DEF Init, OutboxView
<1> QED BY <1>1 DEF Init, BufferInit, SnapshotInit, Promise!Init, OutboxView

(* Every step of the loop is a step of Capture or none: what the buffer    *)
(* evicts is never missed by a capture, triggers during a capture change   *)
(* nothing but the list of who fired, and every bundle leaves once.        *)
THEOREM Implements ==
  ASSUME WellSized, NoneIsNoCapture
  PROVE  Spec => ImplementsCapture
<1>1. Init => Promise!Init BY InitIsInit
<1>2. TypeOK /\ TypeOK' /\ Polls /\ Buffered /\ Quiet /\ PostStillBuffered
      /\ Outgoing /\ [Next]_vars => [Promise!Next]_Promise!vars
  <2> SUFFICES ASSUME TypeOK, TypeOK', Polls, Buffered, Quiet,
                      PostStillBuffered, Outgoing, [Next]_vars
               PROVE  Promise!Next \/ UNCHANGED Promise!vars
    OBVIOUS
  <2>1. CASE PollRead BY <2>1, ReadIsObserve DEF Promise!Next
  <2>2. CASE Append1
    <3>1. watermark # NoTime => watermark \in Nat BY TimeInNat DEF TypeOK
    <3>2. /\ watermark' \in Nat /\ watermark' # NoTime
          /\ watermark # NoTime => watermark <= watermark'
      BY <2>2, WatermarkMoves
    <3>3. watermark # NoTime => watermark' >= watermark BY <3>1, <3>2
    <3> QED BY <2>2, <3>2, <3>3, AppendIsObserve DEF Promise!Next
  <2>3. CASE Finalize
    <3>1. PICK t : /\ outbox' = Bundles(t)
                   /\ FinalizeReady(t)
                   /\ detectSince' = IF Ready(t) THEN WindowEnd(session.anchor)
                                                 ELSE detectSince
      BY <2>3 DEF Finalize
    <3>2. CASE Ready(t)
      <4>1. session # NoSession /\ session' = NoSession
        BY <3>1, <3>2 DEF Ready, FinalizeReady
      <4> QED BY <2>3, <4>1, ClosesWhole DEF Promise!Next
    <3>3. CASE ~Ready(t)
      <4>1. outbox = <<>> BY <2>3 DEF Finalize, Outgoing
      <4>2. UNCHANGED <<seen, watermark, session, detectSince, outbox>>
        BY <2>3, <3>1, <3>3, <4>1 DEF Finalize, FinalizeReady, Bundles, bufferVars
      <4> QED BY <4>2, IdleIsNoStep
    <3> QED BY <3>2, <3>3
  <2>4. CASE EvaluateAndRegister
    <3>1. PICK latency \in LatencyEvidences :
             RegisterTriggers(Evidences(latency))
      BY <2>4 DEF EvaluateAndRegister
    <3>2. CASE UNCHANGED session
      <4>1. UNCHANGED <<seen, watermark, session, detectSince, outbox>>
        BY <2>4, <3>2 DEF EvaluateAndRegister, bufferVars
      <4> QED BY <4>1, IdleIsNoStep
    <3>3. CASE OpenSession(Evidences(latency))
      BY <2>4, <3>3, OpensFresh DEF Promise!Next
    <3>4. CASE AbsorbTriggers(Evidences(latency))
      BY <2>4, <3>4, AbsorbIsAbsorb DEF Promise!Next
    <3> QED BY <3>1, <3>2, <3>3, <3>4 DEF RegisterTriggers
  <2>5. CASE Send BY <2>5, SendIsEmit DEF Promise!Next
  <2>6. CASE ~PollRead /\ ~Append1 /\ ~Finalize /\ ~EvaluateAndRegister /\ ~Send
    <3>1. UNCHANGED <<seen, watermark, session, detectSince, outbox>>
      BY <2>6 DEF Next, Tick, Horizon, Write, ClockAdvances, PollBegin, Sleep,
                  Wake, vars, loopVars, bufferVars
    <3> QED BY <3>1, IdleIsNoStep
  <2> QED BY <2>1, <2>2, <2>3, <2>4, <2>5, <2>6
<1>3. ~IsSession(NoSession) BY DEF NoneIsNoCapture
<1> QED
  BY <1>1, <1>2, <1>3, TypeCorrect, PollsCorrect, BufferCorrect, AnchorFresh,
     PostKept, OutgoingCorrect, PTL DEF Spec, ImplementsCapture, Promise!Spec

-----------------------------------------------------------------------------
(* What a bundle carries, against what the services wrote. *)

(* The first half of the capture in progress is complete, nothing written  *)
(* from now on belongs to it, nor to the window of a bundle being sent.    *)
Halves ==
  /\ session # NoSession =>
       /\ session.anchor <= now
       /\ \A m \in Modality :
            session.pre[m] = Span(seen[m] \cup unread[m],
                                  WindowStart(session.anchor), session.anchor)
  /\ outbox # <<>> => WindowEnd(outbox[1].anchor) <= now

(* At most one bundle is on its way. *)
LEMMA OneBundle ==
  ASSUME TypeOK
  PROVE  \/ outbox = <<>> /\ Len(outbox) = 0
         \/ outbox # <<>> /\ Len(outbox) = 1 /\ IsBundle(outbox[1])
<1>1. CASE outbox = <<>> BY <1>1
<1>2. CASE outbox = <<outbox[1]>> /\ IsBundle(outbox[1])
  <2>1. \A b : Len(<<b>>) = 1 /\ <<b>> # <<>> OBVIOUS
  <2> QED BY <1>2, <2>1
<1> QED BY <1>1, <1>2 DEF TypeOK

(* With sources polled at one instant, the tick, its batches and the       *)
(* watermark have the same time.                                           *)
LEMMA OneInstant ==
  ASSUME PollSpan = 0, TypeOK, Clock, Polls, Buffered,
         pc \in {"finalize", "evaluate"}
  PROVE  /\ now = tickAt /\ watermark = tickAt /\ tickAt \in Nat
         /\ \A m \in Modality : batches[m].until = tickAt /\ lastPoll[m] = tickAt
<1>1. now = tickAt /\ tickAt \in Nat BY TimesInNat DEF Clock
<1>2. \A m \in Modality : batches[m].until = tickAt /\ lastPoll[m] = tickAt
  <2> SUFFICES ASSUME NEW m \in Modality
               PROVE  batches[m].until = tickAt /\ lastPoll[m] = tickAt
    OBVIOUS
  <2>1. PollOK(m) /\ Polled(m) BY DEF Polls, Polled
  <2>2. batches[m].until = lastPoll[m] BY <2>1 DEF PollOK
  <2> QED BY <1>1, <2>2, BatchTimes
<1>3. \E m : m \in Modality
  <2>1. 1 \in 1 .. Len(Sources) BY RunnerAssumption
  <2> QED BY <2>1, SourceInModality
<1>4. watermark = tickAt BY <1>1, <1>2, <1>3, WatermarkBounds
<1> QED BY <1>1, <1>2, <1>4

(* What is still unread at that moment is not older. *)
LEMMA UnreadYoung ==
  ASSUME Lateness = 0, TypeOK, Polls, NEW m \in Modality, NEW r \in unread[m]
  PROVE  r.ts \in Nat /\ lastPoll[m] <= r.ts
<1>1. r.ts \in Nat BY TimeInNat DEF TypeOK, Record
<1>2. lastPoll[m] <= r.ts + Lateness BY DEF Polls, PollOK
<1> QED BY <1>1, <1>2, TimesInNat

(* Reading moves lines, writing adds younger ones: neither changes a span  *)
(* that is over.                                                           *)
LEMMA SpanSteady ==
  ASSUME Lateness = 0, TypeOK, [Next]_vars, NEW m \in Modality,
         NEW start \in Int, NEW end \in Int, end <= now
  PROVE  Span(seen'[m] \cup unread'[m], start, end)
           = Span(seen[m] \cup unread[m], start, end)
<1>1. ASSUME NEW n \in Modality, NEW r \in Record, Write(n, r)
      PROVE  Span(seen'[m] \cup unread'[m], start, end)
               = Span(seen[m] \cup unread[m], start, end)
  <2>1. r.ts \in Nat BY TimeInNat DEF Record
  <2>2. ~(r.ts < end) BY <1>1, <2>1, TimesInNat DEF Write
  <2>3. seen' = seen /\ (unread'[m] = unread[m] \/ unread'[m] = unread[m] \cup {r})
    BY <1>1 DEF Write, TypeOK
  <2> QED BY <2>2, <2>3 DEF Span
<1>2. CASE PollRead
  <2>1. Source \in Modality BY SourceInModality DEF Source, TypeOK
  <2>2. seen'[m] \cup unread'[m] = seen[m] \cup unread[m]
    BY <1>2, <2>1 DEF PollRead, TypeOK
  <2> QED BY <2>2
<1>3. CASE seen' = seen /\ unread' = unread BY <1>3
<1> QED
  BY <1>1, <1>2, <1>3
     DEF Next, Tick, Horizon, ClockAdvances, PollBegin, Append1, Finalize,
         EvaluateAndRegister, Send, Sleep, Wake, vars, fileVars

(* The clock never goes back. *)
LEMMA ClockForward ==
  ASSUME TypeOK, [Next]_vars
  PROVE  now' \in Nat /\ now <= now'
BY TimesInNat
   DEF Next, Tick, Horizon, Write, ClockAdvances, PollBegin, PollRead, Append1,
       Finalize, EvaluateAndRegister, Send, Sleep, Wake, vars, fileVars

(* The halves of a capture, when it opens. *)
LEMMA HalvesWhenOpened ==
  ASSUME WellSized, NoneIsNoCapture, PollSpan = 0, Lateness = 0,
         TypeOK, Clock, Polls, Buffered, Quiet,
         EvaluateAndRegister, NEW latency \in LatencyEvidences,
         OpenSession(Evidences(latency))
  PROVE  /\ session'.anchor <= now
         /\ \A m \in Modality :
              session'.pre[m] = Span(seen[m] \cup unread[m],
                                     WindowStart(session'.anchor), session'.anchor)
<1> DEFINE ev == Evidences(latency)
<1>1. PICK e \in ev : session' = NewSession(e.time, ev)
  BY DEF OpenSession
<1>2. session = NoSession /\ pc = "evaluate"
  BY DEF OpenSession, EvaluateAndRegister
<1>3. /\ e.modality \in Modality /\ e.time \in Nat
      /\ e.time <= batches[e.modality].until
      /\ tickAt <= e.time + Cadence
  BY <1>2, EvidenceTime, FreshEvidence, BatchTimes, TimesInNat
<1>4. /\ now = tickAt /\ watermark = tickAt /\ tickAt \in Nat
      /\ \A m \in Modality : batches[m].until = tickAt /\ lastPoll[m] = tickAt
  BY <1>2, OneInstant
<1>5. session'.anchor = e.time
      /\ session'.pre = SnapshotRecords(WindowStart(e.time), e.time)
  BY <1>1 DEF NewSession
<1>6. e.time <= now BY <1>3, <1>4
<1>7. ASSUME NEW m \in Modality
      PROVE  session'.pre[m]
               = Span(seen[m] \cup unread[m], WindowStart(e.time), e.time)
  <2>1. RetentionSec \in Nat /\ PreSec \in Nat /\ Staleness \in Nat
        /\ RetentionSec >= PreSec + Staleness /\ Cadence <= Staleness
    BY BufferAssumption, SnapshotAssumption, TimesInNat
       DEF WellSized, Staleness, Gap
  <2>2. watermark - RetentionSec <= WindowStart(e.time)
        /\ WindowStart(e.time) \in Int /\ e.time \in Int
    BY <1>3, <1>4, <2>1, TimesInNat DEF WindowStart
  <2>3. Span(records[m], WindowStart(e.time), e.time)
          = Span(seen[m], WindowStart(e.time), e.time)
    BY <1>2, <2>2, SpanKept
  <2>4. \A r \in unread[m] : ~(r.ts < e.time)
    BY <1>3, <1>4, <1>6, UnreadYoung
  <2>5. session'.pre[m] = Span(records[m], WindowStart(e.time), e.time)
    BY <1>5 DEF SnapshotRecords
  <2> QED BY <2>3, <2>4, <2>5 DEF Span
<1> QED BY <1>5, <1>6, <1>7

(* The bundle, when its capture closes. *)
LEMMA BundleWhenClosed ==
  ASSUME PollSpan = 0, Lateness = 0, TypeOK, Clock, Polls, Buffered,
         PostStillBuffered, Halves, pc = "finalize", NEW t, Ready(t),
         t \in {batches[m].until : m \in Modality}
  PROVE  /\ WindowEnd(session.anchor) <= now
         /\ \A m \in Modality :
              Assemble(session).records[m]
                = Span(seen[m] \cup unread[m], WindowStart(session.anchor),
                       WindowEnd(session.anchor))
<1>1. /\ now = tickAt /\ watermark = tickAt /\ tickAt \in Nat /\ t = tickAt
      /\ \A m \in Modality : lastPoll[m] = tickAt
  BY OneInstant
<1>2. session # NoSession /\ session.anchor \in Nat /\ PostSec \in Nat
      /\ PreSec \in Nat
  BY TimeInNat, SnapshotAssumption DEF Ready, TypeOK, IsSession
<1>3. WindowEnd(session.anchor) <= now /\ Ready(watermark)
  BY <1>1 DEF Ready
<1> DEFINE a == session.anchor
<1>4. ASSUME NEW m \in Modality
      PROVE  Assemble(session).records[m]
               = Span(seen[m] \cup unread[m], WindowStart(a), WindowEnd(a))
  <2>1. Assemble(session).records[m]
          = session.pre[m] \cup Span(records[m], a, WindowEnd(a))
    BY DEF Assemble, SnapshotRecords
  <2>2. session.pre[m] = Span(seen[m] \cup unread[m], WindowStart(a), a)
    BY <1>2 DEF Halves
  <2>3. Span(records[m], a, WindowEnd(a)) = Span(seen[m], a, WindowEnd(a))
    <3>1. records[m] \subseteq seen[m] BY DEF Buffered, BufferOK
    <3>2. Span(seen[m], a, WindowEnd(a)) \subseteq records[m]
      BY <1>3 DEF PostStillBuffered
    <3> QED BY <3>1, <3>2 DEF Span
  <2>4. \A r \in unread[m] : ~(r.ts < WindowEnd(a))
    BY <1>1, <1>2, <1>3, UnreadYoung DEF WindowEnd
  <2>5. \A r \in seen[m] \cup unread[m] : r.ts \in Nat
    BY TimeInNat DEF TypeOK, Record
  <2>6. WindowStart(a) <= a /\ a <= WindowEnd(a)
        /\ WindowStart(a) \in Int /\ a \in Int /\ WindowEnd(a) \in Int
    BY <1>2 DEF WindowStart, WindowEnd
  <2> HIDE DEF a
  <2>7. \A r \in seen[m] \cup unread[m] :
          (WindowStart(a) <= r.ts /\ r.ts < WindowEnd(a))
            <=> \/ WindowStart(a) <= r.ts /\ r.ts < a
                \/ a <= r.ts /\ r.ts < WindowEnd(a)
    BY <2>5, <2>6
  <2> QED BY <2>1, <2>2, <2>3, <2>4, <2>7 DEF Span
<1> QED BY <1>3, <1>4

(* With settings of sufficient size, sources polled at one instant and no  *)
(* late lines, a bundle carries what the services wrote of its window,     *)
(* all of it and nothing else (assembler.py:81, 103, memory_buffer.py:44): *)
(* the capture copies its halves minutes apart out of a buffer that keeps  *)
(* forgetting, while services write and sends take their time.             *)
THEOREM BundleExactCorrect ==
  ASSUME WellSized, NoneIsNoCapture, PollSpan = 0, Lateness = 0
  PROVE  Spec => []BundleExact
<1>1. Init => Halves /\ BundleExact
  <2> SUFFICES ASSUME Init PROVE Halves /\ BundleExact OBVIOUS
  <2>1. outbox = <<>> /\ Len(outbox) = 0 /\ session = NoSession
    BY DEF Init, SnapshotInit
  <2> QED BY <2>1 DEF Halves, BundleExact
<1>2. TypeOK /\ TypeOK' /\ Clock /\ Polls /\ Buffered /\ Quiet
      /\ PostStillBuffered /\ Outgoing /\ Halves /\ BundleExact /\ [Next]_vars
        => Halves' /\ BundleExact'
  <2> SUFFICES ASSUME TypeOK, TypeOK', Clock, Polls, Buffered, Quiet,
                      PostStillBuffered, Outgoing, Halves, BundleExact,
                      [Next]_vars
               PROVE  Halves' /\ BundleExact'
    OBVIOUS
  <2>a. now \in Nat /\ now' \in Nat /\ now <= now' BY TimesInNat, ClockForward
  <2>b. PreSec \in Nat /\ PostSec \in Nat BY SnapshotAssumption
  <2>c. ASSUME session # NoSession, session'.anchor = session.anchor,
               session'.pre = session.pre
        PROVE  /\ session'.anchor <= now'
               /\ \A m \in Modality :
                    session'.pre[m]
                      = Span(seen'[m] \cup unread'[m],
                             WindowStart(session'.anchor), session'.anchor)
    <3>1. session.anchor \in Nat BY <2>c, TimeInNat DEF TypeOK, IsSession
    <3>2. session.anchor <= now BY <2>c DEF Halves
    <3>3. WindowStart(session.anchor) \in Int /\ session.anchor \in Int
      BY <2>b, <3>1 DEF WindowStart
    <3> DEFINE a == session.anchor
    <3> HIDE DEF a
    <3>4. \A m \in Modality :
            Span(seen'[m] \cup unread'[m], WindowStart(a), a)
              = Span(seen[m] \cup unread[m], WindowStart(a), a)
      BY <3>2, <3>3, SpanSteady DEF a
    <3>5. ASSUME NEW m \in Modality
          PROVE  session'.pre[m] = Span(seen'[m] \cup unread'[m],
                                        WindowStart(session'.anchor),
                                        session'.anchor)
      <4>1. session.pre[m] = Span(seen[m] \cup unread[m], WindowStart(a), a)
        BY <2>c DEF Halves, a
      <4>2. session'.pre[m] = Span(seen'[m] \cup unread'[m], WindowStart(a), a)
        BY <2>c, <3>4, <4>1
      <4>3. session'.anchor = a BY <2>c DEF a
      <4> QED BY <4>2, <4>3, Zenon
    <3> QED BY <2>a, <2>c, <3>1, <3>2, <3>5
  <2>d. ASSUME outbox' = outbox
        PROVE  BundleExact' /\ (outbox' # <<>> => WindowEnd(outbox'[1].anchor) <= now')
    <3>1. CASE outbox = <<>>
      <4>1. Len(outbox') = 0 BY <2>d, <3>1
      <4> QED BY <2>d, <3>1, <4>1 DEF BundleExact
    <3>2. CASE outbox # <<>>
      <4>1. Len(outbox) = 1 /\ IsBundle(outbox[1]) BY <3>2, OneBundle
      <4>2. outbox[1].anchor \in Nat BY <4>1, TimeInNat DEF IsBundle
      <4>3. WindowEnd(outbox[1].anchor) <= now BY <3>2 DEF Halves
      <4>4. WindowStart(outbox[1].anchor) \in Int
            /\ WindowEnd(outbox[1].anchor) \in Int
        BY <2>b, <4>2 DEF WindowStart, WindowEnd
      <4>5. 1 \in 1 .. Len(outbox) BY <4>1
      <4>6. \A i \in 1 .. Len(outbox') : i = 1 BY <2>d, <4>1
      <4> DEFINE b == outbox[1]
      <4> HIDE DEF b
      <4>7. \A m \in Modality :
              Span(seen'[m] \cup unread'[m], WindowStart(b.anchor),
                   WindowEnd(b.anchor))
                = Span(seen[m] \cup unread[m], WindowStart(b.anchor),
                       WindowEnd(b.anchor))
        BY <4>3, <4>4, SpanSteady DEF b
      <4>8. outbox'[1] = b /\ outbox[1] = b BY <2>d DEF b
      <4>9. ASSUME NEW i \in 1 .. Len(outbox'), NEW m \in Modality
            PROVE  outbox'[i].records[m]
                     = Span(seen'[m] \cup unread'[m],
                            WindowStart(outbox'[i].anchor),
                            WindowEnd(outbox'[i].anchor))
        <5>1. b.records[m] = Span(seen[m] \cup unread[m],
                                  WindowStart(b.anchor), WindowEnd(b.anchor))
          BY <4>5, <4>8, Zenon DEF BundleExact
        <5>2. b.records[m] = Span(seen'[m] \cup unread'[m],
                                  WindowStart(b.anchor), WindowEnd(b.anchor))
          BY <4>7, <5>1
        <5>3. outbox'[i] = b BY <4>6, <4>8
        <5> QED BY <5>2, <5>3, Zenon
      <4>10. BundleExact' BY <4>9, Zenon DEF BundleExact
      <4> QED BY <2>a, <2>d, <4>2, <4>3, <4>4, <4>8, <4>10
    <3> QED BY <3>1, <3>2
  <2>1. CASE Finalize
    <3>1. PICK t \in {batches[m].until : m \in Modality} :
             outbox' = Bundles(t) /\ FinalizeReady(t)
      BY <2>1 DEF Finalize
    <3>2. pc = "finalize" /\ now' = now /\ seen' = seen /\ unread' = unread
          /\ outbox = <<>>
      BY <2>1 DEF Finalize, fileVars, Outgoing
    <3>3. CASE ~Ready(t)
      <4>1. outbox' = outbox /\ session' = session
        BY <3>1, <3>2, <3>3 DEF Bundles, FinalizeReady
      <4> QED BY <2>c, <2>d, <4>1 DEF Halves
    <3>4. CASE Ready(t)
      <4>1. outbox' = <<Assemble(session)>> /\ session' = NoSession
        BY <3>1, <3>4 DEF Bundles, FinalizeReady
      <4>2. Len(outbox') = 1 /\ outbox'[1] = Assemble(session) BY <4>1
      <4>3. Assemble(session).anchor = session.anchor BY DEF Assemble
      <4>4. \A i \in 1 .. Len(outbox') : i = 1 BY <4>2
      <4>5. /\ WindowEnd(session.anchor) <= now
            /\ \A m \in Modality :
                 Assemble(session).records[m]
                   = Span(seen[m] \cup unread[m], WindowStart(session.anchor),
                          WindowEnd(session.anchor))
        BY <3>2, <3>4, BundleWhenClosed
      <4>6. BundleExact' BY <3>2, <4>2, <4>3, <4>4, <4>5 DEF BundleExact
      <4> QED BY <3>2, <4>1, <4>2, <4>3, <4>5, <4>6 DEF Halves
    <3> QED BY <3>3, <3>4
  <2>2. CASE EvaluateAndRegister
    <3>1. outbox' = outbox /\ now' = now /\ seen' = seen /\ unread' = unread
      BY <2>2 DEF EvaluateAndRegister, fileVars
    <3>2. PICK latency \in LatencyEvidences :
             RegisterTriggers(Evidences(latency))
      BY <2>2 DEF EvaluateAndRegister
    <3>3. CASE session # NoSession
      <4>1. session'.anchor = session.anchor /\ session'.pre = session.pre
        BY <2>2, <3>3, AbsorbKeepsAnchor
      <4> QED BY <2>c, <2>d, <3>1, <3>3, <4>1 DEF Halves
    <3>4. CASE session = NoSession /\ session' = NoSession
      BY <2>d, <3>1, <3>4 DEF Halves
    <3>5. CASE session = NoSession /\ session' # NoSession
      <4>1. OpenSession(Evidences(latency))
        BY <3>2, <3>5 DEF RegisterTriggers, AbsorbTriggers
      <4> QED BY <2>2, <2>d, <3>1, <4>1, HalvesWhenOpened DEF Halves
    <3> QED BY <3>3, <3>4, <3>5
  <2>3. CASE Send
    <3>1. outbox' = <<>> /\ session' = session
      <4>1. PICK b : outbox = <<b>> BY <2>3 DEF Send, TypeOK
      <4> QED BY <2>3, <4>1 DEF Send
    <3>2. Len(outbox') = 0 BY <3>1
    <3> QED BY <2>c, <3>1, <3>2 DEF Halves, BundleExact
  <2>4. CASE ~Finalize /\ ~EvaluateAndRegister /\ ~Send
    <3>1. outbox' = outbox /\ session' = session
      BY <2>4 DEF Next, Tick, Horizon, Write, ClockAdvances, PollBegin,
                  PollRead, Append1, Sleep, Wake, vars, loopVars
    <3> QED BY <2>c, <2>d, <3>1 DEF Halves
  <2> QED BY <2>1, <2>2, <2>3, <2>4
<1>3. ~IsSession(NoSession) BY DEF NoneIsNoCapture
<1> QED
  BY <1>1, <1>2, <1>3, TypeCorrect, ClockCorrect, PollsCorrect, BufferCorrect,
     AnchorFresh, PostKept, OutgoingCorrect, PTL DEF Spec

-----------------------------------------------------------------------------
(* What a capture opens on. *)

(* Whatever a bundle has carried, or the capture in progress copied when   *)
(* it opened, is older than the lower bound of the detectors or the anchor.*)
ShippedOld ==
  /\ \A m \in Modality : \A r \in shipped[m] :
       detectSince # NoTime /\ r.ts < detectSince
  /\ session # NoSession =>
       \A m \in Modality : \A r \in session.pre[m] : r.ts < session.anchor

(* Nothing that left in a bundle is younger than the end of the last       *)
(* bundle's window, which runner.py:87 hands to the detectors: the lower   *)
(* bound never moves back over a shipped record.                           *)
THEOREM ShippedIsOld ==
  ASSUME PostSec >= PollSpan
  PROVE  Spec => []ShippedOld
<1>1. Init => ShippedOld
  BY DEF Init, SnapshotInit, ShippedOld
<1>2. TypeOK /\ AnchorNearWindow /\ ShippedOld /\ [Next]_vars => ShippedOld'
  <2> SUFFICES ASSUME TypeOK, AnchorNearWindow, ShippedOld, [Next]_vars
               PROVE  ShippedOld'
    OBVIOUS
  <2>1. CASE Finalize
    <3>1. PICK t : /\ FinalizeReady(t)
                   /\ detectSince' = IF Ready(t) THEN WindowEnd(session.anchor)
                                                 ELSE detectSince
                   /\ shipped' = IF Ready(t)
                        THEN [m \in Modality |->
                                shipped[m] \cup Assemble(session).records[m]]
                        ELSE shipped
      BY <2>1 DEF Finalize
    <3>2. CASE ~Ready(t)
      <4>1. session' = session /\ detectSince' = detectSince /\ shipped' = shipped
        BY <3>1, <3>2 DEF FinalizeReady
      <4> QED BY <4>1 DEF ShippedOld
    <3>3. CASE Ready(t)
      <4> DEFINE a == session.anchor
      <4>1. session # NoSession /\ session' = NoSession
            /\ detectSince' = a + PostSec
        BY <3>1, <3>3 DEF Ready, FinalizeReady, WindowEnd
      <4>2. a \in Nat /\ PostSec \in Nat /\ PollSpan \in Nat
            /\ session.pre \in [Modality -> SUBSET Record]
        BY <4>1, TimeInNat, SnapshotAssumption, RunnerAssumption
           DEF TypeOK, IsSession
      <4>3. detectSince' # NoTime
        BY <4>1, <4>2, BufferAssumption
      <4>4. detectSince # NoTime => detectSince \in Nat /\ detectSince <= a + PostSec
        BY <4>1, <4>2, SinceIsTime DEF AnchorNearWindow
      <4>5. ASSUME NEW m \in Modality, NEW r \in shipped'[m]
            PROVE  r.ts < a + PostSec
        <5>1. /\ shipped[m] \subseteq Record /\ session.pre[m] \subseteq Record
              /\ records[m] \subseteq Record
          BY <4>2 DEF TypeOK
        <5>2. \/ r \in shipped[m] \/ r \in session.pre[m]
              \/ r \in Span(records[m], a, a + PostSec)
          BY <3>1, <3>3 DEF Assemble, SnapshotRecords, WindowEnd
        <5>3. r \in Record BY <5>1, <5>2 DEF Span
        <5>4. r.ts \in Nat BY <5>3, TimeInNat DEF Record
        <5>5. CASE r \in shipped[m]
          BY <4>2, <4>4, <5>4, <5>5 DEF ShippedOld
        <5>6. CASE r \in session.pre[m]
          BY <4>1, <4>2, <5>4, <5>6 DEF ShippedOld
        <5>7. CASE r \in Span(records[m], a, a + PostSec)
          BY <5>7 DEF Span
        <5> QED BY <5>2, <5>5, <5>6, <5>7
      <4> QED BY <4>1, <4>3, <4>5 DEF ShippedOld
    <3> QED BY <3>2, <3>3
  <2>2. CASE EvaluateAndRegister
    <3>1. shipped' = shipped /\ detectSince' = detectSince
      BY <2>2 DEF EvaluateAndRegister
    <3>2. CASE session # NoSession
      <4>1. session'.anchor = session.anchor /\ session'.pre = session.pre
        BY <2>2, <3>2, AbsorbKeepsAnchor
      <4> QED BY <3>1, <3>2, <4>1 DEF ShippedOld
    <3>3. CASE session' = NoSession
      BY <3>1, <3>3 DEF ShippedOld
    <3>4. CASE session = NoSession /\ session' # NoSession
      <4>1. PICK latency \in LatencyEvidences :
               \E e \in Evidences(latency) :
                  session' = NewSession(e.time, Evidences(latency))
        BY <2>2, <3>4, OpensAtEvidence
      <4>2. PICK e \in Evidences(latency) :
               session' = NewSession(e.time, Evidences(latency))
        BY <4>1
      <4>3. session'.anchor = e.time
            /\ \A m \in Modality :
                 session'.pre[m] = Span(records[m], WindowStart(e.time), e.time)
        BY <4>2 DEF NewSession, SnapshotRecords
      <4> QED BY <3>1, <4>3 DEF ShippedOld, Span
    <3> QED BY <3>2, <3>3, <3>4
  <2>3. CASE ~Finalize /\ ~EvaluateAndRegister
    <3>1. shipped' = shipped /\ detectSince' = detectSince /\ session' = session
      BY <2>3 DEF Next, Tick, Horizon, Write, ClockAdvances, PollBegin,
                  PollRead, Append1, Send, Sleep, Wake, vars, loopVars
    <3> QED BY <3>1 DEF ShippedOld
  <2> QED BY <2>1, <2>2, <2>3
<1> QED BY <1>1, <1>2, TypeCorrect, AnchorNear, PTL DEF Spec

(* Signals read and not older than the lower bound have not been shipped.  *)
LEMMA FreshIsUnshipped ==
  ASSUME TypeOK, ShippedOld, NEW d \in Detectors,
         NEW S \in SUBSET seen[ModalityOf(d)],
         \A r \in S : r.kind = d /\ (detectSince = NoTime \/ detectSince <= r.ts)
  PROVE  /\ S \subseteq Unshipped(d)
         /\ Cardinality(S) \in Nat /\ Cardinality(Unshipped(d)) \in Nat
         /\ Cardinality(S) <= Cardinality(Unshipped(d))
<1>1. ModalityOf(d) \in Modality BY ModalityOfDetector
<1>2. seen[ModalityOf(d)] \in SUBSET Record BY <1>1 DEF TypeOK
<1>3. ASSUME NEW r \in S PROVE r \in Unshipped(d)
  <2>1. r.ts \in Nat BY <1>2, TimeInNat DEF Record
  <2>2. r \notin shipped[ModalityOf(d)]
    BY <1>1, <1>3, <2>1, SinceIsTime DEF ShippedOld
  <2> QED BY <1>3, <2>2 DEF Unshipped, Signals
<1>4. Unshipped(d) \in SUBSET Record BY <1>2 DEF Unshipped, Signals
<1>5. S \in SUBSET Record BY <1>2
<1> QED BY <1>3, <1>4, <1>5, RecordsCount, FS_Subset

(* What a detector that fires has counted, no bundle has carried yet.      *)
LEMMA EvidenceIsNew ==
  ASSUME TypeOK, Polls, Buffered, ShippedOld, pc = "evaluate",
         NEW latency \in LatencyEvidences, NEW e \in Evidences(latency)
  PROVE  \E d \in Detectors : Cardinality(Unshipped(d)) >= Needed(d)
<1>1. \A m \in Modality : batches[m].records \subseteq seen[m]
                          /\ records[m] \subseteq seen[m]
  BY DEF Buffered, BufferOK, Polled
<1>2. \A r : detectSince = NoTime \/ r.ts >= detectSince
               => detectSince = NoTime \/ detectSince <= r.ts
  OBVIOUS
<1>3. ASSUME NEW d \in Detectors \cap BatchDetectors, e \in CountEvidence(d)
      PROVE  Cardinality(Unshipped(d)) >= Needed(d)
  <2> DEFINE S == Signals(Since(batches[ModalityOf(d)].records), d)
  <2>1. ModalityOf(d) \in Modality BY ModalityOfDetector
  <2>2. S \in SUBSET seen[ModalityOf(d)] BY <1>1, <2>1 DEF Signals, Since
  <2>3. \A r \in S : r.kind = d /\ (detectSince = NoTime \/ detectSince <= r.ts)
    BY DEF Signals, Since
  <2>4. Cardinality(S) > Floor BY <1>3 DEF CountEvidence
  <2>5. Needed(d) = Floor + 1 /\ Floor \in Nat
    BY RunnerAssumption DEF Needed, BatchDetectors, WindowDetectors
  <2> HIDE DEF S
  <2>6. /\ Cardinality(S) \in Nat /\ Cardinality(Unshipped(d)) \in Nat
        /\ Cardinality(S) <= Cardinality(Unshipped(d))
    BY <2>2, <2>3, FreshIsUnshipped
  <2> QED BY <2>4, <2>5, <2>6
<1>4. ASSUME NEW d \in Detectors \cap WindowDetectors, e \in WindowEvidence(d)
      PROVE  Cardinality(Unshipped(d)) >= Needed(d)
  <2> DEFINE S == {r \in WindowSignals(d) : r.ts <= e.time}
             m == ModalityOf(d)
  <2>1. m \in Modality BY ModalityOfDetector
  <2>2. Cardinality(S) >= MinOver BY <1>4, WindowEvidenceTime DEF IsConfirming
  <2>3. S \in SUBSET seen[m]
    BY <1>1, <2>1 DEF WindowSignals, Signals, Scan, Span
  <2>4. batches[m].until \in Nat BY <2>1, BatchTimes
  <2>5. LookbackStart(batches[m].until) \in Int
        /\ (detectSince # NoTime => detectSince <= LookbackStart(batches[m].until))
    BY <2>4, LookbackStartBounds
  <2>6. ASSUME NEW r \in S
        PROVE  r.kind = d /\ (detectSince = NoTime \/ detectSince <= r.ts)
    <3>1. r \in records[m] /\ r.kind = d /\ LookbackStart(batches[m].until) <= r.ts
      BY DEF WindowSignals, Signals, Scan, Span
    <3>2. r.ts \in Nat BY <2>1, <3>1, TimeInNat DEF TypeOK, Record
    <3> QED BY <2>5, <3>1, <3>2, SinceIsTime
  <2>7. Needed(d) = MinOver /\ MinOver \in Nat
    BY RunnerAssumption DEF Needed, BatchDetectors, WindowDetectors
  <2> HIDE DEF S
  <2>8. /\ Cardinality(S) \in Nat /\ Cardinality(Unshipped(d)) \in Nat
        /\ Cardinality(S) <= Cardinality(Unshipped(d))
    BY <2>3, <2>6, FreshIsUnshipped
  <2> QED BY <2>2, <2>7, <2>8
<1>5. ASSUME e \in latency
      PROVE  \E d \in Detectors : Cardinality(Unshipped(d)) >= Needed(d)
  <2> DEFINE d == "latency_spike"
  <2>1. d \in Detectors /\ "trace" \in Modality
    BY <1>5, ModalityOfDetector DEF LatencyEvidences
  <2>2. ModalityOf(d) = "trace" BY DEF ModalityOf
  <2>3. PICK r \in Signals(Since(batches["trace"].records), d) : TRUE
    BY <1>5 DEF LatencyEvidences
  <2>4. {r} \in SUBSET seen[ModalityOf(d)]
    BY <1>1, <2>1, <2>2, <2>3 DEF Signals, Since
  <2>5. \A q \in {r} : q.kind = d /\ (detectSince = NoTime \/ detectSince <= q.ts)
    BY <2>3 DEF Signals, Since
  <2>6. Cardinality({r}) = 1 BY FS_Singleton
  <2>7. Needed(d) = 1 BY DEF Needed, BatchDetectors, WindowDetectors
  <2> HIDE DEF d
  <2>8. Cardinality(Unshipped(d)) \in Nat
        /\ Cardinality({r}) <= Cardinality(Unshipped(d))
    BY <2>1, <2>4, <2>5, FreshIsUnshipped
  <2> QED BY <2>1, <2>6, <2>7, <2>8
<1> QED BY <1>3, <1>4, <1>5 DEF Evidences, CountEvidences, WindowEvidences

(* A capture opens on signals no bundle has carried (detector.py:45-49,    *)
(* runner.py:85-102): neither the lookback of a window detector nor a late *)
(* line makes the window just shipped count a second time.                 *)
THEOREM NewEvidenceCorrect ==
  ASSUME PostSec >= PollSpan
  PROVE  Spec => NewEvidenceOnly
<1>1. TypeOK /\ Polls /\ Buffered /\ ShippedOld /\ [Next]_vars
        => [session = NoSession /\ session' # NoSession =>
              \E d \in Detectors : Cardinality(Unshipped(d)) >= Needed(d)]_vars
  <2> SUFFICES ASSUME TypeOK, Polls, Buffered, ShippedOld, [Next]_vars,
                      session = NoSession, session' # NoSession
               PROVE  \E d \in Detectors :
                        Cardinality(Unshipped(d)) >= Needed(d)
    OBVIOUS
  <2>1. CASE EvaluateAndRegister
    <3>1. PICK latency \in LatencyEvidences : \E e : e \in Evidences(latency)
      BY <2>1, OpensAtEvidence
    <3> QED BY <2>1, <3>1, EvidenceIsNew DEF EvaluateAndRegister
  <2>2. CASE Finalize
    BY <2>2 DEF Finalize, FinalizeReady
  <2>3. CASE ~EvaluateAndRegister /\ ~Finalize
    BY <2>3 DEF Next, Tick, Horizon, Write, ClockAdvances, PollBegin,
                PollRead, Append1, Send, Sleep, Wake, vars
  <2> QED BY <2>1, <2>2, <2>3
<1> QED
  BY <1>1, TypeCorrect, PollsCorrect, BufferCorrect, ShippedIsOld,
     PTL DEF Spec, NewEvidenceOnly

-----------------------------------------------------------------------------
(* No signal falls between two captures. *)

(* A capture begins, and the lower bound of the detectors lies, no later   *)
(* than where the last tick left off; the bound set in this tick, no later *)
(* than where this tick leaves off.                                        *)
Behind ==
  \A m \in Modality :
    /\ session # NoSession => session.anchor <= From(m)
    /\ detectSince # NoTime /\ pc # "evaluate" => detectSince <= From(m)
    /\ detectSince # NoTime /\ pc = "evaluate" =>
         detectSince <= batches[m].until

(* A source delivers the signals of its own detectors. *)
KindsOK ==
  \A m \in Modality : \A r \in seen[m] \cup unread[m] : r.kind \in Kinds(m)

(* A record of this tick that the detectors will not look at has just been *)
(* shipped.                                                                *)
Pending ==
  pc = "evaluate" =>
    \A m \in Modality : \A r \in batches[m].records :
      r \in shipped[m] \/ detectSince = NoTime \/ detectSince <= r.ts

(* A signal was shipped, will be, or is in this tick's batch. *)
Accounted ==
  \A m \in Modality : \A r \in seen[m] :
    r.kind \in LoneSignals =>
      \/ r \in shipped[m] \/ InCapture(m, r)
      \/ Polled(m) /\ r \in batches[m].records

(* No step brings a source a record of another kind. *)
LEMMA KindsStep == TypeOK /\ KindsOK /\ [Next]_vars => KindsOK'
<1> SUFFICES ASSUME TypeOK, KindsOK, [Next]_vars, NEW m \in Modality,
                    NEW q \in seen'[m] \cup unread'[m]
             PROVE  q.kind \in Kinds(m)
  BY DEF KindsOK, Kinds
<1>1. ASSUME NEW n \in Modality, NEW r \in Record, Write(n, r)
      PROVE  q.kind \in Kinds(m)
  <2>1. q \in seen[m] \cup unread[m] \/ (q = r /\ m = n)
    BY <1>1 DEF Write, TypeOK
  <2> QED BY <1>1, <2>1 DEF Write, KindsOK
<1>2. CASE PollRead
  <2>1. Source \in Modality BY SourceInModality DEF Source, TypeOK
  <2>2. q \in seen[m] \cup unread[m] BY <1>2, <2>1 DEF PollRead, TypeOK
  <2> QED BY <2>2 DEF KindsOK
<1>3. CASE seen' = seen /\ unread' = unread
  BY <1>3 DEF KindsOK
<1> QED
  BY <1>1, <1>2, <1>3
     DEF Next, Tick, Horizon, ClockAdvances, PollBegin, Append1, Finalize,
         EvaluateAndRegister, Send, Sleep, Wake, vars, fileVars

(* What a service writes are the signals of its own source. *)
THEOREM KindsCorrect == Spec => []KindsOK
<1>1. Init => KindsOK BY DEF Init, KindsOK
<1> QED BY <1>1, KindsStep, TypeCorrect, PTL DEF Spec

(* Where the tick that has been evaluated leaves off. *)
LEMMA FromMoves ==
  ASSUME TypeOK, Polls, EvaluateAndRegister, NEW m \in Modality
  PROVE  /\ From(m)' = batches[m].until /\ From(m) = batches[m].from
         /\ batches[m].from \in Nat /\ batches[m].until \in Nat
         /\ batches[m].from <= batches[m].until
<1>1. pc = "evaluate" /\ pc' = "send" /\ lastPoll' = lastPoll
  BY DEF EvaluateAndRegister
<1>2. PollOK(m) /\ Polled(m) /\ ~Polled(m)' BY <1>1 DEF Polls, Polled
<1> QED BY <1>1, <1>2, BatchTimes DEF From, PollOK

(* When the sources are polled at one instant no tick reads a record from  *)
(* before the anchor of a capture in progress, and none from before the    *)
(* end of a window that closed in an earlier tick.                         *)
THEOREM BehindCorrect ==
  ASSUME PollSpan = 0
  PROVE  Spec => []Behind
<1>1. Init => Behind
  BY DEF Init, SnapshotInit, Behind
<1>2. TypeOK /\ Clock /\ Polls /\ Buffered /\ Behind /\ [Next]_vars => Behind'
  <2> SUFFICES ASSUME TypeOK, Clock, Polls, Buffered, Behind, [Next]_vars
               PROVE  Behind'
    OBVIOUS
  <2>1. CASE Finalize
    <3>1. PICK t \in {batches[m].until : m \in Modality} :
             /\ FinalizeReady(t)
             /\ detectSince' = IF Ready(t) THEN WindowEnd(session.anchor)
                                           ELSE detectSince
      BY <2>1 DEF Finalize
    <3>2. pc = "finalize" /\ pc' = "evaluate" /\ batches' = batches
      BY <2>1 DEF Finalize
    <3>3. /\ tickAt \in Nat /\ t = tickAt
          /\ \A m \in Modality : batches[m].until = tickAt
      BY <3>2, OneInstant
    <3>4. \A m \in Modality : /\ From(m)' = From(m) /\ From(m) \in Nat
                              /\ From(m) <= tickAt
      BY <2>1, <3>2, <3>3, FromSteady, BatchTimes
         DEF Finalize, EvaluateAndRegister
    <3>5. CASE Ready(t)
      BY <3>1, <3>2, <3>3, <3>5 DEF Behind, Ready, FinalizeReady
    <3>6. CASE ~Ready(t)
      <4>1. session' = session /\ detectSince' = detectSince
        BY <3>1, <3>6 DEF FinalizeReady
      <4> QED BY <3>2, <3>3, <3>4, <4>1, SinceIsTime DEF Behind
    <3> QED BY <3>5, <3>6
  <2>2. CASE EvaluateAndRegister
    <3>1. pc = "evaluate" /\ pc' = "send" /\ detectSince' = detectSince
      BY <2>2 DEF EvaluateAndRegister
    <3>2. \A m \in Modality :
             /\ From(m)' = batches[m].until /\ From(m) = batches[m].from
             /\ batches[m].from \in Nat /\ batches[m].until \in Nat
             /\ batches[m].from <= batches[m].until
      BY <2>2, FromMoves
    <3>3. \A m \in Modality : detectSince # NoTime => detectSince <= From(m)'
      BY <3>1, <3>2 DEF Behind
    <3>4. CASE session # NoSession
      <4>1. session'.anchor = session.anchor BY <2>2, <3>4, AbsorbKeepsAnchor
      <4>2. session.anchor \in Nat BY <3>4, TimeInNat DEF TypeOK, IsSession
      <4>3. \A m \in Modality : session.anchor <= From(m)'
        BY <3>2, <3>4, <4>2 DEF Behind
      <4> QED BY <3>1, <3>3, <4>1, <4>3 DEF Behind
    <3>5. CASE session' = NoSession
      BY <3>1, <3>3, <3>5 DEF Behind
    <3>6. CASE session = NoSession /\ session' # NoSession
      <4>1. PICK latency \in LatencyEvidences :
               \E e \in Evidences(latency) :
                  session' = NewSession(e.time, Evidences(latency))
        BY <2>2, <3>6, OpensAtEvidence
      <4>2. PICK e \in Evidences(latency) :
               session' = NewSession(e.time, Evidences(latency))
        BY <4>1
      <4>3. session'.anchor = e.time BY <4>2 DEF NewSession
      <4>4. e.modality \in Modality /\ e.time \in Nat
            /\ e.time <= batches[e.modality].until + PollSpan
        BY <3>1, EvidenceTime
      <4>5. \A m \in Modality : batches[m].until = tickAt /\ tickAt \in Nat
        BY <3>1, OneInstant
      <4>6. \A m \in Modality : e.time <= From(m)'
        BY <3>2, <4>4, <4>5
      <4> QED BY <3>1, <3>3, <4>3, <4>6 DEF Behind
    <3> QED BY <3>4, <3>5, <3>6
  <2>3. CASE ~Finalize /\ ~EvaluateAndRegister
    <3>1. /\ session' = session /\ detectSince' = detectSince
          /\ pc' = "evaluate" <=> pc = "evaluate"
          /\ pc = "evaluate" => batches' = batches
      BY <2>3 DEF Next, Tick, Horizon, Write, ClockAdvances, PollBegin,
                  PollRead, Append1, Send, Sleep, Wake, vars, loopVars
    <3>2. \A m \in Modality : From(m)' = From(m) BY <2>3, FromSteady
    <3> QED BY <3>1, <3>2 DEF Behind
  <2> QED BY <2>1, <2>2, <2>3
<1> QED
  BY <1>1, <1>2, TypeCorrect, ClockCorrect, PollsCorrect, BufferCorrect,
     PTL DEF Spec

(* Signals that the detectors look at make one of them fire, unless they   *)
(* are counted and too few.                                                *)
LEMMA EnoughSignalsFire ==
  ASSUME TypeOK, KindsOK,
         NEW m \in Modality, batches[m].records \subseteq seen[m],
         NEW r \in batches[m].records,
         r.kind \in LoneSignals, r \in Since(batches[m].records),
         r.kind \in BatchDetectors =>
           ~(Cardinality(Signals(Since(batches[m].records), r.kind)) <= Floor),
         NEW latency \in LatencyEvidences
  PROVE  Evidences(latency) # {}
<1> DEFINE d == r.kind
           S == Signals(Since(batches[m].records), d)
<1>1. r.kind \in Kinds(m) BY DEF KindsOK
<1>2. d \in Detectors /\ ModalityOf(d) = m
  BY <1>1 DEF Kinds, LoneSignals, BatchDetectors
<1>3. r \in S BY DEF Signals
<1>4. CASE d \in BatchDetectors
  <2>1. S \in SUBSET Record BY DEF Signals, Since, TypeOK
  <2>2. ~(Cardinality(S) <= Floor) BY <1>4
  <2> HIDE DEF S
  <2>3. Cardinality(S) \in Nat BY <2>1, RecordsCount
  <2>4. Cardinality(S) > Floor BY <2>2, <2>3, RunnerAssumption
  <2>5. CountEvidence(d) # {} BY <1>2, <2>4 DEF CountEvidence, S
  <2> QED BY <1>2, <1>4, <2>5 DEF Evidences, CountEvidences
<1>5. CASE d = "latency_spike"
  <2>1. ModalityOf(d) = "trace" BY <1>5 DEF ModalityOf
  <2>2. latency # {} BY <1>2, <1>3, <1>5, <2>1 DEF LatencyEvidences
  <2> QED BY <2>2 DEF Evidences
<1> QED BY <1>4, <1>5 DEF LoneSignals

(* A lone signal that the detectors look at makes one of them fire. *)
LEMMA LoneSignalFires ==
  ASSUME Floor = 0, TypeOK, KindsOK,
         NEW m \in Modality, batches[m].records \subseteq seen[m],
         NEW r \in batches[m].records,
         r.kind \in LoneSignals, detectSince = NoTime \/ detectSince <= r.ts,
         NEW latency \in LatencyEvidences
  PROVE  Evidences(latency) # {}
<1> DEFINE S == Signals(Since(batches[m].records), r.kind)
<1>1. r.ts \in Nat BY TimeInNat DEF TypeOK, Record
<1>2. r \in Since(batches[m].records) BY <1>1, SinceIsTime DEF Since
<1>3. ~(Cardinality(S) <= Floor)
  <2>1. S \in SUBSET Record BY DEF Signals, Since, TypeOK
  <2>2. {r} \subseteq S BY <1>2 DEF Signals
  <2>3. Cardinality({r}) = 1 BY FS_Singleton
  <2> HIDE DEF S
  <2>4. IsFiniteSet(S) /\ Cardinality(S) \in Nat BY <2>1, RecordsCount
  <2>5. Cardinality({r}) <= Cardinality(S) BY <2>2, <2>4, FS_Subset
  <2> QED BY <2>3, <2>4, <2>5
<1> QED BY <1>2, <1>3, EnoughSignalsFire

(* Closing a capture ships what it promised; what the bundle leaves of     *)
(* this tick is for the detectors to look at.                              *)
LEMMA CloseAccounts ==
  ASSUME PollSpan = 0, Lateness = 0, TypeOK, Clock, Polls, Buffered, Behind,
         PostStillBuffered, Accounted, Finalize
  PROVE  Accounted' /\ Pending'
<1>1. PICK t \in {batches[m].until : m \in Modality} :
         /\ FinalizeReady(t)
         /\ detectSince' = IF Ready(t) THEN WindowEnd(session.anchor)
                                       ELSE detectSince
         /\ shipped' = IF Ready(t)
              THEN [m \in Modality |->
                      shipped[m] \cup Assemble(session).records[m]]
              ELSE shipped
  BY DEF Finalize
<1>2. pc = "finalize" /\ pc' = "evaluate" /\ batches' = batches /\ seen' = seen
  BY DEF Finalize
<1>3. \A m \in Modality : Polled(m) /\ Polled(m)' BY <1>2 DEF Polled
<1>4. ASSUME NEW m \in Modality, NEW r \in batches[m].records
      PROVE  r \in seen[m] /\ r.ts \in Nat /\ From(m) <= r.ts /\ From(m) \in Nat
  <2>1. BufferOK(m) /\ PollOK(m) BY DEF Buffered, Polls
  <2>2. r \in seen[m] BY <1>3, <2>1 DEF BufferOK
  <2>3. r.ts \in Nat BY <2>2, TimeInNat DEF TypeOK, Record
  <2>4. batches[m].from <= r.ts + Lateness BY <1>3, <2>1 DEF PollOK
  <2> QED BY <1>2, <2>2, <2>3, <2>4, BatchTimes
<1>5. CASE ~Ready(t)
  <2>1. session' = session /\ detectSince' = detectSince /\ shipped' = shipped
    BY <1>1, <1>5 DEF FinalizeReady
  <2>2. Accounted'
    BY <1>2, <1>3, <2>1 DEF Accounted, InCapture, WindowEnd
  <2>3. \A m \in Modality : detectSince # NoTime => detectSince <= From(m)
    BY <1>2 DEF Behind
  <2>4. Pending' BY <1>2, <1>4, <2>1, <2>3, SinceIsTime DEF Pending
  <2> QED BY <2>2, <2>4
<1>6. CASE Ready(t)
  <2> DEFINE a == session.anchor
  <2>1. session # NoSession /\ session' = NoSession
        /\ detectSince' = WindowEnd(a)
        /\ \A m \in Modality :
             shipped'[m] = shipped[m] \cup session.pre[m]
                             \cup Span(records[m], a, WindowEnd(a))
    BY <1>1, <1>6 DEF Ready, FinalizeReady, Assemble, SnapshotRecords
  <2>2. a \in Nat /\ WindowEnd(a) \in Nat
    BY <2>1, TimeInNat, SnapshotAssumption DEF TypeOK, IsSession, WindowEnd
  <2>3. Ready(watermark)
    BY <1>2, <1>6, OneInstant
  <2>4. \A m \in Modality : Span(seen[m], a, WindowEnd(a)) \subseteq shipped'[m]
    <3> SUFFICES ASSUME NEW m \in Modality
                 PROVE  Span(seen[m], a, WindowEnd(a)) \subseteq shipped'[m]
      OBVIOUS
    <3>1. Span(seen[m], a, WindowEnd(a)) \subseteq records[m]
      BY <1>2, <2>3 DEF PostStillBuffered
    <3> QED BY <2>1, <3>1 DEF Span
  <2>5. ASSUME NEW m \in Modality, NEW r \in seen[m], r.kind \in LoneSignals
        PROVE  r \in shipped'[m] \/ (Polled(m)' /\ r \in batches'[m].records)
    <3>1. CASE r \in shipped[m] BY <2>1, <3>1
    <3>2. CASE InCapture(m, r)
      BY <2>1, <2>4, <3>2 DEF InCapture, Span
    <3>3. CASE Polled(m) /\ r \in batches[m].records
      BY <1>2, <1>3, <3>3
    <3> QED BY <2>5, <3>1, <3>2, <3>3 DEF Accounted
  <2>6. ASSUME NEW m \in Modality, NEW r \in batches[m].records
        PROVE  r \in shipped'[m] \/ detectSince' <= r.ts
    <3>1. r \in seen[m] /\ r.ts \in Nat /\ From(m) <= r.ts /\ From(m) \in Nat
      BY <1>4
    <3>2. a <= From(m) BY <2>1 DEF Behind
    <3>3. a <= r.ts BY <2>2, <3>1, <3>2
    <3>4. CASE r.ts < WindowEnd(a)
      BY <2>4, <3>1, <3>3, <3>4 DEF Span
    <3>5. CASE ~(r.ts < WindowEnd(a))
      BY <2>1, <2>2, <3>1, <3>5
    <3> QED BY <3>4, <3>5
  <2>7. Accounted' BY <1>2, <2>5 DEF Accounted
  <2>8. Pending' BY <1>2, <2>6 DEF Pending
  <2> QED BY <2>7, <2>8
<1> QED BY <1>5, <1>6

(* At the end of a tick its signals are in a bundle or in the capture.     *)
LEMMA EvaluateAccounts ==
  ASSUME WellSized, NoneIsNoCapture, PollSpan = 0, Lateness = 0, Floor = 0,
         PreSec >= Cadence,
         TypeOK, Clock, Polls, Buffered, Quiet, WindowAhead, Behind, KindsOK,
         Accounted, Pending, EvaluateAndRegister
  PROVE  Accounted'
<1> SUFFICES ASSUME NEW m \in Modality, NEW r \in seen[m],
                    r.kind \in LoneSignals
             PROVE  r \in shipped[m] \/ InCapture(m, r)'
  <2>1. seen' = seen /\ shipped' = shipped BY DEF EvaluateAndRegister
  <2> QED BY <2>1 DEF Accounted
<1>1. pc = "evaluate" BY DEF EvaluateAndRegister
<1>2. PICK latency \in LatencyEvidences : RegisterTriggers(Evidences(latency))
  BY DEF EvaluateAndRegister
<1>3. r.ts \in Nat BY TimeInNat DEF TypeOK, Record
<1>4. /\ tickAt \in Nat /\ now = tickAt /\ batches[m].until = tickAt
      /\ batches[m].from \in Nat /\ tickAt <= batches[m].from + Cadence
      /\ From(m) = batches[m].from
  BY <1>1, OneInstant, BatchTimes
<1>5. r \in batches[m].records => batches[m].from <= r.ts /\ r.ts <= tickAt
  <2>1. PollOK(m) /\ Polled(m) BY <1>1 DEF Polls, Polled
  <2> QED BY <1>3, <1>4, <2>1 DEF PollOK
<1>6. PostSec \in Nat /\ PreSec \in Nat /\ Cadence \in Nat
      /\ PostSec > Cadence
  BY SnapshotAssumption, TimesInNat DEF WellSized, Staleness, Gap
<1>7. CASE session # NoSession
  <2>1. session'.anchor = session.anchor /\ session'.pre = session.pre
    BY <1>7, AbsorbKeepsAnchor
  <2>2. session' # NoSession
    <3>1. CASE session' = session BY <1>7, <3>1
    <3>2. CASE AbsorbTriggers(Evidences(latency))
      BY <3>2, AbsorbType DEF NoneIsNoCapture
    <3> QED BY <1>2, <1>7, <3>1, <3>2 DEF RegisterTriggers, OpenSession
  <2>3. CASE InCapture(m, r)
    BY <2>1, <2>2, <2>3 DEF InCapture, WindowEnd
  <2>4. CASE r \in batches[m].records
    <3>1. session.anchor \in Nat BY <1>7, TimeInNat DEF TypeOK, IsSession
    <3>2. session.anchor <= From(m) /\ batches[m].until < WindowEnd(session.anchor)
      BY <1>1, <1>7 DEF Behind, WindowAhead
    <3>3. session.anchor <= r.ts /\ r.ts < WindowEnd(session.anchor)
      BY <1>3, <1>4, <1>5, <1>6, <2>4, <3>1, <3>2 DEF WindowEnd
    <3> QED BY <2>1, <2>2, <3>3 DEF InCapture, WindowEnd
  <2> QED BY <2>3, <2>4 DEF Accounted
<1>8. CASE session = NoSession
  <2>1. r \in shipped[m] \/ r \in batches[m].records
    BY <1>8 DEF Accounted, InCapture
  <2> SUFFICES ASSUME r \notin shipped[m] PROVE InCapture(m, r)' OBVIOUS
  <2>2. r \in batches[m].records /\ (detectSince = NoTime \/ detectSince <= r.ts)
    BY <1>1, <2>1 DEF Pending
  <2>3. Evidences(latency) # {}
    <3>1. batches[m].records \subseteq seen[m]
      BY <1>1 DEF Buffered, BufferOK, Polled
    <3> QED BY <2>2, <3>1, LoneSignalFires
  <2>4. OpenSession(Evidences(latency))
    BY <1>2, <1>8, <2>3 DEF RegisterTriggers, AbsorbTriggers
  <2>5. session' # NoSession BY <2>4, OpenType DEF NoneIsNoCapture
  <2> DEFINE a == session'.anchor
  <2>6. a \in Nat /\ tickAt <= a + Cadence
    <3>1. PICK e \in Evidences(latency) :
             session' = NewSession(e.time, Evidences(latency))
      BY <2>4 DEF OpenSession
    <3>2. a = e.time BY <3>1 DEF NewSession
    <3> QED BY <1>1, <1>6, <1>8, <3>2, FreshEvidence
  <2>7. a <= now /\ session'.pre[m] = Span(seen[m] \cup unread[m],
                                           WindowStart(a), a)
    BY <2>4, HalvesWhenOpened
  <2>8. CASE a <= r.ts
    <3>1. r.ts < WindowEnd(a)
      BY <1>3, <1>4, <1>5, <1>6, <2>2, <2>6 DEF WindowEnd
    <3> QED BY <2>5, <2>8, <3>1 DEF InCapture, WindowEnd
  <2>9. CASE ~(a <= r.ts)
    <3>1. WindowStart(a) <= r.ts
      BY <1>3, <1>4, <1>5, <1>6, <2>2, <2>6, <2>7 DEF WindowStart
    <3>2. r \in session'.pre[m]
      BY <1>3, <2>6, <2>7, <2>9, <3>1 DEF Span
    <3> QED BY <2>5, <3>2 DEF InCapture
  <2> QED BY <2>8, <2>9
<1> QED BY <1>7, <1>8

(* With settings of sufficient size, sources polled at one instant and no  *)
(* late lines, every signal that fires a detector by itself reaches the    *)
(* server (runner.py:75-118, assembler.py:63-110): it is in a bundle or in *)
(* the capture in progress when the tick that read it is over.  The first  *)
(* half of a capture must reach back over one tick, or the older signals   *)
(* of the batch that opens it fall between two captures.                   *)
THEOREM SignalsShippedCorrect ==
  ASSUME WellSized, NoneIsNoCapture, PollSpan = 0, Lateness = 0, Floor = 0,
         PreSec >= Cadence
  PROVE  Spec => []SignalsShipped
<1>1. Init => Accounted /\ Pending
  BY DEF Init, Accounted, Pending
<1>2. TypeOK /\ Clock /\ Polls /\ Buffered /\ Quiet /\ WindowAhead /\ Behind
      /\ KindsOK /\ PostStillBuffered /\ Accounted /\ Pending /\ [Next]_vars
        => Accounted' /\ Pending'
  <2> SUFFICES ASSUME TypeOK, Clock, Polls, Buffered, Quiet, WindowAhead,
                      Behind, KindsOK, PostStillBuffered, Accounted, Pending,
                      [Next]_vars
               PROVE  Accounted' /\ Pending'
    OBVIOUS
  <2>1. CASE Finalize BY <2>1, CloseAccounts
  <2>2. CASE EvaluateAndRegister
    BY <2>2, EvaluateAccounts DEF Pending, EvaluateAndRegister
  <2>3. CASE PollRead
    <3>1. UNCHANGED <<session, shipped>> /\ pc' # "evaluate"
      BY <2>3 DEF PollRead
    <3>2. ASSUME NEW m \in Modality, NEW r \in seen'[m], r.kind \in LoneSignals
          PROVE  \/ r \in shipped'[m] \/ InCapture(m, r)'
                 \/ Polled(m)' /\ r \in batches'[m].records
      <4>1. ~Polled(Source) /\ (Polled(m)' <=> Polled(m) \/ m = Source)
        BY <2>3, PollReadPolled
      <4>2. m # Source => seen'[m] = seen[m] /\ batches'[m] = batches[m]
        BY <2>3 DEF PollRead, TypeOK
      <4>3. m = Source => /\ seen'[m] = seen[m] \cup unread[m]
                          /\ batches'[m].records = unread[m]
        BY <2>3 DEF PollRead, TypeOK
      <4>4. InCapture(m, r) => InCapture(m, r)'
        BY <3>1 DEF InCapture, WindowEnd
      <4> QED BY <3>1, <3>2, <4>1, <4>2, <4>3, <4>4 DEF Accounted
    <3> QED BY <3>1, <3>2 DEF Accounted, Pending
  <2>4. CASE ~Finalize /\ ~EvaluateAndRegister /\ ~PollRead
    <3>1. /\ UNCHANGED <<session, shipped, seen, detectSince>>
          /\ pc' = "evaluate" => pc = "evaluate" /\ batches' = batches
      BY <2>4 DEF Next, Tick, Horizon, Write, ClockAdvances, PollBegin,
                  Append1, Send, Sleep, Wake, vars, loopVars
    <3>2. \A m \in Modality :
            Polled(m) => Polled(m)' /\ batches'[m] = batches[m]
      BY <2>4 DEF Next, Tick, Horizon, Write, ClockAdvances, PollBegin,
                  Append1, Send, Sleep, Wake, vars, loopVars, Polled
    <3>3. \A m, r : InCapture(m, r)' <=> InCapture(m, r)
      BY <3>1 DEF InCapture, WindowEnd
    <3> QED BY <3>1, <3>2, <3>3 DEF Accounted, Pending
  <2> QED BY <2>1, <2>2, <2>3, <2>4
<1>3. Accounted => SignalsShipped
  BY DEF Accounted, SignalsShipped, Polled
<1>4. ~IsSession(NoSession) BY DEF NoneIsNoCapture
<1> QED
  BY <1>1, <1>2, <1>3, <1>4, TypeCorrect, ClockCorrect, PollsCorrect,
     BufferCorrect, AnchorFresh, BehindCorrect, KindsCorrect, PostKept,
     PTL DEF Spec
===============================================================================
