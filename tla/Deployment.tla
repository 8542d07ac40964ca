------------------------------ MODULE Deployment ------------------------------
(***************************************************************************)
(* The collector as it is deployed: the loop of Runner, killed or ended by *)
(* an exception at any step and started again, between services whose      *)
(* clocks may be ahead of its own and a server that may refuse a bundle,   *)
(* answer it unreadably, or take it after the client has given up.         *)
(*                                                                         *)
(* All the collector knows is in memory: offsets, buffer, the capture in   *)
(* progress, the detectors' lower bound and the bundle being sent.  What   *)
(* it comes back to is its files, which it reads from the beginning.       *)
(*                                                                         *)
(* Sending is rca_sdk/transport/client.py: one POST per bundle, no retry.  *)
(***************************************************************************)
EXTENDS Runner

CONSTANTS
  Ahead,        \* how far a time stamp may lie ahead of the collector's clock
  MaxDown,      \* bound: longest time from a crash to the next first poll
  MaxRestarts   \* bound: crashes

ASSUME DeploymentAssumption ==
  Ahead \in Nat /\ MaxDown \in Nat /\ MaxRestarts \in Nat

VARIABLES
  posts,      \* the requests sent so far, in order, and what became of them
  restarts,
  startedAt,  \* history variable: when the running process was started
  astray,     \* history variable: the capture in progress opened out of its
              \* time
  excepted,   \* history variable: what it read that SignalsPosted does not
              \* promise
  files       \* history variable: what the services have written

deployed == <<posts, restarts, startedAt, astray, excepted, files>>
allVars  == <<vars, deployed>>

DInit ==
  /\ Init
  /\ posts = <<>> /\ restarts = 0 /\ startedAt = 0
  /\ astray = FALSE /\ excepted = {} /\ files = [m \in Modality |-> {}]

-----------------------------------------------------------------------------
(* Time stamps ahead of the clock: parse_timestamp drops a zone without    *)
(* converting, and hosts differ.                                           *)
WriteAhead(m, r) ==
  /\ pc \in {"poll", "read", "sleep"} \/ (pc = "send" /\ outbox # <<>>)
  /\ Cardinality(Written) < MaxRecords
  /\ r.kind \in Kinds(m)
  /\ now < r.ts /\ r.ts <= now + Ahead
  /\ r \notin seen[m] \cup unread[m]
  /\ unread' = [unread EXCEPT ![m] = @ \cup {r}]
  /\ hasFile' = [hasFile EXCEPT ![m] = TRUE]
  /\ UNCHANGED <<now, loopVars, bufferVars, session, seen, shipped>>

-----------------------------------------------------------------------------
(* Requests.  A post is [records, open, job, report]: the records of the   *)
(* bundle, whether the server may still take it, its place among the       *)
(* bundles the server took (0: not taken), and what send returned          *)
(* ("pending" while it waits, "never" if the process died).                *)

Awaiting == posts # <<>> /\ posts[Len(posts)].report = "pending"

(* TransportClient.send, up to the request. *)
Post ==
  /\ pc = "send" /\ outbox # <<>> /\ ~Awaiting
  /\ posts' = Append(posts, [records |-> Head(outbox).records,
                             open |-> TRUE, job |-> 0, report |-> "pending"])
  /\ UNCHANGED <<vars, restarts, startedAt, astray, excepted, files>>

Taken == {k \in 1 .. Len(posts) : posts[k].job > 0}

(* The server takes a request; it may do so late, and out of order, if the *)
(* client has stopped waiting.                                             *)
Take(k) ==
  /\ posts[k].open
  /\ posts' = [posts EXCEPT ![k].open = FALSE,
                            ![k].job = Cardinality(Taken) + 1]
  /\ UNCHANGED <<vars, restarts, startedAt, astray, excepted, files>>

(* What a request comes back with.  A body may say "accepted": false; it   *)
(* may say yes or nothing; or it may be none SubmissionResult accepts, as  *)
(* the mock server's, whose job_id is a word.  Assumed of a server: it     *)
(* answers 2xx without a refusal only to what it has taken.                *)
Answers(p) ==
  {a \in [status : {"2xx", "error", "timeout", "unreachable"},
          body   : {"plain", "unreadable", "refusal", "none"}] :
     /\ (a.body = "none") = (a.status # "2xx")
     /\ a.status = "2xx" => (a.body = "refusal") = (p.job = 0)
     /\ a.status = "unreachable" => p.job = 0}

(* Seeded fault: the handler that trusts an unreadable body catches the    *)
(* failures of the request too.                                            *)
Accepted_AnyFailure(a) == a.body # "refusal"

(* An HTTPError and the server's own word make it a failure; an unreadable *)
(* body does not.                                                          *)
Accepted(a) == a.status = "2xx" /\ a.body # "refusal"

(* The rest of send and of the loop's step: the result is logged.          *)
Return(a) ==
  /\ Awaiting
  /\ posts' = [posts EXCEPT
       ![Len(posts)].open   = @ /\ a.status = "timeout",
       ![Len(posts)].report = IF Accepted(a) THEN "accepted" ELSE "failed"]
  /\ Send
  /\ UNCHANGED <<restarts, startedAt, astray, excepted, files>>

-----------------------------------------------------------------------------
(* Seeded fault: the offsets survive the process. *)
Reread_Offsets == unread

(* The collectors of a new process start at the beginning of their files.  *)
Reread == [m \in Modality |-> seen[m] \cup unread[m]]

(* The process ends, by an exception in run or from outside, and a new one *)
(* polls for the first time `down` later.                                  *)
Crash(down) ==
  /\ restarts < MaxRestarts
  /\ now + down <= MaxTime
  /\ restarts' = restarts + 1
  /\ startedAt' = now + down /\ astray' = FALSE /\ excepted' = {}
  /\ pc' = "sleep" /\ wakeAt' = now + down
  /\ next' = 1 /\ tickAt' = 0 /\ polledAt' = 0
  /\ lastPoll' = [m \in Modality |-> now + down]
  /\ batches' = [m \in Modality |-> NoBatch]
  /\ detectSince' = NoTime /\ outbox' = <<>>
  /\ session' = NoSession
  /\ records' = [m \in Modality |-> {}]
  /\ history' = [m \in Modality |-> {}]
  /\ watermark' = NoTime
  /\ unread' = Reread
  /\ seen' = [m \in Modality |-> {}]
  /\ posts' = IF Awaiting THEN [posts EXCEPT ![Len(posts)].report = "never"]
              ELSE posts
  /\ UNCHANGED <<now, hasFile, shipped, files>>

Observing ==
  \/ \E m \in Modality, r \in Record : Write(m, r) \/ WriteAhead(m, r)
  \/ ClockAdvances
  \/ PollBegin \/ PollRead \/ Append1 \/ Finalize \/ EvaluateAndRegister
  \/ Sleep \/ Wake \/ Horizon

(* The time a capture covers from its opening on, [anchor, end), lies      *)
(* elsewhere: an old record of the files a new process reads at once, or   *)
(* one that is ahead of the clock, gave the anchor.                        *)
OutOfTime(s) ==
  s # NoSession /\ ~(s.anchor <= watermark /\ watermark < WindowEnd(s.anchor))

(* What the history variables record of a step: records read before their  *)
(* time; of the batches the detectors have looked at, the signals that are *)
(* too few to fire; and all of them if they open a capture out of its time *)
(* or come while it is in progress.                                        *)
ReadEarly ==
  {mr \in Modality \X Record :
     mr[2] \in seen'[mr[1]] \ seen[mr[1]] /\ mr[2].ts > now}

TooFew(m) ==
  {r \in Since(batches[m].records) :
     /\ r.kind \in BatchDetectors
     /\ Cardinality(Signals(Since(batches[m].records), r.kind)) <= Floor}

LookedAt ==
  {mr \in Modality \X Record :
     /\ pc = "evaluate"
     /\ mr[2] \in IF astray' THEN batches[mr[1]].records ELSE TooFew(mr[1])}

DNext ==
  \/ /\ Observing
     /\ astray' = IF session = NoSession THEN OutOfTime(session') ELSE astray
     /\ excepted' = excepted \cup ReadEarly \cup LookedAt
     /\ files' = [m \in Modality |-> files[m] \cup unread'[m]]
     /\ UNCHANGED <<posts, restarts, startedAt>>
  \/ Post
  \/ \E k \in 1 .. Len(posts) : Take(k)
  \/ Awaiting /\ \E a \in Answers(posts[Len(posts)]) : Return(a)
  \/ \E down \in 0 .. MaxDown : Crash(down)

DSpec == DInit /\ [][DNext]_allVars

-----------------------------------------------------------------------------
(* What restarts, wrong clocks and lost answers leave intact.              *)

(* A request has carried the record, of this process or an earlier one. *)
Posted(m, r) == \E k \in 1 .. Len(posts) : r \in posts[k].records[m]

(* A signal that fires a detector by itself, younger than the first half   *)
(* of a window when the process was started, is not lost, however often    *)
(* the process ends: once the tick that read it is over, a request has     *)
(* carried it or the capture in progress will.  Whatever detectors run,    *)
(* with these exceptions:                                                  *)
(*   - signals read before their own time (runner.py:87): one behind the   *)
(*     window of the capture in progress fires while that absorbs it, and  *)
(*     is never evaluated again;                                           *)
(*   - signals a count detector finds too few to fire (base.py:57-59);     *)
(*   - what the detectors look at when a capture opens out of its time or  *)
(*     while it is in progress: latency_spike's slowest record of a whole  *)
(*     file (perf/trace.py:18-24, assembler.py:77) gives an anchor in the  *)
(*     past, and the signals of now in the same batch are absorbed outside *)
(*     the window.  So a crash may cost a young incident, which            *)
(*     ADR-001:49-50 does not expect.                                      *)
SignalsPosted ==
  pc = "sleep" =>
    \A m \in Modality : \A r \in files[m] \ unread[m] :
      r.kind \in LoneSignals /\ r.ts >= startedAt - PreSec
        /\ <<m, r>> \notin excepted =>
        Posted(m, r) \/ InCapture(m, r)

(* The claim of memory_buffer.py:41-42 for the first half of a window: when *)
(* a capture opens, the buffer still holds everything observed of it - of  *)
(* the whole files a new process reads at once, too.  It holds of the      *)
(* detectors whose anchor is the observed time, and fails with the others. *)
PreStillBuffered ==
  session # NoSession =>
    \A m \in Modality :
      Span(seen[m], WindowStart(session.anchor), session.anchor)
        \subseteq session.pre[m]

(* What send reports as accepted (client.py:45-51) was taken by the server, *)
(* and the accepted bundles were taken in the order of their windows, by   *)
(* however many processes they were sent: a bundle taken late, after its   *)
(* send gave up, never comes between.  It says nothing of a bundle that    *)
(* was dropped.                                                            *)
AcceptedInOrder ==
  \A k \in 1 .. Len(posts) :
    posts[k].report = "accepted" =>
      /\ posts[k].job > 0
      /\ \A j \in 1 .. k - 1 :
           posts[j].report = "accepted" => posts[j].job < posts[k].job

(* Between crashes the deployed loop is the abstract Capture, and a crash  *)
(* gives all of it up at once: no capture, lower bound or bundle of a      *)
(* process reaches the next, and none is given up but by a crash.  Of      *)
(* detectors whose anchor is the observed time: with the others a capture  *)
(* may open in the past of a new process.                                  *)
CapturesAnew ==
  /\ Promise!Init
  /\ [][IF restarts' = restarts THEN Promise!Next
        ELSE Promise!Init']_<<Promise!vars, restarts>>
=============================================================================
