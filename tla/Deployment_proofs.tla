--------------------------- MODULE Deployment_proofs ---------------------------
(***************************************************************************)
(* What a deployed collector guarantees, for every server, every number of *)
(* crashes and every value of the constants.                               *)
(*                                                                         *)
(* Requests.  The server numbers what it takes, so a request it took       *)
(* before another was even sent has the smaller number; an answer a        *)
(* request waits for comes before the next one is sent; and a request that *)
(* still may be taken was not accepted.                                    *)
(*                                                                         *)
(* The loop.  A new process reads whole files, and records may lie ahead   *)
(* of its clock, so the invariant of the loop without crashes does not     *)
(* carry over.  TickInv holds whatever detectors run: what the polls have  *)
(* read, what the buffer still has of it, and that a capture that opens in *)
(* its own time splits what was read from what is still to be read.        *)
(* LoopInv is for detectors whose anchor is the observed time: every       *)
(* capture opens at the instant of its tick, so all that is read after it  *)
(* belongs to its second half, whatever the file it comes from.            *)
(*                                                                         *)
(* Signals.  SignalInv: one that was read and is not excepted has been     *)
(* sent, is being sent, is in a capture that opened in its time, or is in  *)
(* this tick's batch, of which the detectors look at all that no bundle    *)
(* carries.                                                                *)
(***************************************************************************)
EXTENDS Deployment, RunnerBundle_proofs

IsPost(p) ==
  p \in [records : {p.records}, open : BOOLEAN, job : Nat,
         report : {"pending", "accepted", "failed", "never"}]

PostsOK ==
  /\ posts \in Seq({posts[k] : k \in 1 .. Len(posts)})
  /\ \A k \in 1 .. Len(posts) : IsPost(posts[k])

(* The inductive invariant. *)
Numbered ==
  /\ PostsOK
  /\ \A k \in 1 .. Len(posts) :
       /\ posts[k].open => posts[k].job = 0
       /\ posts[k].job <= Cardinality(Taken)
       /\ posts[k].report = "accepted" => posts[k].job > 0
       /\ posts[k].report = "accepted" =>
            \A l \in k + 1 .. Len(posts) :
              posts[l].job > 0 => posts[k].job < posts[l].job

(* A field of a post is replaced. *)
LEMMA OpenReplaced ==
  ASSUME NEW p, IsPost(p), NEW open
  PROVE  [p EXCEPT !.open = open] =
           [records |-> p.records, open |-> open, job |-> p.job,
            report |-> p.report]
BY DEF IsPost

LEMMA ReportReplaced ==
  ASSUME NEW p, IsPost(p), NEW report
  PROVE  [p EXCEPT !.report = report] =
           [records |-> p.records, open |-> p.open, job |-> p.job,
            report |-> report]
BY DEF IsPost

LEMMA JobReplaced ==
  ASSUME NEW p, IsPost(p), NEW job
  PROVE  [p EXCEPT !.job = job] =
           [records |-> p.records, open |-> p.open, job |-> job,
            report |-> p.report]
BY DEF IsPost

LEMMA SeqOfElements ==
  ASSUME NEW S, NEW s \in Seq(S),
         NEW T, \A i \in 1 .. Len(s) : s[i] \in T
  PROVE  s \in Seq(T)
OBVIOUS

(* Numbered speaks of posts only. *)
LEMMA NumberedStutters ==
  ASSUME Numbered, posts' = posts
  PROVE  Numbered'
BY DEF Numbered, PostsOK, IsPost, Taken

(* A sequence of posts of which one element is replaced. *)
LEMMA ReplacedPost ==
  ASSUME PostsOK, NEW k \in 1 .. Len(posts), NEW p, IsPost(p),
         posts' = [posts EXCEPT ![k] = p]
  PROVE  /\ PostsOK'
         /\ Len(posts') = Len(posts)
         /\ \A i \in 1 .. Len(posts) : posts'[i] = IF i = k THEN p ELSE posts[i]
<1> DEFINE S == {posts[i] : i \in 1 .. Len(posts)} \cup {p}
<1>1. posts \in Seq(S) BY DEF PostsOK
<1>2. posts' \in Seq(S) /\ Len(posts') = Len(posts) BY <1>1
<1>3. \A i \in 1 .. Len(posts) : posts'[i] = IF i = k THEN p ELSE posts[i]
  BY <1>1
<1>4. posts' \in Seq({posts'[i] : i \in 1 .. Len(posts')})
  BY <1>2, SeqOfElements
<1>5. \A i \in 1 .. Len(posts') : IsPost(posts'[i])
  BY <1>2, <1>3 DEF PostsOK
<1> QED BY <1>2, <1>3, <1>4, <1>5 DEF PostsOK, IsPost

(* The jobs of the server are counted. *)
LEMMA TakenFinite ==
  ASSUME PostsOK
  PROVE  IsFiniteSet(Taken) /\ Cardinality(Taken) \in Nat
<1>1. Len(posts) \in Nat BY DEF PostsOK
<1>2. IsFiniteSet(1 .. Len(posts)) BY <1>1, FS_Interval
<1>3. IsFiniteSet(Taken) BY <1>2, FS_Subset DEF Taken
<1> QED BY <1>3, FS_CardinalityType

LEMMA PostNumbered ==
  ASSUME Numbered, Post
  PROVE  Numbered'
<1> DEFINE p == [records |-> Head(outbox).records, open |-> TRUE, job |-> 0,
                 report |-> "pending"]
           n == Len(posts)
           S == {posts[i] : i \in 1 .. n} \cup {p}
<1>1. posts' = Append(posts, p) BY DEF Post
<1>2. posts \in Seq(S) /\ n \in Nat BY DEF Numbered, PostsOK
<1>3. posts' \in Seq(S) /\ Len(posts') = n + 1 BY <1>1, <1>2
<1>4. \A i \in 1 .. n : posts'[i] = posts[i] BY <1>1, <1>2
<1>5. posts'[n + 1] = p BY <1>1, <1>2
<1>6. PostsOK'
  <2>1. posts' \in Seq({posts'[i] : i \in 1 .. Len(posts')})
    BY <1>3, SeqOfElements
  <2>2. IsPost(p) BY DEF IsPost
  <2>3. \A i \in 1 .. Len(posts') : IsPost(posts'[i])
    BY <1>2, <1>3, <1>4, <1>5, <2>2 DEF Numbered, PostsOK
  <2> QED BY <2>1, <2>3 DEF PostsOK, IsPost
<1>7. Taken' = Taken
  BY <1>2, <1>3, <1>4, <1>5 DEF Taken
<1>8. Cardinality(Taken) \in Nat BY TakenFinite DEF Numbered
<1>9. p.open = TRUE /\ p.job = 0 /\ p.report = "pending" OBVIOUS
<1>10. ASSUME NEW i \in 1 .. n + 1
       PROVE  /\ posts'[i].open => posts'[i].job = 0
              /\ posts'[i].job <= Cardinality(Taken)
              /\ posts'[i].report = "accepted" => i # n + 1 /\ posts'[i].job > 0
  BY <1>2, <1>4, <1>5, <1>8, <1>9 DEF Numbered
<1>11. ASSUME NEW i \in 1 .. n + 1, posts'[i].report = "accepted",
              NEW l \in i + 1 .. n + 1, posts'[l].job > 0
       PROVE  posts'[i].job < posts'[l].job
  <2>1. l # n + 1 BY <1>5, <1>9, <1>11
  <2>2. i \in 1 .. n /\ l \in 1 .. n /\ l \in i + 1 .. n BY <1>2, <2>1
  <2> HIDE DEF p
  <2> QED BY <1>4, <1>11, <2>2 DEF Numbered
<1> HIDE DEF p
<1> QED BY <1>3, <1>6, <1>7, <1>10, <1>11 DEF Numbered

(* Which post a step replaces, and by what. *)
LEMMA TakeReplaces ==
  ASSUME PostsOK, NEW k \in 1 .. Len(posts), Take(k)
  PROVE  posts' = [posts EXCEPT ![k] =
                     [records |-> posts[k].records, open |-> FALSE,
                      job |-> Cardinality(Taken) + 1,
                      report |-> posts[k].report]]
<1> DEFINE c == Cardinality(Taken)
           x == [posts[k] EXCEPT !.open = FALSE]
<1>1. IsPost(posts[k]) BY DEF PostsOK
<1>2. posts' = [posts EXCEPT ![k] = [x EXCEPT !.job = c + 1]]
  BY DEF Take
<1>3. x = [records |-> posts[k].records, open |-> FALSE,
           job |-> posts[k].job, report |-> posts[k].report]
  BY <1>1, OpenReplaced
<1>4. IsPost(x) BY <1>1, <1>3 DEF IsPost
<1>5. /\ x.records = posts[k].records /\ ~x.open
      /\ x.report = posts[k].report
  BY <1>3
<1> HIDE DEF x, c
<1>6. [x EXCEPT !.job = c + 1] =
        [records |-> x.records, open |-> x.open, job |-> c + 1,
         report |-> x.report]
  BY <1>4, JobReplaced
<1>7. x.open = FALSE BY <1>4, <1>5 DEF IsPost
<1> QED BY <1>2, <1>5, <1>6, <1>7 DEF c

LEMMA ReturnReplaces ==
  ASSUME PostsOK, Awaiting, NEW a, Return(a)
  PROVE  /\ Len(posts) \in 1 .. Len(posts)
         /\ posts' = [posts EXCEPT ![Len(posts)] =
              [records |-> posts[Len(posts)].records,
               open |-> posts[Len(posts)].open /\ a.status = "timeout",
               job |-> posts[Len(posts)].job,
               report |-> IF Accepted(a) THEN "accepted" ELSE "failed"]]
<1> DEFINE n == Len(posts)
           q == posts[n]
           o == q.open /\ a.status = "timeout"
           r == IF Accepted(a) THEN "accepted" ELSE "failed"
           x == [q EXCEPT !.open = o]
           p == [records |-> q.records, open |-> o, job |-> q.job, report |-> r]
<1>1. n \in 1 .. n BY DEF Awaiting, PostsOK
<1>2. IsPost(q) BY <1>1 DEF PostsOK
<1>3. posts' = [posts EXCEPT ![n] = [x EXCEPT !.report = r]]
  BY DEF Return
<1>4. x = [records |-> q.records, open |-> o, job |-> q.job,
           report |-> q.report]
  BY <1>2, OpenReplaced
<1> HIDE DEF x
<1>5. [x EXCEPT !.report = r] = p BY <1>4
<1> QED BY <1>1, <1>3, <1>5

LEMMA CrashReplaces ==
  ASSUME PostsOK, Awaiting, NEW down, Crash(down)
  PROVE  /\ Len(posts) \in 1 .. Len(posts)
         /\ posts' = [posts EXCEPT ![Len(posts)] =
              [records |-> posts[Len(posts)].records,
               open |-> posts[Len(posts)].open,
               job |-> posts[Len(posts)].job, report |-> "never"]]
<1> DEFINE n == Len(posts)
           q == posts[n]
<1>1. n \in 1 .. n BY DEF Awaiting, PostsOK
<1>2. IsPost(q) BY <1>1 DEF PostsOK
<1>3. posts' = [posts EXCEPT ![n] = [q EXCEPT !.report = "never"]]
  BY DEF Crash
<1>4. [q EXCEPT !.report = "never"] =
        [records |-> q.records, open |-> q.open, job |-> q.job,
         report |-> "never"]
  BY <1>2, ReportReplaced
<1> QED BY <1>1, <1>3, <1>4

LEMMA TakeNumbered ==
  ASSUME Numbered, NEW k \in 1 .. Len(posts), Take(k)
  PROVE  Numbered'
<1> DEFINE c == Cardinality(Taken)
           p == [records |-> posts[k].records, open |-> FALSE, job |-> c + 1,
                 report |-> posts[k].report]
<1>1. PostsOK /\ IsPost(posts[k]) BY DEF Numbered, PostsOK
<1>2. IsFiniteSet(Taken) /\ c \in Nat BY <1>1, TakenFinite
<1>3. posts[k].open /\ posts[k].job = 0 BY DEF Take, Numbered
<1>4. posts' = [posts EXCEPT ![k] = p] BY <1>1, TakeReplaces
<1>5. IsPost(p) BY <1>1, <1>2 DEF IsPost
<1>6. /\ PostsOK' /\ Len(posts') = Len(posts)
      /\ \A i \in 1 .. Len(posts) : posts'[i] = IF i = k THEN p ELSE posts[i]
  BY <1>1, <1>4, <1>5, ReplacedPost
<1>7. Taken' = Taken \cup {k}
  <2>1. p.job > 0 BY <1>2
  <2> HIDE DEF p
  <2>2. Taken' = {i \in 1 .. Len(posts) : posts'[i].job > 0}
    BY <1>6 DEF Taken
  <2> QED BY <1>6, <2>1, <2>2 DEF Taken
<1>8. k \notin Taken BY <1>3 DEF Taken
<1>9. Cardinality(Taken)' = c + 1 BY <1>2, <1>7, <1>8, FS_AddElement
<1>10. posts[k].report # "accepted" BY <1>3 DEF Numbered
<1> HIDE DEF c
<1>11. \A i \in 1 .. Len(posts) : posts[i].job \in Nat /\ posts[i].job <= c
  BY DEF Numbered, PostsOK, IsPost, c
<1> QED BY <1>2, <1>6, <1>9, <1>10, <1>11 DEF Numbered

LEMMA ReturnNumbered ==
  ASSUME Numbered, Awaiting, NEW a \in Answers(posts[Len(posts)]), Return(a)
  PROVE  Numbered'
<1> DEFINE n == Len(posts)
           q == posts[n]
           p == [records |-> q.records, open |-> q.open /\ a.status = "timeout",
                 job |-> q.job,
                 report |-> IF Accepted(a) THEN "accepted" ELSE "failed"]
<1>1. PostsOK /\ n \in Nat BY DEF Numbered, PostsOK
<1>2. n \in 1 .. n
  BY <1>1 DEF Awaiting, PostsOK
<1>3. IsPost(q) BY <1>1, <1>2 DEF PostsOK
<1>4. posts' = [posts EXCEPT ![n] = p] BY <1>1, ReturnReplaces
<1>5. IsPost(p) BY <1>3 DEF IsPost
<1>6. /\ PostsOK' /\ Len(posts') = n
      /\ \A i \in 1 .. n : posts'[i] = IF i = n THEN p ELSE posts[i]
  BY <1>1, <1>2, <1>4, <1>5, ReplacedPost
<1>7. \A i \in 1 .. n : posts'[i].job = posts[i].job BY <1>6
<1>8. Taken' = Taken BY <1>6, <1>7 DEF Taken
<1>9. Accepted(a) => q.job > 0 BY <1>3 DEF Accepted, Answers, IsPost
<1>10. ASSUME NEW i \in 1 .. n
       PROVE  /\ posts'[i].open => posts'[i].job = 0
              /\ posts'[i].job <= Cardinality(Taken)
              /\ posts'[i].report = "accepted" => posts'[i].job > 0
  <2>1. p.open => q.open BY <1>3 DEF IsPost
  <2>2. p.job = q.job OBVIOUS
  <2>3. p.report = "accepted" => p.job > 0 BY <1>9
  <2> HIDE DEF p
  <2> QED BY <1>2, <1>6, <2>1, <2>2, <2>3 DEF Numbered
<1>11. ASSUME NEW i \in 1 .. n, posts'[i].report = "accepted",
              NEW l \in i + 1 .. n, posts'[l].job > 0
       PROVE  posts'[i].job < posts'[l].job
  <2>1. i # n /\ l \in 1 .. n BY <1>1, <1>11
  <2>2. posts[i].report = "accepted" BY <1>6, <1>11, <2>1
  <2> HIDE DEF p
  <2> QED BY <1>7, <1>11, <2>1, <2>2 DEF Numbered
<1> HIDE DEF p
<1> QED BY <1>6, <1>8, <1>10, <1>11 DEF Numbered

LEMMA CrashNumbered ==
  ASSUME Numbered, NEW down \in 0 .. MaxDown, Crash(down)
  PROVE  Numbered'
<1> DEFINE n == Len(posts)
           q == posts[n]
           p == [records |-> q.records, open |-> q.open, job |-> q.job,
                 report |-> "never"]
<1>1. CASE ~Awaiting
  <2>1. posts' = posts BY <1>1 DEF Crash
  <2> QED BY <2>1, NumberedStutters
<1>2. CASE Awaiting
  <2>1. PostsOK /\ n \in Nat BY DEF Numbered, PostsOK
  <2>2. n \in 1 .. n BY <1>2, <2>1 DEF Awaiting, PostsOK
  <2>3. IsPost(q) BY <2>1, <2>2 DEF PostsOK
  <2>4. posts' = [posts EXCEPT ![n] = p] BY <1>2, <2>1, CrashReplaces
  <2>5. IsPost(p) BY <2>3 DEF IsPost
  <2>6. /\ PostsOK' /\ Len(posts') = n
        /\ \A i \in 1 .. n : posts'[i] = IF i = n THEN p ELSE posts[i]
    BY <2>1, <2>2, <2>4, <2>5, ReplacedPost
  <2>7. \A i \in 1 .. n : posts'[i].job = posts[i].job BY <2>6
  <2>8. Taken' = Taken BY <2>6, <2>7 DEF Taken
  <2> QED BY <2>1, <2>2, <2>6, <2>7, <2>8 DEF Numbered
<1> QED BY <1>1, <1>2

LEMMA NumberedStep == Numbered /\ [DNext]_allVars => Numbered'
<1> SUFFICES ASSUME Numbered, [DNext]_allVars PROVE Numbered' OBVIOUS
<1>1. CASE UNCHANGED allVars
  BY <1>1, NumberedStutters DEF allVars, deployed
<1>2. CASE Observing /\ UNCHANGED <<posts, restarts, startedAt>>
  BY <1>2, NumberedStutters
<1>3. CASE Post
  BY <1>3, PostNumbered
<1>4. ASSUME NEW k \in 1 .. Len(posts), Take(k) PROVE Numbered'
  BY <1>4, TakeNumbered
<1>5. ASSUME Awaiting, NEW a \in Answers(posts[Len(posts)]), Return(a)
      PROVE  Numbered'
  BY <1>5, ReturnNumbered
<1>6. ASSUME NEW down \in 0 .. MaxDown, Crash(down) PROVE Numbered'
  BY <1>6, CrashNumbered
<1> QED BY <1>1, <1>2, <1>3, <1>4, <1>5, <1>6 DEF DNext

(* What send reports as accepted was taken, and in the order of sending,   *)
(* whatever the server, the crashes and the rest of the loop do.           *)
THEOREM AcceptedCorrect == DSpec => []AcceptedInOrder
<1>1. DInit => Numbered
  BY FS_EmptySet DEF DInit, Numbered, PostsOK, Taken
<1>2. Numbered => AcceptedInOrder
  <2> SUFFICES ASSUME Numbered,
                      NEW k \in 1 .. Len(posts), posts[k].report = "accepted",
                      NEW j \in 1 .. k - 1, posts[j].report = "accepted"
               PROVE  posts[k].job > 0 /\ posts[j].job < posts[k].job
    BY DEF AcceptedInOrder, Numbered
  <2>1. Len(posts) \in Nat BY DEF Numbered, PostsOK
  <2>2. j \in 1 .. Len(posts) /\ k \in j + 1 .. Len(posts) BY <2>1
  <2> QED BY <2>2 DEF Numbered
<1> QED BY <1>1, <1>2, NumberedStep, PTL DEF DSpec

-----------------------------------------------------------------------------
(* The loop across restarts.                                               *)

(* What the properties need of the settings: sources polled at one         *)
(* instant, no late lines, and a buffer that covers the first half of a    *)
(* window when it opens at the observed time and the second, which the     *)
(* observed time passes by less than a tick, when it closes.               *)
Settings ==
  /\ PollSpan = 0 /\ Lateness = 0
  /\ PreSec <= RetentionSec
  /\ PostSec + Cadence <= RetentionSec + 1
  /\ ~IsSession(NoSession)

(* And of the detectors, where captures must be whole whatever a process   *)
(* finds in its files: their anchor is the observed time.                  *)
AtOneInstant == Settings /\ Detectors \subseteq BatchDetectors

(* The clock of a tick, which a new process begins with at its first poll. *)
Clocked ==
  /\ tickAt <= now
  /\ pc \in {"poll", "read", "append", "finalize", "evaluate"} => now = tickAt
  /\ pc = "read" => polledAt = tickAt
  /\ pc = "send" => now <= tickAt + SendSpan
  /\ pc = "sleep" => now <= wakeAt
  /\ pc \in {"finalize", "evaluate", "send", "sleep"} => next = 1
  /\ watermark # NoTime => watermark <= tickAt
  /\ outbox # <<>> => pc \in {"evaluate", "send"}

BatchIs(m) ==
  /\ Polled(m) => /\ batches[m] \in Batch
                  /\ batches[m].modality = m /\ batches[m].until = tickAt
  /\ ~Polled(m) => batches[m] = NoBatch

(* The next poll of m is the first one of its process. *)
Backlog(m) ==
  \/ pc = "sleep" /\ wakeAt = startedAt
  \/ pc \in {"poll", "read"} /\ tickAt = startedAt /\ ~Polled(m)

(* Two polls lie at most a Cadence apart, and what a poll leaves unread is *)
(* not older than it; the first poll of a process reads what there is.     *)
PollIs(m) ==
  /\ Polled(m) \/ pc = "send" => lastPoll[m] = tickAt
  /\ pc \in {"poll", "read"} /\ ~Polled(m) =>
       lastPoll[m] <= tickAt /\ tickAt <= lastPoll[m] + Cadence
  /\ pc = "sleep" =>
       /\ lastPoll[m] <= wakeAt /\ wakeAt <= lastPoll[m] + Cadence
       /\ \/ lastPoll[m] = tickAt
          \/ wakeAt = startedAt /\ session = NoSession
  /\ \A r \in unread[m] : lastPoll[m] <= r.ts \/ Backlog(m)

(* A capture that opened in its time. *)
Timely == session # NoSession /\ ~astray

(* It opens before the end of its window, and closes in the first tick     *)
(* behind it.                                                              *)
WindowOpen ==
  Timely =>
    /\ session.anchor <= tickAt
    /\ pc \in {"evaluate", "send", "sleep"} =>
         tickAt < WindowEnd(session.anchor)
    /\ tickAt < WindowEnd(session.anchor) + Cadence

(* Nothing that is read after it opened belongs to its first half - also   *)
(* not of the files of an earlier process, which were read before any      *)
(* capture of this one.                                                    *)
Follows(m) ==
  Timely =>
    /\ \A r \in unread[m] : session.anchor <= r.ts
    /\ Polled(m) => \A r \in batches[m].records : session.anchor <= r.ts

SourceInv(m) == BatchIs(m) /\ PollIs(m) /\ Follows(m) /\ BufferOK(m)

(* The inductive invariant, whatever detectors run. *)
TickInv ==
  /\ TypeOK /\ Clocked /\ WindowOpen
  /\ \A m \in Modality : SourceInv(m)

InOutbox(m, r) == outbox # <<>> /\ r \in outbox[1].records[m]

(* Records behind the lower bound of the detectors are in the bundle that  *)
(* set it.                                                                 *)
Bounded(m) ==
  detectSince # NoTime =>
    /\ detectSince <= tickAt
    /\ \A r \in unread[m] : detectSince <= r.ts
    /\ Polled(m) =>
         \A r \in batches[m].records :
           detectSince <= r.ts \/ (pc = "evaluate" /\ InOutbox(m, r))

(* A bundle being sent is its window, of which nothing is unread. *)
Complete(b, m) ==
  /\ \A r \in unread[m] : WindowEnd(b.anchor) <= r.ts
  /\ b.records[m] = Span(seen[m], WindowStart(b.anchor), WindowEnd(b.anchor))

Leaving ==
  outbox # <<>> =>
    /\ \A m \in Modality : Complete(outbox[1], m)
    /\ WindowEnd(outbox[1].anchor) <= tickAt

(* The first half of a capture is complete. *)
HalfIs(m) ==
  session # NoSession =>
    session.pre[m] =
      Span(seen[m], WindowStart(session.anchor), session.anchor)

(* The inductive invariant, when anchors are the observed time. *)
LoopInv ==
  /\ TickInv /\ Leaving
  /\ session # NoSession => Timely
  /\ \A m \in Modality : HalfIs(m) /\ Bounded(m)

-----------------------------------------------------------------------------
(* Facts about the settings and the state. *)

LEMMA SettingsAre ==
  ASSUME Settings
  PROVE  /\ PollSpan = 0 /\ Lateness = 0 /\ SendSpan \in Nat
         /\ LoopInterval \in Nat \ {0} /\ Cadence = SendSpan + LoopInterval
         /\ Cadence \in Nat \ {0}
         /\ PreSec \in Nat /\ PostSec \in Nat \ {0} /\ RetentionSec \in Nat
         /\ PreSec <= RetentionSec /\ PostSec + Cadence <= RetentionSec + 1
BY RunnerAssumption, BufferAssumption, SnapshotAssumption
   DEF Settings, Cadence

LEMMA StateIs ==
  ASSUME TypeOK
  PROVE  /\ now \in Nat /\ tickAt \in Nat /\ wakeAt \in Nat /\ polledAt \in Nat
         /\ watermark # NoTime => watermark \in Nat
         /\ detectSince # NoTime => detectSince \in Nat
         /\ session # NoSession => session.anchor \in Nat
         /\ \A m \in Modality :
              /\ lastPoll[m] \in Nat
              /\ \A r \in seen[m] \cup unread[m] \cup records[m] : r.ts \in Nat
              /\ \A r \in batches[m].records : r.ts \in Nat
<1>1. watermark # NoTime => watermark \in Nat BY TimeInNat DEF TypeOK
<1>2. session # NoSession => session.anchor \in Nat
  BY TimeInNat DEF TypeOK, IsSession
<1>3. ASSUME NEW m \in Modality
      PROVE  /\ lastPoll[m] \in Nat
             /\ \A r \in seen[m] \cup unread[m] \cup records[m] : r.ts \in Nat
             /\ \A r \in batches[m].records : r.ts \in Nat
  <2>1. \A r \in Record : r.ts \in Nat BY TimeInNat DEF Record
  <2>2. /\ seen[m] \subseteq Record /\ unread[m] \subseteq Record
        /\ records[m] \subseteq Record
    BY DEF TypeOK
  <2>3. batches[m].records \subseteq Record
    BY DEF TypeOK, Batch, NoBatch
  <2> QED BY <2>1, <2>2, <2>3, TimesInNat
<1> QED BY <1>1, <1>2, <1>3, SinceIsTime, TimesInNat

(* The bundle being sent. *)
LEMMA SentIs ==
  ASSUME TypeOK, outbox # <<>>
  PROVE  /\ Len(outbox) = 1 /\ outbox[1].anchor \in Nat
         /\ WindowEnd(outbox[1].anchor) \in Nat
<1>1. Len(outbox) = 1 /\ IsBundle(outbox[1]) BY OneBundle
<1>2. outbox[1].anchor \in Nat BY <1>1, TimeInNat DEF IsBundle
<1> QED BY <1>1, <1>2, SnapshotAssumption DEF WindowEnd

LEMMA SomeModality == \E m \in Modality : TRUE
<1>1. 1 \in 1 .. Len(Sources) BY RunnerAssumption
<1> QED BY <1>1, SourceInModality

(* A line reaches a file. *)
Arrives(m, r) ==
  /\ pc \in {"poll", "read", "sleep"} \/ (pc = "send" /\ outbox # <<>>)
  /\ r \in Record /\ r.kind \in Kinds(m) /\ now <= r.ts
  /\ r \notin seen[m] \cup unread[m]
  /\ unread' = [unread EXCEPT ![m] = @ \cup {r}]
  /\ hasFile' = [hasFile EXCEPT ![m] = TRUE]
  /\ UNCHANGED <<now, loopVars, bufferVars, session, seen, shipped>>

LEMMA WritesArrive ==
  ASSUME Settings, TypeOK, NEW m \in Modality, NEW r \in Record,
         Write(m, r) \/ WriteAhead(m, r)
  PROVE  Arrives(m, r)
<1>1. r.ts \in Nat /\ now \in Nat BY TimeInNat, TimesInNat DEF Record
<1>2. CASE Write(m, r)
  BY <1>1, <1>2, SettingsAre DEF Write, Arrives
<1>3. CASE WriteAhead(m, r)
  BY <1>1, <1>3 DEF WriteAhead, Arrives
<1> QED BY <1>2, <1>3

(* What arrives is not older than the tick. *)
LEMMA ArrivalIsYoung ==
  ASSUME TypeOK, Clocked, NEW n \in Modality, NEW r \in Record, Arrives(n, r)
  PROVE  /\ now <= r.ts /\ r.ts \in Nat /\ tickAt <= r.ts
         /\ \A m \in Modality : \A q \in unread'[m] : q \in unread[m] \/ q = r
<1>1. r.ts \in Nat BY TimeInNat DEF Record
<1>2. now <= r.ts BY DEF Arrives
<1>3. now \in Nat /\ tickAt \in Nat /\ tickAt <= now BY StateIs DEF Clocked
<1>4. \A m \in Modality : \A q \in unread'[m] : q \in unread[m] \/ q = r
  BY DEF Arrives, TypeOK
<1> QED BY <1>1, <1>2, <1>3, <1>4

(* How a step tells whether the capture in progress opened in its time. *)
Tells ==
  /\ session # NoSession => astray' = astray
  /\ session = NoSession /\ session' # NoSession =>
       (~astray' <=> /\ session'.anchor <= watermark
                     /\ watermark < WindowEnd(session'.anchor))

LEMMA ObservingTells ==
  ASSUME astray' = IF session = NoSession THEN OutOfTime(session') ELSE astray
  PROVE  Tells
BY DEF Tells, OutOfTime

LEMMA SameTellsSame ==
  ASSUME session' = session, Tells
  PROVE  Timely' <=> Timely
BY DEF Tells, Timely

-----------------------------------------------------------------------------
(* The steps of the loop, one by one. *)

LEMMA ArriveKeeps ==
  ASSUME Settings, TickInv, NEW n \in Modality, NEW r \in Record,
         Arrives(n, r), startedAt' = startedAt, Tells, TypeOK'
  PROVE  TickInv'
<1> USE SettingsAre, StateIs
<1>1. /\ pc' = pc /\ next' = next /\ now' = now /\ tickAt' = tickAt
      /\ wakeAt' = wakeAt /\ polledAt' = polledAt /\ lastPoll' = lastPoll
      /\ batches' = batches /\ detectSince' = detectSince /\ outbox' = outbox
      /\ records' = records /\ watermark' = watermark /\ session' = session
      /\ seen' = seen
  BY DEF Arrives, loopVars, bufferVars
<1>2. /\ now <= r.ts /\ r.ts \in Nat /\ tickAt <= r.ts
      /\ \A m \in Modality : \A q \in unread'[m] : q \in unread[m] \/ q = r
  BY ArrivalIsYoung DEF TickInv
<1>3. pc \in {"poll", "read", "send", "sleep"} BY DEF Arrives
<1>4. Clocked' BY <1>1 DEF TickInv, Clocked
<1>5. (Timely' <=> Timely) /\ WindowOpen'
  BY <1>1, SameTellsSame DEF TickInv, WindowOpen
<1>6. ASSUME NEW m \in Modality PROVE SourceInv(m)'
  <2>0. SourceInv(m) BY DEF TickInv
  <2>1. (Polled(m)' <=> Polled(m)) /\ (Appended(m)' <=> Appended(m))
    BY <1>1 DEF Polled, Appended
  <2>2. BatchIs(m)' BY <1>1, <2>0, <2>1 DEF SourceInv, BatchIs
  <2>3. PollIs(m)'
    <3>1. Backlog(m)' <=> Backlog(m) BY <1>1, <2>1 DEF Backlog
    <3>2. lastPoll[m] <= r.ts \/ Backlog(m)
      BY <1>2, <1>3, <2>0, <2>1 DEF SourceInv, PollIs, Backlog, TickInv
    <3>3. \A q \in unread'[m] : lastPoll[m] <= q.ts \/ Backlog(m)
      BY <1>2, <2>0, <3>2 DEF SourceInv, PollIs
    <3> QED BY <1>1, <2>0, <2>1, <3>1, <3>3 DEF SourceInv, PollIs
  <2>4. Follows(m)'
    <3> SUFFICES ASSUME Timely PROVE Follows(m)' BY <1>5 DEF Follows
    <3>1. session.anchor <= r.ts
      BY <1>2 DEF TickInv, WindowOpen, Timely
    <3> QED BY <1>1, <1>2, <2>0, <2>1, <3>1 DEF SourceInv, Follows
  <2>5. BufferOK(m)' BY <1>1, <2>0, <2>1 DEF SourceInv, BufferOK
  <2> QED BY <2>2, <2>3, <2>4, <2>5 DEF SourceInv
<1> QED BY <1>4, <1>5, <1>6 DEF TickInv

(* Steps that move nothing but the clock and the phase. *)
Idles ==
  UNCHANGED <<next, lastPoll, batches, detectSince, outbox, unread,
              bufferVars, session, seen>>

LEMMA IdleKeeps ==
  ASSUME TickInv, TypeOK', Idles, Tells, Clocked', WindowOpen',
         \A m \in Modality : (Polled(m)' <=> Polled(m)),
         \A m \in Modality : (Appended(m)' <=> Appended(m)) \/ ~Polled(m),
         \A m \in Modality : ~Polled(m) => batches[m].records = {},
         \A m \in Modality : Polled(m) => tickAt' = tickAt,
         \A m \in Modality : PollIs(m)'
  PROVE  TickInv'
<1>1. /\ lastPoll' = lastPoll /\ batches' = batches /\ unread' = unread
      /\ records' = records /\ watermark' = watermark /\ session' = session
      /\ seen' = seen
  BY DEF Idles, bufferVars
<1>2. Timely' <=> Timely BY <1>1, SameTellsSame
<1>3. ASSUME NEW m \in Modality PROVE SourceInv(m)'
  <2>0. SourceInv(m) BY DEF TickInv
  <2>1. BatchIs(m)' BY <1>1, <2>0 DEF SourceInv, BatchIs
  <2>2. Follows(m)' BY <1>1, <1>2, <2>0 DEF SourceInv, Follows
  <2>3. BufferOK(m)' BY <1>1, <2>0 DEF SourceInv, BufferOK
  <2> QED BY <2>1, <2>2, <2>3 DEF SourceInv
<1> QED BY <1>3 DEF TickInv

LEMMA NoBatchIsEmpty ==
  ASSUME NEW m \in Modality, BatchIs(m), ~Polled(m)
  PROVE  batches[m].records = {}
BY DEF BatchIs, NoBatch

LEMMA ClockKeeps ==
  ASSUME Settings, TickInv, ClockAdvances, startedAt' = startedAt, Tells,
         TypeOK'
  PROVE  TickInv'
<1> USE SettingsAre
<1>1. /\ UNCHANGED <<pc, tickAt, wakeAt, polledAt>> /\ Idles /\ now' = now + 1
  BY DEF ClockAdvances, Idles, loopVars
<1>2. /\ now \in Nat /\ tickAt \in Nat /\ wakeAt \in Nat
      /\ tickAt <= now /\ next' = next /\ watermark' = watermark
      /\ outbox' = outbox /\ session' = session
  BY <1>1, StateIs DEF TickInv, Clocked, Idles, bufferVars
<1>3. Clocked'
  <2>1. \/ pc = "send" /\ now < tickAt + SendSpan
        \/ pc = "sleep" /\ now < wakeAt
    BY <1>2 DEF ClockAdvances, TickInv, Clocked
  <2> QED BY <1>1, <1>2, <2>1 DEF TickInv, Clocked
<1>4. WindowOpen'
  BY <1>1, <1>2, SameTellsSame DEF TickInv, WindowOpen
<1>5. ASSUME NEW m \in Modality
      PROVE  /\ (Polled(m)' <=> Polled(m)) /\ (Appended(m)' <=> Appended(m))
             /\ PollIs(m)'
  <2>1. (Polled(m)' <=> Polled(m)) /\ (Appended(m)' <=> Appended(m))
    BY <1>1 DEF Idles, Polled, Appended
  <2>2. PollIs(m) BY DEF TickInv, SourceInv
  <2>3. PollIs(m)' BY <1>1, <2>1, <2>2 DEF PollIs, Backlog, Idles
  <2> QED BY <2>1, <2>3
<1>6. \A m \in Modality : ~Polled(m) => batches[m].records = {}
  BY NoBatchIsEmpty DEF TickInv, SourceInv
<1> QED BY <1>1, <1>3, <1>4, <1>5, <1>6, IdleKeeps

LEMMA PollBeginKeeps ==
  ASSUME Settings, TickInv, PollBegin, startedAt' = startedAt, Tells, TypeOK'
  PROVE  TickInv'
<1> USE SettingsAre
<1>1. /\ UNCHANGED <<tickAt, wakeAt, now>> /\ Idles
      /\ pc = "poll" /\ pc' = "read" /\ polledAt' = now
  BY DEF PollBegin, Idles, fileVars
<1>2. now \in Nat /\ tickAt \in Nat /\ now = tickAt /\ outbox = <<>>
  BY <1>1, StateIs DEF TickInv, Clocked
<1>3. session' = session /\ outbox' = outbox BY <1>1 DEF Idles
<1>4. Clocked' BY <1>1, <1>2, <1>3 DEF TickInv, Clocked, Idles, bufferVars
<1>5. WindowOpen'
  BY <1>1, <1>3, SameTellsSame DEF TickInv, WindowOpen
<1>6. ASSUME NEW m \in Modality
      PROVE  /\ (Polled(m)' <=> Polled(m)) /\ (Appended(m)' <=> Appended(m))
             /\ PollIs(m)'
  <2>1. (Polled(m)' <=> Polled(m)) /\ (Appended(m)' <=> Appended(m))
    BY <1>1 DEF Idles, Polled, Appended
  <2>2. PollIs(m) BY DEF TickInv, SourceInv
  <2>3. PollIs(m)' BY <1>1, <2>1, <2>2 DEF PollIs, Backlog, Idles
  <2> QED BY <2>1, <2>3
<1>7. \A m \in Modality : ~Polled(m) => batches[m].records = {}
  BY NoBatchIsEmpty DEF TickInv, SourceInv
<1> QED BY <1>1, <1>4, <1>5, <1>6, <1>7, IdleKeeps

LEMMA SleepKeeps ==
  ASSUME Settings, TickInv, Sleep, startedAt' = startedAt, Tells, TypeOK'
  PROVE  TickInv'
<1> USE SettingsAre
<1>1. /\ UNCHANGED <<tickAt, now>> /\ Idles /\ outbox = <<>>
      /\ pc = "send" /\ pc' = "sleep" /\ wakeAt' = now + LoopInterval
  BY DEF Sleep, Idles, fileVars
<1>2. /\ now \in Nat /\ tickAt \in Nat /\ tickAt <= now
      /\ now <= tickAt + SendSpan
  BY <1>1, StateIs DEF TickInv, Clocked
<1>3. session' = session /\ outbox' = outbox BY <1>1 DEF Idles
<1>4. Clocked' BY <1>1, <1>2, <1>3 DEF TickInv, Clocked, Idles, bufferVars
<1>5. WindowOpen'
  BY <1>1, <1>3, SameTellsSame DEF TickInv, WindowOpen
<1>6. ASSUME NEW m \in Modality
      PROVE  /\ (Polled(m)' <=> Polled(m)) /\ (Appended(m)' <=> Appended(m))
             /\ PollIs(m)'
  <2>1. ~Polled(m) /\ ~Polled(m)' /\ Appended(m) /\ Appended(m)'
    BY <1>1 DEF Polled, Appended
  <2>2. PollIs(m) BY DEF TickInv, SourceInv
  <2>3. lastPoll[m] = tickAt /\ lastPoll' = lastPoll /\ unread' = unread
    BY <1>1, <2>2 DEF PollIs, Idles
  <2>4. \A r \in unread[m] : lastPoll[m] <= r.ts
    BY <1>1, <2>2 DEF PollIs, Backlog
  <2>5. lastPoll[m] <= wakeAt' /\ wakeAt' <= lastPoll[m] + Cadence
    BY <1>1, <1>2, <2>3
  <2> QED BY <1>1, <2>1, <2>3, <2>4, <2>5 DEF PollIs
<1>7. \A m \in Modality : ~Polled(m) => batches[m].records = {}
  BY NoBatchIsEmpty DEF TickInv, SourceInv
<1> QED BY <1>1, <1>4, <1>5, <1>6, <1>7, IdleKeeps

LEMMA WakeKeeps ==
  ASSUME Settings, TickInv, Wake, startedAt' = startedAt, Tells, TypeOK'
  PROVE  TickInv'
<1> USE SettingsAre
<1>1. /\ UNCHANGED <<wakeAt, now>> /\ Idles /\ next = 1
      /\ pc = "sleep" /\ pc' = "poll" /\ tickAt' = now
  BY DEF Wake, Idles, fileVars, TickInv, Clocked
<1>2. /\ now \in Nat /\ tickAt \in Nat /\ wakeAt \in Nat /\ tickAt <= now
      /\ now = wakeAt
  BY <1>1, StateIs DEF TickInv, Clocked, Wake
<1>3. Clocked'
  <2>1. watermark # NoTime => watermark <= now
    BY <1>2, StateIs DEF TickInv, Clocked
  <2>2. outbox' = <<>> BY <1>1 DEF TickInv, Clocked, Idles
  <2> QED BY <1>1, <1>2, <2>1, <2>2 DEF Clocked, Idles, bufferVars
<1>4. ASSUME NEW m \in Modality
      PROVE  /\ ~Polled(m) /\ ~Polled(m)' /\ PollIs(m)'
             /\ now <= lastPoll[m] + Cadence
             /\ session # NoSession => lastPoll[m] = tickAt
  <2>1. ~Polled(m) /\ ~Polled(m)' BY <1>1 DEF Idles, Polled
  <2>2. PollIs(m) BY DEF TickInv, SourceInv
  <2>3. lastPoll[m] <= wakeAt /\ wakeAt <= lastPoll[m] + Cadence
        /\ (session # NoSession => lastPoll[m] = tickAt)
    BY <1>1, <2>2 DEF PollIs
  <2>4. lastPoll' = lastPoll /\ unread' = unread BY <1>1 DEF Idles
  <2>5. \A r \in unread[m] : lastPoll[m] <= r.ts \/ tickAt' = startedAt
    BY <1>1, <1>2, <2>2 DEF PollIs, Backlog
  <2>6. \A r \in unread'[m] : lastPoll'[m] <= r.ts \/ Backlog(m)'
    BY <1>1, <2>1, <2>4, <2>5 DEF Backlog
  <2>7. lastPoll'[m] <= tickAt' /\ tickAt' <= lastPoll'[m] + Cadence
    BY <1>1, <1>2, <2>3, <2>4
  <2> QED BY <1>1, <1>2, <2>1, <2>3, <2>6, <2>7 DEF PollIs
<1>5. WindowOpen'
  <2>1. session' = session BY <1>1 DEF Idles
  <2>2. Timely' <=> Timely BY <2>1, SameTellsSame
  <2> SUFFICES ASSUME Timely PROVE WindowOpen'
    BY <2>2 DEF WindowOpen
  <2>3. session # NoSession BY DEF Timely
  <2>4. PICK m \in Modality : TRUE BY SomeModality
  <2>5. now <= tickAt + Cadence BY <1>4, <2>3, <2>4
  <2>6. session.anchor \in Nat /\ session.anchor <= tickAt
        /\ tickAt < WindowEnd(session.anchor)
    BY <1>1, <2>3, StateIs DEF TickInv, WindowOpen
  <2>7. WindowEnd(session.anchor) \in Nat BY <2>6 DEF WindowEnd
  <2>8. session.anchor <= now /\ now < WindowEnd(session.anchor) + Cadence
    BY <1>2, <2>5, <2>6, <2>7
  <2> QED BY <1>1, <2>1, <2>8 DEF WindowOpen
<1>6. \A m \in Modality : ~Polled(m) => batches[m].records = {}
  BY NoBatchIsEmpty DEF TickInv, SourceInv
<1> QED BY <1>1, <1>2, <1>3, <1>4, <1>5, <1>6, IdleKeeps

LEMMA PollReadKeeps ==
  ASSUME Settings, TickInv, PollRead, startedAt' = startedAt, Tells, TypeOK'
  PROVE  TickInv'
<1> USE SettingsAre
<1>1. /\ pc = "read" /\ pc' \in {"poll", "append"}
      /\ now' = now /\ tickAt' = tickAt /\ wakeAt' = wakeAt
      /\ outbox' = outbox /\ session' = session
      /\ records' = records /\ watermark' = watermark
  BY DEF PollRead, bufferVars
<1>2. now = tickAt /\ polledAt = tickAt /\ outbox = <<>>
  BY <1>1 DEF TickInv, Clocked
<1>3. Source \in Modality /\ TypeOK
  BY SourceInModality DEF Source, TickInv, TypeOK
<1>4. Clocked' BY <1>1, <1>2 DEF TickInv, Clocked
<1>5. (Timely' <=> Timely) /\ WindowOpen'
  BY <1>1, SameTellsSame DEF TickInv, WindowOpen
<1>6. ASSUME NEW m \in Modality PROVE SourceInv(m)'
  <2>0. SourceInv(m) BY DEF TickInv
  <2>1. /\ ~Polled(Source) /\ (Polled(m)' <=> Polled(m) \/ m = Source)
        /\ ~Appended(m) /\ ~Appended(m)'
    <3>1. ~Polled(Source) /\ (Polled(m)' <=> Polled(m) \/ m = Source)
      BY <1>3, PollReadPolled
    <3>2. ~Appended(m) BY <1>1 DEF Appended
    <3>3. ~Appended(m)'
      <4>1. pc' = "append" => next' = 1 BY <1>1 DEF PollRead
      <4> QED BY <1>1, <4>1 DEF Appended
    <3> QED BY <3>1, <3>2, <3>3
  <2>2. CASE m # Source
    <3>1. /\ batches'[m] = batches[m] /\ lastPoll'[m] = lastPoll[m]
          /\ unread'[m] = unread[m] /\ seen'[m] = seen[m]
      BY <1>3, <2>2 DEF PollRead, TypeOK
    <3>2. Polled(m)' <=> Polled(m) BY <2>1, <2>2
    <3>3. BatchIs(m)' BY <1>1, <2>0, <3>1, <3>2 DEF SourceInv, BatchIs
    <3>4. PollIs(m)'
      <4>1. Backlog(m) => Backlog(m)'
        <5>1. pc' = "append" => Polled(m)' BY DEF Polled
        <5> QED BY <1>1, <3>2, <5>1 DEF Backlog
      <4> QED BY <1>1, <2>0, <3>1, <3>2, <4>1 DEF SourceInv, PollIs
    <3>5. Follows(m)' BY <1>1, <1>5, <2>0, <3>1, <3>2 DEF SourceInv, Follows
    <3>6. BufferOK(m)' BY <1>1, <2>0, <2>1, <3>1, <3>2 DEF SourceInv, BufferOK
    <3> QED BY <3>3, <3>4, <3>5, <3>6 DEF SourceInv
  <2>3. CASE m = Source
    <3>1. /\ batches'[m] = [modality |-> m, from |-> lastPoll[m],
                            until |-> tickAt, records |-> unread[m],
                            present |-> hasFile[m]]
          /\ lastPoll'[m] = tickAt
          /\ unread'[m] = {} /\ seen'[m] = seen[m] \cup unread[m]
      BY <1>2, <1>3, <2>3 DEF PollRead, TypeOK
    <3>2. /\ ~Polled(m) /\ Polled(m)'
          /\ batches'[m].records = unread[m] /\ batches[m].records = {}
      BY <2>0, <2>1, <2>3, <3>1, NoBatchIsEmpty DEF SourceInv
    <3>3. BatchIs(m)'
      <4>1. /\ lastPoll[m] \in Time /\ tickAt \in Time
            /\ unread[m] \in SUBSET Record /\ hasFile[m] \in BOOLEAN
        BY <1>3 DEF TypeOK
      <4>2. batches'[m] \in Batch BY <3>1, <4>1 DEF Batch
      <4>3. batches'[m].modality = m /\ batches'[m].until = tickAt BY <3>1
      <4> QED BY <1>1, <3>2, <4>2, <4>3 DEF BatchIs
    <3>4. PollIs(m)' BY <1>1, <3>1, <3>2 DEF PollIs
    <3>5. Follows(m)' BY <1>1, <1>5, <2>0, <3>1, <3>2 DEF SourceInv, Follows
    <3>6. BufferOK(m)' BY <1>1, <2>0, <2>1, <3>1, <3>2 DEF SourceInv, BufferOK
    <3> QED BY <3>3, <3>4, <3>5, <3>6 DEF SourceInv
  <2> QED BY <2>2, <2>3
<1> QED BY <1>4, <1>5, <1>6 DEF TickInv

(* An append observes the instant of its tick.                             *)
LEMMA AppendObserves ==
  ASSUME TickInv, Append1
  PROVE  /\ Source \in Modality /\ tickAt \in Nat
         /\ watermark # NoTime => watermark \in Nat /\ watermark <= tickAt
         /\ watermark' = tickAt /\ watermark' # NoTime
<1>1. Source \in Modality /\ TypeOK /\ tickAt \in Nat
  BY SourceInModality, StateIs DEF Source, TickInv, TypeOK
<1>2. Polled(Source) BY DEF Polled, Append1
<1>3. batches[Source].until = tickAt
  BY <1>1, <1>2 DEF TickInv, SourceInv, BatchIs
<1>4. watermark # NoTime => watermark \in Nat /\ watermark <= tickAt
  BY <1>1, StateIs DEF TickInv, Clocked
<1>5. watermark' = NewWatermark(batches[Source])
  BY DEF Append1, AppendBatch
<1>6. watermark' = tickAt BY <1>1, <1>3, <1>4, <1>5 DEF NewWatermark
<1> QED BY <1>1, <1>4, <1>6, BufferAssumption

LEMMA AppendKeeps ==
  ASSUME Settings, TickInv, Append1, startedAt' = startedAt, Tells, TypeOK'
  PROVE  TickInv'
<1> USE SettingsAre
<1>1. /\ pc = "append" /\ pc' \in {"append", "finalize"}
      /\ pc' = "finalize" => next' = 1
      /\ now' = now /\ tickAt' = tickAt /\ wakeAt' = wakeAt
      /\ lastPoll' = lastPoll /\ batches' = batches
      /\ outbox' = outbox /\ unread' = unread
      /\ session' = session /\ seen' = seen
  BY DEF Append1, fileVars
<1>2. now = tickAt /\ outbox = <<>> BY <1>1 DEF TickInv, Clocked
<1>3. Source \in Modality /\ TypeOK /\ tickAt \in Nat
  BY SourceInModality, StateIs DEF Source, TickInv, TypeOK
<1>4. \A m \in Modality : Polled(m) /\ Polled(m)' BY <1>1 DEF Polled
<1>5. batches[Source].modality = Source /\ batches[Source].until = tickAt
  BY <1>3, <1>4 DEF TickInv, SourceInv, BatchIs
<1>6. watermark # NoTime => watermark \in Nat /\ watermark <= tickAt
  BY AppendObserves
<1>7. watermark' = tickAt /\ watermark' # NoTime BY AppendObserves
<1>8. \A m \in Modality : records'[m] =
        KeptRecords(records[m] \cup
                      (IF m = Source THEN batches[Source].records ELSE {}),
                    tickAt)
  <2>1. watermark' = NewWatermark(batches[Source])
    BY DEF Append1, AppendBatch
  <2>2. NewWatermark(batches[Source]) = tickAt BY <1>7, <2>1
  <2> QED BY <1>5, <2>2 DEF Append1, AppendBatch
<1>9. Clocked' BY <1>1, <1>2, <1>7, <1>3 DEF TickInv, Clocked
<1>10. (Timely' <=> Timely) /\ WindowOpen'
  BY <1>1, SameTellsSame DEF TickInv, WindowOpen
<1>11. ASSUME NEW m \in Modality PROVE SourceInv(m)'
  <2>0. SourceInv(m) BY DEF TickInv
  <2>1. /\ ~Appended(Source) /\ (Appended(m)' <=> Appended(m) \/ m = Source)
        /\ Polled(m) /\ Polled(m)'
    BY <1>3, Append1Appended
  <2>2. BatchIs(m)' BY <1>1, <2>0, <2>1 DEF SourceInv, BatchIs
  <2>3. PollIs(m)' BY <1>1, <2>0, <2>1 DEF SourceInv, PollIs, Backlog
  <2>4. Follows(m)' BY <1>1, <1>10, <2>0, <2>1 DEF SourceInv, Follows
  <2>5. BufferOK(m)'
    <3>1. \A q \in seen[m] : q.ts \in Nat BY <1>3, StateIs
    <3>2. BufferOK(m) BY <2>0 DEF SourceInv
    <3>3. /\ records[m] \subseteq seen[m] /\ batches[m].records \subseteq seen[m]
      BY <2>1, <3>2 DEF BufferOK
    <3>4. records'[m] \subseteq seen'[m]
      BY <1>1, <1>8, <3>3 DEF KeptRecords
    <3>5. batches'[m].until <= watermark'
      BY <1>1, <1>3, <1>7, <2>0, <2>1 DEF SourceInv, BatchIs
    <3>6. ASSUME NEW q \in seen[m]
          PROVE  \/ q \in records'[m]
                 \/ ~Appended(m)' /\ q \in batches'[m].records
                 \/ q.ts < Threshold(tickAt)
      <4>1. CASE q \in records[m]
        BY <1>3, <1>8, <3>1, <4>1 DEF KeptRecords, Threshold
      <4>2. CASE ~Appended(m) /\ q \in batches[m].records
        BY <1>1, <1>3, <1>8, <2>1, <3>1, <4>2 DEF KeptRecords, Threshold
      <4>3. CASE watermark # NoTime /\ q.ts < Threshold(watermark)
        BY <1>3, <1>6, <3>1, <4>3 DEF Threshold
      <4> QED BY <3>2, <4>1, <4>2, <4>3 DEF BufferOK
    <3> QED BY <1>1, <1>7, <2>1, <3>3, <3>4, <3>5, <3>6 DEF BufferOK
  <2> QED BY <2>2, <2>3, <2>4, <2>5 DEF SourceInv
<1> QED BY <1>9, <1>10, <1>11 DEF TickInv

(* When the sources have been polled and appended, the buffer has observed *)
(* the instant of the tick.                                                *)
LEMMA ObservedIs ==
  ASSUME TickInv, pc \in {"finalize", "evaluate"}
  PROVE  /\ now = tickAt /\ watermark = tickAt /\ tickAt \in Nat
         /\ \A m \in Modality :
              /\ Polled(m) /\ Appended(m)
              /\ batches[m].until = tickAt /\ lastPoll[m] = tickAt
              /\ \A r \in unread[m] : tickAt <= r.ts
<1>1. TypeOK /\ tickAt \in Nat /\ now = tickAt
  BY StateIs DEF TickInv, Clocked
<1>2. ASSUME NEW m \in Modality
      PROVE  /\ Polled(m) /\ Appended(m)
             /\ batches[m].until = tickAt /\ lastPoll[m] = tickAt
             /\ \A r \in unread[m] : tickAt <= r.ts
             /\ watermark # NoTime /\ tickAt <= watermark
  <2>1. Polled(m) /\ Appended(m) BY DEF Polled, Appended
  <2>2. BatchIs(m) /\ PollIs(m) /\ BufferOK(m) BY DEF TickInv, SourceInv
  <2>3. batches[m].until = tickAt BY <2>1, <2>2 DEF BatchIs
  <2>4. lastPoll[m] = tickAt BY <2>1, <2>2 DEF PollIs
  <2>5. \A r \in unread[m] : tickAt <= r.ts
    BY <2>2, <2>4 DEF PollIs, Backlog
  <2>6. watermark # NoTime /\ tickAt <= watermark
    BY <2>1, <2>2, <2>3 DEF BufferOK
  <2> QED BY <2>1, <2>3, <2>4, <2>5, <2>6
<1>3. PICK m \in Modality : TRUE BY SomeModality
<1>4. watermark # NoTime /\ tickAt <= watermark BY <1>2, <1>3
<1>5. watermark <= tickAt /\ watermark \in Nat
  BY <1>1, <1>4, StateIs DEF TickInv, Clocked
<1>6. watermark = tickAt BY <1>1, <1>4, <1>5
<1> QED BY <1>1, <1>2, <1>6

(* What the buffer still holds is all that was seen.                       *)
LEMMA SeenIsKept ==
  ASSUME TickInv, pc \in {"finalize", "evaluate"}, NEW m \in Modality,
         NEW start \in Int, NEW end \in Int, tickAt - RetentionSec <= start
  PROVE  Span(records[m], start, end) = Span(seen[m], start, end)
<1>1. watermark = tickAt /\ tickAt \in Nat /\ Appended(m) BY ObservedIs
<1>2. BufferOK(m) /\ TypeOK BY DEF TickInv, SourceInv
<1>3. records[m] \subseteq seen[m] BY <1>2 DEF BufferOK
<1>4. ASSUME NEW r \in seen[m], start <= r.ts PROVE r \in records[m]
  <2>1. r.ts \in Nat BY <1>2, StateIs
  <2>2. ~(r.ts < Threshold(watermark))
    BY <1>1, <1>4, <2>1, BufferAssumption DEF Threshold
  <2> QED BY <1>1, <1>2, <2>2 DEF BufferOK
<1> QED BY <1>3, <1>4 DEF Span

(* What a finalize does at the instant of its tick.                        *)
LEMMA FinalizeIs ==
  ASSUME TickInv, Finalize
  PROVE  /\ pc = "finalize" /\ pc' = "evaluate" /\ next' = next
         /\ now' = now /\ tickAt' = tickAt /\ wakeAt' = wakeAt
         /\ lastPoll' = lastPoll /\ batches' = batches /\ unread' = unread
         /\ records' = records /\ watermark' = watermark /\ seen' = seen
         /\ now = tickAt /\ watermark = tickAt /\ tickAt \in Nat
         /\ outbox = <<>>
         /\ outbox' = Bundles(tickAt) /\ FinalizeReady(tickAt)
         /\ detectSince' = IF Ready(tickAt) THEN WindowEnd(session.anchor)
                                            ELSE detectSince
<1>1. /\ pc = "finalize" /\ pc' = "evaluate" /\ next' = next
      /\ now' = now /\ tickAt' = tickAt /\ wakeAt' = wakeAt
      /\ lastPoll' = lastPoll /\ batches' = batches /\ unread' = unread
      /\ records' = records /\ watermark' = watermark /\ seen' = seen
  BY DEF Finalize, fileVars, bufferVars
<1>2. /\ now = tickAt /\ watermark = tickAt /\ tickAt \in Nat
      /\ \A m \in Modality : batches[m].until = tickAt
  BY <1>1, ObservedIs
<1>3. outbox = <<>> BY <1>1 DEF TickInv, Clocked
<1>4. /\ outbox' = Bundles(tickAt) /\ FinalizeReady(tickAt)
      /\ detectSince' = IF Ready(tickAt) THEN WindowEnd(session.anchor)
                                         ELSE detectSince
  BY <1>2 DEF Finalize
<1> QED BY <1>1, <1>2, <1>3, <1>4

LEMMA FinalizeKeeps ==
  ASSUME Settings, TickInv, Finalize, startedAt' = startedAt, Tells, TypeOK'
  PROVE  TickInv'
<1>1. /\ pc = "finalize" /\ pc' = "evaluate" /\ next' = next
      /\ now' = now /\ tickAt' = tickAt /\ wakeAt' = wakeAt
      /\ lastPoll' = lastPoll /\ batches' = batches /\ unread' = unread
      /\ records' = records /\ watermark' = watermark /\ seen' = seen
      /\ now = tickAt /\ watermark = tickAt /\ tickAt \in Nat
      /\ FinalizeReady(tickAt)
  BY FinalizeIs
<1>2. Clocked' BY <1>1 DEF TickInv, Clocked
<1>3. Timely' => Timely /\ session' = session /\ ~Ready(tickAt)
  BY <1>1 DEF FinalizeReady, Timely, Tells
<1>4. WindowOpen'
  <2> SUFFICES ASSUME Timely' PROVE WindowOpen' BY DEF WindowOpen
  <2>1. session.anchor \in Nat BY <1>3, StateIs DEF TickInv, Timely
  <2>2. WindowEnd(session.anchor) \in Nat BY <2>1, SettingsAre DEF WindowEnd
  <2>3. tickAt < WindowEnd(session.anchor)
    BY <1>1, <1>3, <2>2 DEF Ready, Timely
  <2> QED BY <1>1, <1>3, <2>3 DEF TickInv, WindowOpen
<1>5. ASSUME NEW m \in Modality PROVE SourceInv(m)'
  <2>0. SourceInv(m) BY DEF TickInv
  <2>1. Polled(m) /\ Polled(m)' /\ Appended(m) /\ Appended(m)'
    BY <1>1 DEF Polled, Appended
  <2>2. BatchIs(m)' BY <1>1, <2>0, <2>1 DEF SourceInv, BatchIs
  <2>3. PollIs(m)' BY <1>1, <2>0, <2>1 DEF SourceInv, PollIs, Backlog
  <2>4. Follows(m)' BY <1>1, <1>3, <2>0, <2>1 DEF SourceInv, Follows
  <2>5. BufferOK(m)' BY <1>1, <2>0, <2>1 DEF SourceInv, BufferOK
  <2> QED BY <2>2, <2>3, <2>4, <2>5 DEF SourceInv
<1> QED BY <1>2, <1>4, <1>5 DEF TickInv

(* A capture that opens in its time covers it; one in progress goes on.    *)
LEMMA EvaluateKeeps ==
  ASSUME Settings, TickInv, EvaluateAndRegister, startedAt' = startedAt,
         Tells, TypeOK'
  PROVE  TickInv'
<1>1. /\ pc = "evaluate" /\ pc' = "send" /\ next' = next
      /\ now' = now /\ tickAt' = tickAt /\ wakeAt' = wakeAt
      /\ lastPoll' = lastPoll /\ unread' = unread /\ seen' = seen
      /\ outbox' = outbox /\ records' = records /\ watermark' = watermark
      /\ batches' = [m \in Modality |-> NoBatch]
  BY DEF EvaluateAndRegister, fileVars, bufferVars
<1>2. /\ now = tickAt /\ watermark = tickAt /\ tickAt \in Nat
      /\ \A m \in Modality :
           /\ Polled(m) /\ Appended(m) /\ lastPoll[m] = tickAt
           /\ \A r \in unread[m] : tickAt <= r.ts
  BY <1>1, ObservedIs
<1>3. \A m \in Modality : ~Polled(m)' BY <1>1 DEF Polled
<1>4. Clocked' BY <1>1, <1>2, SettingsAre DEF TickInv, Clocked
<1>5. ASSUME Timely'
      PROVE  /\ session'.anchor \in Nat
             /\ session'.anchor <= tickAt /\ tickAt < WindowEnd(session'.anchor)
  <2>1. session'.anchor \in Nat
    BY <1>5, TimeInNat DEF TypeOK, IsSession, Timely
  <2>2. CASE session = NoSession
    BY <1>2, <1>5, <2>1, <2>2 DEF Tells, Timely
  <2>3. CASE session # NoSession
    <3>1. session'.anchor = session.anchor
      BY <2>3, AbsorbKeepsAnchor DEF TickInv
    <3>2. Timely BY <1>5, <2>3 DEF Tells, Timely
    <3> QED BY <1>1, <2>1, <3>1, <3>2 DEF TickInv, WindowOpen
  <2> QED BY <2>2, <2>3
<1>6. WindowOpen'
  <2> SUFFICES ASSUME Timely' PROVE WindowOpen' BY DEF WindowOpen
  <2>1. WindowEnd(session'.anchor) \in Nat BY <1>5, SettingsAre DEF WindowEnd
  <2>2. tickAt < WindowEnd(session'.anchor) + Cadence
    BY <1>2, <1>5, <2>1, SettingsAre
  <2> QED BY <1>1, <1>5, <2>2 DEF WindowOpen
<1>7. ASSUME NEW m \in Modality PROVE SourceInv(m)'
  <2>0. SourceInv(m) BY DEF TickInv
  <2>1. Polled(m) /\ ~Polled(m)' /\ Appended(m) /\ Appended(m)'
    BY <1>1, <1>2, <1>3 DEF Appended
  <2>2. BatchIs(m)' BY <1>1, <2>1 DEF BatchIs
  <2>3. PollIs(m)'
    <3>1. lastPoll'[m] = tickAt' /\ \A r \in unread'[m] : lastPoll'[m] <= r.ts
      BY <1>1, <1>2
    <3> QED BY <1>1, <3>1 DEF PollIs
  <2>4. Follows(m)'
    <3> SUFFICES ASSUME Timely', NEW r \in unread[m]
                 PROVE  session'.anchor <= r.ts
      BY <1>1, <2>1 DEF Follows
    <3>1. r.ts \in Nat /\ tickAt <= r.ts BY <1>2, StateIs DEF TickInv
    <3> QED BY <1>2, <1>5, <3>1
  <2>5. BufferOK(m)' BY <1>1, <2>0, <2>1 DEF SourceInv, BufferOK
  <2> QED BY <2>2, <2>3, <2>4, <2>5 DEF SourceInv
<1> QED BY <1>4, <1>6, <1>7 DEF TickInv

LEMMA SendKeeps ==
  ASSUME TickInv, Send, startedAt' = startedAt, Tells, TypeOK'
  PROVE  TickInv' /\ outbox' = <<>>
<1>1. /\ pc = "send" /\ pc' = "send" /\ next' = next
      /\ now' = now /\ tickAt' = tickAt /\ wakeAt' = wakeAt
      /\ lastPoll' = lastPoll /\ unread' = unread /\ seen' = seen
      /\ session' = session
      /\ batches' = batches /\ records' = records /\ watermark' = watermark
      /\ outbox # <<>> /\ outbox' = Tail(outbox)
  BY DEF Send, fileVars, bufferVars
<1>2. outbox' = <<>>
  <2>1. outbox = <<outbox[1]>> BY <1>1 DEF TickInv, TypeOK
  <2>2. \A b : Tail(<<b>>) = <<>> OBVIOUS
  <2> QED BY <1>1, <2>1, <2>2
<1>3. Clocked' BY <1>1, <1>2 DEF TickInv, Clocked
<1>4. (Timely' <=> Timely) /\ WindowOpen'
  BY <1>1, SameTellsSame DEF TickInv, WindowOpen
<1>5. ASSUME NEW m \in Modality PROVE SourceInv(m)'
  <2>0. SourceInv(m) BY DEF TickInv
  <2>1. ~Polled(m) /\ ~Polled(m)' /\ Appended(m) /\ Appended(m)'
    BY <1>1 DEF Polled, Appended
  <2>2. BatchIs(m)' BY <1>1, <2>0, <2>1 DEF SourceInv, BatchIs
  <2>3. PollIs(m)' BY <1>1, <2>0, <2>1 DEF SourceInv, PollIs, Backlog
  <2>4. Follows(m)' BY <1>1, <1>4, <2>0, <2>1 DEF SourceInv, Follows
  <2>5. BufferOK(m)' BY <1>1, <2>0, <2>1 DEF SourceInv, BufferOK
  <2> QED BY <2>2, <2>3, <2>4, <2>5 DEF SourceInv
<1> QED BY <1>2, <1>3, <1>4, <1>5 DEF TickInv

(* A new process begins with empty hands, and reads what there is.         *)
LEMMA CrashKeeps ==
  ASSUME Settings, TickInv, NEW down \in 0 .. MaxDown, Crash(down), TypeOK'
  PROVE  TickInv'
<1> USE SettingsAre
<1>1. /\ pc' = "sleep" /\ next' = 1 /\ now' = now /\ tickAt' = 0
      /\ wakeAt' = now + down /\ startedAt' = now + down
      /\ outbox' = <<>> /\ session' = NoSession /\ watermark' = NoTime
  BY DEF Crash
<1>2. now \in Nat /\ down \in Nat
  BY StateIs, DeploymentAssumption DEF TickInv
<1>3. Clocked' BY <1>1, <1>2 DEF Clocked
<1>4. ~Timely' BY <1>1 DEF Timely
<1>5. ASSUME NEW m \in Modality PROVE SourceInv(m)'
  <2>1. /\ lastPoll'[m] = now + down /\ batches'[m] = NoBatch
        /\ records'[m] = {} /\ seen'[m] = {}
    BY DEF Crash
  <2>2. ~Polled(m)' /\ Backlog(m)' BY <1>1 DEF Polled, Backlog
  <2>3. BatchIs(m)' BY <2>1, <2>2 DEF BatchIs
  <2>4. lastPoll'[m] <= wakeAt' /\ wakeAt' <= lastPoll'[m] + Cadence
    BY <1>1, <1>2, <2>1
  <2>5. PollIs(m)' BY <1>1, <2>2, <2>4 DEF PollIs
  <2>6. BufferOK(m)' BY <2>1, <2>2 DEF BufferOK
  <2> QED BY <1>4, <2>3, <2>5, <2>6 DEF SourceInv, Follows
<1> QED BY <1>3, <1>4, <1>5 DEF TickInv, WindowOpen

(* The types also hold of records ahead of the clock and of a new process. *)
LEMMA ArriveTypes ==
  ASSUME TypeOK, NEW m \in Modality, NEW r \in Record, WriteAhead(m, r)
  PROVE  TypeOK'
<1>1. /\ UNCHANGED <<now, loopVars, bufferVars, session, seen, shipped>>
      /\ unread' = [unread EXCEPT ![m] = @ \cup {r}]
      /\ hasFile' = [hasFile EXCEPT ![m] = TRUE]
  BY DEF WriteAhead
<1>2. unread' \in [Modality -> SUBSET Record]
  BY <1>1 DEF TypeOK
<1>3. hasFile' \in [Modality -> BOOLEAN] BY <1>1 DEF TypeOK
<1> QED BY <1>1, <1>2, <1>3 DEF TypeOK, loopVars, bufferVars

LEMMA CrashTypes ==
  ASSUME TypeOK, NEW down \in 0 .. MaxDown, Crash(down)
  PROVE  TypeOK'
<1>1. /\ now \in Nat /\ down \in Nat /\ now + down <= MaxTime
      /\ MaxTime \in Nat /\ LoopInterval \in Nat
  BY TimesInNat, DeploymentAssumption, RunnerAssumption DEF Crash
<1>2. now + down \in Time /\ 0 \in Time /\ now + down \in 0 .. MaxTime + LoopInterval
  BY <1>1 DEF Time
<1>3. 1 \in 1 .. Len(Sources) BY RunnerAssumption
<1>4. unread' \in [Modality -> SUBSET Record]
  BY DEF Crash, Reread, TypeOK
<1>5. /\ records' \in [Modality -> SUBSET Record]
      /\ seen' \in [Modality -> SUBSET Record]
      /\ history' \in [Modality -> SUBSET Coverage]
      /\ batches' \in [Modality -> Batch \cup {NoBatch}]
  BY DEF Crash
<1>6. lastPoll' \in [Modality -> Time] BY <1>2 DEF Crash
<1>7. /\ pc' = "sleep" /\ next' = 1 /\ now' = now /\ tickAt' = 0
      /\ polledAt' = 0 /\ wakeAt' = now + down
      /\ outbox' = <<>> /\ detectSince' = NoTime /\ session' = NoSession
      /\ watermark' = NoTime /\ hasFile' = hasFile /\ shipped' = shipped
  BY DEF Crash
<1> QED BY <1>2, <1>3, <1>4, <1>5, <1>6, <1>7 DEF TypeOK

LEMMA QuietKeeps ==
  ASSUME TickInv, UNCHANGED <<vars, startedAt>>, Tells, TypeOK'
  PROVE  TickInv'
<1>1. /\ UNCHANGED <<pc, now, tickAt, wakeAt, polledAt>> /\ Idles
  BY DEF Idles, vars, loopVars, fileVars
<1>2. session' = session BY <1>1 DEF Idles
<1>3. Clocked' BY <1>1 DEF TickInv, Clocked, Idles, bufferVars
<1>4. WindowOpen' BY <1>1, <1>2, SameTellsSame DEF TickInv, WindowOpen
<1>5. ASSUME NEW m \in Modality
      PROVE  /\ (Polled(m)' <=> Polled(m)) /\ (Appended(m)' <=> Appended(m))
             /\ PollIs(m)'
  <2>1. (Polled(m)' <=> Polled(m)) /\ (Appended(m)' <=> Appended(m))
    BY <1>1 DEF Idles, Polled, Appended
  <2>2. PollIs(m) BY DEF TickInv, SourceInv
  <2>3. startedAt' = startedAt OBVIOUS
  <2>4. PollIs(m)' BY <1>1, <2>1, <2>2, <2>3 DEF PollIs, Backlog, Idles
  <2> QED BY <2>1, <2>4
<1>6. \A m \in Modality : ~Polled(m) => batches[m].records = {}
  BY NoBatchIsEmpty DEF TickInv, SourceInv
<1> QED BY <1>1, <1>3, <1>4, <1>5, <1>6, IdleKeeps

LEMMA DeployedTypeStep == TypeOK /\ [DNext]_allVars => TypeOK'
<1> SUFFICES ASSUME TypeOK, [DNext]_allVars PROVE TypeOK' OBVIOUS
<1>1. CASE [Next]_vars BY <1>1, TypeStep
<1>2. ASSUME NEW m \in Modality, NEW r \in Record, WriteAhead(m, r)
      PROVE  TypeOK'
  BY <1>2, ArriveTypes
<1>3. ASSUME NEW down \in 0 .. MaxDown, Crash(down) PROVE TypeOK'
  BY <1>3, CrashTypes
<1>4. Observing => [Next]_vars \/ \E m \in Modality, r \in Record : WriteAhead(m, r)
  BY DEF Observing, Next, Tick
<1>5. (\E a : Return(a)) => [Next]_vars BY DEF Return, Next, Tick
<1>6. Post \/ (\E k : Take(k)) \/ UNCHANGED allVars => [Next]_vars
  BY DEF Post, Take, allVars
<1> QED BY <1>1, <1>2, <1>3, <1>4, <1>5, <1>6 DEF DNext

LEMMA TickInit ==
  ASSUME Settings, DInit
  PROVE  TickInv
<1> USE SettingsAre
<1>1. Init /\ TypeOK BY TypeInit DEF DInit
<1>2. /\ pc = "poll" /\ next = 1 /\ now = 0 /\ tickAt = 0 /\ wakeAt = 0
      /\ outbox = <<>> /\ session = NoSession /\ watermark = NoTime
  BY <1>1 DEF Init, BufferInit, SnapshotInit
<1>3. Clocked BY <1>2 DEF Clocked
<1>4. ~Timely BY <1>2 DEF Timely
<1>5. ASSUME NEW m \in Modality PROVE SourceInv(m)
  <2>1. /\ lastPoll[m] = 0 /\ batches[m] = NoBatch /\ unread[m] = {}
        /\ records[m] = {} /\ seen[m] = {}
    BY <1>1 DEF Init, BufferInit
  <2>2. ~Polled(m) BY <1>2 DEF Polled
  <2>3. BatchIs(m) BY <2>1, <2>2 DEF BatchIs
  <2>4. PollIs(m) BY <1>2, <2>1, <2>2 DEF PollIs
  <2>5. BufferOK(m) BY <2>1, <2>2 DEF BufferOK
  <2> QED BY <1>4, <2>3, <2>4, <2>5 DEF SourceInv, Follows
<1> QED BY <1>1, <1>3, <1>4, <1>5 DEF TickInv, WindowOpen

(* The steps a process takes by itself, and those of its sends. *)
Runs ==
  /\ Observing /\ startedAt' = startedAt
  /\ astray' = IF session = NoSession THEN OutOfTime(session') ELSE astray
  /\ excepted' = excepted \cup ReadEarly \cup LookedAt
  /\ posts' = posts

Rests == UNCHANGED <<vars, startedAt, astray, excepted>>

Sends == Send /\ UNCHANGED <<startedAt, astray, excepted>>

LEMMA StepIs ==
  ASSUME [DNext]_allVars
  PROVE  \/ Runs
         \/ Rests /\ (Post \/ (\E k \in 1 .. Len(posts) : Take(k))
                        \/ UNCHANGED posts)
         \/ Sends /\ Awaiting /\ \E a : Return(a)
         \/ \E down \in 0 .. MaxDown : Crash(down)
<1>1. Post => Rests BY DEF Post, Rests
<1>2. (\E k : Take(k)) => Rests BY DEF Take, Rests
<1>3. (\E a : Return(a)) => Sends BY DEF Return, Sends
<1>4. UNCHANGED allVars => Rests /\ UNCHANGED posts
  BY DEF allVars, deployed, Rests
<1> QED BY <1>1, <1>2, <1>3, <1>4 DEF DNext, Runs

LEMMA StepTells == Runs \/ Rests \/ Sends => Tells
<1>1. Runs => Tells BY ObservingTells DEF Runs
<1>2. Rests => session' = session /\ astray' = astray BY DEF Rests, vars
<1>3. Sends => session' = session /\ astray' = astray BY DEF Sends, Send
<1> QED BY <1>1, <1>2, <1>3 DEF Tells

LEMMA TickStep ==
  ASSUME Settings, TickInv, [DNext]_allVars
  PROVE  TickInv'
<1>1. TypeOK' BY DeployedTypeStep DEF TickInv
<1>2. CASE Runs
  <2>0. Observing /\ startedAt' = startedAt /\ Tells
    BY <1>2, StepTells DEF Runs
  <2>1. ASSUME NEW m \in Modality, NEW r \in Record,
               Write(m, r) \/ WriteAhead(m, r)
        PROVE  TickInv'
    <3>1. Arrives(m, r) BY <2>1, WritesArrive DEF TickInv
    <3> QED BY <1>1, <2>0, <3>1, ArriveKeeps
  <2>2. CASE ClockAdvances BY <1>1, <2>0, <2>2, ClockKeeps
  <2>3. CASE PollBegin BY <1>1, <2>0, <2>3, PollBeginKeeps
  <2>4. CASE PollRead BY <1>1, <2>0, <2>4, PollReadKeeps
  <2>5. CASE Append1 BY <1>1, <2>0, <2>5, AppendKeeps
  <2>6. CASE Finalize BY <1>1, <2>0, <2>6, FinalizeKeeps
  <2>7. CASE EvaluateAndRegister BY <1>1, <2>0, <2>7, EvaluateKeeps
  <2>8. CASE Sleep BY <1>1, <2>0, <2>8, SleepKeeps
  <2>9. CASE Wake BY <1>1, <2>0, <2>9, WakeKeeps
  <2>10. CASE Horizon
    <3>1. UNCHANGED <<vars, startedAt>> BY <2>0, <2>10 DEF Horizon
    <3> QED BY <1>1, <2>0, <3>1, QuietKeeps
  <2> QED BY <2>0, <2>1, <2>2, <2>3, <2>4, <2>5, <2>6, <2>7, <2>8, <2>9, <2>10
          DEF Observing
<1>3. CASE Rests
  BY <1>1, <1>3, StepTells, QuietKeeps DEF Rests
<1>4. CASE Sends
  BY <1>1, <1>4, StepTells, SendKeeps DEF Sends
<1>5. ASSUME NEW down \in 0 .. MaxDown, Crash(down) PROVE TickInv'
  BY <1>1, <1>5, CrashKeeps
<1> QED BY <1>2, <1>3, <1>4, <1>5, StepIs

-----------------------------------------------------------------------------
(* What a tick does to what the detectors are bounded by.                  *)

(* Steps that neither read, open, close nor send. *)
Steady ==
  /\ UNCHANGED <<session, outbox, detectSince, seen, startedAt>>
  /\ tickAt <= tickAt'
  /\ excepted \subseteq excepted'
  /\ pc = "evaluate" => pc' = "evaluate"
  /\ \A m \in Modality :
       /\ \A r \in unread'[m] : r \in unread[m] \/ tickAt <= r.ts
       /\ Polled(m)' <=> Polled(m)
       /\ Polled(m) => batches'[m] = batches[m] /\ tickAt' = tickAt

LEMMA RunIsSteady ==
  ASSUME Settings, TickInv, Runs,
         ~PollRead, ~Finalize, ~EvaluateAndRegister
  PROVE  Steady
<1>0. /\ TypeOK /\ Clocked /\ Observing /\ startedAt' = startedAt
      /\ excepted \subseteq excepted' /\ tickAt \in Nat /\ now \in Nat
      /\ tickAt <= now
  BY StateIs DEF TickInv, Clocked, Runs
<1>1. ASSUME NEW n \in Modality, NEW r \in Record,
             Write(n, r) \/ WriteAhead(n, r)
      PROVE  Steady
  <2>1. Arrives(n, r) BY <1>0, <1>1, WritesArrive
  <2>2. \A m \in Modality : \A q \in unread'[m] :
          q \in unread[m] \/ tickAt <= q.ts
    BY <1>0, <2>1, ArrivalIsYoung
  <2> QED BY <1>0, <2>1, <2>2 DEF Arrives, loopVars, Steady, Polled
<1>2. CASE ClockAdvances
  BY <1>0, <1>2 DEF ClockAdvances, loopVars, Steady, Polled
<1>3. CASE PollBegin
  BY <1>0, <1>3 DEF PollBegin, fileVars, Steady, Polled
<1>4. CASE Append1
  BY <1>0, <1>4 DEF Append1, fileVars, Steady, Polled
<1>5. CASE Sleep BY <1>0, <1>5 DEF Sleep, fileVars, Steady, Polled
<1>6. CASE Wake
  <2>1. ~(\E i \in 1 .. next - 1 : TRUE) BY <1>0, <1>6 DEF Wake, Clocked
  <2> QED BY <1>0, <1>6, <2>1 DEF Wake, fileVars, Steady, Polled
<1>7. CASE Horizon
  BY <1>0, <1>7 DEF Horizon, vars, loopVars, fileVars, Steady, Polled
<1> QED BY <1>0, <1>1, <1>2, <1>3, <1>4, <1>5, <1>6, <1>7 DEF Observing

LEMMA RestIsSteady ==
  ASSUME TypeOK, Rests
  PROVE  Steady
<1>1. tickAt \in Nat BY StateIs
<1> QED BY <1>1 DEF Rests, vars, loopVars, fileVars, Steady, Polled

LEMMA BoundedStays ==
  ASSUME TickInv, TypeOK', NEW m \in Modality, Bounded(m),
         \/ Steady \/ PollRead \/ EvaluateAndRegister \/ Send
         \/ \E down : Crash(down)
  PROVE  Bounded(m)'
<1>1. /\ TypeOK /\ Clocked /\ tickAt \in Nat /\ tickAt' \in Nat
      /\ detectSince # NoTime => detectSince \in Nat
      /\ \A r \in unread'[m] : r.ts \in Nat
  BY StateIs, TimeInNat DEF TickInv, TypeOK, Record
<1>2. CASE Steady
  <2>1. /\ detectSince' = detectSince /\ outbox' = outbox
        /\ tickAt <= tickAt' /\ (pc = "evaluate" => pc' = "evaluate")
        /\ \A r \in unread'[m] : r \in unread[m] \/ tickAt <= r.ts
        /\ Polled(m)' => Polled(m) /\ batches'[m] = batches[m]
    BY <1>2 DEF Steady
  <2> SUFFICES ASSUME detectSince # NoTime PROVE Bounded(m)'
    BY <2>1 DEF Bounded
  <2>2. detectSince <= tickAt /\ \A r \in unread[m] : detectSince <= r.ts
    BY DEF Bounded
  <2>3. detectSince <= tickAt' /\ \A r \in unread'[m] : detectSince <= r.ts
    BY <1>1, <2>1, <2>2
  <2> QED BY <2>1, <2>3 DEF Bounded, InOutbox
<1>3. CASE PollRead
  <2>1. /\ pc = "read" /\ tickAt' = tickAt /\ detectSince' = detectSince
    BY <1>3 DEF PollRead
  <2>2. Source \in Modality BY <1>1, SourceInModality DEF Source, TypeOK
  <2>3. Polled(m)' <=> Polled(m) \/ m = Source
    BY <1>1, <1>3, PollReadPolled
  <2>4. CASE m # Source
    <3>1. batches'[m] = batches[m] /\ unread'[m] = unread[m]
      BY <1>1, <1>3, <2>2, <2>4 DEF PollRead, TypeOK
    <3> QED BY <2>1, <2>3, <2>4, <3>1 DEF Bounded
  <2>5. CASE m = Source
    <3>1. batches'[m].records = unread[m] /\ unread'[m] = {}
      BY <1>1, <1>3, <2>2, <2>5 DEF PollRead, TypeOK
    <3> QED BY <2>1, <3>1 DEF Bounded
  <2> QED BY <2>4, <2>5
<1>4. CASE EvaluateAndRegister
  BY <1>4 DEF EvaluateAndRegister, fileVars, Bounded, Polled
<1>5. CASE Send
  BY <1>5 DEF Send, fileVars, Bounded, Polled
<1>6. ASSUME NEW down, Crash(down) PROVE Bounded(m)'
  BY <1>6 DEF Crash, Bounded
<1> QED BY <1>2, <1>3, <1>4, <1>5, <1>6

-----------------------------------------------------------------------------
(* Captures whose anchor is the observed time.                             *)

LEMMA SpanJoins ==
  ASSUME NEW S, \A r \in S : r.ts \in Nat,
         NEW a \in Int, NEW b \in Int, NEW c \in Int, a <= b, b <= c
  PROVE  Span(S, a, b) \cup Span(S, b, c) = Span(S, a, c)
<1>1. ASSUME NEW r \in S
      PROVE  (a <= r.ts /\ r.ts < b) \/ (b <= r.ts /\ r.ts < c)
               <=> a <= r.ts /\ r.ts < c
  <2>1. r.ts \in Nat OBVIOUS
  <2> QED BY <2>1
<1> QED BY <1>1 DEF Span

(* The second half of a capture that closes is whole.                      *)
LEMMA PostIsWhole ==
  ASSUME Settings, TickInv, pc = "finalize", Ready(tickAt), Timely,
         NEW m \in Modality
  PROVE  /\ session # NoSession /\ session.anchor \in Nat
         /\ WindowEnd(session.anchor) \in Nat
         /\ WindowEnd(session.anchor) <= tickAt
         /\ Span(seen[m], session.anchor, WindowEnd(session.anchor))
              = Span(records[m], session.anchor, WindowEnd(session.anchor))
         /\ Assemble(session).records[m] =
              session.pre[m] \cup
              Span(seen[m], session.anchor, WindowEnd(session.anchor))
<1> DEFINE a == session.anchor
           We == WindowEnd(a)
<1>1. session # NoSession /\ We <= tickAt BY DEF Ready
<1>2. TypeOK /\ tickAt \in Nat /\ a \in Nat
  BY <1>1, StateIs DEF TickInv
<1>3. tickAt < We + Cadence BY DEF TickInv, WindowOpen
<1>4. We = a + PostSec /\ We \in Nat
  <2>1. We = a + PostSec BY DEF WindowEnd
  <2> HIDE DEF a, We
  <2> QED BY <1>2, <2>1, SettingsAre
<1>5. tickAt - RetentionSec <= a
  <2> HIDE DEF a, We
  <2> QED BY <1>2, <1>3, <1>4, SettingsAre
<1>6. Assemble(session).records[m]
        = session.pre[m] \cup Span(records[m], a, We)
  BY DEF Assemble, SnapshotRecords
<1> HIDE DEF a, We
<1>7. Span(records[m], a, We) = Span(seen[m], a, We)
  BY <1>2, <1>4, <1>5, SeenIsKept
<1> QED BY <1>1, <1>2, <1>4, <1>6, <1>7 DEF a, We

(* So is the bundle, if the first half was.                                *)
LEMMA WindowIsWhole ==
  ASSUME Settings, LoopInv, pc = "finalize", Ready(tickAt), NEW m \in Modality
  PROVE  /\ WindowEnd(session.anchor) <= tickAt
         /\ Span(seen[m], session.anchor, WindowEnd(session.anchor))
              = Span(records[m], session.anchor, WindowEnd(session.anchor))
         /\ Assemble(session).records[m] =
              Span(seen[m], WindowStart(session.anchor),
                   WindowEnd(session.anchor))
<1> DEFINE a == session.anchor
           We == WindowEnd(a)
           Ws == WindowStart(a)
<1>1. Timely BY DEF LoopInv, Ready
<1>2. /\ session # NoSession /\ a \in Nat /\ We \in Nat /\ We <= tickAt
      /\ Span(seen[m], a, We) = Span(records[m], a, We)
      /\ Assemble(session).records[m] = session.pre[m] \cup Span(seen[m], a, We)
  BY <1>1, PostIsWhole DEF LoopInv
<1>3. Ws = a - PreSec /\ We = a + PostSec BY DEF WindowEnd, WindowStart
<1>4. session.pre[m] = Span(seen[m], Ws, a) BY <1>2 DEF LoopInv, HalfIs
<1>5. \A r \in seen[m] : r.ts \in Nat BY StateIs DEF LoopInv, TickInv
<1> HIDE DEF a, We, Ws
<1>6. Ws \in Int /\ Ws <= a /\ a <= We BY <1>2, <1>3, SettingsAre
<1>7. Span(seen[m], Ws, a) \cup Span(seen[m], a, We) = Span(seen[m], Ws, We)
  BY <1>2, <1>5, <1>6, SpanJoins
<1> QED BY <1>2, <1>4, <1>7 DEF a, We, Ws

LEMMA SteadyLoops ==
  ASSUME LoopInv, TickInv', Steady, Tells
  PROVE  LoopInv'
<1>1. /\ session' = session /\ outbox' = outbox /\ seen' = seen
      /\ tickAt <= tickAt'
      /\ \A m \in Modality : \A r \in unread'[m] :
           r \in unread[m] \/ tickAt <= r.ts
  BY DEF Steady
<1>2. TypeOK /\ tickAt \in Nat /\ tickAt' \in Nat
  BY StateIs, TimeInNat DEF LoopInv, TickInv, TypeOK
<1>3. Timely' <=> Timely BY <1>1, SameTellsSame
<1>4. Leaving'
  <2> SUFFICES ASSUME outbox # <<>>
               PROVE  /\ \A m \in Modality : Complete(outbox[1], m)'
                      /\ WindowEnd(outbox[1].anchor) <= tickAt'
    BY <1>1 DEF Leaving
  <2>1. /\ WindowEnd(outbox[1].anchor) <= tickAt
        /\ \A m \in Modality : Complete(outbox[1], m)
    BY DEF LoopInv, Leaving
  <2>2. WindowEnd(outbox[1].anchor) \in Nat BY <1>2, SentIs
  <2>3. ASSUME NEW m \in Modality, NEW r \in unread'[m]
        PROVE  WindowEnd(outbox[1].anchor) <= r.ts
    <3>1. r.ts \in Nat BY TimeInNat DEF TickInv, TypeOK, Record
    <3> QED BY <1>1, <1>2, <2>1, <2>2, <3>1 DEF Complete
  <2>4. \A m \in Modality : Complete(outbox[1], m)'
    BY <1>1, <2>1, <2>3 DEF Complete
  <2> QED BY <1>1, <1>2, <2>1, <2>2, <2>4
<1>5. \A m \in Modality : HalfIs(m)' BY <1>1 DEF LoopInv, HalfIs
<1>6. \A m \in Modality : Bounded(m)'
  BY BoundedStays DEF LoopInv, TickInv
<1> QED BY <1>1, <1>3, <1>4, <1>5, <1>6 DEF LoopInv

LEMMA PollReadLoops ==
  ASSUME LoopInv, TickInv', PollRead, Tells
  PROVE  LoopInv'
<1>1. TypeOK /\ Source \in Modality
  BY SourceInModality DEF Source, LoopInv, TickInv, TypeOK
<1>2. pc = "read" /\ session' = session /\ outbox' = outbox
  BY DEF PollRead
<1>3. outbox = <<>> BY <1>2 DEF LoopInv, TickInv, Clocked
<1>4. Timely' <=> Timely BY <1>2, SameTellsSame
<1>5. ASSUME NEW m \in Modality PROVE HalfIs(m)'
  <2> SUFFICES ASSUME session # NoSession PROVE HalfIs(m)'
    BY <1>2 DEF HalfIs
  <2>1. seen'[m] = IF m = Source THEN seen[m] \cup unread[m] ELSE seen[m]
    BY <1>1 DEF PollRead, TypeOK
  <2>2. /\ \A r \in unread[m] : session.anchor <= r.ts
        /\ session.pre[m] =
             Span(seen[m], WindowStart(session.anchor), session.anchor)
    BY DEF LoopInv, TickInv, SourceInv, Follows, HalfIs
  <2>3. session.anchor \in Nat /\ \A r \in unread[m] : r.ts \in Nat
    BY <1>1, StateIs
  <2>4. Span(seen'[m], WindowStart(session.anchor), session.anchor)
          = Span(seen[m], WindowStart(session.anchor), session.anchor)
    BY <2>1, <2>2, <2>3 DEF Span
  <2> QED BY <1>2, <2>2, <2>4 DEF HalfIs
<1>6. \A m \in Modality : Bounded(m)'
  BY BoundedStays DEF LoopInv, TickInv
<1> QED BY <1>2, <1>3, <1>4, <1>5, <1>6 DEF LoopInv, Leaving

LEMMA FinalizeLoops ==
  ASSUME Settings, LoopInv, TickInv', Finalize, Tells
  PROVE  LoopInv'
<1>1. /\ pc = "finalize" /\ pc' = "evaluate" /\ tickAt' = tickAt
      /\ batches' = batches /\ unread' = unread /\ seen' = seen
      /\ tickAt \in Nat /\ outbox' = Bundles(tickAt) /\ FinalizeReady(tickAt)
      /\ detectSince' = IF Ready(tickAt) THEN WindowEnd(session.anchor)
                                         ELSE detectSince
  BY FinalizeIs DEF LoopInv
<1>2. \A m \in Modality : /\ Polled(m) /\ Polled(m)'
                          /\ \A r \in unread[m] : tickAt <= r.ts
  BY <1>1, ObservedIs DEF LoopInv, Polled
<1>3. CASE ~Ready(tickAt)
  <2>1. session' = session /\ outbox' = <<>> /\ detectSince' = detectSince
    BY <1>1, <1>3 DEF FinalizeReady, Bundles
  <2>2. Timely' <=> Timely BY <2>1, SameTellsSame
  <2>3. ASSUME NEW m \in Modality PROVE HalfIs(m)' /\ Bounded(m)'
    <3>1. HalfIs(m) /\ Bounded(m) BY DEF LoopInv
    <3>2. HalfIs(m)' BY <1>1, <2>1, <3>1 DEF HalfIs
    <3>3. Bounded(m)' BY <1>1, <1>2, <2>1, <3>1 DEF Bounded
    <3> QED BY <3>2, <3>3
  <2> QED BY <2>1, <2>2, <2>3 DEF LoopInv, Leaving
<1>4. CASE Ready(tickAt)
  <2> DEFINE a == session.anchor
             We == WindowEnd(a)
             b == Assemble(session)
  <2>1. session' = NoSession /\ outbox' = <<b>> /\ detectSince' = We
    BY <1>1, <1>4 DEF FinalizeReady, Bundles
  <2>2. Timely BY <1>4 DEF LoopInv, Ready
  <2>3. PICK n \in Modality : TRUE BY SomeModality
  <2>4. session # NoSession /\ a \in Nat /\ We \in Nat /\ We <= tickAt
    BY <1>1, <1>4, <2>2, <2>3, PostIsWhole DEF LoopInv
  <2>5. b.anchor = a BY DEF Assemble
  <2>6. \A m \in Modality : b.records[m] = Span(seen[m], WindowStart(a), We)
    BY <1>1, <1>4, WindowIsWhole
  <2> HIDE DEF b
  <2>7. outbox' # <<>> /\ outbox'[1] = b BY <2>1
  <2>8. ASSUME NEW m \in Modality PROVE \A r \in unread[m] : We <= r.ts
    <3>1. \A r \in unread[m] : r.ts \in Nat /\ tickAt <= r.ts
      BY <1>2, StateIs DEF LoopInv, TickInv
    <3> HIDE DEF We
    <3> QED BY <1>1, <2>4, <3>1
  <2>9. Leaving'
    <3> HIDE DEF a, We
    <3>1. WindowEnd(b.anchor) = We /\ WindowStart(b.anchor) = WindowStart(a)
      BY <2>5 DEF We
    <3>2. \A m \in Modality : Complete(outbox[1], m)'
      BY <1>1, <2>6, <2>7, <2>8, <3>1 DEF Complete
    <3> QED BY <1>1, <2>4, <2>7, <3>1, <3>2 DEF Leaving
  <2>10. ASSUME NEW m \in Modality PROVE HalfIs(m)' /\ Bounded(m)'
    <3>1. HalfIs(m)' BY <2>1 DEF HalfIs
    <3>2. ASSUME NEW r \in batches[m].records, ~(We <= r.ts)
          PROVE  r \in b.records[m]
      <4>0. SourceInv(m) BY DEF LoopInv, TickInv
      <4>1. a <= r.ts BY <1>2, <2>2, <4>0 DEF SourceInv, Follows
      <4>2. r \in seen[m] BY <1>2, <4>0 DEF SourceInv, BufferOK
      <4>3. r.ts \in Nat BY <4>2, StateIs DEF LoopInv, TickInv
      <4> HIDE DEF a, We
      <4>4. WindowStart(a) <= r.ts
        BY <2>4, <4>1, <4>3, SettingsAre DEF WindowStart
      <4> QED BY <2>4, <2>6, <3>2, <4>2, <4>3, <4>4 DEF Span
    <3>3. Bounded(m)'
      <4> HIDE DEF a, We
      <4>1. ASSUME NEW r \in batches[m].records
            PROVE  We <= r.ts \/ InOutbox(m, r)'
        BY <2>7, <3>2 DEF InOutbox
      <4> QED BY <1>1, <2>1, <2>4, <2>8, <4>1 DEF Bounded
    <3> QED BY <3>1, <3>3
  <2> QED BY <2>1, <2>9, <2>10 DEF LoopInv
<1> QED BY <1>3, <1>4

(* Detectors of this kind fire at the instant of the tick.                 *)
LEMMA EvidenceAtTick ==
  ASSUME AtOneInstant, TickInv, pc = "evaluate",
         NEW latency \in LatencyEvidences, NEW e \in Evidences(latency)
  PROVE  e.time = tickAt
<1>1. Detectors \subseteq {"nginx_error", "error_rate", "trace_5xx"}
  BY DEF AtOneInstant, BatchDetectors
<1>2. Detectors \cap WindowDetectors = {} /\ "latency_spike" \notin Detectors
  BY <1>1 DEF WindowDetectors
<1>3. latency = {} BY <1>2 DEF LatencyEvidences
<1>4. WindowEvidences = {} BY <1>2 DEF WindowEvidences
<1>5. e \in CountEvidences BY <1>3, <1>4 DEF Evidences
<1>6. PICK d \in Detectors \cap BatchDetectors : e \in CountEvidence(d)
  BY <1>5 DEF CountEvidences
<1>7. batches[ModalityOf(d)].until = tickAt
  BY <1>6, ObservedIs, ModalityOfDetector
<1> QED BY <1>6, <1>7 DEF CountEvidence

(* A capture opens at the instant of the tick, with what was seen of the   *)
(* seconds before it.                                                      *)
LEMMA OpensAtTick ==
  ASSUME AtOneInstant, TickInv, EvaluateAndRegister,
         session = NoSession, session' # NoSession
  PROVE  /\ session'.anchor = tickAt
         /\ \A m \in Modality :
              session'.pre[m] = Span(seen[m], WindowStart(tickAt), tickAt)
<1>1. PICK latency \in LatencyEvidences : \E e \in Evidences(latency) :
        session' = NewSession(e.time, Evidences(latency))
  BY OpensAtEvidence
<1>2. PICK e \in Evidences(latency) :
        session' = NewSession(e.time, Evidences(latency))
  BY <1>1
<1>3. pc = "evaluate" BY DEF EvaluateAndRegister
<1>4. e.time = tickAt BY <1>3, EvidenceAtTick
<1>5. session'.anchor = tickAt
      /\ session'.pre = SnapshotRecords(WindowStart(tickAt), tickAt)
  BY <1>2, <1>4 DEF NewSession
<1>6. tickAt \in Nat BY <1>3, ObservedIs
<1>7. WindowStart(tickAt) \in Int /\ tickAt - RetentionSec <= WindowStart(tickAt)
  BY <1>6, SettingsAre DEF WindowStart, AtOneInstant
<1>8. ASSUME NEW m \in Modality
      PROVE  session'.pre[m] = Span(seen[m], WindowStart(tickAt), tickAt)
  <2>1. Span(records[m], WindowStart(tickAt), tickAt)
          = Span(seen[m], WindowStart(tickAt), tickAt)
    BY <1>3, <1>6, <1>7, SeenIsKept
  <2> QED BY <1>5, <2>1 DEF SnapshotRecords
<1> QED BY <1>5, <1>8

LEMMA EvaluateLoops ==
  ASSUME AtOneInstant, LoopInv, TickInv', EvaluateAndRegister, Tells
  PROVE  LoopInv'
<1>1. /\ pc = "evaluate" /\ tickAt' = tickAt /\ unread' = unread
      /\ seen' = seen /\ outbox' = outbox
  BY DEF EvaluateAndRegister, fileVars
<1>2. TickInv /\ TypeOK /\ watermark = tickAt /\ tickAt \in Nat
  BY <1>1, ObservedIs DEF LoopInv, TickInv
<1>3. Leaving'
  <2>1. \A m \in Modality : Complete(outbox[1], m)' <=> Complete(outbox[1], m)
    BY <1>1 DEF Complete
  <2> QED BY <1>1, <2>1 DEF LoopInv, Leaving
<1>4. \A m \in Modality : Bounded(m)'
  BY BoundedStays DEF LoopInv, TickInv
<1>5. CASE session = NoSession /\ session' = NoSession
  BY <1>3, <1>4, <1>5 DEF LoopInv, HalfIs
<1>6. CASE session = NoSession /\ session' # NoSession
  <2>1. /\ session'.anchor = tickAt
        /\ \A m \in Modality :
             session'.pre[m] = Span(seen[m], WindowStart(tickAt), tickAt)
    BY <1>2, <1>6, OpensAtTick
  <2>2. tickAt <= tickAt /\ tickAt < WindowEnd(tickAt)
    BY <1>2, SettingsAre DEF WindowEnd, AtOneInstant
  <2>3. Timely' BY <1>2, <1>6, <2>1, <2>2 DEF Tells, Timely
  <2>4. \A m \in Modality : HalfIs(m)' BY <1>1, <2>1 DEF HalfIs
  <2> QED BY <1>3, <1>4, <2>3, <2>4 DEF LoopInv
<1>7. CASE session # NoSession
  <2>1. session'.anchor = session.anchor /\ session'.pre = session.pre
    BY <1>2, <1>7, AbsorbKeepsAnchor
  <2>2. session' # NoSession => Timely'
    BY <1>7 DEF LoopInv, Tells, Timely
  <2>3. \A m \in Modality : HalfIs(m)'
    BY <1>1, <1>7, <2>1 DEF LoopInv, HalfIs
  <2> QED BY <1>3, <1>4, <2>2, <2>3 DEF LoopInv
<1> QED BY <1>5, <1>6, <1>7

LEMMA SendLoops ==
  ASSUME LoopInv, TickInv', Sends
  PROVE  LoopInv'
<1>1. /\ Send /\ session' = session /\ seen' = seen /\ Tells
  BY StepTells DEF Sends, Send
<1>2. outbox' = <<>>
  <2>1. outbox = <<outbox[1]>>
    BY <1>1 DEF LoopInv, TickInv, TypeOK, Send
  <2>2. \A b : Tail(<<b>>) = <<>> OBVIOUS
  <2> QED BY <1>1, <2>1, <2>2 DEF Send
<1>3. Timely' <=> Timely BY <1>1, SameTellsSame
<1>4. \A m \in Modality : HalfIs(m)' BY <1>1 DEF LoopInv, HalfIs
<1>5. \A m \in Modality : Bounded(m)'
  BY <1>1, BoundedStays DEF LoopInv, TickInv
<1> QED BY <1>1, <1>2, <1>3, <1>4, <1>5 DEF LoopInv, Leaving

LEMMA LoopInit ==
  ASSUME AtOneInstant, DInit
  PROVE  LoopInv
<1>1. TickInv BY TickInit DEF AtOneInstant
<1>2. outbox = <<>> /\ detectSince = NoTime /\ session = NoSession
  BY DEF DInit, Init, SnapshotInit
<1> QED BY <1>1, <1>2 DEF LoopInv, Leaving, HalfIs, Bounded

LEMMA LoopStep ==
  ASSUME AtOneInstant, LoopInv, [DNext]_allVars
  PROVE  LoopInv'
<1>1. Settings /\ TickInv BY DEF AtOneInstant, LoopInv
<1>2. TickInv' BY <1>1, TickStep
<1>3. CASE Runs
  <2>1. Tells BY <1>3, StepTells
  <2>2. CASE PollRead BY <1>2, <2>1, <2>2, PollReadLoops
  <2>3. CASE Finalize BY <1>1, <1>2, <2>1, <2>3, FinalizeLoops
  <2>4. CASE EvaluateAndRegister BY <1>2, <2>1, <2>4, EvaluateLoops
  <2>5. CASE ~PollRead /\ ~Finalize /\ ~EvaluateAndRegister
    <3>1. Steady BY <1>1, <1>3, <2>5, RunIsSteady
    <3> QED BY <1>2, <2>1, <3>1, SteadyLoops
  <2> QED BY <2>2, <2>3, <2>4, <2>5
<1>4. CASE Rests
  <2>1. Steady /\ Tells BY <1>1, <1>4, RestIsSteady, StepTells DEF TickInv
  <2> QED BY <1>2, <2>1, SteadyLoops
<1>5. CASE Sends BY <1>2, <1>5, SendLoops
<1>6. ASSUME NEW down, Crash(down) PROVE LoopInv'
  <2>1. outbox' = <<>> /\ detectSince' = NoTime /\ session' = NoSession
    BY <1>6 DEF Crash
  <2> QED BY <1>2, <2>1 DEF LoopInv, Leaving, HalfIs, Bounded
<1> QED BY <1>3, <1>4, <1>5, <1>6, StepIs

(* The loop's types hold across crashes, of records ahead of the clock and *)
(* of whatever the server does.                                            *)
THEOREM DeployedTypeCorrect == DSpec => []TypeOK
<1>1. DInit => TypeOK BY TypeInit DEF DInit
<1> QED BY <1>1, DeployedTypeStep, PTL DEF DSpec

THEOREM LoopCorrect ==
  ASSUME AtOneInstant
  PROVE  DSpec => []LoopInv
<1>1. DInit => LoopInv BY LoopInit
<1>2. LoopInv /\ [DNext]_allVars => LoopInv' BY LoopStep
<1> QED BY <1>1, <1>2, PTL DEF DSpec

(* When a capture opens, the buffer still holds everything observed of its *)
(* first half (memory_buffer.py:41-42, assembler.py:78-84), also of whole  *)
(* files a new process reads at once and of records ahead of the clock;    *)
(* and nothing is added to that half by what is read later.  Of collectors *)
(* all of whose detectors give the observed time.                          *)
THEOREM PreKept ==
  ASSUME AtOneInstant
  PROVE  DSpec => []PreStillBuffered
<1>1. LoopInv => PreStillBuffered
  BY DEF LoopInv, HalfIs, PreStillBuffered
<1> QED BY <1>1, LoopCorrect, PTL

(* The second half is whole when its capture closes, after any restarts.   *)
(* Of the same collectors.                                                 *)
THEOREM DeployedPostKept ==
  ASSUME AtOneInstant
  PROVE  DSpec => []PostStillBuffered
<1>1. LoopInv => PostStillBuffered
  <2> SUFFICES ASSUME LoopInv, pc = "finalize", Ready(watermark),
                      NEW m \in Modality
               PROVE  Span(seen[m], session.anchor, WindowEnd(session.anchor))
                        \subseteq records[m]
    BY DEF PostStillBuffered
  <2>1. Ready(tickAt) BY ObservedIs DEF LoopInv
  <2>2. Span(seen[m], session.anchor, WindowEnd(session.anchor))
          = Span(records[m], session.anchor, WindowEnd(session.anchor))
    BY <2>1, WindowIsWhole DEF AtOneInstant
  <2> QED BY <2>2 DEF Span
<1> QED BY <1>1, LoopCorrect, PTL

(* A bundle of such a collector is its window: every line the services had *)
(* written of it by the time the bundle leaves, of whichever process they  *)
(* were the files, and nothing else.                                       *)
THEOREM DeployedBundleExact ==
  ASSUME AtOneInstant
  PROVE  DSpec => []BundleExact
<1>1. LoopInv => BundleExact
  <2> SUFFICES ASSUME LoopInv, NEW i \in 1 .. Len(outbox), NEW m \in Modality
               PROVE  outbox[i].records[m] =
                        Span(seen[m] \cup unread[m],
                             WindowStart(outbox[i].anchor),
                             WindowEnd(outbox[i].anchor))
    BY DEF BundleExact
  <2>1. TypeOK BY DEF LoopInv, TickInv
  <2>2. outbox # <<>> /\ i = 1
    <3>1. Len(outbox) = 0 \/ (outbox # <<>> /\ Len(outbox) = 1)
      BY <2>1, OneBundle
    <3>2. i \in Int /\ 1 <= i /\ i <= Len(outbox) BY <3>1
    <3> QED BY <3>1, <3>2
  <2>3. Complete(outbox[1], m) BY <2>2 DEF LoopInv, Leaving
  <2>4. WindowEnd(outbox[1].anchor) \in Nat BY <2>1, <2>2, SentIs
  <2>5. \A r \in unread[m] : r.ts \in Nat BY <2>1, StateIs
  <2>6. \A r \in unread[m] : ~(r.ts < WindowEnd(outbox[1].anchor))
    BY <2>3, <2>4, <2>5 DEF Complete
  <2> QED BY <2>2, <2>3, <2>6 DEF Complete, Span
<1> QED BY <1>1, LoopCorrect, PTL

-----------------------------------------------------------------------------
(* No signal is lost, whatever detectors run.                              *)

(* What the requests carry is never changed. *)
SameRecords ==
  /\ Len(posts) <= Len(posts')
  /\ \A i \in 1 .. Len(posts) : posts'[i].records = posts[i].records

LEMMA PostChanges ==
  ASSUME PostsOK, Post
  PROVE  /\ SameRecords /\ Len(posts') = Len(posts) + 1
         /\ posts'[Len(posts) + 1].records = Head(outbox).records
<1> DEFINE p == [records |-> Head(outbox).records, open |-> TRUE, job |-> 0,
                 report |-> "pending"]
           n == Len(posts)
           S == {posts[i] : i \in 1 .. n} \cup {p}
<1>1. posts' = Append(posts, p) BY DEF Post
<1>2. posts \in Seq(S) /\ n \in Nat BY DEF PostsOK
<1>3. Len(posts') = n + 1 BY <1>1, <1>2
<1>4. \A i \in 1 .. n : posts'[i] = posts[i] BY <1>1, <1>2
<1>5. posts'[n + 1] = p BY <1>1, <1>2
<1>6. p.records = Head(outbox).records OBVIOUS
<1> HIDE DEF p
<1> QED BY <1>2, <1>3, <1>4, <1>5, <1>6 DEF SameRecords

LEMMA TakeChanges ==
  ASSUME PostsOK, NEW k \in 1 .. Len(posts), Take(k)
  PROVE  /\ SameRecords /\ Len(posts') = Len(posts)
         /\ \A i \in 1 .. Len(posts) : posts'[i].report = posts[i].report
<1> DEFINE p == [records |-> posts[k].records, open |-> FALSE,
                 job |-> Cardinality(Taken) + 1, report |-> posts[k].report]
<1>1. posts' = [posts EXCEPT ![k] = p] BY TakeReplaces
<1>2. IsPost(posts[k]) BY DEF PostsOK
<1>3. IsPost(p) BY <1>2, TakenFinite DEF IsPost
<1>4. p.records = posts[k].records /\ p.report = posts[k].report OBVIOUS
<1>5. Len(posts) \in Nat BY DEF PostsOK
<1> HIDE DEF p
<1>6. /\ Len(posts') = Len(posts)
      /\ \A i \in 1 .. Len(posts) : posts'[i] = IF i = k THEN p ELSE posts[i]
  BY <1>1, <1>3, ReplacedPost
<1> QED BY <1>4, <1>5, <1>6 DEF SameRecords

LEMMA ReturnChanges ==
  ASSUME PostsOK, Awaiting, NEW a, Return(a)
  PROVE  SameRecords /\ ~Awaiting'
<1> DEFINE n == Len(posts)
           q == posts[n]
           p == [records |-> q.records, open |-> q.open /\ a.status = "timeout",
                 job |-> q.job,
                 report |-> IF Accepted(a) THEN "accepted" ELSE "failed"]
<1>1. n \in 1 .. n /\ posts' = [posts EXCEPT ![n] = p] BY ReturnReplaces
<1>2. IsPost(q) BY <1>1 DEF PostsOK
<1>3. IsPost(p) BY <1>2 DEF IsPost
<1>4. p.records = q.records /\ p.report # "pending" OBVIOUS
<1>5. n \in Nat BY DEF PostsOK
<1> HIDE DEF p
<1>6. /\ Len(posts') = n
      /\ \A i \in 1 .. n : posts'[i] = IF i = n THEN p ELSE posts[i]
  BY <1>1, <1>3, ReplacedPost
<1>7. posts'[Len(posts')].report # "pending" BY <1>1, <1>4, <1>6
<1> QED BY <1>4, <1>5, <1>6, <1>7 DEF SameRecords, Awaiting

LEMMA CrashChanges ==
  ASSUME PostsOK, NEW down, Crash(down)
  PROVE  SameRecords /\ ~Awaiting'
<1> DEFINE n == Len(posts)
           q == posts[n]
           p == [records |-> q.records, open |-> q.open, job |-> q.job,
                 report |-> "never"]
<1>1. n \in Nat BY DEF PostsOK
<1>2. CASE ~Awaiting
  <2>1. posts' = posts BY <1>2 DEF Crash
  <2> QED BY <1>1, <1>2, <2>1 DEF SameRecords, Awaiting
<1>3. CASE Awaiting
  <2>1. n \in 1 .. n /\ posts' = [posts EXCEPT ![n] = p]
    BY <1>3, CrashReplaces
  <2>2. IsPost(q) BY <2>1 DEF PostsOK
  <2>3. IsPost(p) BY <2>2 DEF IsPost
  <2>4. p.records = q.records /\ p.report = "never" OBVIOUS
  <2> HIDE DEF p
  <2>5. /\ Len(posts') = n
        /\ \A i \in 1 .. n : posts'[i] = IF i = n THEN p ELSE posts[i]
    BY <2>1, <2>3, ReplacedPost
  <2>6. posts'[Len(posts')].report # "pending" BY <2>1, <2>4, <2>5
  <2> QED BY <1>1, <2>4, <2>5, <2>6 DEF SameRecords, Awaiting
<1> QED BY <1>2, <1>3

LEMMA PostedStays ==
  ASSUME SameRecords, PostsOK, PostsOK', NEW m, NEW r, Posted(m, r)
  PROVE  Posted(m, r)'
<1>1. PICK k \in 1 .. Len(posts) : r \in posts[k].records[m] BY DEF Posted
<1>2. Len(posts) \in Nat /\ Len(posts') \in Nat BY DEF PostsOK
<1>3. k \in 1 .. Len(posts') BY <1>2 DEF SameRecords
<1>4. posts'[k].records = posts[k].records BY DEF SameRecords
<1> QED BY <1>1, <1>3, <1>4 DEF Posted

(* A request that waits carries the bundle being sent. *)
Asked ==
  Awaiting =>
    /\ pc = "send" /\ outbox # <<>>
    /\ posts[Len(posts)].records = outbox[1].records

LEMMA AskedStep ==
  ASSUME Numbered, TypeOK, Asked, [DNext]_allVars
  PROVE  Asked'
<1>0. PostsOK /\ Len(posts) \in Nat BY DEF Numbered, PostsOK
<1>1. CASE Observing /\ posts' = posts
  <2> SUFFICES ASSUME Awaiting PROVE Asked' BY <1>1 DEF Asked, Awaiting
  <2>1. pc = "send" /\ outbox # <<>> BY DEF Asked
  <2>2. pc' = pc /\ outbox' = outbox
    BY <1>1, <2>1 DEF Observing, Write, WriteAhead, ClockAdvances, PollBegin,
       PollRead, Append1, Finalize, EvaluateAndRegister, Sleep, Wake, Horizon,
       vars, loopVars
  <2> QED BY <1>1, <2>2 DEF Asked, Awaiting
<1>2. CASE Post
  <2>1. Len(posts') = Len(posts) + 1
        /\ posts'[Len(posts) + 1].records = Head(outbox).records
    BY <1>0, <1>2, PostChanges
  <2>2. pc = "send" /\ outbox # <<>> /\ pc' = pc /\ outbox' = outbox
    BY <1>2 DEF Post, vars, loopVars
  <2>3. Head(outbox) = outbox[1]
    <3>1. outbox = <<outbox[1]>> BY <2>2 DEF TypeOK
    <3>2. \A b : Head(<<b>>) = b OBVIOUS
    <3> QED BY <3>1, <3>2
  <2> QED BY <2>1, <2>2, <2>3 DEF Asked
<1>3. ASSUME NEW k \in 1 .. Len(posts), Take(k) PROVE Asked'
  <2>1. /\ Len(posts') = Len(posts) /\ SameRecords
        /\ \A i \in 1 .. Len(posts) : posts'[i].report = posts[i].report
    BY <1>0, <1>3, TakeChanges
  <2>2. pc' = pc /\ outbox' = outbox BY <1>3 DEF Take, vars, loopVars
  <2>3. Len(posts) \in 1 .. Len(posts) BY <1>0
  <2>4. Awaiting' => Awaiting
    BY <1>0, <2>1, <2>3 DEF Awaiting, PostsOK
  <2> QED BY <2>1, <2>2, <2>3, <2>4 DEF Asked, SameRecords
<1>4. ASSUME Awaiting, NEW a, Return(a) PROVE Asked'
  BY <1>0, <1>4, ReturnChanges DEF Asked
<1>5. ASSUME NEW down, Crash(down) PROVE Asked'
  BY <1>0, <1>5, CrashChanges DEF Asked
<1>6. CASE UNCHANGED allVars
  BY <1>6 DEF Asked, Awaiting, allVars, deployed, vars, loopVars
<1> QED BY <1>1, <1>2, <1>3, <1>4, <1>5, <1>6 DEF DNext

(* A file holds what the collector has read of it and what it has not. *)
FilesAre ==
  \A m \in Modality :
    /\ files[m] \subseteq seen[m] \cup unread[m]
    /\ seen[m] \cap unread[m] = {}

LEMMA FilesStep ==
  ASSUME TypeOK, FilesAre, [DNext]_allVars
  PROVE  FilesAre'
<1> SUFFICES ASSUME NEW m \in Modality
             PROVE  /\ files'[m] \subseteq seen'[m] \cup unread'[m]
                    /\ seen'[m] \cap unread'[m] = {}
  BY DEF FilesAre
<1>0. /\ files[m] \subseteq seen[m] \cup unread[m]
      /\ seen[m] \cap unread[m] = {}
  BY DEF FilesAre
<1>1. CASE Observing /\ files' = [n \in Modality |-> files[n] \cup unread'[n]]
  <2>1. ASSUME NEW n \in Modality, NEW r \in Record,
               Write(n, r) \/ WriteAhead(n, r)
        PROVE  /\ seen'[m] = seen[m] /\ unread[m] \subseteq unread'[m]
               /\ seen'[m] \cap unread'[m] = {}
    <3>1. /\ r \notin seen[n] \cup unread[n] /\ seen' = seen
          /\ unread' = [unread EXCEPT ![n] = @ \cup {r}]
      BY <2>1 DEF Write, WriteAhead
    <3>2. unread'[m] = IF m = n THEN unread[m] \cup {r} ELSE unread[m]
      BY <3>1 DEF TypeOK
    <3> QED BY <1>0, <3>1, <3>2
  <2>2. CASE PollRead
    <3>1. Source \in Modality BY SourceInModality DEF Source, TypeOK
    <3>2. /\ seen'[m] = IF m = Source THEN seen[m] \cup unread[m] ELSE seen[m]
          /\ unread'[m] = IF m = Source THEN {} ELSE unread[m]
      BY <2>2, <3>1 DEF PollRead, TypeOK
    <3> QED BY <1>0, <1>1, <3>2
  <2>3. CASE seen' = seen /\ unread' = unread
    BY <1>0, <1>1, <2>3
  <2>4. \/ seen' = seen /\ unread' = unread
        \/ PollRead
        \/ \E n \in Modality, r \in Record : Write(n, r) \/ WriteAhead(n, r)
    BY <1>1 DEF Observing, ClockAdvances, PollBegin, Append1, Finalize,
       EvaluateAndRegister, Sleep, Wake, Horizon, vars, fileVars
  <2> QED BY <1>0, <1>1, <2>1, <2>2, <2>3, <2>4
<1>2. ASSUME NEW down, Crash(down)
      PROVE  /\ files'[m] \subseteq seen'[m] \cup unread'[m]
             /\ seen'[m] \cap unread'[m] = {}
  BY <1>0, <1>2 DEF Crash, Reread
<1>3. CASE seen' = seen /\ unread' = unread /\ files' = files
  BY <1>0, <1>3
<1>4. Post \/ (\E k : Take(k)) \/ (\E a : Return(a)) \/ UNCHANGED allVars
        => seen' = seen /\ unread' = unread /\ files' = files
  BY DEF Post, Take, Return, Send, allVars, deployed, vars, fileVars
<1> QED BY <1>1, <1>2, <1>3, <1>4 DEF DNext

(* A record of this tick's batch is as young as the last poll, or as its   *)
(* process, and not younger than the tick unless it was read early.        *)
InTime(m) ==
  Polled(m) =>
    \A r \in batches[m].records :
      /\ r.ts <= tickAt \/ <<m, r>> \in excepted
      /\ tickAt <= r.ts + Cadence \/ tickAt = startedAt

(* In the first tick of a process no capture is in progress. *)
Started ==
  /\ startedAt \in Nat
  /\ pc # "sleep" => startedAt <= tickAt
  /\ pc = "sleep" => /\ startedAt <= wakeAt
                     /\ startedAt < wakeAt \/ session = NoSession
  /\ pc \in {"poll", "read", "append", "finalize"} /\ session # NoSession =>
       startedAt < tickAt

(* A signal the properties speak of. *)
Counts(m, r) ==
  r.kind \in LoneSignals /\ r.ts >= startedAt - PreSec
    /\ <<m, r>> \notin excepted

(* The capture in progress, one that opened in its time, will carry it. *)
Held(m, r) == Timely /\ InCapture(m, r)

(* It was sent, is being sent, will be, or is in this tick's batch. *)
OnItsWay(m) ==
  \A r \in seen[m] :
    Counts(m, r) =>
      \/ Posted(m, r) \/ InOutbox(m, r)
      \/ Held(m, r)
      \/ Polled(m) /\ r \in batches[m].records

(* The inductive invariant. *)
SignalInv ==
  /\ TickInv /\ Started /\ Numbered /\ KindsOK /\ FilesAre /\ Asked
  /\ \A m \in Modality : Bounded(m) /\ InTime(m) /\ OnItsWay(m)


LEMMA StartedStep ==
  ASSUME Settings, TickInv, TypeOK', Started, [DNext]_allVars
  PROVE  Started'
<1>0. /\ Clocked /\ now \in Nat /\ tickAt \in Nat /\ wakeAt \in Nat
      /\ startedAt \in Nat /\ LoopInterval \in Nat \ {0}
  BY StateIs, SettingsAre DEF TickInv, Started
<1>1. CASE Runs
  <2>0. startedAt' = startedAt /\ Observing BY <1>1 DEF Runs
  <2>1. CASE Sleep
    <3>1. pc = "send" /\ pc' = "sleep" /\ wakeAt' = now + LoopInterval
      BY <2>1 DEF Sleep
    <3>2. startedAt < wakeAt' BY <1>0, <3>1 DEF Clocked, Started
    <3> QED BY <1>0, <2>0, <3>1, <3>2 DEF Started
  <2>2. CASE Wake
    <3>1. /\ pc = "sleep" /\ pc' = "poll" /\ tickAt' = now /\ now = wakeAt
          /\ session' = session
      BY <1>0, <2>2 DEF Wake, Clocked
    <3> QED BY <1>0, <2>0, <3>1 DEF Started
  <2>3. CASE EvaluateAndRegister
    <3>1. pc = "evaluate" /\ pc' = "send" /\ tickAt' = tickAt
      BY <2>3 DEF EvaluateAndRegister
    <3> QED BY <2>0, <3>1 DEF Started
  <2>4. CASE Finalize
    <3>1. pc = "finalize" /\ pc' = "evaluate" /\ tickAt' = tickAt
      BY <2>4 DEF Finalize
    <3> QED BY <2>0, <3>1 DEF Started
  <2>5. CASE /\ UNCHANGED <<tickAt, wakeAt, session>>
             /\ \/ pc' = pc
                \/ pc \in {"poll", "read", "append"}
                   /\ pc' \in {"poll", "read", "append", "finalize"}
    BY <2>0, <2>5 DEF Started
  <2>6. \/ Sleep \/ Wake \/ EvaluateAndRegister \/ Finalize
        \/ /\ UNCHANGED <<tickAt, wakeAt, session>>
           /\ \/ pc' = pc
              \/ pc \in {"poll", "read", "append"}
                 /\ pc' \in {"poll", "read", "append", "finalize"}
    BY <2>0 DEF Observing, Write, WriteAhead, ClockAdvances, PollBegin,
       PollRead, Append1, Horizon, vars, loopVars
  <2> QED BY <2>1, <2>2, <2>3, <2>4, <2>5, <2>6
<1>2. CASE Rests BY <1>2 DEF Rests, vars, loopVars, Started
<1>3. CASE Sends BY <1>3 DEF Sends, Send, Started
<1>4. ASSUME NEW down \in 0 .. MaxDown, Crash(down) PROVE Started'
  <2>1. /\ pc' = "sleep" /\ wakeAt' = now + down /\ startedAt' = now + down
        /\ session' = NoSession
    BY <1>4 DEF Crash
  <2>2. down \in Nat BY DeploymentAssumption
  <2> QED BY <1>0, <2>1, <2>2 DEF Started
<1> QED BY <1>1, <1>2, <1>3, <1>4, StepIs

LEMMA SteadyKeeps ==
  ASSUME SignalInv, SameRecords, PostsOK', Steady, Tells, NEW m \in Modality
  PROVE  InTime(m)' /\ OnItsWay(m)'
<1>1. PostsOK BY DEF SignalInv, Numbered
<1>2. /\ session' = session /\ outbox' = outbox /\ seen' = seen
      /\ startedAt' = startedAt
  BY DEF Steady
<1>3. (Polled(m)' <=> Polled(m)) /\ excepted \subseteq excepted'
      /\ (Polled(m) => batches'[m] = batches[m] /\ tickAt' = tickAt)
  BY DEF Steady
<1>4. InTime(m)'
  <2> SUFFICES ASSUME Polled(m), NEW r \in batches[m].records
               PROVE  /\ r.ts <= tickAt \/ <<m, r>> \in excepted'
                      /\ tickAt <= r.ts + Cadence \/ tickAt = startedAt
    BY <1>2, <1>3 DEF InTime
  <2> QED BY <1>3 DEF SignalInv, InTime
<1>5. Timely' <=> Timely BY <1>2, SameTellsSame
<1>6. ASSUME NEW r \in seen[m], Counts(m, r)'
      PROVE  \/ Posted(m, r)' \/ InOutbox(m, r)'
             \/ Held(m, r)'
             \/ Polled(m)' /\ r \in batches'[m].records
  <2>1. Counts(m, r) BY <1>2, <1>3, <1>6 DEF Counts
  <2>2. \/ Posted(m, r) \/ InOutbox(m, r) \/ Held(m, r)
        \/ Polled(m) /\ r \in batches[m].records
    BY <2>1 DEF SignalInv, OnItsWay
  <2>3. Posted(m, r) => Posted(m, r)' BY <1>1, PostedStays
  <2>4. InOutbox(m, r) => InOutbox(m, r)' BY <1>2 DEF InOutbox
  <2>5. Held(m, r) => Held(m, r)' BY <1>2, <1>5 DEF Held, InCapture
  <2> QED BY <1>3, <2>2, <2>3, <2>4, <2>5
<1>7. OnItsWay(m)' BY <1>2, <1>6 DEF OnItsWay
<1> QED BY <1>4, <1>7

(* The lines a poll reads are in its batch. *)
LEMMA ReadAccounts ==
  ASSUME Settings, SignalInv, PollRead, SameRecords, PostsOK', Runs,
         NEW m \in Modality
  PROVE  InTime(m)' /\ OnItsWay(m)'
<1>1. TickInv /\ TypeOK /\ PostsOK BY DEF SignalInv, TickInv, Numbered
<1>2. /\ pc = "read" /\ now = tickAt /\ tickAt \in Nat
      /\ tickAt' = tickAt /\ session' = session /\ outbox' = outbox
  BY <1>1, StateIs DEF PollRead, TickInv, Clocked
<1>3. Source \in Modality BY <1>1, SourceInModality DEF Source, TypeOK
<1>4. ~Polled(Source) /\ (Polled(m)' <=> Polled(m) \/ m = Source)
  BY <1>1, PollReadPolled
<1>5. /\ startedAt' = startedAt
      /\ excepted \subseteq excepted' /\ ReadEarly \subseteq excepted'
  BY DEF Runs
<1>6. Timely' <=> Timely BY <1>2, SameTellsSame, StepTells
<1>7. ASSUME NEW r \in seen[m], Counts(m, r)',
             ~(Polled(m) /\ r \in batches[m].records)
      PROVE  Posted(m, r)' \/ InOutbox(m, r)' \/ Held(m, r)'
  <2>1. Counts(m, r) BY <1>5, <1>7 DEF Counts
  <2>2. Posted(m, r) \/ InOutbox(m, r) \/ Held(m, r)
    BY <1>7, <2>1 DEF SignalInv, OnItsWay
  <2>3. Posted(m, r) => Posted(m, r)' BY <1>1, PostedStays
  <2>4. InOutbox(m, r) => InOutbox(m, r)' BY <1>2 DEF InOutbox
  <2>5. Held(m, r) => Held(m, r)' BY <1>2, <1>6 DEF Held, InCapture
  <2> QED BY <2>2, <2>3, <2>4, <2>5
<1>8. CASE m # Source
  <2>1. batches'[m] = batches[m] /\ seen'[m] = seen[m]
    BY <1>1, <1>3, <1>8 DEF PollRead, TypeOK
  <2>2. InTime(m)'
    <3> SUFFICES ASSUME Polled(m), NEW r \in batches[m].records
                 PROVE  /\ r.ts <= tickAt \/ <<m, r>> \in excepted'
                        /\ tickAt <= r.ts + Cadence \/ tickAt = startedAt
      BY <1>2, <1>4, <1>5, <1>8, <2>1 DEF InTime
    <3> QED BY <1>5 DEF SignalInv, InTime
  <2>3. OnItsWay(m)' BY <1>4, <1>7, <1>8, <2>1 DEF OnItsWay
  <2> QED BY <2>2, <2>3
<1>9. CASE m = Source
  <2>1. batches'[m].records = unread[m] /\ seen'[m] = seen[m] \cup unread[m]
    BY <1>1, <1>3, <1>9 DEF PollRead, TypeOK
  <2>2. ~Polled(m) /\ Polled(m)' BY <1>4, <1>9
  <2>3. ASSUME NEW r \in unread[m]
        PROVE  /\ r.ts <= tickAt \/ <<m, r>> \in excepted'
               /\ tickAt <= r.ts + Cadence \/ tickAt = startedAt
    <3>1. r.ts \in Nat /\ r \in Record BY <1>1, StateIs DEF TypeOK
    <3>2. r \notin seen[m] BY DEF SignalInv, FilesAre
    <3>3. r.ts > now => <<m, r>> \in ReadEarly
      BY <2>1, <3>1, <3>2 DEF ReadEarly
    <3>4. PollIs(m) BY <1>1 DEF TickInv, SourceInv
    <3>5. tickAt <= lastPoll[m] + Cadence BY <1>2, <2>2, <3>4 DEF PollIs
    <3>6. lastPoll[m] <= r.ts \/ tickAt = startedAt
      BY <1>2, <3>4 DEF PollIs, Backlog
    <3>7. lastPoll[m] \in Nat /\ Cadence \in Nat BY <1>1, StateIs, SettingsAre
    <3>8. lastPoll[m] <= r.ts => tickAt <= r.ts + Cadence
      BY <1>2, <3>1, <3>5, <3>7
    <3>9. r.ts <= tickAt \/ r.ts > now BY <1>2, <3>1
    <3> QED BY <1>5, <3>3, <3>6, <3>8, <3>9
  <2>4. InTime(m)' BY <1>2, <1>5, <2>1, <2>2, <2>3 DEF InTime
  <2>5. OnItsWay(m)' BY <1>7, <2>1, <2>2 DEF OnItsWay
  <2> QED BY <2>4, <2>5
<1> QED BY <1>8, <1>9

(* Whatever the anchor of a capture that closes, the records of this tick  *)
(* behind the end of its window are younger than the anchor, and leave     *)
(* with the bundle: it was not opened in the first tick of the process.    *)
LEMMA FinalizeBounds ==
  ASSUME Settings, PostSec >= Cadence, SignalInv, Finalize, NEW m \in Modality
  PROVE  Bounded(m)'
<1>1. TickInv /\ TypeOK /\ Bounded(m) /\ InTime(m) /\ Started
  BY DEF SignalInv, TickInv
<1>2. /\ pc = "finalize" /\ pc' = "evaluate" /\ tickAt' = tickAt
      /\ batches' = batches /\ unread' = unread
      /\ tickAt \in Nat /\ outbox' = Bundles(tickAt)
      /\ detectSince' = IF Ready(tickAt) THEN WindowEnd(session.anchor)
                                         ELSE detectSince
  BY <1>1, FinalizeIs
<1>3. /\ Polled(m) /\ Polled(m)'
      /\ \A r \in unread[m] : tickAt <= r.ts
  BY <1>1, <1>2, ObservedIs DEF Polled
<1>4. CASE ~Ready(tickAt)
  <2>1. detectSince' = detectSince BY <1>2, <1>4
  <2> QED BY <1>1, <1>2, <1>3, <2>1 DEF Bounded
<1>5. CASE Ready(tickAt)
  <2> DEFINE a == session.anchor
             We == WindowEnd(a)
             b == Assemble(session)
  <2>1. session # NoSession /\ We <= tickAt BY <1>5 DEF Ready
  <2>2. a \in Nat BY <1>1, <2>1, StateIs
  <2>3. We = a + PostSec /\ We \in Nat
    <3>1. We = a + PostSec BY DEF WindowEnd
    <3> HIDE DEF a, We
    <3> QED BY <2>2, <3>1, SettingsAre
  <2>4. startedAt < tickAt /\ startedAt \in Nat
    BY <1>1, <1>2, <2>1 DEF Started
  <2>5. outbox' # <<>> /\ outbox'[1] = b /\ detectSince' = We
    BY <1>2, <1>5 DEF Bundles
  <2>6. b.records[m] = session.pre[m] \cup Span(records[m], a, We)
    BY DEF Assemble, SnapshotRecords
  <2>7. SourceInv(m) BY <1>1 DEF TickInv
  <2> HIDE DEF a, We, b
  <2>8. tickAt - RetentionSec \in Int
        /\ Cadence \in Nat /\ Cadence <= RetentionSec /\ RetentionSec \in Nat
    BY <1>2, SettingsAre
  <2>9. Span(records[m], tickAt - RetentionSec, We)
          = Span(seen[m], tickAt - RetentionSec, We)
    BY <1>1, <1>2, <2>3, <2>8, SeenIsKept
  <2>10. ASSUME NEW r \in batches[m].records, ~(We <= r.ts)
         PROVE  r \in b.records[m]
    <3>1. r \in seen[m] BY <1>3, <2>7 DEF SourceInv, BufferOK
    <3>2. r.ts \in Nat BY <1>1, <3>1, StateIs
    <3>3. tickAt <= r.ts + Cadence
      <4>1. tickAt <= r.ts + Cadence \/ tickAt = startedAt
        BY <1>1, <1>3 DEF InTime
      <4> QED BY <1>2, <2>4, <4>1
    <3>4. a <= r.ts BY <1>2, <2>1, <2>2, <2>3, <2>8, <3>2, <3>3, SettingsAre
    <3>5. tickAt - RetentionSec <= r.ts BY <1>2, <2>8, <3>2, <3>3
    <3>6. r.ts < We BY <2>3, <2>10, <3>2
    <3>7. r \in records[m] BY <2>9, <3>1, <3>5, <3>6 DEF Span
    <3> QED BY <2>6, <3>4, <3>6, <3>7 DEF Span
  <2>11. \A r \in unread[m] : We <= r.ts
    <3>1. \A r \in unread[m] : r.ts \in Nat BY <1>1, StateIs
    <3> QED BY <1>2, <1>3, <2>1, <2>3, <3>1
  <2>12. ASSUME NEW r \in batches[m].records
         PROVE  We <= r.ts \/ InOutbox(m, r)'
    BY <2>5, <2>10 DEF InOutbox
  <2> QED BY <1>2, <2>1, <2>5, <2>11, <2>12 DEF Bounded
<1> QED BY <1>4, <1>5

(* A capture that closes takes what it holds into the bundle.              *)
LEMMA FinalizeAccounts ==
  ASSUME Settings, SignalInv, Finalize, SameRecords, PostsOK', Runs,
         NEW m \in Modality
  PROVE  InTime(m)' /\ OnItsWay(m)'
<1>1. TickInv /\ TypeOK /\ PostsOK BY DEF SignalInv, TickInv, Numbered
<1>2. /\ pc = "finalize" /\ pc' = "evaluate" /\ tickAt' = tickAt
      /\ batches' = batches /\ seen' = seen /\ outbox = <<>>
      /\ outbox' = Bundles(tickAt) /\ FinalizeReady(tickAt)
  BY <1>1, FinalizeIs
<1>3. Polled(m) /\ Polled(m)' BY <1>2 DEF Polled
<1>4. startedAt' = startedAt /\ excepted \subseteq excepted' BY DEF Runs
<1>5. InTime(m)'
  <2> SUFFICES ASSUME NEW r \in batches[m].records
               PROVE  /\ r.ts <= tickAt \/ <<m, r>> \in excepted'
                      /\ tickAt <= r.ts + Cadence \/ tickAt = startedAt
    BY <1>2, <1>3, <1>4 DEF InTime
  <2> QED BY <1>3, <1>4 DEF SignalInv, InTime
<1>6. ASSUME NEW r \in seen[m], Held(m, r)
      PROVE  Held(m, r)' \/ InOutbox(m, r)'
  <2>1. CASE ~Ready(tickAt)
    <3>1. session' = session BY <1>2, <2>1 DEF FinalizeReady
    <3>2. Timely' BY <1>6, <3>1, SameTellsSame, StepTells DEF Held
    <3> QED BY <1>6, <3>1, <3>2 DEF Held, InCapture
  <2>2. CASE Ready(tickAt)
    <3>1. outbox' = <<Assemble(session)>> BY <1>2, <2>2 DEF Bundles
    <3>2. outbox' # <<>> /\ outbox'[1] = Assemble(session) BY <3>1
    <3>3. Assemble(session).records[m] =
            session.pre[m] \cup
            Span(seen[m], session.anchor, WindowEnd(session.anchor))
      BY <1>1, <1>2, <1>6, <2>2, PostIsWhole DEF Held
    <3>4. r \in Assemble(session).records[m]
      BY <1>6, <3>3 DEF Held, InCapture, Span
    <3> QED BY <3>2, <3>4 DEF InOutbox
  <2> QED BY <2>1, <2>2
<1>7. OnItsWay(m)'
  <2> SUFFICES ASSUME NEW r \in seen[m], Counts(m, r)'
               PROVE  \/ Posted(m, r)' \/ InOutbox(m, r)'
                      \/ Held(m, r)'
                      \/ Polled(m)' /\ r \in batches'[m].records
    BY <1>2 DEF OnItsWay
  <2>1. Counts(m, r) BY <1>4 DEF Counts
  <2>2. \/ Posted(m, r) \/ Held(m, r)
        \/ r \in batches[m].records
    BY <1>2, <2>1 DEF SignalInv, OnItsWay, InOutbox
  <2>3. Posted(m, r) => Posted(m, r)' BY <1>1, PostedStays
  <2> QED BY <1>2, <1>3, <1>6, <2>2, <2>3
<1> QED BY <1>5, <1>7

(* A capture that opens in its time holds the signals of its tick: it      *)
(* reaches back over a tick, or over the first read of a process as far as *)
(* the property asks.                                                      *)
LEMMA OpeningHolds ==
  ASSUME Settings, PreSec >= Cadence, TickInv, EvaluateAndRegister,
         session = NoSession, Timely', Tells, TypeOK',
         NEW m \in Modality, NEW r \in seen[m], r.ts <= tickAt,
         WindowStart(tickAt) <= r.ts
  PROVE  InCapture(m, r)'
<1>1. /\ TypeOK /\ pc = "evaluate" /\ session' # NoSession
      /\ watermark = tickAt /\ tickAt \in Nat /\ r.ts \in Nat
  BY ObservedIs, StateIs DEF EvaluateAndRegister, TickInv, Timely
<1> DEFINE a == session'.anchor
<1>2. /\ a \in Nat /\ a <= tickAt /\ tickAt < WindowEnd(a)
  BY <1>1, TimeInNat DEF Tells, Timely, TypeOK, IsSession
<1>3. PICK latency \in LatencyEvidences : \E e \in Evidences(latency) :
        session' = NewSession(e.time, Evidences(latency))
  BY <1>1, OpensAtEvidence
<1>4. PICK e \in Evidences(latency) :
        session' = NewSession(e.time, Evidences(latency))
  BY <1>3
<1>5. session'.pre[m] = Span(records[m], WindowStart(a), a)
  BY <1>4 DEF NewSession, SnapshotRecords
<1>6. WindowEnd(a) \in Nat /\ WindowStart(a) <= r.ts
  <2> HIDE DEF a
  <2>1. WindowStart(a) = a - PreSec /\ WindowStart(tickAt) = tickAt - PreSec
    BY DEF WindowStart
  <2>2. PreSec \in Nat /\ PostSec \in Nat BY SettingsAre
  <2> QED BY <1>1, <1>2, <2>1, <2>2 DEF WindowEnd
<1>7. CASE r.ts < a
  <2>1. WindowStart(tickAt) \in Int
        /\ tickAt - RetentionSec <= WindowStart(tickAt)
    BY <1>1, SettingsAre DEF WindowStart
  <2>2. Span(records[m], WindowStart(tickAt), a)
          = Span(seen[m], WindowStart(tickAt), a)
    BY <1>1, <1>2, <2>1, SeenIsKept
  <2>3. r \in records[m] BY <1>7, <2>2 DEF Span
  <2>4. r \in session'.pre[m] BY <1>5, <1>6, <1>7, <2>3 DEF Span
  <2> QED BY <1>1, <2>4 DEF InCapture
<1>8. CASE ~(r.ts < a)
  <2> HIDE DEF a
  <2>1. a <= r.ts /\ r.ts < WindowEnd(a) BY <1>1, <1>2, <1>6, <1>8
  <2> QED BY <1>1, <2>1 DEF InCapture, WindowEnd, a
<1> QED BY <1>7, <1>8

(* A signal of the batch that no bundle carries makes a detector fire, and *)
(* the capture that opens then, or is in progress, holds it if it is one   *)
(* that opened in its time.                                                *)
LEMMA FiringAccounts ==
  ASSUME Settings, PreSec >= Cadence, SignalInv,
         EvaluateAndRegister, TypeOK', SameRecords, PostsOK', Runs,
         NEW m \in Modality
  PROVE  InTime(m)' /\ OnItsWay(m)'
<1>1. TickInv /\ TypeOK /\ PostsOK /\ KindsOK /\ SourceInv(m)
  BY DEF SignalInv, TickInv, Numbered
<1>2. /\ pc = "evaluate" /\ pc' = "send" /\ seen' = seen /\ outbox' = outbox
  BY DEF EvaluateAndRegister
<1>3. Polled(m) /\ ~Polled(m)' BY <1>2 DEF Polled
<1>4. InTime(m)' BY <1>3 DEF InTime
<1>5. tickAt \in Nat BY <1>1, <1>2, ObservedIs
<1>6. /\ startedAt' = startedAt /\ excepted \subseteq excepted'
      /\ LookedAt \subseteq excepted' /\ Tells
  BY StepTells DEF Runs
<1>7. PICK latency \in LatencyEvidences : RegisterTriggers(Evidences(latency))
  BY DEF EvaluateAndRegister
<1>8. session # NoSession =>
        /\ session' # NoSession /\ session'.anchor = session.anchor
        /\ session'.pre = session.pre /\ (Timely' <=> Timely)
  <2> SUFFICES ASSUME session # NoSession
               PROVE  session' # NoSession
    BY <1>1, <1>6, AbsorbKeepsAnchor DEF Tells, Timely
  <2>1. CASE session' = session BY <2>1
  <2>2. CASE AbsorbTriggers(Evidences(latency))
    BY <1>1, <2>2, AbsorbType DEF Settings
  <2> QED BY <1>7, <2>1, <2>2 DEF RegisterTriggers, OpenSession
<1>9. ASSUME NEW r \in batches[m].records, Counts(m, r)', ~InOutbox(m, r)
      PROVE  Held(m, r)'
  <2>1. batches[m].records \subseteq seen[m] /\ r \in seen[m]
    BY <1>1, <1>3 DEF SourceInv, BufferOK
  <2>2. r.ts \in Nat /\ r \in Record BY <1>1, <2>1, StateIs DEF TypeOK
  <2>3. /\ r.kind \in LoneSignals /\ r.ts >= startedAt - PreSec
        /\ <<m, r>> \notin excepted /\ <<m, r>> \notin LookedAt
    BY <1>6, <1>9 DEF Counts
  <2>4. ~astray' /\ r \notin TooFew(m) BY <1>2, <2>2, <2>3 DEF LookedAt
  <2>5. /\ r.ts <= tickAt
        /\ tickAt <= r.ts + Cadence \/ tickAt = startedAt
    BY <1>3, <2>3 DEF SignalInv, InTime
  <2>6. WindowStart(tickAt) <= r.ts
    BY <1>5, <2>2, <2>3, <2>5, SettingsAre DEF WindowStart
  <2>7. r \in Since(batches[m].records)
    <3>1. detectSince = NoTime \/ detectSince <= r.ts
      BY <1>3, <1>9 DEF SignalInv, Bounded
    <3> QED BY <2>2, <3>1, SinceIsTime DEF Since
  <2>8. Evidences(latency) # {}
    <3>1. r.kind \in BatchDetectors =>
            ~(Cardinality(Signals(Since(batches[m].records), r.kind)) <= Floor)
      BY <2>4, <2>7 DEF TooFew
    <3> QED BY <1>1, <2>1, <2>3, <2>7, <3>1, EnoughSignalsFire
  <2>9. CASE session = NoSession
    <3>1. OpenSession(Evidences(latency))
      BY <1>7, <2>8, <2>9 DEF RegisterTriggers, AbsorbTriggers
    <3>2. session' # NoSession BY <1>1, <1>2, <3>1, OpenType DEF Settings
    <3>3. Timely' BY <2>4, <3>2 DEF Timely
    <3> QED BY <1>1, <1>6, <2>1, <2>5, <2>6, <2>9, <3>3, OpeningHolds DEF Held
  <2>10. CASE session # NoSession
    <3>1. Timely /\ Timely' BY <1>8, <2>4, <2>10 DEF Timely
    <3>2. session.anchor <= r.ts
      BY <1>1, <1>3, <3>1 DEF SourceInv, Follows
    <3>3. tickAt < WindowEnd(session.anchor)
      BY <1>1, <1>2, <3>1 DEF TickInv, WindowOpen
    <3>4. WindowEnd(session.anchor) \in Nat
      BY <1>1, <2>10, StateIs, SettingsAre DEF WindowEnd
    <3>5. r.ts < WindowEnd(session.anchor)
      BY <1>5, <2>2, <2>5, <3>3, <3>4
    <3> QED BY <1>8, <2>10, <3>1, <3>2, <3>5 DEF Held, InCapture, WindowEnd
  <2> QED BY <2>9, <2>10
<1>10. OnItsWay(m)'
  <2> SUFFICES ASSUME NEW r \in seen[m], Counts(m, r)'
               PROVE  \/ Posted(m, r)' \/ InOutbox(m, r)'
                      \/ Held(m, r)'
    BY <1>2 DEF OnItsWay
  <2>1. Counts(m, r) BY <1>6 DEF Counts
  <2>2. \/ Posted(m, r) \/ InOutbox(m, r) \/ Held(m, r)
        \/ r \in batches[m].records
    BY <2>1 DEF SignalInv, OnItsWay
  <2>3. Posted(m, r) => Posted(m, r)' BY <1>1, PostedStays
  <2>4. InOutbox(m, r) => InOutbox(m, r)' BY <1>2 DEF InOutbox
  <2>5. Held(m, r) => Held(m, r)'
    BY <1>8 DEF Held, Timely, InCapture, WindowEnd
  <2> QED BY <1>9, <2>2, <2>3, <2>4, <2>5
<1> QED BY <1>4, <1>10

(* What is being sent has been asked for when the send returns.            *)
LEMMA ReturnAccounts ==
  ASSUME SignalInv, Sends, Awaiting, NEW a, Return(a), PostsOK',
         NEW m \in Modality
  PROVE  InTime(m)' /\ OnItsWay(m)'
<1>1. PostsOK BY DEF SignalInv, Numbered
<1>2. /\ pc = "send" /\ pc' = "send" /\ seen' = seen /\ session' = session
      /\ startedAt' = startedAt /\ excepted' = excepted
  BY DEF Sends, Send
<1>3. SameRecords BY <1>1, ReturnChanges
<1>4. ~Polled(m) /\ ~Polled(m)' BY <1>2 DEF Polled
<1>5. InTime(m)' BY <1>4 DEF InTime
<1>6. ASSUME NEW r, InOutbox(m, r) PROVE Posted(m, r)
  <2>1. posts[Len(posts)].records = outbox[1].records
    BY DEF SignalInv, Asked
  <2>2. Len(posts) \in 1 .. Len(posts) BY <1>1 DEF Awaiting, PostsOK
  <2> QED BY <1>6, <2>1, <2>2 DEF InOutbox, Posted
<1>7. Timely' <=> Timely BY <1>2, SameTellsSame, StepTells
<1>8. OnItsWay(m)'
  <2> SUFFICES ASSUME NEW r \in seen[m], Counts(m, r)'
               PROVE  Posted(m, r)' \/ Held(m, r)'
    BY <1>2 DEF OnItsWay
  <2>1. Counts(m, r) BY <1>2 DEF Counts
  <2>2. Posted(m, r) \/ Held(m, r)
    BY <1>4, <1>6, <2>1 DEF SignalInv, OnItsWay
  <2>3. Posted(m, r) => Posted(m, r)' BY <1>1, <1>3, PostedStays
  <2>4. Held(m, r) => Held(m, r)' BY <1>2, <1>7 DEF Held, InCapture
  <2> QED BY <2>2, <2>3, <2>4
<1> QED BY <1>5, <1>8

(* A record's kind is one its source can have. *)
LEMMA KindsDeployed ==
  ASSUME TypeOK, KindsOK, [DNext]_allVars
  PROVE  KindsOK'
<1>1. CASE [Next]_vars BY <1>1, KindsStep
<1>2. ASSUME NEW n \in Modality, NEW r \in Record, WriteAhead(n, r)
      PROVE  KindsOK'
  <2> SUFFICES ASSUME NEW m \in Modality, NEW q \in seen'[m] \cup unread'[m]
               PROVE  q.kind \in Kinds(m)
    BY DEF KindsOK, Kinds
  <2>1. q \in seen[m] \cup unread[m] \/ (q = r /\ m = n)
    BY <1>2 DEF WriteAhead, TypeOK
  <2> QED BY <1>2, <2>1 DEF WriteAhead, KindsOK
<1>3. ASSUME NEW down, Crash(down) PROVE KindsOK'
  BY <1>3 DEF Crash, Reread, KindsOK, Kinds
<1>4. Observing
        => [Next]_vars \/ \E n \in Modality, r \in Record : WriteAhead(n, r)
  BY DEF Observing, Next, Tick
<1>5. (\E a : Return(a)) => [Next]_vars BY DEF Return, Next, Tick
<1>6. Post \/ (\E k : Take(k)) \/ UNCHANGED allVars => [Next]_vars
  BY DEF Post, Take, allVars
<1> QED BY <1>1, <1>2, <1>3, <1>4, <1>5, <1>6 DEF DNext

LEMMA SignalStep ==
  ASSUME Settings, PreSec >= Cadence, PostSec >= Cadence, SignalInv,
         [DNext]_allVars
  PROVE  SignalInv'
<1>1. TickInv /\ TypeOK /\ Numbered /\ PostsOK /\ Len(posts) \in Nat
  BY DEF SignalInv, TickInv, Numbered, PostsOK
<1>2. TickInv' /\ TypeOK' BY <1>1, TickStep DEF TickInv
<1>3. Numbered' /\ PostsOK' BY <1>1, NumberedStep DEF Numbered
<1>4. FilesAre' BY <1>1, FilesStep DEF SignalInv
<1>5. Asked' BY <1>1, AskedStep DEF SignalInv
<1>6. KindsOK' BY <1>1, KindsDeployed DEF SignalInv
<1>7. Started' BY <1>1, <1>2, StartedStep DEF SignalInv
<1>8. ASSUME NEW m \in Modality
      PROVE  Bounded(m)' /\ InTime(m)' /\ OnItsWay(m)'
  <2>0. Bounded(m) BY DEF SignalInv
  <2>1. CASE Runs
    <3>1. SameRecords /\ Tells BY <1>1, <2>1, StepTells DEF Runs, SameRecords
    <3>2. CASE PollRead
      BY <1>1, <1>2, <1>3, <2>0, <2>1, <3>1, <3>2, ReadAccounts, BoundedStays
    <3>3. CASE Finalize
      BY <1>3, <2>1, <3>1, <3>3, FinalizeAccounts, FinalizeBounds
    <3>4. CASE EvaluateAndRegister
      BY <1>1, <1>2, <1>3, <2>0, <2>1, <3>1, <3>4, FiringAccounts,
         BoundedStays
    <3>5. CASE ~PollRead /\ ~Finalize /\ ~EvaluateAndRegister
      <4>1. Steady BY <1>1, <2>1, <3>5, RunIsSteady
      <4> QED BY <1>1, <1>2, <1>3, <2>0, <3>1, <4>1, SteadyKeeps, BoundedStays
    <3> QED BY <3>2, <3>3, <3>4, <3>5
  <2>2. CASE Rests /\ (Post \/ (\E k \in 1 .. Len(posts) : Take(k))
                         \/ UNCHANGED posts)
    <3>1. Steady /\ Tells BY <1>1, <2>2, RestIsSteady, StepTells
    <3>2. SameRecords
      <4>1. CASE Post BY <1>1, <4>1, PostChanges
      <4>2. CASE \E k \in 1 .. Len(posts) : Take(k)
        BY <1>1, <4>2, TakeChanges
      <4>3. CASE UNCHANGED posts BY <1>1, <4>3 DEF SameRecords
      <4> QED BY <2>2, <4>1, <4>2, <4>3
    <3> QED BY <1>1, <1>2, <1>3, <2>0, <3>1, <3>2, SteadyKeeps, BoundedStays
  <2>3. ASSUME Sends, Awaiting, NEW a, Return(a)
        PROVE  Bounded(m)' /\ InTime(m)' /\ OnItsWay(m)'
    BY <1>1, <1>2, <1>3, <2>0, <2>3, ReturnAccounts, BoundedStays DEF Sends
  <2>4. ASSUME NEW down, Crash(down)
        PROVE  Bounded(m)' /\ InTime(m)' /\ OnItsWay(m)'
    <3>1. seen'[m] = {} /\ pc' = "sleep" BY <2>4 DEF Crash
    <3>2. ~Polled(m)' BY <3>1 DEF Polled
    <3> QED BY <1>1, <1>2, <2>0, <2>4, <3>1, <3>2, BoundedStays
            DEF InTime, OnItsWay
  <2> QED BY <2>1, <2>2, <2>3, <2>4, StepIs
<1> QED BY <1>2, <1>3, <1>4, <1>5, <1>6, <1>7, <1>8 DEF SignalInv

(* However often the process ends, no signal that is younger than the      *)
(* first half of a window when the collector is back, and none of the      *)
(* exceptions of SignalsPosted, is lost (runner.py:54-126,                 *)
(* client.py:26-51): by the end of the tick that reads it a request has    *)
(* carried it, of this process or an earlier one, or the capture in        *)
(* progress will.  Whatever detectors run and whatever they need to fire;  *)
(* either half of a window must be as long as a tick and its sleep.        *)
THEOREM SignalsPostedCorrect ==
  ASSUME Settings, PreSec >= Cadence, PostSec >= Cadence
  PROVE  DSpec => []SignalsPosted
<1>1. DInit => SignalInv
  <2> SUFFICES ASSUME DInit PROVE SignalInv OBVIOUS
  <2>1. TickInv BY TickInit
  <2>2. Numbered BY FS_EmptySet DEF DInit, Numbered, PostsOK, Taken
  <2>3. \A m \in Modality : files[m] = {} /\ seen[m] = {} /\ unread[m] = {}
    BY DEF DInit, Init
  <2>4. KindsOK /\ FilesAre BY <2>3 DEF KindsOK, FilesAre
  <2>5. Asked BY DEF DInit, Asked, Awaiting
  <2>6. /\ pc = "poll" /\ next = 1 /\ tickAt = 0 /\ startedAt = 0
        /\ detectSince = NoTime /\ session = NoSession
    BY DEF DInit, Init, SnapshotInit
  <2>7. Started BY <2>6 DEF Started
  <2>8. ASSUME NEW m \in Modality PROVE Bounded(m) /\ InTime(m) /\ OnItsWay(m)
    <3>1. ~Polled(m) BY <2>6 DEF Polled
    <3> QED BY <2>3, <2>6, <3>1 DEF Bounded, InTime, OnItsWay
  <2> QED BY <2>1, <2>2, <2>4, <2>5, <2>7, <2>8 DEF SignalInv
<1>2. SignalInv /\ [DNext]_allVars => SignalInv' BY SignalStep
<1>3. SignalInv => SignalsPosted
  <2> SUFFICES ASSUME SignalInv, pc = "sleep", NEW m \in Modality,
                      NEW r \in files[m] \ unread[m],
                      r.kind \in LoneSignals, r.ts >= startedAt - PreSec,
                      <<m, r>> \notin excepted
               PROVE  Posted(m, r) \/ InCapture(m, r)
    BY DEF SignalsPosted
  <2>1. r \in seen[m] BY DEF SignalInv, FilesAre
  <2>2. Counts(m, r) BY DEF Counts
  <2>3. outbox = <<>> /\ ~Polled(m)
    BY DEF SignalInv, TickInv, Clocked, Polled
  <2> QED BY <2>1, <2>2, <2>3 DEF SignalInv, OnItsWay, InOutbox, Held
<1> QED BY <1>1, <1>2, <1>3, PTL DEF DSpec

-----------------------------------------------------------------------------
(* Between crashes the loop implements Capture, and a crash begins it anew. *)

(* A capture opens at the observed time, so nothing has to be said of the  *)
(* age of the signals it opens on.                                         *)
LEMMA DeployedOpens ==
  ASSUME AtOneInstant, NoneIsNoCapture, LoopInv, EvaluateAndRegister,
         NEW latency \in LatencyEvidences, OpenSession(Evidences(latency))
  PROVE  \E a \in Time : Promise!Open(a)
<1>1. TypeOK /\ TickInv /\ pc = "evaluate"
  BY DEF LoopInv, TickInv, EvaluateAndRegister
<1>2. session = NoSession /\ session' # NoSession
  BY <1>1, OpenType DEF OpenSession, NoneIsNoCapture
<1>3. /\ session'.anchor = tickAt
      /\ \A m \in Modality :
           session'.pre[m] = Span(seen[m], WindowStart(tickAt), tickAt)
  BY <1>1, <1>2, OpensAtTick
<1>4. tickAt \in Time /\ tickAt \in Nat /\ watermark = tickAt
  BY <1>1, ObservedIs DEF TypeOK
<1>5. detectSince # NoTime => detectSince \in Nat /\ detectSince <= tickAt
  <2>1. PICK m \in Modality : TRUE BY SomeModality
  <2>2. detectSince # NoTime => detectSince \in Nat BY <1>1, StateIs
  <2> QED BY <2>1, <2>2 DEF LoopInv, Bounded
<1>6. PollSpan = 0 /\ Staleness \in Nat
  <2>1. PollSpan = 0 /\ Lateness = 0 /\ Cadence \in Nat
    BY SettingsAre DEF AtOneInstant
  <2> QED BY <2>1 DEF Staleness, Gap
<1>7. detectSince # NoTime => tickAt + PollSpan >= detectSince
  BY <1>4, <1>5, <1>6
<1>8. tickAt <= watermark + PollSpan /\ watermark <= tickAt + Staleness
  BY <1>4, <1>6
<1> QED BY <1>1, <1>3, <1>4, <1>7, <1>8, OpenIsOpen

(* A capture closes in the first tick behind its window.                   *)
LEMMA DeployedCloses ==
  ASSUME AtOneInstant, NoneIsNoCapture, LoopInv, Finalize,
         session # NoSession, session' = NoSession
  PROVE  Promise!Close
<1>1. TypeOK /\ TickInv /\ pc = "finalize" BY DEF LoopInv, TickInv, Finalize
<1>2. outbox = <<>> BY <1>1 DEF TickInv, Clocked
<1>3. watermark = tickAt /\ \A m \in Modality : batches[m].until = tickAt
  BY <1>1, ObservedIs
<1>4. Ready(tickAt) BY <1>3 DEF Finalize, FinalizeReady
<1>5. WindowEnd(session.anchor) <= tickAt BY <1>4 DEF Ready
<1>6. \A m \in Modality :
        Span(records[m], session.anchor, WindowEnd(session.anchor))
          = Span(seen[m], session.anchor, WindowEnd(session.anchor))
  BY <1>1, <1>4, WindowIsWhole DEF AtOneInstant
<1>7. watermark >= WindowEnd(session.anchor) BY <1>3, <1>5
<1> QED BY <1>1, <1>2, <1>6, <1>7, CloseIsClose

(* A step of the loop in a process that goes on.                           *)
LEMMA ObservingIsCapture ==
  ASSUME AtOneInstant, NoneIsNoCapture, LoopInv, TypeOK', Observing
  PROVE  Promise!Next \/ UNCHANGED Promise!vars
<1>1. TypeOK /\ TickInv BY DEF LoopInv, TickInv
<1>2. CASE PollRead BY <1>1, <1>2, ReadIsObserve DEF Promise!Next
<1>3. CASE Append1
  <2>1. /\ watermark' = tickAt /\ watermark' # NoTime /\ tickAt \in Nat
        /\ watermark # NoTime => watermark \in Nat /\ watermark <= tickAt
    BY <1>1, <1>3, AppendObserves
  <2>2. watermark # NoTime => watermark' >= watermark BY <2>1
  <2> QED BY <1>1, <1>3, <2>1, <2>2, AppendIsObserve DEF Promise!Next
<1>4. CASE Finalize
  <2>1. CASE Ready(tickAt)
    <3>1. session # NoSession /\ session' = NoSession
      BY <1>1, <1>4, <2>1, ObservedIs DEF Finalize, FinalizeReady, Ready
    <3> QED BY <1>4, <3>1, DeployedCloses DEF Promise!Next
  <2>2. CASE ~Ready(tickAt)
    <3>1. \A m \in Modality : batches[m].until = tickAt
      BY <1>1, <1>4, ObservedIs DEF Finalize
    <3>2. outbox' = Bundles(tickAt) /\ FinalizeReady(tickAt)
          /\ detectSince' = detectSince
      BY <1>4, <2>2, <3>1 DEF Finalize
    <3>3. outbox = <<>> BY <1>1, <1>4 DEF TickInv, Clocked, Finalize
    <3>4. UNCHANGED <<seen, watermark, session, detectSince, outbox>>
      BY <1>4, <2>2, <3>2, <3>3
         DEF Finalize, FinalizeReady, Bundles, bufferVars
    <3> QED BY <3>4, IdleIsNoStep
  <2> QED BY <2>1, <2>2
<1>5. CASE EvaluateAndRegister
  <2>1. PICK latency \in LatencyEvidences : RegisterTriggers(Evidences(latency))
    BY <1>5 DEF EvaluateAndRegister
  <2>2. CASE UNCHANGED session
    <3>1. UNCHANGED <<seen, watermark, session, detectSince, outbox>>
      BY <1>5, <2>2 DEF EvaluateAndRegister, bufferVars
    <3> QED BY <3>1, IdleIsNoStep
  <2>3. CASE OpenSession(Evidences(latency))
    BY <1>5, <2>3, DeployedOpens DEF Promise!Next
  <2>4. CASE AbsorbTriggers(Evidences(latency))
    BY <1>1, <1>5, <2>4, AbsorbIsAbsorb DEF Promise!Next
  <2> QED BY <2>1, <2>2, <2>3, <2>4 DEF RegisterTriggers
<1>6. CASE ~PollRead /\ ~Append1 /\ ~Finalize /\ ~EvaluateAndRegister
  <2>1. UNCHANGED <<seen, watermark, session, detectSince, outbox>>
    BY <1>6 DEF Observing, Horizon, Write, WriteAhead, ClockAdvances,
                PollBegin, Sleep, Wake, vars, loopVars, bufferVars
  <2> QED BY <2>1, IdleIsNoStep
<1> QED BY <1>2, <1>3, <1>4, <1>5, <1>6

(* What a new process begins with is what Capture begins with.             *)
LEMMA CrashIsInit ==
  ASSUME NEW down, Crash(down)
  PROVE  (Promise!Init)'
<1>1. /\ seen' = [m \in Modality |-> {}] /\ watermark' = NoTime
      /\ session' = NoSession /\ detectSince' = NoTime /\ outbox' = <<>>
  BY DEF Crash
<1>2. OutboxView' = <<>> BY <1>1, OutboxViews DEF OutboxView
<1> QED BY <1>1, <1>2 DEF Promise!Init, OutboxView

(* The deployed collector is Capture, begun anew by every crash            *)
(* (runner.py:54-126): whatever the server does, however far records are   *)
(* ahead of the clock and whenever a process ends, nothing of a capture is *)
(* given up while its process lives, and none of it outlives the process.  *)
(* Of collectors all of whose detectors give the observed time.            *)
THEOREM CapturesAnewCorrect ==
  ASSUME AtOneInstant, NoneIsNoCapture
  PROVE  DSpec => CapturesAnew
<1> DEFINE Counted == restarts \in Nat
<1>1. DInit => Promise!Init /\ Counted BY InitIsInit DEF DInit
<1>2. Counted /\ [DNext]_allVars => Counted'
  <2>1. Post \/ (\E k : Take(k)) \/ (\E a : Return(a)) \/ UNCHANGED allVars
          => restarts' = restarts
    BY DEF Post, Take, Return, allVars, deployed
  <2>2. (\E down : Crash(down)) => restarts' = restarts + 1 BY DEF Crash
  <2>3. [DNext]_allVars => restarts' = restarts \/ restarts' = restarts + 1
    BY <2>1, <2>2 DEF DNext
  <2> QED BY <2>3
<1>3. LoopInv /\ Counted /\ [DNext]_allVars =>
        [IF restarts' = restarts THEN Promise!Next
         ELSE Promise!Init']_<<Promise!vars, restarts>>
  <2> SUFFICES ASSUME LoopInv, Counted, [DNext]_allVars
               PROVE  \/ restarts' = restarts
                         /\ (Promise!Next \/ UNCHANGED Promise!vars)
                      \/ restarts' # restarts /\ (Promise!Init)'
    OBVIOUS
  <2>1. TypeOK /\ TypeOK' BY DeployedTypeStep DEF LoopInv, TickInv
  <2>2. CASE Observing /\ restarts' = restarts
    BY <2>1, <2>2, ObservingIsCapture
  <2>3. ASSUME NEW a, Return(a)
        PROVE  restarts' = restarts /\ Promise!Next
    <3>1. restarts' = restarts /\ Send BY <2>3 DEF Return
    <3> QED BY <2>1, <3>1, SendIsEmit DEF Promise!Next
  <2>4. ASSUME NEW down \in 0 .. MaxDown, Crash(down)
        PROVE  restarts' # restarts /\ (Promise!Init)'
    <3>1. restarts' # restarts BY <2>4 DEF Crash
    <3> QED BY <2>4, <3>1, CrashIsInit
  <2>5. CASE UNCHANGED <<vars, restarts>>
    <3>1. UNCHANGED <<seen, watermark, session, detectSince, outbox>>
      BY <2>5 DEF vars, loopVars, bufferVars
    <3> QED BY <2>5, <3>1, IdleIsNoStep
  <2>6. Post \/ (\E k : Take(k)) \/ UNCHANGED allVars
          => UNCHANGED <<vars, restarts>>
    BY DEF Post, Take, allVars, deployed
  <2> QED BY <2>2, <2>3, <2>4, <2>5, <2>6 DEF DNext
<1>4. DSpec => []LoopInv BY LoopCorrect
<1> QED BY <1>1, <1>2, <1>3, <1>4, PTL DEF DSpec, CapturesAnew
=============================================================================
