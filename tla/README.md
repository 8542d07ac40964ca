# A verification of the edge collector (`rca_sdk`)

The collector tails the files a set of services write, keeps the last minutes of
them in a rolling buffer, looks for symptoms of an incident and, when it finds one,
ships a bundle of everything that happened three minutes before and three minutes
after it. This directory holds TLA+ models of that program, the TLC runs that check
them, and theorems about them that TLAPS proves for every value of the constants.

    cd tla
    tlc -workers 2 -config MCRunnerExact.cfg MCRunner
    tlapm RunnerBundle_proofs.tla

Paths below are relative to the repository; `rca_sdk` is `src/rca_sdk`.

## The system

One thread repeats, every `loop_interval_sec` (30 s):

    for each source: collector.poll -> normalizer.normalize      (tail.py, normalization/)
    for each batch:  buffer.append                               (memory_buffer.py)
    snapshot.finalize_ready  -> bundles, and the detectors' lower bound
    for each batch, detector: detector.evaluate -> evidences     (trigger/)
    snapshot.register_triggers(evidences)                        (assembler.py)
    for each bundle: transport.send                              (client.py)
    sleep

What runs beside it: the services (or the replayer of `demo/`) that append to the
files, the wall clock, and the HTTP server. They are the only sources of concurrency,
and they are enough: a poll reads a moving file at a moving time, three polls of a
tick happen at three times, and the buffer's watermark advances while a capture waits
for its second half. Nothing is persisted: a process that ends, by an exception in
the loop or from outside, leaves its successor the files and nothing else.

| component | state | operations | what makes it correct |
| --- | --- | --- | --- |
| `buffer/memory_buffer.py` | records and batch history per modality, watermark | `append` (with `_evict`), `scan`, `get_snapshot` | nothing is evicted that a capture or a detector still needs; a span is answered exactly |
| `snapshot/assembler.py` | the capture in progress, or none | `register_triggers`, `finalize_ready` | one capture at a time, its anchor and first half fixed, closed once, complete |
| `runtime/runner.py` | `_detect_since`; the phase of the tick | `tick`, `run` | the order of the calls: close before detect, detect before register, send last |
| `collectors/tail.py` | offset (and CSV header) per file, time of the last poll | `poll` | every complete line is delivered once, in order, its columns named after the right header; a replaced file is read from its beginning |
| `trigger/` | none | `evaluate` | fires on new evidence only, at a time inside or after the bound |
| `normalization/` | none | `normalize` | what is not understood is skipped, what is missing is told apart from what is empty, under whatever name a service appears |
| `transport/client.py` | none | `send` | what it reports as accepted the server has taken |
| `demo/replayer/` | open files, the run log's current row | `reset`, `open`, `write`, `replay`, `start`, `finish`; reading and replacing the times of lines | header once, lines of a file in order, nothing of a line but its time changed, the history of runs kept |
| `scripts/mock_ingest_server.py` | none | `do_POST` | development aid: takes every bundle |

Hard behaviours, with their lines, are listed under `hazards` in `PROJECT.json`.

## Modules

    MemoryBuffer  <-  SnapshotManager  <-  Runner  --implements-->  Capture
                             ^               ^  ^
                             |               |  +--  Deployment  <-  Deployment_proofs
           Roster_proofs  ->  Roster         +--  RunnerBuffer_proofs  <-  RunnerBundle_proofs
    Tailer  --implements-->  Feed
    Selection  <-  Truncation, Replayer, CsvLine
    Selection  <-  Selection_proofs  <-  Tailer_proofs, Truncation_proofs, Replayer_proofs
    Replayer, CsvLine, LogLine  <-  ReplayedLines  <-  Replayer_proofs, MCReplayer
    MCRunner, MCDeployment, MCRoster, MCTailer, MCTruncation, MCReplayer: what the
    runs add to each

The loop, the files below it, the caps and the replayer are specifications of their
own: what one needs of another is small. Runner reads "the new lines" of a source,
which is what Feed promises; Truncation takes the lines of a window, which Runner
shows are the right ones; the environment of Tailer writes as Replayer does. Two more
put the parts of the collector together: Deployment the loop with crashes, foreign
clocks and the server, Roster the normalizers with buffer and sessions.

An arrow to the left is EXTENDS: the program is one thread in one process, so the
components share the variables of one state and the loop composes their operations.

**MemoryBuffer** has `records`, `history`, `watermark` for `_records`, `_history`,
`_watermark`. `AppendBatch` is `append` whole, eviction included. `Scan`,
`SnapshotRecords` and `SnapshotCoverage` are the queries.

**SnapshotManager** has `session` for `_session`. `OpenSession` and `AbsorbTriggers`
are the two branches of `register_triggers`, `FinalizeReady` and `Bundles` the effect
and the result of `finalize_ready`, `Assemble` and `ModalityInfo` the bundle.

**Runner** adds the loop. `pc` is the phase of the tick; its actions are `PollBegin`
and `PollRead` per source, `Append1` per batch, `Finalize`, `EvaluateAndRegister`,
`Send`, `Sleep`, `Wake`; the environment's are `Write` and `ClockAdvances`. A poll is
two actions because the code takes `now` before it reads (`tail.py:61`): a line
written in between is read although it is younger than the batch's `observed_until`.
The phases from the last poll to the first send touch neither a file nor the clock,
so the environment does not move there; a move there has the effect of one just after.
`seen` and `shipped` are history variables: what the polls have read, what the bundles
have carried. The detectors are operators, by the way they choose their trigger time:

| detectors | time of the evidence | operator |
| --- | --- | --- |
| `nginx_error`, `error_rate`, `trace_5xx` | the batch's `observed_until` | `CountEvidence` |
| `latency_spike` | the slowest span's time | `LatencyEvidences` |
| `cpu_spike`, `restart_marker` | the sample that completes the count in the lookback | `WindowEvidence` |

**Deployment** is the loop of Runner between what it does not control. `Crash(down)`
ends the process at any step and starts a new one, which polls for the first time
`down` later; the new one has nothing but the files, and reads them from the beginning
(`Reread`). `WriteAhead` writes lines whose time is ahead of the collector's clock.
Sending is `Post`, the server's `Take` - at any moment while the request is open, for
a request that timed out also after its `send` gave up - and `Return` with one of
`Answers`: a status, and a body that is plain, a refusal, or one that `SubmissionResult`
does not accept, as the mock server's, whose `job_id` is a word. `posts` are the
requests; `startedAt`, `astray`, `excepted` and `files` are history variables. `astray`
says that the capture in progress opened out of its time (`OutOfTime`): the watermark
lies outside [anchor, end), because an old record of a whole file or one ahead of the
clock gave the anchor. `excepted` is what `SignalsPosted` does not promise:

- `ReadEarly`: records read before their own time. One behind the window of the capture
  in progress fires while that absorbs it, and is never evaluated again.
- `TooFew`: signals a count detector does not find more of than its `Floor`.
- `LookedAt` while `astray`: everything the detectors look at when such a capture opens,
  and while it is in progress.

The first exception needs a record from the future, the second is what a threshold
means, and the third needs a capture out of its time, which takes a new process on old
files (or again a record from the future).

**Roster** takes buffer and sessions as they are, with a source per modality *and
service*: the constant `Modality` of MemoryBuffer becomes the pairs
`<<modality, service>>`. `Canonical` is `canonical_service`, on names that are a stem
and what follows it; `Present` is what the three normalizers make of the files a poll
found, `ServiceOf` whose a line is, `BatchOf` the normalised batch with its roster.
`Poll` is the polls and the appends of a tick at one instant. The environment creates,
removes and writes files and may make one fail to open. The detectors fire or not.

**Capture** is the abstract specification. It has no buffer: an archive that forgets
nothing, a capture that cuts its halves out of it, and bounds on where an anchor may
lie. `Runner!ImplementsCapture` is the refinement, with `archive <- seen` and
`observed <- watermark`; it says at once that evicting is never noticed, that a
trigger during a capture is absorbed, that anchors are fresh, and that a bundle
leaves once.

**Tailer** is one collector with the files of its directory. `offsets` and `headers`
are `_offsets` and `_headers`; a poll is `PollBegin` (the listing), per file `Stat`
or `StatFails` and then `Read` or `ReadFails`, and `PollEnd`. These are separate steps
because the replayer's `--reset` may come between any two of them
(`tail.py:69`); between its open and its read a file is a handle of the process, so
those are one step. A file is a sequence of cells, a cell being one field or the
newline behind a line, so a poll can see any part of a line but not a part of a field.
`WriteCell` writes what `Writer.open` and `Writer.write` do, the header of a CSV file
first. `Regrows` says whether a file that replaced another may outgrow the remembered
offset before a poll has seen it short; `Transient` whether opening a file that exists
may fail.

**Feed** is what a collector promises: what has been taken of a file is a prefix of
what the file has published; replacing a file or restarting starts anew.

**Truncation** is `_truncate_logs` with the capture around it: lines gather (`Log`),
evidences name services (`Name`), the bundle is cut (`Assemble`), the next capture
begins. A line is its service, its time and whether it is a signal. The sampling
places are exact integers, `(i - 1) * len \div n + 1`; the code computes
`int(i * (len / n))` in floating point, which differs by at most one place, and only
where the exact place is a whole number: there it may be one less.

**Selection** has what Truncation, Replayer and CsvLine need of sorting and filtering: the
elements of a set in an order, numbered by counting what is below them (`Nth`,
`InOrder`, `Ordered`), and the part of a sequence at a set of positions. The standard
modules define these by recursion or search, of which nothing could be proved.

**Replayer** is a run of `python -m demo.replayer`: `Launch`, the reset (`Wipe` per
file, `LogReset`), `LogStart`, then for every line of the merge `Open`, `WriteHeader`
and `WriteLine`, and `Complete` or `Interrupt`. `_write` of the run log is two steps
(`Rewrite` empties the file, `LogSaved` or `Finished` fills it), and `Kill` may strike
between any two. `history`, `lost` and `wiped` are history variables: what was run,
and what kills and resets have taken of it.

**CsvLine** and **LogLine** are the replayer's functions on one line, as operators.
CsvLine has `csv_field_span`, character by character (quote, comma, any other,
newline; `Ends` is its inner loop, for a quoted part that is open or not), `_splice`
and `shift_csv_line`, and as the reference a `csv.reader` (`ReaderStep`, `Reading`) with
the columns it finds (`Commas`, `Column`). LogLine has the formats' precisions, the times the readers make of the
lines of a log (`ReadTimes`) and the times written back (`Render`). `SoundColumns` and
`SoundShifts` are the columns and shifts for which every line, every log is right;
**ReplayedLines** states of the replayer's runs that theirs are among them.

### Abstractions

- A record is its time and its *kind*: the detector it is a signal for, or `normal`.
  Values, messages and service names are abstracted; two records of one file with the
  same time and kind are one. A record is a signal for one detector; the runs never
  have two detectors on one modality.
- One source per modality: its roster entry says whether the file was there. The
  runs use two of the three modalities. `restart_marker` counts for one service.
- Time is in units of the model's clock; `MaxTime` ends it and `MaxRecords` bounds
  what is written. Both are bounds of the model; the theorems hold for each.
- In Runner by itself there is no backlog at the first poll, time stamps are not
  ahead of the clock (lines may be late by `Lateness`), the send's result is not kept
  (the code logs it only) and no exception ends the loop. Deployment has all four.
- In Deployment a process polls its files first at the time of its start, the span of
  that batch is empty, and all of a file is one batch, as in the code. A file is not
  replaced while the collector is down: that is Tailer's matter. `down` is the time
  from the crash to the first poll.
- Of the server one thing is assumed: it answers 2xx without a refusal only to what it
  has taken. A refusal that cannot be validated is left out: the code reports it as
  accepted (`client.py:42`, listed under `hazards`).
- Logs are not truncated in Runner (Truncation is by itself).
- Roster: counts are of distinct (time, file) pairs, which tells "data" from "no
  data" and no more. The three sources are polled at one instant.
- Tailer: byte offsets count cells; `splitlines` and quoting are not modelled, blank
  and undecodable lines are. The files of a poll are read in any order.
- Replayer: one at a time; a line is written whole or not at all. The recorded times
  are given; how lines are read and rewritten is in CsvLine and LogLine, where a field
  is quoted as a CSV writer quotes it and a newline ends a line only.

### Settings

`WellSized` states what the constants must satisfy for the buffer to be enough:

    RetentionSec >= PreSec  + Staleness          Staleness = Gap + Lateness
    RetentionSec >= PostSec + Gap - 1            Gap       = Cadence + PollSpan
    PostSec      >  Staleness                    Cadence   = PollSpan + SendSpan + LoopInterval

The deployed values (210, 180, 180, 30) satisfy the first line with equality when
polling and sending take no time and no line is late, and fail it otherwise. The code
states the same sum without the time the tick itself takes (`memory_buffer.py:42`).

## Runs

| run | question | bounds | result |
| --- | --- | --- | --- |
| `MCRunnerExact` | with `WellSized` settings and polls at one instant: is a bundle exactly its window (`BundleExact`); does every lone signal reach a bundle (`SignalsShipped`); do captures start after the bundle before them (`AnchorAfterWindow`) and on signals not yet carried (`NewEvidenceOnly`); is `Capture` implemented | 2 sources, 3 records, 7 ticks of the clock; retention at its minimum, so that an off-by-one in eviction is fatal; two captures in a row fit | holds |
| `MCRunnerSlow` | the same refinement when lines are late and services write and time passes during a send; and is every capture closed (`CaptureCloses`) | `SendSpan = 1`, `Lateness = 1`, the other two sources and detectors, 2 records, 8 ticks | holds |
| `MCRunnerSkew` | `BundleExact` when the polls of a tick happen at different times | `PollSpan = 1` | violated |
| `MCRunnerTotal` | `record_count < total_count` only if truncated | `LoopInterval = 2`, so that a batch can straddle an edge | violated |
| `MCDeployment` | with detectors timed at `observed_until`, across a crash and a restart, with clocks ahead and an unreliable server: is what a capture needs still buffered, the first half when it opens (`PreStillBuffered`), the second when it closes (`PostStillBuffered`); is a bundle exactly its window (`BundleExact`); was what is reported accepted taken, and in order (`AcceptedInOrder`); is the loop of each process `Capture`, begun anew by a crash and by nothing else (`CapturesAnew`) | `nginx_error` and `trace_5xx` only; 1 restart at any step, `Ahead = 1`, down for 0 or 1, 2 sources, 2 records, 6 ticks, `SendSpan = 0`; retention at its minimum | holds |
| `MCDeploymentSignals` | with `latency_spike` beside a count detector that needs two lines: is every young lone signal sent or in the capture in progress, but for the exceptions above (`SignalsPosted`) | `nginx_error` (`Floor = 1`) and `latency_spike`; 1 restart at any step, `Ahead = 1`, 3 records (two lines that fire and a span), 4 ticks: a restart with a span old enough to open a capture in the past fits; retention at its minimum | holds |
| `MCRoster` | is the status of every service in a bundle the verdict of the polls in its window (`StatusExact`); do records come only with "data" (`RecordsMeanData`) | 1 expected service and the node, 3 files (one log, container and node metrics), row names that fold to the service and to its database, 1 line (data or not is one line's question), 1 removal or failing open, 8 ticks of the clock: four polls, so that a batch can straddle an edge of the window, a second capture follows the first, and the buffer has forgotten the first poll before the end | holds |
| `MCTailerCsv` | is a CSV file read piece by piece as it would be at once (`ReadAsAWhole`), and nothing handed on twice even of a file replaced unseen (`OnceInOrder`) | one file of up to 6 cells (a header and two rows, or rows of several columns), created 3 times, a restart, undecodable lines, failing opens | holds |
| `MCTailerLog` | is `Feed` implemented, and does every line arrive (`EveryRecordArrives`) | one log file of up to 5 cells, created twice, a restart; replacements are seen | holds |
| `MCTailerReset` | is a reset recovered from, however fast the new file grows | one log file of up to 6 cells, created twice | violated |
| `MCTruncation` | are the caps exact (`CapsAreExact`), the sample even (`ShapeIsKept`), the signals complete below the backstop | 2 services, 6 lines, cap 2, backstop 4, so that both caps bite at one service while the other is below | holds |
| `MCReplayer` | header once and first, lines complete, in order and in time, one time axis, the run log true - after any mix of completed, interrupted and killed runs; does a CSV line keep all but its time (`OnlyTheTimeChanges`), is a log line read back at its time or less than a second before (`NeverAheadOfItsTime`) | 2 runs and as many rows, 3 files (two unsorted CSV files, one log), 3 ticks, `--duration` 0 or none; all lines of up to 6 characters, the time in the first or the third column; all logs of up to 3 lines, times up to 4 half-seconds, the shifts of all anchors | holds |

The three violated runs are disagreements of the code with its own documents; they
are quoted under `findings`:

1. *Skew.* ADR-007 §4 says the three sources reach the end of the window together.
   Each poll takes its own time; the latest closes the capture for all of them.
2. *Total.* `total_count` sums whole batches; a batch across the anchor counts twice.
3. *Reset.* A replaced file is recognised by being shorter than the offset. One that
   has regrown to the offset by the next poll (30 s later) is read on in its middle.
   `OnceInOrder` shows that the damage is limited to what is skipped or cut.

More that the models show, without a run of their own:

- *A restart may cost a young incident.* A new process reads a whole file as one batch;
  `latency_spike` takes the slowest span of it at that span's own time
  (`perf/trace.py:18-24`), and the earliest trigger time of a tick is the anchor
  (`assembler.py:77`). The capture opens in the past; an error of this moment in the same
  batch is absorbed outside its window, and is in no later batch. ADR-001:49-50 says that
  the origin of an incident is never missed. `SignalsPosted` excepts these signals;
  without the exceptions TLC finds it violated in `MCDeploymentSignals` also when no
  record is ahead of the clock and each line fires (`Ahead = 0`, `Floor = 0`), and holding
  there when there is no restart.
- *And the halves of that capture.* `memory_buffer.py:41-42` takes the anchor to be about
  the watermark. That of such a capture is not: the tick that reads the backlog evicts the
  first half before it is copied, and `latency_spike` added to `MCDeployment` violates
  `PreStillBuffered`, `PostStillBuffered`, `BundleExact` and `CapturesAnew`, with the
  retention of the code (`PreSec` and a loop interval) too. That run is therefore for the
  detectors timed at `observed_until`. Without a restart, and with no record ahead of the
  clock, Runner's theorems cover the other detectors too.
- *Without a restart anchors are fresh.* `docs/plans/04-memory-buffer.md:176-178` warns
  that after a long time without a bundle sparse events may still put an anchor up to
  `window_sec` into the past ("이벤트가 드문드문하면 anchor 가 여전히 최대 `window_sec`
  과거에 찍혀"). That is too pessimistic: with `WellSized` settings the theorem `AnchorFresh`
  has too few old samples remain in the lookback for the completing one to be old.
- *Records of the future.* A signal read before its own time that lies behind the window
  of the open capture is absorbed by it and never evaluated again. `SignalsPosted`
  excepts it, and no property covers it.
- *Signals above the backstop.* The API contract calls signals "always complete"
  (`docs/api-contract.md:57-59`). Above the backstop they are sampled together with
  ordinary lines (`assembler.py:186-188`); `snapshot/README.md` calls the backstop the
  last bound of a service, exempt lines included. `SignalsSurviveBelowBackstop` holds,
  without its condition it does not, and `CapsAreExact` says how many lines remain.
- *Bounds of the detectors.* They come from the latest source too, so with sources polled
  at different times (`PollSpan = 1`) a count detector of an earlier one may fire at a
  time before it, and `AnchorAfterWindow` (`tests/replay/test_scenarios.py:161`) fails by
  as much as the theorem `AnchorNear` says.
- *Dropped bundles.* A send that fails is logged and the bundle is gone, as the code
  means it. `AcceptedInOrder` speaks of what was reported and in which order; a dropped
  bundle it does not notice, and `SignalsPosted` asks for a request, not for its success.
- *Missing services.* A source that cannot be opened at a poll is missing for that poll,
  and if the second half of a window were as short as one tick the bundle would say
  "missing" of a service whose lines it carries.
- *Slow ticks.* With the deployed retention a tick that takes time lets the watermark pass
  the end of a window by more than the 30 s that `memory_buffer.py:44` allows for
  (`docs/plans/04-memory-buffer.md:39-41` and ADR-001 know of it; `WellSized` is the
  size that is enough). `MCRunnerSlow` is the run where a send takes time.
- *The run log.* A kill while `runs.csv` is rewritten takes all its rows (`lost` in
  Replayer), although `runlog.py:63` expects the row of a killed run to stay as `running`;
  the files of a reset are removed before the run log says so.

### Fairness

`FairSpec` asks weak fairness of the tick (the process runs, a send returns within
its timeout of 10 s) and of the clock. Both are what an operating system gives a
single-threaded loop that never blocks on anything but the send and the sleep. Nothing
is asked of the writers. The clock ends at `MaxTime`, so `CaptureCloses` speaks of
captures with room to finish.

`FairSpec` of Tailer asks that the collector keeps polling. A file that appears and
disappears between two polls need not be seen, and an open that fails for ever hides
a file for ever: `EveryRecordArrives` exempts files that go away, and its run has
`Transient = FALSE`.

## Theorems

What follows is proved by TLAPS for every value of the constants that satisfies the
assumptions of the modules and, where one is named, the theorem's hypothesis. Each
component has its proofs in a module of its own.

### Runner (`RunnerBuffer_proofs`, `RunnerBundle_proofs`)

- `TypeCorrect`: `TypeOK`.
- `ClockCorrect`, `PollsCorrect`, `BufferCorrect`: the inductive invariant. It is
  needed because none of the properties is inductive: that nothing of a capture was
  evicted depends on how far the watermark may be, which depends on how long a tick
  takes (`Clock`), on how far apart two polls of a source are (`Polls`), and on what
  the buffer has lost so far (`Buffered`).
- `AnchorNear`, `AnchorCorrect`: a capture begins no more than `PollSpan` before the
  end of the bundle before it, hence never before it when the sources are polled at
  one instant. This is the exact size of the disagreement with
  `tests/replay/test_scenarios.py:161` noted above.
- `AnchorFresh`: with `WellSized` settings a capture opens on fresh signals. The
  difficult case are the window detectors, whose trigger time is a sample's: `Quiet`
  says that between captures too few old samples are left in the lookback for the
  completing sample to be old - had there been enough, the detector would have fired
  at the tick before, or their bundle has moved the lower bound past them.
- `PostKept`: `PostStillBuffered` with `WellSized` settings, for every `PollSpan`,
  `SendSpan` and `Lateness`.
- `Implements`: `Spec => ImplementsCapture` with `WellSized` settings; initial
  states map to initial states, and each step to the step named in
  `RunnerBundle_proofs` or a stutter.
- `BundleExactCorrect`: `BundleExact`, where sources are polled at one instant
  (`PollSpan = 0`: `MCRunnerSkew` shows that it fails otherwise) and no line is
  written behind its poll (`Lateness = 0`). `Halves` strengthens it: the first
  half of a capture in progress is all that was written of it, read or not, and nothing
  written later belongs to it or to the window of a bundle being sent.
- `ShippedIsOld`, `NewEvidenceCorrect`: what was shipped lies before the capture in
  progress and before all that is still to be evaluated, so a capture needs signals no
  bundle has carried. It takes that `PostSec` covers the span of a tick's polls.
- `SignalsShippedCorrect`: `SignalsShipped`, with the hypotheses of `BundleExact` and
  for detectors that fire at once (`Floor = 0`), whose anchor looks back over a whole
  tick (`PreSec >= Cadence`). `Accounted` says where every signal read so far is - in a
  bundle, in the capture, or in a batch not yet evaluated - and `Pending` that no
  signal is left behind by the bound of the detectors.

`AnchorFresh`, `PostKept`, `Implements` and the theorems on bundles assume that
`NoSession` is not itself a capture record, which Python's `None` is not.

### Tailer (`Tailer_proofs`)

For files of any size, cut at any place, replaced any number of times:

- `TypeCorrect`, `OnceInOrderCorrect`, `ReadAsAWholeCorrect`. The invariant `TailInv`
  adds that a poll keeps the order of its steps (`PollSane`), that all records taken of
  the present file lie behind the offset (`TakenBehind`: without it a record could be
  read again), and that the header kept for a file is the one reading it at once would
  have at the offset (`HeaderKept`: without it a row could be named after the columns
  of a file that is gone). The lemma it rests on, `RecordsResumed`, says that reading a
  file up to a line's end and then the rest with the header of the first reading gives
  the records of reading it at once.
- `ImplementsFeedCorrect`: each step is one of `Feed` or a stutter, if no file that
  replaced another has outgrown the remembered offset unseen (`Regrows = FALSE`:
  `MCTailerReset` shows that it fails otherwise). `Unread` carries this through a poll.

### Truncation (`Truncation_proofs`)

For sequences, services and caps of any size:

- `StrideSampleSpreads`: a sample of `n` lines has exactly `min(len, n)` of them, from
  places inside the sequence in increasing order, at most `len \div n + 1` apart. It
  rests on lemmas about integer division, stated there.
- `TypeCorrect`, `CapsAreExactCorrect`, `SignalsSurviveCorrect`, `ShapeIsKeptCorrect`.
  The invariant is that an assembled bundle is what the caps leave of the lines
  (`Assembled`); `TruncatedIs` says what that is: for each service the kept lines, each
  once, and all of them in the order of time.

### Roster (`Roster_proofs`)

For any expected services, files, row names and numbers of faults:

- `RosterInvCorrect`, `StatusExactCorrect`, `RecordsMeanDataCorrect`, all with
  Roster's `WellSized`. The invariant relates the buffer's history to the polls it
  tells of (`Remembered`), each record to the poll that read it (`Attributed`), and the
  first half of a capture to the polls that overlap it (`HalfDone`).

`Delay` is how far the records of a poll may lie behind it, a tick for each poll that a
file failed to open at and one more. `WellSized` asks that it be less than `PostSec` and
that `PreSec + Delay` fit the retention; the deployed values satisfy it only with
`MaxFaults = 0`, that is if no file fails to open. Neither is for the proof's sake: an
old line in the first poll that can open a file opens a capture whose first half has
been forgotten, and with `PostSec = 3`, `LoopInterval = 2` and two faults TLC shows a
bundle with records of a service it calls missing.

### Replayer (`Replayer_proofs`)

For any recordings, any number of files and any sequence of runs, resets, interruptions
and kills:

- `TypeCorrect`, `HeaderComesFirstCorrect`, `NothingIsLostCorrect`,
  `FollowsTheClockCorrect`, `OneTimeAxisCorrect`, `RunsAreRecordedCorrect`, all from
  the inductive invariant of `InvCorrect`. What is on disk is right only as long as the
  process remembers its run rightly, so the invariant says that the heads of the streams
  are as far as the lines of the last recorded run (`Going`), that an open CSV file has
  its header or is just about to get it (`HeadersKept`), that what earlier runs left lies
  before the anchor (`ClockKept`: a run that is killed and started again must not go
  back in time), and that the rows about to be written tell what `runs.csv` has told
  (`LogKept`, which is what a kill between emptying and filling the file loses).

`ReplayerAssumption` gives each scenario at least one line, because the code cannot run
one without (`measure_t0` in `shift.py` raises).

The lines behind the times, of any length and number:

- `ColumnsAreSound`, `OnlyTheTimeChangesCorrect`: every column but the last can be
  replaced, and the line keeps the others. The splitter and `csv.reader` walk the same
  line with different notions of a quote; `EndsWhereRead` says that on lines whose quotes
  enclose whole fields the splitter is inside a quoted part exactly where `csv.reader`
  is, and so finds the same commas (`SpanIs`). What `csv.reader` makes of the spliced
  line is then compared stretch by stretch (`ReadAlike`, `SplicedReads`): the commas of
  the new line are those of the old one, moved (`NthMoved`).
- `ShiftsAreSound`, `NeverAheadOfItsTimeCorrect`: a log line is read back within the
  second before it was due, whatever the formats of its log and also for shifts back in
  time; whole seconds are cut and never rounded up (`RenderIs`), and a line without a
  time finds the same line before it (`LastTimedIs`).

The functions that `Ends`, `Reading` and `FieldSpan` define by recursion are shown to
exist, and facts about them to hold, by the least place where they would not
(`LeastElement` of Selection_proofs): the induction theorems of the library take an
operator as a parameter, which the provers do not instantiate.
`ReplayedLinesAssumption` relates bounds only: the lines considered are long enough for
the time column, and the shifts as large as the horizon.

### Deployment (`Deployment_proofs`)

With every server that keeps its one assumption, every number of crashes at any step,
and records ahead of the clock by any amount:

- `AcceptedCorrect`: `AcceptedInOrder`. The inductive invariant `Numbered` adds that a
  request that may still be taken was not accepted, and that all numbers the server
  gave are at most the number of what it took: a request taken late gets a number
  above every accepted one's, and was itself never reported as accepted.
- `DeployedTypeCorrect`: `TypeOK` of Runner, across crashes.
- `PreKept`, `DeployedPostKept`, `DeployedBundleExact`: `PreStillBuffered`,
  `PostStillBuffered` and `BundleExact`, for collectors all of whose detectors are timed
  at `observed_until`, from the inductive invariant `LoopInv` (`LoopCorrect`). The
  invariant of the theorems on Runner does not carry over, because what a new process
  reads is as old as the files, and its clock is ahead of its tick. `TickInv`, which holds
  whatever detectors run, keeps what does carry over: the clock of a tick (`Clocked`), that
  what is unread is older than the last poll only as long as the process has not read the
  file once (`PollIs`, `Backlog`), what the buffer has lost, and that a capture closes in
  the first tick behind its window (`WindowOpen`). `LoopInv` adds that each capture opens
  at the instant of its tick: all that is unread then, or read later, belongs to its second
  half (`HalfIs`), so the first half is complete when it is copied, and none of the second
  has been evicted when it closes.
- `SignalsPostedCorrect`: `SignalsPosted`, for every set of detectors, every `Floor` and
  every `Ahead`, from `SignalInv`: a signal that was read and is not excepted is in a
  request, in the bundle being sent, in a capture that opened in its time, or in a batch
  not yet evaluated (`OnItsWay`); what the detectors will not look at in a batch is in the
  bundle that set their bound (`Bounded`); a request that waits carries the bundle being
  sent (`Asked`); and a batch reaches back one tick or is the first of its process
  (`InTime`). A capture that opens in its time covers the whole batch that opened it, by
  `PreSec >= Cadence`, and any that comes while it is in progress lies behind its anchor;
  of one out of its time nothing is claimed. `PostSec >= Cadence` is for
  a capture that closes: what its tick has read behind its window is then younger than
  its anchor, so what the new bound hides from the detectors is in the bundle.
- `CapturesAnewCorrect`: `CapturesAnew`, for the same collectors as `PreKept`. The tick's
  steps are `Capture`'s as in Runner (the lemmas of RunnerBundle_proofs on one step each
  are shared); that a half is whole when it is cut out comes from `LoopInv`, also for a
  process that reads old files; and the state after `Crash` is one `Capture` may begin in
  (`CrashIsInit`).

All but the first two assume `Settings`: sources polled at one instant, no line written
behind its poll, and a retention that covers `PreSec` and `PostSec + Cadence - 1`. The
last is the least that will do: the run has the retention at both bounds, and with one
second less TLC finds `PreStillBuffered` or `PostStillBuffered` violated.
`SignalsPostedCorrect` assumes also `PreSec >= Cadence` and `PostSec >= Cadence`;
`LoopCorrect`, `PreKept`, `DeployedPostKept`, `DeployedBundleExact` and
`CapturesAnewCorrect` assume `AtOneInstant`, which is `Settings` and detectors timed at
`observed_until`: the collector as it is wired (`config.py:39-54`) also has
`latency_spike`, `cpu_spike` and `restart_marker`, and of it only `SignalsPostedCorrect`,
`AcceptedCorrect` and `DeployedTypeCorrect` speak. `Settings` and `CapturesAnewCorrect`
take that `NoSession` is no capture. In the deployed settings (180, 180 and 210 seconds,
`loop_interval_sec` 30) the second bound of the retention leaves a send one second.

### Selection (`Selection_proofs`)

The lemmas the others share: counting what lies below numbers a finite set completely
and in order (`NthIs`, `OrderedIs`), and the part of a sequence at a set of positions is
what filtering it would give, also of two sequences joined (`PickedJoined`).

### Only model-checked

- `CaptureCloses` and `EveryRecordArrives`: liveness is out of the prover's reach.
- Everything about `total_count`, a fold over a set.

Neither checked nor proved, because they do not hold: `PreStillBuffered`,
`PostStillBuffered`, `BundleExact` and `CapturesAnew` of Deployment with detectors whose
anchor is a record's time. A new process reads records of any age, so the anchor may lie
as far back, and all four fail after a restart.
In a process that is not restarted, with no record ahead of its clock, such detectors are
covered by Runner (`MCRunnerSlow`, `AnchorFresh`, `PostKept`, `Implements`).

## Plan

1. *Done*: `MemoryBuffer`, `SnapshotManager`, `Runner`, `Capture`, `Tailer`, `Feed`,
   `Truncation`, `Roster`, `Replayer`, `Deployment`, `CsvLine`, `LogLine`, their runs,
   and the theorems above.
2. *Next*: in Deployment, what of the first half and of `Capture` holds with detectors
   whose anchor is a record's time, once the captures a process opened on its backlog are
   closed.
3. `restart_marker` for several services, and two detectors on one modality.

## Not modelled

- The regular expressions and date formats of `normalization/` and
  `demo/replayer/readers.py`: a line is its time and what it is evidence of.
- Finding the recorded files (`scenarios.py`): the replayer's files are given.
- Data classes, settings, the command line, `scripts/run_local_demo.sh`: no state of
  their own; settings are the constants of the modules.
- The placeholder detectors: they return nothing and are not wired into the loop.
- Serialising a bundle, and an exception that a certain line raises again in every
  process that reads it: what it does to one process is Deployment's `Crash`.
- Two replayers on one directory: nothing in the code promises that it works.
