---------------------------- MODULE MemoryBuffer ----------------------------
(***************************************************************************)
(* The rolling buffer of rca_sdk/buffer/memory_buffer.py.                  *)
(*                                                                         *)
(* The collector's loop appends one normalised batch per source and tick;  *)
(* every append moves the watermark and drops what is older than the       *)
(* retention.  The detectors scan the buffer and the snapshot manager      *)
(* copies spans of it.                                                     *)
(*                                                                         *)
(* A record is any value with a time stamp `ts` and a `kind`; the records  *)
(* of one modality are a set, because what the buffer answers depends on   *)
(* time stamps only (the code sorts every answer by time stamp).           *)
(*                                                                         *)
(* A batch is [modality, from, until, records, present]: `present` says    *)
(* whether the source's file was seen by the poll, the roster entry of the *)
(* one source this model keeps per modality.                               *)
(***************************************************************************)
EXTENDS Integers, FiniteSets, FiniteSetsExt

CONSTANTS
  Modality,      \* the modalities the collector has a source for
  RetentionSec,  \* buffer_retention_sec, 210 in the code
  NoTime         \* Python's None, where the code expects a datetime

ASSUME BufferAssumption ==
  /\ RetentionSec \in Nat
  /\ NoTime \notin Int

VARIABLES
  records,    \* records[m]: the buffered records of modality m
  history,    \* history[m]: observed spans and rosters of m's batches
  watermark   \* the latest observed_until appended, or NoTime

bufferVars == <<records, history, watermark>>

BufferInit ==
  /\ records = [m \in Modality |-> {}]
  /\ history = [m \in Modality |-> {}]
  /\ watermark = NoTime

(* The records of S in the half-open span [start, end). *)
Span(S, start, end) == {r \in S : start <= r.ts /\ r.ts < end}

(* Seeded fault: the CSV header row is subtracted from every batch. *)
BatchCoverage_Header(b) ==
  [from |-> b.from, until |-> b.until,
   present |-> b.present, count |-> Cardinality(b.records) - 1]

(* BatchCoverage: what the buffer remembers of a batch besides its records.*)
BatchCoverage(b) ==
  [from |-> b.from, until |-> b.until,
   present |-> b.present, count |-> Cardinality(b.records)]

NewWatermark(b) ==
  IF watermark = NoTime \/ b.until > watermark THEN b.until ELSE watermark

(* Seeded fault: the retention is one second short. *)
Threshold_Short(w) == w - RetentionSec + 1

(* _evict drops what lies before the threshold; the boundary stays. *)
Threshold(w) == w - RetentionSec

(* Seeded fault: the boundary is evicted too. *)
KeptRecords_Exclusive(S, w) == {r \in S : r.ts > Threshold(w)}

KeptRecords(S, w) == {r \in S : r.ts >= Threshold(w)}
KeptHistory(H, w) == {c \in H : c.until >= Threshold(w)}

(* append: extend records and history (also for a batch without records),  *)
(* advance the watermark, then evict from every modality.                  *)
AppendBatch(b) ==
  LET w == NewWatermark(b) IN
  /\ watermark' = w
  /\ records' = [m \in Modality |->
       KeptRecords(records[m] \cup
                     (IF m = b.modality THEN b.records ELSE {}), w)]
  /\ history' = [m \in Modality |->
       KeptHistory(history[m] \cup
                     (IF m = b.modality THEN {BatchCoverage(b)} ELSE {}), w)]

(* scan: one modality's records of a span, as the detectors read them. *)
Scan(start, end, m) == Span(records[m], start, end)

(* _aggregate_roster: fold the rosters of the batches that overlap the     *)
(* span, present by OR and count by sum; no overlapping batch, no entry.   *)
Overlapping(start, end, m) ==
  {c \in history[m] : c.from < end /\ c.until > start}

AggregateRoster(start, end, m) ==
  LET over == Overlapping(start, end, m) IN
  [listed  |-> over # {},
   present |-> \E c \in over : c.present,
   count   |-> MapThenSumSet(LAMBDA c : c.count, over)]

(* get_snapshot: an independent copy of every modality's span. *)
SnapshotRecords(start, end) ==
  [m \in Modality |-> Span(records[m], start, end)]
SnapshotCoverage(start, end) ==
  [m \in Modality |-> AggregateRoster(start, end, m)]
=============================================================================
