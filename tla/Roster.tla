-------------------------------- MODULE Roster --------------------------------
(***************************************************************************)
(* What a bundle says of every service: data, empty or missing.  The       *)
(* files a poll found become the `present` of the expected services (the   *)
(* normalizers of rca_sdk/normalization), the lines their counts, and the  *)
(* coverage of the polls in a window is folded twice, by the buffer over   *)
(* each half and by the assembler over both.  The server takes "missing"   *)
(* for the sign of a dead service.                                         *)
(*                                                                         *)
(* The buffer and the sessions are those of SnapshotManager, kept here per *)
(* source: what they call a modality is a pair <<modality, service>>.      *)
(* The sources of a tick are polled at one instant.                        *)
(***************************************************************************)
EXTENDS SnapshotManager, Sequences

CONSTANTS
  Expected,      \* expected_services
  Artifacts,     \* the files there may be, see IsArtifact
  RowNames,      \* the names metric and trace rows carry
  LoopInterval,
  MaxTime,       \* bound: the clock
  MaxLines,      \* bound: lines written
  MaxFaults      \* bound: files removed or unreadable

Infra == {"mongodb", "redis", "memcached", "rabbitmq"}

(* A name, in letters and digits, is a stem and what follows it. *)
IsName(n) ==
  DOMAIN n = {"stem", "rest"} /\ n.rest \in Infra \cup {"service", ""}

(* canonical_service: an infrastructure name stays whole. *)
Canonical(n) ==
  CASE n.rest \in Infra -> n
    [] n.stem \in {"nginxwebserver", "nginxthrift"} ->
         [stem |-> "nginx", rest |-> ""]
    [] OTHER -> [stem |-> n.stem, rest |-> ""]

(* The node's own name is no service's: those lose their underscores. *)
Node      == [stem |-> "__node__", rest |-> ""]
NoService == [stem |-> "none", rest |-> ""]

(* A log is named after its service, other files by what they hold. *)
IsArtifact(f) ==
  /\ f = [dir |-> f.dir, name |-> f.name]
  /\ \/ f.dir = "log" /\ IsName(f.name)
     \/ f.dir = "metric" /\ f.name \in {"container", "system", "other"}
     \/ f.dir = "trace" /\ f.name \in {"all_traces", "other"}

(* The service a line is of: the name of its log file, the row's dimension *)
(* or service, the node for a row with an instance.                        *)
ServiceOf(f, row) ==
  CASE f.dir = "log"       -> Canonical(f.name)
    [] f.name = "system"   -> Node
    [] f.dir = "metric" /\ f.name = "other" -> NoService
    [] OTHER               -> Canonical(row)

(* The roster of every modality. *)
Listed == ({"log", "metric", "trace"} \X Expected) \cup {<<"metric", Node>>}

(* What the lines of a file may say of their service. *)
Rows(f) ==
  IF f.dir = "trace" \/ (f.dir = "metric" /\ f.name = "container")
  THEN RowNames ELSE {NoService}

Sources ==
  Listed \cup UNION {{<<f.dir, ServiceOf(f, row)>> : row \in Rows(f)} :
                       f \in Artifacts}

ASSUME RosterAssumption ==
  /\ \A s \in Expected : IsName(s) /\ s = Canonical(s) /\ s # Node
  /\ \A f \in Artifacts : IsArtifact(f)
  /\ \A n \in RowNames : IsName(n)
  /\ Modality = Sources
  /\ LoopInterval \in Nat \ {0}
  /\ MaxTime \in Nat /\ MaxLines \in Nat /\ MaxFaults \in Nat

VARIABLES
  now,
  pc,        \* "idle", or what the tick does next
  lastPoll,
  exists,    \* the files in the source directories
  unread,    \* lines no poll has read
  read,      \* the evidence times the lines just read may give
  bundles,   \* what finalize_ready returned
  polls,     \* history variable: what every poll saw and read
  lines,     \* lines written so far
  faults

environment == <<exists, unread, lines, faults>>
vars == <<now, pc, lastPoll, environment, read, bundles, polls,
          bufferVars, session>>

Init ==
  /\ BufferInit /\ SnapshotInit
  /\ now = 0 /\ pc = "idle" /\ lastPoll = 0
  /\ exists = {} /\ unread = {} /\ read = {}
  /\ bundles = <<>> /\ polls = {}
  /\ lines = 0 /\ faults = 0

-----------------------------------------------------------------------------
(* A file appears, also an empty one. *)
CreateFile(f) ==
  /\ pc = "idle" /\ f \notin exists
  /\ exists' = exists \cup {f}
  /\ UNCHANGED <<now, pc, lastPoll, unread, lines, faults, read, bundles,
                 polls, bufferVars, session>>

(* A line of this moment; `ok` if the normalizer can read it. *)
Write(f, row, ok) ==
  /\ pc = "idle" /\ f \in exists /\ lines < MaxLines
  /\ lines' = lines + 1
  /\ unread' = unread \cup {[file |-> f, row |-> row, ts |-> now, ok |-> ok]}
  /\ UNCHANGED <<now, pc, lastPoll, exists, faults, read, bundles, polls,
                 bufferVars, session>>

(* The replayer's reset, or a service whose log goes with it. *)
RemoveFile(f) ==
  /\ pc = "idle" /\ f \in exists /\ faults < MaxFaults
  /\ faults' = faults + 1
  /\ exists' = exists \ {f}
  /\ unread' = {l \in unread : l.file # f}
  /\ UNCHANGED <<now, pc, lastPoll, lines, read, bundles, polls,
                 bufferVars, session>>

ClockAdvances ==
  /\ pc = "idle" /\ now < lastPoll + LoopInterval /\ now < MaxTime
  /\ now' = now + 1
  /\ UNCHANGED <<pc, lastPoll, environment, read, bundles, polls,
                 bufferVars, session>>

-----------------------------------------------------------------------------
(* Seeded fault: any metric file stands for the services. *)
Present_AnyMetric(files) ==
  {<<"log", Canonical(f.name)>> : f \in {g \in files : g.dir = "log"}}
  \cup (IF \E f \in files : f.dir = "metric"
        THEN {"metric"} \X (Expected \cup {Node}) ELSE {})
  \cup (IF [dir |-> "trace", name |-> "all_traces"] \in files
        THEN {"trace"} \X Expected ELSE {})

(* The sources whose file the poll found: a log stands for its service,    *)
(* one container file for all services, all_traces.csv for all services.   *)
Present(files) ==
  {<<"log", Canonical(f.name)>> : f \in {g \in files : g.dir = "log"}}
  \cup (IF [dir |-> "metric", name |-> "container"] \in files
        THEN {"metric"} \X Expected ELSE {})
  \cup (IF [dir |-> "metric", name |-> "system"] \in files
        THEN {<<"metric", Node>>} ELSE {})
  \cup (IF [dir |-> "trace", name |-> "all_traces"] \in files
        THEN {"trace"} \X Expected ELSE {})

(* The normalised records of source k: lines that cannot be read are       *)
(* skipped.                                                                *)
Normalized(S, k) ==
  {[ts |-> l.ts, kind |-> l.file] :
     l \in {x \in S : x.ok /\ k = <<x.file.dir, ServiceOf(x.file, x.row)>>}}

BatchOf(k, files) ==
  [modality |-> k, from |-> lastPoll, until |-> now,
   records  |-> Normalized({l \in unread : l.file \in files}, k),
   present  |-> k \in Present(files)]

(* The polls, normalize and the appends of one tick.  A file that fails    *)
(* with OSError is left out of the poll, its lines are left to the next.   *)
Poll(failing) ==
  LET files == exists \ failing
      batch == [k \in Sources |-> BatchOf(k, files)] IN
  /\ pc = "idle" /\ now = lastPoll + LoopInterval
  /\ failing # {} => faults < MaxFaults
  /\ faults' = faults + Cardinality(failing)
  /\ watermark' = now
  /\ records' = [k \in Sources |->
       KeptRecords(records[k] \cup batch[k].records, now)]
  /\ history' = [k \in Sources |->
       KeptHistory(history[k] \cup
         (IF k \in Listed THEN {BatchCoverage(batch[k])} ELSE {}), now)]
  /\ unread' = {l \in unread : l.file \in failing}
  /\ read' = {l.ts : l \in {x \in unread \ unread' : x.ok}}
  /\ polls' = polls \cup {[from |-> lastPoll, until |-> now,
       found |-> files,
       got   |-> {k \in Sources : batch[k].records # {}}]}
  /\ lastPoll' = now
  /\ pc' = "finalize"
  /\ UNCHANGED <<now, exists, lines, bundles, session>>

Finalize ==
  /\ pc = "finalize"
  /\ bundles' = Bundles(now)
  /\ FinalizeReady(now)
  /\ pc' = "register"
  /\ UNCHANGED <<now, lastPoll, environment, read, polls, bufferVars>>

(* The detectors fire or not, at the observed time or at a record's.       *)
Register ==
  /\ pc = "register"
  /\ \E T \in {{}} \cup {{t} : t \in read \cup {now}} :
       RegisterTriggers({[modality |-> "any", time |-> t] : t \in T})
  /\ pc' = "idle" /\ read' = {}
  /\ UNCHANGED <<now, lastPoll, environment, bundles, polls, bufferVars>>

(* The model's clock ends here; the program's does not. *)
Horizon ==
  /\ pc = "idle" /\ now = MaxTime /\ now < lastPoll + LoopInterval
  /\ UNCHANGED vars

Next ==
  \/ \E f \in Artifacts : CreateFile(f) \/ RemoveFile(f)
  \/ \E f \in Artifacts, ok \in BOOLEAN : \E row \in Rows(f) : Write(f, row, ok)
  \/ ClockAdvances
  \/ \E failing \in {{}} \cup {{f} : f \in exists} : Poll(failing)
  \/ Finalize \/ Register
  \/ Horizon

Spec == Init /\ [][Next]_vars

-----------------------------------------------------------------------------
(* How late a line may be read: a poll interval, and another one for every *)
(* poll its file was left out of.                                          *)
Delay == (MaxFaults + 1) * LoopInterval

(* The settings allow for it: a capture opens before the end of its        *)
(* window, and the buffer remembers the polls of either half when that     *)
(* half is judged.                                                         *)
WellSized ==
  /\ Delay < PostSec
  /\ Delay + PreSec <= RetentionSec
  /\ LoopInterval + PostSec <= RetentionSec + 1

(* The polls of a bundle's window, none forgotten. *)
PollsOf(b) ==
  {p \in polls : p.from < WindowEnd(b.anchor)
                 /\ p.until > WindowStart(b.anchor)}

(* The file whose absence means that source k is missing. *)
StandsFor(f, k) ==
  /\ f.dir = k[1]
  /\ CASE f.dir = "log"    -> Canonical(f.name) = k[2]
       [] f.dir = "metric" -> f.name = IF k[2] = Node THEN "system" ELSE "container"
       [] f.dir = "trace"  -> f.name = "all_traces"

(* A bundle's verdict on a source is the one of all the polls in its       *)
(* window, though the first half was judged minutes before the second and  *)
(* the buffer forgets polls in between: missing if none found its file,    *)
(* data if one read a record of it, else empty.                            *)
StatusExact ==
  \A i \in 1 .. Len(bundles) : \A k \in Listed :
    LET b == bundles[i]
        P == PollsOf(b) IN
    /\ b.info[k].listed
    /\ b.info[k].status =
         IF \E p \in P : k \in p.got THEN "data"
         ELSE IF \E p \in P : \E f \in p.found : StandsFor(f, k) THEN "empty" ELSE "missing"

(* A bundle never carries records of an expected service it calls empty or *)
(* missing (04-memory-buffer.md:17), whatever files came and went and      *)
(* whichever half or poll brought them.  A record at the very start of the *)
(* window may have been read at that moment, by a poll before the window.  *)
RecordsMeanData ==
  \A i \in 1 .. Len(bundles) : \A k \in Listed :
    LET b == bundles[i] IN
    (\E r \in b.records[k] : r.ts > WindowStart(b.anchor)) =>
      b.info[k].status = "data"
=============================================================================
