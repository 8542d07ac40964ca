----------------------------- MODULE Truncation -----------------------------
(***************************************************************************)
(* The volume caps of rca_sdk/snapshot/assembler.py: before a bundle       *)
(* leaves, the ordinary log lines of each service are thinned out to       *)
(* log_truncation_cap; signals (not info, or not a normal_log) and the     *)
(* services an evidence names are spared, up to a backstop per service.    *)
(*                                                                         *)
(* A line is a record [service, ts, signal]; the sequences below hold      *)
(* positions in `logs`, so that two equal lines are told apart.            *)
(***************************************************************************)
EXTENDS Selection

CONSTANTS
  Services,
  Cap,        \* log_truncation_cap, 5000 in the code
  Backstop,   \* log_truncation_backstop_cap, 50000 in the code
  MaxTime,    \* bound: the time stamps of a window
  MaxLogs     \* bound: the lines of a window

ASSUME TruncationAssumption ==
  Cap \in Nat /\ Backstop \in Nat /\ MaxTime \in Nat /\ MaxLogs \in Nat

VARIABLES
  logs,     \* the lines of both halves of the window, as the buffer sorts them
  exempt,   \* the services named by the evidences of the capture
  pc,       \* "capture" or "assembled"
  bundle    \* the positions in logs of the lines the bundle carries

vars == <<logs, exempt, pc, bundle>>

-----------------------------------------------------------------------------
(* _is_protected *)
Protected(i) == logs[i].service \in exempt \/ logs[i].signal

(* Seeded fault: the head of the window instead of a sample. *)
StrideSample_Head(s, n) == IF Len(s) <= n THEN s ELSE SubSeq(s, 1, n)

(* The place of the i-th of n samples in a sequence of length len. *)
Place(i, len, n) == ((i - 1) * len) \div n + 1

(* _stride_sample: n of the lines of s, evenly spaced.  The code computes  *)
(* the places with floating point numbers; where the exact place is a      *)
(* whole number it may take the line before.                               *)
StrideSample(s, n) ==
  IF n <= 0 THEN <<>>
  ELSE IF Len(s) <= n THEN s
  ELSE [i \in 1 .. n |-> s[Place(i, Len(s), n)]]

(* The lines of a list, each with its place in it; a list of lists is      *)
(* flattened by numbering them.                                            *)
Entries(l, s) ==
  {[list |-> l, place |-> i, line |-> s[i]] : i \in 1 .. Len(s)}

Ahead(d, e) == d.list < e.list \/ (d.list = e.list /\ d.place < e.place)

(* sort(key=timestamp), which is stable. *)
ByTime(entries) ==
  LET ts(e)  == logs[e.line].ts
      before == {x \in entries \X entries :
                   \/ ts(x[1]) < ts(x[2])
                   \/ ts(x[1]) = ts(x[2]) /\ Ahead(x[1], x[2])}
      sorted == Ordered(entries, before)
  IN [n \in 1 .. Cardinality(entries) |-> sorted[n].line]

All(s)      == {i \in 1 .. Len(logs) : logs[i].service = s}
Spared(s)   == {i \in All(s) : Protected(i)}
Ordinary(s) == All(s) \ Spared(s)

(* Seeded fault: the backstop counts the signals only. *)
KeptOf_Signals(s) ==
  StrideSample(InOrder(Spared(s)), Backstop)
    \o StrideSample(InOrder(Ordinary(s)), Cap)

(* Seeded fault: the backstop is applied before the cap. *)
KeptOf_BackstopFirst(s) ==
  IF Cardinality(All(s)) > Backstop
  THEN StrideSample(InOrder(All(s)), Backstop)
  ELSE InOrder(Spared(s)) \o StrideSample(InOrder(Ordinary(s)), Cap)

(* What remains of the lines of service s. *)
Combined(s) == InOrder(Spared(s)) \o StrideSample(InOrder(Ordinary(s)), Cap)

KeptOf(s) ==
  LET combined == Combined(s)
  IN IF Len(combined) > Backstop
     THEN StrideSample(ByTime(Entries(1, combined)), Backstop)
     ELSE combined

(* The services in the order of their first lines, as a dict has them. *)
FirstLines ==
  {i \in 1 .. Len(logs) :
     \A j \in 1 .. i - 1 : logs[j].service # logs[i].service}
ByService ==
  [n \in 1 .. Cardinality(FirstLines) |-> logs[Nth(FirstLines, n)].service]

(* _truncate_logs *)
TruncateLogs(services) ==
  ByTime(UNION {Entries(n, KeptOf(services[n])) : n \in 1 .. Len(services)})

-----------------------------------------------------------------------------
Init ==
  /\ logs = <<>>
  /\ exempt = {}
  /\ pc = "capture"
  /\ bundle = <<>>

(* A line of the window; get_snapshot sorts them by time. *)
Log(s, t, signal) ==
  /\ pc = "capture"
  /\ Len(logs) < MaxLogs
  /\ logs # <<>> => logs[Len(logs)].ts <= t
  /\ logs' = Append(logs, [service |-> s, ts |-> t, signal |-> signal])
  /\ UNCHANGED <<exempt, pc, bundle>>

(* An evidence of the capture, the first or a later one, names a service. *)
Name(s) ==
  /\ pc = "capture"
  /\ exempt' = exempt \cup {s}
  /\ UNCHANGED <<logs, pc, bundle>>

(* The part of _assemble that concerns logs. *)
Assemble ==
  /\ pc = "capture"
  /\ bundle' = TruncateLogs(ByService)
  /\ pc' = "assembled"
  /\ UNCHANGED <<logs, exempt>>

(* Seeded fault: the last capture's selection is left over. *)
NextCapture_Stale ==
  /\ pc = "assembled"
  /\ logs' = <<>> /\ exempt' = {} /\ pc' = "capture" /\ UNCHANGED bundle

(* The session is over; the next capture starts with another window. *)
NextCapture ==
  /\ pc = "assembled"
  /\ logs' = <<>> /\ exempt' = {} /\ pc' = "capture" /\ bundle' = <<>>

Next ==
  \/ \E s \in Services, t \in 0 .. MaxTime, signal \in BOOLEAN : Log(s, t, signal)
  \/ \E s \in Services : Name(s)
  \/ Assemble
  \/ NextCapture

Spec == Init /\ [][Next]_vars

-----------------------------------------------------------------------------
Line == [service : Services, ts : 0 .. MaxTime, signal : BOOLEAN]

(* What the variables hold. *)
TypeOK ==
  /\ logs \in Seq(Line) /\ Len(logs) <= MaxLogs
  /\ exempt \subseteq Services
  /\ pc \in {"capture", "assembled"}
  /\ bundle \in Seq(1 .. Len(logs))

Carried == {bundle[n] : n \in 1 .. Len(bundle)}
Smaller(m, n) == IF m <= n THEN m ELSE n

(* The size of a bundle is bounded, whatever a service writes and whatever *)
(* the evidences name, and no room under the caps is wasted: a service has *)
(* exactly as many lines as its caps allow, none of them twice, in the     *)
(* order of time.                                                          *)
CapsAreExact ==
  pc = "assembled" =>
    /\ \A s \in Services :
         Cardinality(Carried \cap All(s)) =
           Smaller(Cardinality(Spared(s))
                     + Smaller(Cardinality(Ordinary(s)), Cap), Backstop)
    /\ Len(bundle) = Cardinality(Carried)
    /\ \A n \in 1 .. Len(bundle) - 1 :
         logs[bundle[n]].ts <= logs[bundle[n + 1]].ts

(* The thinned lines keep the shape of the window: of Len / Cap (rounded   *)
(* up) ordinary lines in a row of a service at least one is carried.  The  *)
(* first lines alone, or a sample of another part, would not do.  Of the   *)
(* services whose signals leave room for the cap under the backstop        *)
(* (Spared + Cap <= Backstop): above it all lines are sampled once more.   *)
ShapeIsKept ==
  pc = "assembled" =>
    \A s \in Services :
      LET q      == InOrder(Ordinary(s))
          stride == (Len(q) + Cap - 1) \div Cap
      IN Cap > 0 /\ Cardinality(Spared(s)) + Cap <= Backstop =>
           \A n \in {m \in 1 .. Len(q) : m + stride - 1 <= Len(q)} :
             \E k \in n .. n + stride - 1 : q[k] \in Carried

(* Signals survive unless the service as a whole exceeds the backstop:     *)
(* above it they are sampled together with the ordinary lines              *)
(* (assembler.py:186-188), although docs/api-contract.md:57-59 says that   *)
(* they are never cut.                                                     *)
SignalsSurviveBelowBackstop ==
  pc = "assembled" =>
    \A s \in Services :
      Cardinality(Spared(s)) + Smaller(Cardinality(Ordinary(s)), Cap) <= Backstop
        => Spared(s) \subseteq Carried
=============================================================================
