------------------------------ MODULE Replayer ------------------------------
(***************************************************************************)
(* The replayer of demo/replayer: a run merges the recorded files of a     *)
(* scenario by time, shifts them to begin now and writes every line when   *)
(* its time has come, behind whatever earlier runs have left; runs.csv     *)
(* records what was run.  A run ends by itself, by Ctrl-C, or is killed    *)
(* between any two steps.                                                  *)
(*                                                                         *)
(* A line is its run, its place in the recorded file and its shifted time. *)
(* One run at a time: two replayers on one directory are not modelled, nor *)
(* is a line of which a killed process wrote only a part.                  *)
(***************************************************************************)
EXTENDS Selection, FiniteSetsExt, Functions

CONSTANTS
  Files,       \* the files written below the source root, in a sequence
  CsvFiles,    \* those with a header
  Scenarios,
  Recorded,    \* Recorded[s][f]: the times of the recorded lines of f
  Durations,   \* values of --duration, NoLimit for none
  NoLimit,
  NoFile,      \* a file that does not exist
  MaxTime,     \* bound: the horizon of the clock
  MaxRuns      \* bound: the runs, and the rows when the last one starts

HeaderLine == [run |-> 0, at |-> 0, ts |-> 0]

FileSet == {Files[n] : n \in 1 .. Len(Files)}

(* A scenario without a line cannot be run: measure_t0 of shift.py raises. *)
ASSUME ReplayerAssumption ==
  /\ Len(Files) \in Nat /\ CsvFiles \subseteq FileSet
  /\ \A s \in Scenarios :
       /\ Recorded[s] \in [FileSet -> Seq(0 .. MaxTime)]
       /\ \E f \in FileSet : Recorded[s][f] # <<>>
  /\ Durations \subseteq 0 .. MaxTime \cup {NoLimit}
  /\ MaxTime \in Nat /\ MaxRuns \in Nat
  /\ NoFile \notin Seq([run : Nat, at : Nat, ts : Nat])

VARIABLES
  now,       \* the clock
  out,       \* out[f]: the lines of f, or NoFile
  runsCsv,   \* the rows of runs.csv
  rewrite,   \* the rows _write is about to write into the truncated file
  pc,        \* what the process does: see Next
  scenario, anchor, deadline,  \* of the run
  opened,    \* the keys of Writer._files
  next,      \* next[f]: the head of f's stream in heapq.merge
  row,       \* RunLog._row, counted from 1
  history,   \* history: the runs recorded, with what became of them
  lost,      \* history: those recorded when a kill last emptied runs.csv
  wiped      \* history: wiped[f], those recorded when f was last removed

process == <<scenario, anchor, deadline, opened, next, row>>
vars == <<now, out, runsCsv, rewrite, pc, process, history, lost, wiped>>

-----------------------------------------------------------------------------
(* The positions m and n such that sorting by time puts m before n. *)
Earlier(times) ==
  {p \in (1 .. Len(times)) \X (1 .. Len(times)) :
     \/ times[p[1]] < times[p[2]]
     \/ times[p[1]] = times[p[2]] /\ p[1] < p[2]}

Sorted(times) ==
  LET order == Ordered(1 .. Len(times), Earlier(times))
  IN [n \in 1 .. Len(times) |-> times[order[n]]]

(* load: CSV rows are sorted by time, log lines stay as recorded. *)
Streams ==
  [s \in Scenarios |->
     [f \in FileSet |-> IF f \in CsvFiles THEN Sorted(Recorded[s][f])
                        ELSE Recorded[s][f]]]
Stream(s, f) == Streams[s][f]

(* measure_start: the earliest time of all sources. *)
T0(s) == Min(UNION {Range(Recorded[s][f]) : f \in FileSet})

(* shift_ts *)
NewTs(n, f) == anchor + Stream(scenario, f)[n] - T0(scenario)

Remaining == {f \in FileSet : next[f] <= Len(Stream(scenario, f))}
HeadTime(f) == NewTs(next[f], f)
Rank(f) == CHOOSE n \in 1 .. Len(Files) : Files[n] = f

(* Seeded fault: the heads are not compared. *)
IsNext_Any(f) == f \in Remaining

(* merged: the head with the least time; of equal ones the first source. *)
IsNext(f) ==
  /\ f \in Remaining
  /\ \A g \in Remaining :
       \/ HeadTime(f) < HeadTime(g)
       \/ HeadTime(f) = HeadTime(g) /\ Rank(f) <= Rank(g)

(* Seeded fault: the line at the deadline is left out. *)
PastDeadline_Inclusive(f) == deadline # NoLimit /\ HeadTime(f) >= deadline

PastDeadline(f) == deadline # NoLimit /\ HeadTime(f) > deadline

(* Seeded fault: the run does not wait. *)
Due_Early(f) == IsNext(f) /\ ~PastDeadline(f)

(* The line to write, when it is time to. *)
Due(f) == IsNext(f) /\ ~PastDeadline(f) /\ HeadTime(f) <= now

-----------------------------------------------------------------------------
Init ==
  /\ now = 0
  /\ out = [f \in FileSet |-> NoFile]
  /\ runsCsv = <<>>
  /\ rewrite = <<>>
  /\ pc = "off"
  /\ scenario = "" /\ anchor = 0 /\ deadline = NoLimit
  /\ opened = {} /\ next = [f \in FileSet |-> 1] /\ row = 0
  /\ history = <<>> /\ lost = 0
  /\ wiped = [f \in FileSet |-> 0]

(* main, up to the reset; the duration is kept until the anchor is known. *)
Launch ==
  /\ pc = "off"
  /\ Len(history) < MaxRuns /\ Len(runsCsv) < MaxRuns
  /\ scenario' \in Scenarios
  /\ deadline' \in Durations
  /\ pc' \in {"wipe", "begin"}
  /\ UNCHANGED <<now, out, runsCsv, rewrite, anchor, opened, next, row, history,
                 lost, wiped>>

(* reset of writer.py, file by file. *)
Wipe(f) ==
  /\ pc = "wipe"
  /\ out[f] # NoFile
  /\ out' = [out EXCEPT ![f] = NoFile]
  /\ wiped' = [wiped EXCEPT ![f] = Len(history)]
  /\ UNCHANGED <<now, runsCsv, rewrite, pc, process, history, lost>>

(* RunLog._write: opening with "w" empties the file, then the rows follow. *)
Rewrite(rows) == rewrite' = rows /\ runsCsv' = <<>>

LogReset ==
  /\ pc = "wipe"
  /\ \A f \in FileSet : out[f] = NoFile
  /\ Rewrite(Append(runsCsv, [scenario |-> "", status |-> "reset"]))
  /\ pc' = "log reset"
  /\ UNCHANGED <<now, out, process, history, lost, wiped>>

(* Seeded fault: the row is counted with the header line. *)
NewRow_Header == Len(runsCsv) + 2

(* Seeded fault: the place is taken before the row is appended; of an      *)
(* empty file that is Python's -1, the last row.                           *)
NewRow_Before == IF runsCsv = <<>> THEN 1 ELSE Len(runsCsv)

(* _append returns the place of the new row. *)
NewRow == Len(runsCsv) + 1

(* The anchor is taken and RunLog.start leaves the row of the run. *)
LogStart ==
  /\ pc = "begin"
  /\ anchor' = now
  /\ deadline' = IF deadline = NoLimit THEN NoLimit ELSE now + deadline
  /\ Rewrite(Append(runsCsv, [scenario |-> scenario, status |-> "running"]))
  /\ row' = NewRow
  /\ pc' = "log start"
  /\ UNCHANGED <<now, out, scenario, opened, next, history, lost, wiped>>

(* RunLog.finish; _write has truncated the file. *)
LogFinish(status) ==
  /\ Rewrite([runsCsv EXCEPT ![row].status = status])
  /\ pc' = "log finish"
  /\ opened' = {}   \* Writer.close
  /\ UNCHANGED <<now, out, scenario, anchor, deadline, next, row, history, lost, wiped>>

LogSaved ==
  /\ pc \in {"log reset", "log start"}
  /\ runsCsv' = rewrite /\ rewrite' = <<>>
  /\ pc' = IF pc = "log reset" THEN "begin" ELSE "replay"
  /\ history' =
       IF pc = "log reset" THEN history
       ELSE Append(history, [scenario |-> scenario, anchor |-> anchor,
                             deadline |-> deadline, status |-> "running"])
  /\ UNCHANGED <<now, out, process, lost, wiped>>

(* The process is gone, and what it had in memory. *)
Off ==
  /\ pc' = "off" /\ rewrite' = <<>>
  /\ scenario' = "" /\ anchor' = 0 /\ deadline' = NoLimit
  /\ opened' = {} /\ next' = [f \in FileSet |-> 1] /\ row' = 0

Finished ==
  /\ pc = "log finish"
  /\ runsCsv' = rewrite
  /\ history' = [history EXCEPT ![Len(history)].status = rewrite[row].status]
  /\ Off
  /\ UNCHANGED <<now, out, lost, wiped>>

-----------------------------------------------------------------------------
(* Seeded fault: only a file that did not exist is fresh. *)
Fresh_Absent(f) == out[f] = NoFile

(* Writer.open: absent, or empty because a run died before its header. *)
Fresh(f) == out[f] \in {NoFile, <<>>}

(* Writer.open, up to creating the file. *)
Open(f) ==
  /\ pc = "replay"
  /\ Due(f) /\ f \notin opened
  /\ opened' = opened \cup {f}
  /\ out' = [out EXCEPT ![f] = IF @ = NoFile THEN <<>> ELSE @]
  /\ pc' = IF f \in CsvFiles /\ Fresh(f) THEN "header" ELSE "replay"
  /\ UNCHANGED <<now, runsCsv, rewrite, scenario, anchor, deadline, next, row,
                 history, lost, wiped>>

(* Writer.open, the header. *)
WriteHeader(f) ==
  /\ pc = "header" /\ f \in opened /\ IsNext(f)
  /\ out' = [out EXCEPT ![f] = Append(@, HeaderLine)]
  /\ pc' = "replay"
  /\ UNCHANGED <<now, runsCsv, rewrite, process, history, lost, wiped>>

(* Writer.write *)
WriteLine(f) ==
  /\ pc = "replay"
  /\ Due(f) /\ f \in opened
  /\ out' = [out EXCEPT ![f] = Append(@, [run |-> Len(history),
                                          at |-> next[f],
                                          ts |-> HeadTime(f)])]
  /\ next' = [next EXCEPT ![f] = @ + 1]
  /\ UNCHANGED <<now, runsCsv, rewrite, pc, scenario, anchor, deadline, opened,
                 row, history, lost, wiped>>

(* replay returns: no line is left, or the next is past the deadline. *)
Complete ==
  /\ pc = "replay"
  /\ \A f \in Remaining : IsNext(f) => PastDeadline(f)
  /\ LogFinish("completed")

(* Ctrl-C while the files are written. *)
Interrupt ==
  /\ pc \in {"replay", "header"}
  /\ LogFinish("interrupted")

(* The process ends without another step, also by a Ctrl-C elsewhere; when *)
(* _write has emptied runs.csv, its rows are gone.                         *)
Kill ==
  /\ pc # "off"
  /\ lost' = IF rewrite = <<>> THEN lost ELSE Len(history)
  /\ Off
  /\ UNCHANGED <<now, out, runsCsv, history, wiped>>

Tick ==
  /\ now < MaxTime
  /\ now' = now + 1
  /\ UNCHANGED <<out, runsCsv, rewrite, pc, process, history, lost, wiped>>

Next ==
  \/ Launch \/ LogReset \/ LogStart \/ LogSaved \/ Finished
  \/ \E f \in FileSet : Wipe(f) \/ Open(f) \/ WriteHeader(f) \/ WriteLine(f)
  \/ Complete \/ Interrupt \/ Kill \/ Tick

Spec == Init /\ [][Next]_vars

-----------------------------------------------------------------------------
Status == {"running", "completed", "interrupted"}
Limit  == 0 .. 2 * MaxTime \cup {NoLimit}
Line   == [run : 0 .. MaxRuns, at : Nat, ts : 0 .. 2 * MaxTime]
Row    == [scenario : Scenarios \cup {""}, status : Status \cup {"reset"}]
Run    == [scenario : Scenarios, anchor : 0 .. MaxTime,
           deadline : Limit, status : Status]

(* What the variables hold; a row exists while its run may finish. *)
TypeOK ==
  /\ now \in 0 .. MaxTime
  /\ out \in [FileSet -> Seq(Line) \cup {NoFile}]
  /\ runsCsv \in Seq(Row) /\ rewrite \in Seq(Row)
  /\ pc \in {"off", "wipe", "begin", "replay", "header",
             "log reset", "log start", "log finish"}
  /\ scenario \in Scenarios \cup {""} /\ anchor \in 0 .. MaxTime /\ deadline \in Limit
  /\ opened \subseteq FileSet
  /\ next \in [FileSet -> Nat \ {0}]
  /\ row \in Nat /\ (pc \in {"replay", "header"} => row \in 1 .. Len(runsCsv))
  /\ history \in Seq(Run) /\ lost \in 0 .. Len(history)
  /\ wiped \in [FileSet -> 0 .. MaxRuns]

(* The lines of f that are not its header, by their positions, and those   *)
(* of run k.                                                               *)
Lines(f) ==
  IF out[f] = NoFile THEN {}
  ELSE {n \in 1 .. Len(out[f]) : out[f][n] # HeaderLine}
OfRun(lines, k) == Picked(lines, {n \in 1 .. Len(lines) : lines[n].run = k})
LinesOf(f, k) == IF out[f] = NoFile THEN <<>> ELSE OfRun(out[f], k)

(* writer.py:59-62: a CSV file has its header in its first line and        *)
(* nowhere else, whatever runs have died in it and were continued.         *)
HeaderComesFirst ==
  \A f \in FileSet :
    out[f] # NoFile =>
      \A n \in 1 .. Len(out[f]) :
        (out[f][n] = HeaderLine) = (f \in CsvFiles /\ n = 1)

(* A run writes of a file its recorded lines in order, none left out; once *)
(* completed, up to the first that is past its deadline.                   *)
Times(run, f) ==
  LET stream == Stream(run.scenario, f)
  IN [n \in 1 .. Len(stream) |-> run.anchor + stream[n] - T0(run.scenario)]
Expected(run, f) ==
  {n \in 1 .. Len(Times(run, f)) :
     \A m \in 1 .. n :
       run.deadline # NoLimit => Times(run, f)[m] <= run.deadline}
AsRecorded(lines, run, f) ==
  /\ 1 .. Len(lines) \subseteq Expected(run, f)
  /\ \A n \in 1 .. Len(lines) :
       lines[n].at = n /\ lines[n].ts = Times(run, f)[n]

NothingIsLost ==
  \A f \in FileSet, k \in 1 .. Len(history) :
    /\ AsRecorded(LinesOf(f, k), history[k], f)
    /\ history[k].status = "completed" /\ k > wiped[f] =>
         1 .. Len(LinesOf(f, k)) = Expected(history[k], f)

(* Files grow along the time axis: no line is ahead of the clock, a later  *)
(* run lies behind an earlier one, and a CSV file is sorted throughout.    *)
FollowsTheClock ==
  \A f \in FileSet :
    \A m, n \in Lines(f) :
      /\ out[f][n].ts <= now
      /\ m < n /\ (out[f][m].run < out[f][n].run \/ f \in CsvFiles) =>
           out[f][m].ts <= out[f][n].ts

(* The files share one time axis (scheduler.py:3): what a sorted file has  *)
(* still to come is not older than what another has already shown.         *)
OneTimeAxis ==
  pc \in {"replay", "header"} =>
    \A f, g \in CsvFiles :
      g \in Remaining =>
        \A n \in 1 .. next[f] - 1 : NewTs(n, f) <= HeadTime(g)

(* runs.csv tells what was run, in order and with its outcome, whatever    *)
(* resets and killed runs lie between; a run that was killed stays         *)
(* "running" (runlog.py:63), unless the kill emptied the file.             *)
RunsIn(rows) == Picked(rows, {n \in 1 .. Len(rows) : rows[n].status # "reset"})

Tells(rows, runs, missing) ==
  LET told == RunsIn(rows)
  IN /\ Len(told) = Len(runs) - missing
     /\ \A k \in 1 .. Len(told) :
          /\ told[k].scenario = runs[missing + k].scenario
          /\ told[k].status = runs[missing + k].status

RunsAreRecorded == rewrite = <<>> => Tells(runsCsv, history, lost)
=============================================================================
