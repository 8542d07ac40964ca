------------------------------- MODULE LogLine -------------------------------
(***************************************************************************)
(* How the replayer reads the times of a recorded log                      *)
(* (demo/replayer/readers.py) and writes them back shifted (shift.py).     *)
(* boost lines may have microseconds; the other formats have whole         *)
(* seconds, while the shift, measured from the moment the run began, has   *)
(* not.  A line without a time takes the one of the line before and is     *)
(* written unchanged.                                                      *)
(***************************************************************************)
EXTENDS Integers, Sequences, FiniteSetsExt

CONSTANTS
  Second,     \* the model's units of time in a second
  MaxStamp,   \* bound: recorded times
  MaxLog      \* bound: lines of a log

ASSUME LogLineAssumption ==
  Second \in Nat \ {0} /\ MaxStamp \in Nat /\ MaxLog \in Nat

(* "fine" is boost with microseconds, "coarse" boost without them, thrift  *)
(* and nginx, "none" a line without a time.                                *)
WholeSecond(t) == (t \div Second) * Second

LogLines ==
  [form : {"fine"}, time : 0 .. MaxStamp]
    \cup [form : {"coarse"}, time : {WholeSecond(t) : t \in 0 .. MaxStamp}]
    \cup [form : {"none"}, time : {0}]

(* The last line up to the i-th that has a time; the first one has.        *)
LastTimed(log, i) == Max({j \in 1 .. i : log[j].form # "none"})

(* read_log, for a log whose first line has a time (it raises ValueError   *)
(* otherwise), and read_nginx, where every line must have one.             *)
ReadTimes(log) == [i \in 1 .. Len(log) |-> log[LastTimed(log, i)].time]

(* Seeded fault: whole seconds are rounded up. *)
Render_Up(form, t) ==
  IF form = "fine" THEN t ELSE WholeSecond(t + Second - 1)

(* _render_boost, _render_thrift, _render_nginx: whole seconds are cut. *)
Render(form, t) == IF form = "fine" THEN t ELSE WholeSecond(t)

(* shift_log_line, shift_nginx_line *)
ShiftLogLine(line, t) ==
  IF line.form = "none" THEN line
  ELSE [line EXCEPT !.time = Render(line.form, t)]

(* A log written by a run that shifts its times by d. *)
Replayed(log, d) ==
  [i \in 1 .. Len(log) |-> ShiftLogLine(log[i], ReadTimes(log)[i] + d)]

Logs == {log \in UNION {[1 .. n -> LogLines] : n \in 0 .. MaxLog} :
           log # <<>> => log[1].form # "none"}

(* The shifts by which every log is read back on time: a line at most a   *)
(* second before the moment it was due and never after it, whatever mix of *)
(* formats its file has; lines without a time stay with the one before.    *)
SoundShifts ==
  {d \in -MaxStamp .. MaxStamp :
     \A log \in Logs : \A i \in 1 .. Len(log) :
       LET due == ReadTimes(log)[i] + d
           got == ReadTimes(Replayed(log, d))[i]
       IN got <= due /\ due < got + Second}
=============================================================================
