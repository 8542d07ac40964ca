---------------------------- MODULE ReplayedLines ----------------------------
(***************************************************************************)
(* The lines behind the times of Replayer: what a run writes of a recorded *)
(* line once it has shifted its time (scheduler.py:79-84).  In Replayer a  *)
(* line is its place and its time; here it is asked whether the bytes say  *)
(* the same to the collector that reads them.                              *)
(***************************************************************************)
EXTENDS Replayer, CsvLine, LogLine

CONSTANT TimeColumns   \* the column of each CSV file that holds the time

(* The bounds of the lines cover what the replayer can meet: the columns   *)
(* with a time, and every distance between a recording and a run of it.    *)
ASSUME ReplayedLinesAssumption ==
  /\ TimeColumns \in [CsvFiles -> 0 .. MaxCells]
  /\ MaxTime <= MaxStamp

(* A CSV file that was replayed has its rows as they were recorded, but    *)
(* for the time (scheduler.py:128, shift.py:1), so that the collector      *)
(* still finds every column.                                               *)
OnlyTheTimeChanges ==
  \A f \in CsvFiles : Lines(f) # {} => TimeColumns[f] \in SoundColumns

(* Whatever the moment a run begins, no log line it writes carries a time  *)
(* ahead of the moment it is due, hence of the clock, or a second behind.  *)
NeverAheadOfItsTime ==
  pc = "replay" => anchor - T0(scenario) \in SoundShifts
=============================================================================
