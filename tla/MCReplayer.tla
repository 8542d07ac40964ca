----------------------------- MODULE MCReplayer -----------------------------
(* Recorded files for the model checker: two unsorted CSV files and a log  *)
(* whose lines are not in the order of time, and a scenario without it.    *)
EXTENDS ReplayedLines

FileOrder == <<"cpu.csv", "traces.csv", "media.log">>

Recordings ==
  [cpu  |-> [f \in {"cpu.csv", "traces.csv", "media.log"} |->
               CASE f = "cpu.csv"    -> <<2, 1>>
                 [] f = "traces.csv" -> <<1>>
                 [] f = "media.log"  -> <<2, 1>>],
   kill |-> [f \in {"cpu.csv", "traces.csv", "media.log"} |->
               CASE f = "cpu.csv"    -> <<1>>
                 [] f = "traces.csv" -> <<0, 1>>
                 [] f = "media.log"  -> <<>>]]

(* The time column of a metric file is its first; of all_traces.csv, one   *)
(* of those between.                                                       *)
ColumnsWithTime == [f \in {"cpu.csv", "traces.csv"} |-> IF f = "cpu.csv" THEN 0 ELSE 2]
=============================================================================
