------------------------------- MODULE CsvLine -------------------------------
(***************************************************************************)
(* How the replayer replaces the time stamp of a CSV line                  *)
(* (demo/replayer/shift.py): it looks for the place of the field itself,   *)
(* and splices the new value in, so that every other byte stays.  The time *)
(* it shifts was read by csv.reader (readers.py:131); the two must agree   *)
(* where a field is, and the line must still have its columns afterwards,  *)
(* or the collector drops it.                                              *)
(*                                                                         *)
(* A line is a sequence of "quote", "comma" and "char", ended by a         *)
(* "newline" but for the last of a file.  Places count from 1; a span is   *)
(* half open, as in Python.                                                *)
(***************************************************************************)
EXTENDS Selection

CONSTANT MaxCells   \* bound: the cells of a line

ASSUME CsvLineAssumption == MaxCells \in Nat

(* Where the field ends that has come as far as a place, by whether a      *)
(* quoted part is open there.  A quote opens or closes one wherever it is, *)
(* two quotes inside one are skipped.                                      *)
Ends(line) ==
  LET n == Len(line)
      ends[i \in 1 .. n + 1] ==
        IF i = n + 1 THEN [open |-> i, shut |-> i]
        ELSE [shut |-> IF line[i] = "quote" THEN ends[i + 1].open
                       ELSE IF line[i] = "comma" THEN i
                       ELSE ends[i + 1].shut,
              open |-> IF line[i] # "quote" THEN ends[i + 1].open
                       ELSE IF i < n /\ line[i + 1] = "quote" THEN ends[i + 2].open
                       ELSE ends[i + 1].shut]
  IN ends

(* Seeded fault: quotes are ordinary characters. *)
FieldEnd_Unquoted(line, start) ==
  CHOOSE i \in start .. Len(line) + 1 :
    /\ i <= Len(line) => line[i] = "comma"
    /\ \A j \in start .. i - 1 : line[j] # "comma"

(* The comma that ends the field from `start` on, or the end of the line.  *)
FieldEnd(line, start) == Ends(line)[start].shut

(* csv_field_span, for a line that has the field. *)
FieldSpan(line, index) ==
  LET start[k \in 0 .. index] ==
        IF k = 0 THEN 1 ELSE FieldEnd(line, start[k - 1]) + 1
  IN <<start[index], FieldEnd(line, start[index])>>

(* _splice *)
Splice(line, start, end, value) ==
  SubSeq(line, 1, start - 1) \o value \o SubSeq(line, end, Len(line))

(* shift_csv_line; a rendered time holds neither quote nor comma. *)
NewTime == <<"char", "char">>
ShiftCsvLine(line, index) ==
  LET span == FieldSpan(line, index)
  IN Splice(line, span[1], span[2], NewTime)

-----------------------------------------------------------------------------
(* csv.reader, behind one more cell. *)
ReaderStep(state, cell) ==
  CASE cell = "quote" /\ state = "field"               -> "field"
    [] cell = "quote" /\ state = "quoted"              -> "closed"
    [] cell = "quote" /\ state \in {"start", "closed"} -> "quoted"
    [] cell # "quote" /\ state = "quoted"              -> "quoted"
    [] cell = "comma" /\ state # "quoted"              -> "start"
    [] OTHER                                           -> "field"

(* What csv.reader makes of a line: reading[i], where it is after i cells. *)
Reading(line) ==
  LET reading[i \in 0 .. Len(line)] ==
        IF i = 0 THEN "start" ELSE ReaderStep(reading[i - 1], line[i])
  IN reading

(* Quotes enclose a whole field or do not occur in it, as in files written *)
(* by a CSV writer.                                                        *)
WellFormed(line) ==
  LET reading == Reading(line) IN
  /\ reading[Len(line)] # "quoted"
  /\ \A i \in 1 .. Len(line) :
       /\ line[i] = "quote" => reading[i - 1] # "field"
       /\ line[i] = "char" => reading[i - 1] # "closed"

(* The commas between the fields. *)
Commas(line) ==
  LET reading == Reading(line)
  IN {i \in 1 .. Len(line) : line[i] = "comma" /\ reading[i] = "start"}

(* The column behind k of them lies between two bounds. *)
Bound(line, k) ==
  IF k = 0 THEN 0
  ELSE IF k > Cardinality(Commas(line)) THEN Len(line) + 1
  ELSE Nth(Commas(line), k)
Column(line, k) == SubSeq(line, Bound(line, k) + 1, Bound(line, k + 1) - 1)

LastColumn(line) == Cardinality(Commas(line))

CsvLines ==
  {line \o end :
     line \in {l \in UNION {[1 .. n -> {"quote", "comma", "char"}] :
                              n \in 0 .. MaxCells} : WellFormed(l)},
     end \in {<<>>, <<"newline">>}}

(* A column is replaced: the new value stands where csv.reader finds it,   *)
(* and all others are as they were, whatever commas and quotes they hold.  *)
OnlyChanges(line, new, index) ==
  /\ LastColumn(new) = LastColumn(line)
  /\ Column(new, index) = NewTime
  /\ \A k \in 0 .. LastColumn(line) \ {index} : Column(new, k) = Column(line, k)

(* The columns that can be replaced.  The last column of a line cannot:    *)
(* its span takes the newline with it; no recorded file has its time       *)
(* there.                                                                  *)
SoundColumns ==
  {index \in 0 .. MaxCells :
     \A line \in CsvLines :
       index < LastColumn(line) =>
         OnlyChanges(line, ShiftCsvLine(line, index), index)}
=============================================================================
