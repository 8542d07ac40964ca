------------------------------- MODULE Tailer -------------------------------
(***************************************************************************)
(* The line tailer of rca_sdk/collectors/tail.py: a poll lists the files   *)
(* of its directory and reads, file by file, the complete lines behind the *)
(* offset it remembers.  A file that became shorter than its offset is     *)
(* taken for a new one and read from its beginning.                        *)
(*                                                                         *)
(* Listing, stat and open are separate steps, because the replayer (or a   *)
(* service) writes, removes and recreates the files in between.            *)
(*                                                                         *)
(* A file is a sequence of cells: a cell is one field of a line or the     *)
(* newline that ends it.  Offsets count cells, so one may lie inside a     *)
(* line but not inside a field.  The replayer puts a header first into     *)
(* every CSV file; log lines are not split and have no header.             *)
(*                                                                         *)
(* The files of a poll are read in any order (the code sorts them): what   *)
(* is read of one does not depend on another.  The observed span of the    *)
(* batch and its roster are modelled in Runner.                            *)
(***************************************************************************)
EXTENDS Selection, FiniteSetsExt

CONSTANTS
  Files,       \* the files of the collector's directory
  CsvFiles,    \* those a CsvTailCollector reads
  Fields,      \* what services write: "field", "junk" (not UTF-8)
  Regrows,     \* a replaced file may outgrow its old offset between polls
  Transient,   \* opening an existing file may fail
  MaxCells,    \* bound: the cells of a file
  MaxFiles,    \* bound: how often a file is created
  MaxRestarts, \* bound: restarts of the collector
  NoFile,      \* the content of a file that does not exist
  NoHeader     \* no entry in _headers

ASSUME TailerAssumption ==
  /\ CsvFiles \subseteq Files
  /\ Fields \subseteq {"field", "junk"}
  /\ Regrows \in BOOLEAN /\ Transient \in BOOLEAN
  /\ MaxCells \in Nat /\ MaxFiles \in Nat /\ MaxRestarts \in Nat
  /\ NoFile \notin Seq(Fields \cup {"header", "newline"})
  /\ NoHeader \notin [inc : Nat, start : Nat, columns : Nat]

VARIABLES
  content,    \* content[f]: the cells of f, or NoFile
  inc,        \* inc[f]: how often f was created
  offsets,    \* _offsets, 0 for a file without an entry
  headers,    \* _headers
  pc,         \* "idle", between two files ("next"), between stat and open
  todo,       \* the listed files not yet looked at
  file,       \* the file whose stat succeeded, when pc = "open"
  pos,        \* the local offset of _read_new_lines
  batch,      \* batch[f]: the records of f read by this poll
  restarts,   \* restarts so far
  delivered,  \* history: delivered[f], what finished polls have returned
  readFrom    \* history: the creation of f that offsets[f] counts in

environment == <<content, inc>>
collector   == <<offsets, headers, pc, todo, file, pos, batch>>
vars == <<environment, collector, restarts, delivered, readFrom>>

-----------------------------------------------------------------------------
(* Lines of a sequence of cells c.  A line is the cell that ends it; what  *)
(* is read begins behind `from`.                                           *)

Newlines(c, from) == {i \in from + 1 .. Len(c) : c[i] = "newline"}

(* The first cell of the line that ends at i. *)
LineStart(c, from, i) == Max({from} \cup {j \in Newlines(c, from) : j < i}) + 1

(* Blank and undecodable lines are skipped before they are framed. *)
Readable(c, from, i) ==
  /\ LineStart(c, from, i) < i
  /\ \A j \in LineStart(c, from, i) .. i : c[j] # "junk"

ReadableLines(c, from) == {i \in Newlines(c, from) : Readable(c, from, i)}

(* Seeded fault: an incomplete last line is consumed. *)
Consumed_Partial(c, from) == IF Len(c) > from THEN Len(c) ELSE from

(* The complete lines end at the last newline. *)
Consumed(c, from) == Max({from} \cup Newlines(c, from))

(* CsvTailCollector._frame: the first line of a file without a known       *)
(* header becomes its header; a line with another number of columns is     *)
(* skipped.                                                                *)
Columns(c, from, i) == i - LineStart(c, from, i)

(* The line that is taken for the header, if there is one. *)
HeaderLines(f, c, from, header) ==
  IF f \in CsvFiles /\ header = NoHeader
  THEN LET lines == ReadableLines(c, from)
       IN {i \in lines : \A j \in lines : i <= j}
  ELSE {}

HeaderAfter(f, k, c, from, header) ==
  LET first == HeaderLines(f, c, from, header)
      i     == CHOOSE i \in first : TRUE
  IN IF first = {} THEN header
     ELSE [inc |-> k, start |-> LineStart(c, from, i),
           columns |-> Columns(c, from, i)]

FramedLines(f, k, c, from, header) ==
  {i \in ReadableLines(c, from) \ HeaderLines(f, c, from, header) :
     f \in CsvFiles =>
       Columns(c, from, i) = HeaderAfter(f, k, c, from, header).columns}

(* The records of one read.  `inc` and the positions say which line of     *)
(* which file a record is, `header` what its columns were named after.     *)
RecordsOf(f, k, c, from, header) ==
  LET lines == FramedLines(f, k, c, from, header)
      after == HeaderAfter(f, k, c, from, header)
  IN [n \in 1 .. Cardinality(lines) |->
       LET i == Nth(lines, n)
       IN [inc |-> k, start |-> LineStart(c, from, i), end |-> i,
           header |-> after]]

-----------------------------------------------------------------------------
Init ==
  /\ content = [f \in Files |-> NoFile]
  /\ inc = [f \in Files |-> 0]
  /\ offsets = [f \in Files |-> 0]
  /\ headers = [f \in Files |-> NoHeader]
  /\ pc = "idle" /\ todo = {} /\ file = NoFile /\ pos = 0
  /\ batch = [f \in Files |-> <<>>]
  /\ restarts = 0
  /\ delivered = [f \in Files |-> <<>>]
  /\ readFrom = [f \in Files |-> 0]

(* The environment: Writer.open, Writer.write and reset of the replayer.   *)
Exists(f) == content[f] # NoFile

CreateFile(f) ==
  /\ ~Exists(f)
  /\ inc[f] < MaxFiles
  /\ content' = [content EXCEPT ![f] = <<>>]
  /\ inc' = [inc EXCEPT ![f] = @ + 1]
  /\ UNCHANGED <<collector, restarts, delivered, readFrom>>

(* The next cell of a file: the header line comes first; a line holds      *)
(* fields and then its newline, and junk stands alone in its line.         *)
NextCells(f, c) ==
  IF f \in CsvFiles /\ Newlines(c, 0) = {}
  THEN {"header"} \cup (IF c = <<>> THEN {} ELSE {"newline"})
  ELSE IF c # <<>> /\ c[Len(c)] = "junk" THEN {"newline"}
  ELSE IF c # <<>> /\ c[Len(c)] = "field" THEN {"field", "newline"}
  ELSE Fields \cup {"newline"}

(* Without Regrows a file that replaced one already read stays shorter     *)
(* than what was read until the collector has read it from its beginning.  *)
MayGrow(f) ==
  \/ Regrows
  \/ offsets[f] = 0 \/ readFrom[f] = inc[f]
  \/ Len(content[f]) + 1 < offsets[f]

WriteCell(f) ==
  /\ Exists(f)
  /\ Len(content[f]) < MaxCells
  /\ MayGrow(f)
  /\ \E cell \in NextCells(f, content[f]) :
       content' = [content EXCEPT ![f] = Append(@, cell)]
  /\ UNCHANGED <<inc, collector, restarts, delivered, readFrom>>

RemoveFile(f) ==
  /\ Exists(f)
  /\ content' = [content EXCEPT ![f] = NoFile]
  /\ UNCHANGED <<inc, collector, restarts, delivered, readFrom>>

-----------------------------------------------------------------------------
(* poll: list the directory. *)
PollBegin ==
  /\ pc = "idle"
  /\ pc' = "next"
  /\ todo' = {f \in Files : Exists(f)}
  /\ UNCHANGED <<environment, offsets, headers, file, pos, batch, restarts,
                 delivered, readFrom>>

(* Seeded fault: the header of a replaced file is kept. *)
HeadersAfterStat_Kept(f) == headers

(* _reset_file_state, when the file shrank. *)
Shrank(f) == Len(content[f]) < offsets[f]
HeadersAfterStat(f) ==
  IF Shrank(f) THEN [headers EXCEPT ![f] = NoHeader] ELSE headers

(* _read_new_lines, up to its stat. *)
Stat(f) ==
  /\ pc = "next" /\ f \in todo
  /\ Exists(f)
  /\ todo' = todo \ {f}
  /\ pc' = "open" /\ file' = f
  /\ pos' = IF Shrank(f) THEN 0 ELSE offsets[f]
  /\ headers' = HeadersAfterStat(f)
  /\ UNCHANGED <<environment, offsets, batch, restarts, delivered, readFrom>>

(* OSError from stat: the file is left out of this poll. *)
StatFails(f) ==
  /\ pc = "next" /\ f \in todo
  /\ ~Exists(f)
  /\ todo' = todo \ {f}
  /\ UNCHANGED <<environment, offsets, headers, pc, file, pos, batch,
                 restarts, delivered, readFrom>>

(* Seeded fault: the offset is not advanced. *)
NewOffset_Stuck(f) == pos

(* Seeded fault: the offset is added to a position that already has it. *)
NewOffset_Twice(f) == pos + Consumed(content[f], pos)

NewOffset(f) == Consumed(content[f], pos)

(* The rest of _read_new_lines: open, seek, read, frame, advance. *)
Read ==
  /\ pc = "open" /\ Exists(file)
  /\ LET f == file IN
     /\ batch' = [batch EXCEPT ![f] =
                    RecordsOf(f, inc[f], content[f], pos, headers[f])]
     /\ headers' = [headers EXCEPT ![f] =
                      HeaderAfter(f, inc[f], content[f], pos, @)]
     /\ offsets' = [offsets EXCEPT ![f] = NewOffset(f)]
     /\ readFrom' = [readFrom EXCEPT ![f] = IF pos = 0 THEN inc[f] ELSE @]
  /\ pc' = "next" /\ file' = NoFile /\ pos' = 0
  /\ UNCHANGED <<environment, todo, restarts, delivered>>

(* OSError from open: neither the offset nor the batch changes, but a      *)
(* header that stat dropped stays dropped.                                 *)
ReadFails ==
  /\ pc = "open" /\ (Transient \/ ~Exists(file))
  /\ pc' = "next" /\ file' = NoFile /\ pos' = 0
  /\ UNCHANGED <<environment, offsets, headers, todo, batch, restarts,
                 delivered, readFrom>>

(* The batch is returned. *)
PollEnd ==
  /\ pc = "next" /\ todo = {}
  /\ pc' = "idle"
  /\ delivered' = [f \in Files |-> delivered[f] \o batch[f]]
  /\ batch' = [f \in Files |-> <<>>]
  /\ UNCHANGED <<environment, offsets, headers, todo, file, pos, restarts,
                 readFrom>>

(* The process dies and is started again: offsets and headers are in       *)
(* memory, and so is whatever the loop had made of the records.            *)
Restart ==
  /\ restarts < MaxRestarts
  /\ restarts' = restarts + 1
  /\ offsets' = [f \in Files |-> 0]
  /\ headers' = [f \in Files |-> NoHeader]
  /\ pc' = "idle" /\ todo' = {} /\ file' = NoFile /\ pos' = 0
  /\ batch' = [f \in Files |-> <<>>]
  /\ delivered' = [f \in Files |-> <<>>]
  /\ readFrom' = [f \in Files |-> 0]
  /\ UNCHANGED environment

Collector ==
  \/ PollBegin
  \/ \E f \in Files : Stat(f) \/ StatFails(f)
  \/ Read
  \/ ReadFails
  \/ PollEnd

Environment ==
  \E f \in Files : CreateFile(f) \/ WriteCell(f) \/ RemoveFile(f)

Next == Collector \/ Environment \/ Restart

Spec == Init /\ [][Next]_vars

(* The process keeps running its loop. *)
FairSpec == Spec /\ WF_vars(Collector)

-----------------------------------------------------------------------------
Position == 0 .. MaxCells
Cell     == Fields \cup {"header", "newline"}
Header   == [inc : 1 .. MaxFiles, start : 1 .. MaxCells,
             columns : 1 .. MaxCells]
Record   == [inc : 1 .. MaxFiles, start : 1 .. MaxCells, end : 1 .. MaxCells,
             header : Header \cup {NoHeader}]

(* What the variables hold. *)
TypeOK ==
  /\ content \in [Files -> Seq(Cell) \cup {NoFile}]
  /\ inc \in [Files -> 0 .. MaxFiles]
  /\ offsets \in [Files -> Position]
  /\ headers \in [Files -> Header \cup {NoHeader}]
  /\ pc \in {"idle", "next", "open"}
  /\ todo \subseteq Files
  /\ file \in Files \cup {NoFile}
  /\ pos \in Position
  /\ batch \in [Files -> Seq(Record)]
  /\ restarts \in 0 .. MaxRestarts
  /\ delivered \in [Files -> Seq(Record)]
  /\ readFrom \in [Files -> 0 .. MaxFiles]

(* The records of the first n cells of a file, read at once. *)
Rows(f, n) ==
  RecordsOf(f, inc[f], SubSeq(content[f], 1, n), 0, NoHeader)

OfThisFile(f, S) == Picked(S, {n \in 1 .. Len(S) : S[n].inc = inc[f]})

(* Reading a file piece by piece, with lines cut anywhere and the file     *)
(* removed or replaced between any two steps, gives the records that one   *)
(* reading of the same cells would give: every complete line once, in      *)
(* order, its columns named after the header of the same file.             *)
ReadAsAWhole ==
  \A f \in Files :
    Exists(f) /\ readFrom[f] = inc[f] =>
      /\ offsets[f] <= Len(content[f])
      /\ OfThisFile(f, delivered[f] \o batch[f]) = Rows(f, offsets[f])

(* Whatever happens to the files, resets the collector cannot see          *)
(* included, nothing is handed on twice or out of order.                   *)
Before(r, s) == r.inc < s.inc \/ (r.inc = s.inc /\ r.end < s.end)

OnceInOrder ==
  \A f \in Files :
    LET S == delivered[f] \o batch[f]
    IN \A n \in 1 .. Len(S) - 1 : Before(S[n], S[n + 1])

(* A complete record of a file reaches the loop, unless the file goes away *)
(* or is replaced first; after a restart it is read again.                 *)
Published(f, k, e) ==
  /\ inc[f] = k /\ Exists(f)
  /\ e \in FramedLines(f, k, content[f], 0, NoHeader)

EveryRecordArrives ==
  \A f \in Files, k \in 1 .. MaxFiles, e \in 1 .. MaxCells :
    Published(f, k, e) ~>
      \/ inc[f] # k \/ ~Exists(f)
      \/ \E n \in 1 .. Len(delivered[f]) :
           delivered[f][n].inc = k /\ delivered[f][n].end = e

(* The collector implements Feed. *)
Promise == INSTANCE Feed WITH
  published <- [f \in Files |->
                 IF Exists(f) THEN Rows(f, Len(content[f])) ELSE <<>>],
  taken     <- [f \in Files |->
                 IF Exists(f) THEN OfThisFile(f, delivered[f]) ELSE <<>>]

(* Every step of the collector is a step of Feed or none. *)
ImplementsFeed == Promise!Spec

(* The claim of tail.py:95 and collectors/README.md:8 that a reset is      *)
(* recovered from: of a file that replaced another, too, the records       *)
(* handed on are its first ones, in order.                                 *)
RecoversFromReset ==
  \A f \in Files :
    Exists(f) =>
      LET S == OfThisFile(f, delivered[f])
          R == Rows(f, Len(content[f]))
      IN Len(S) <= Len(R) /\ \A n \in 1 .. Len(S) : S[n] = R[n]
=============================================================================
