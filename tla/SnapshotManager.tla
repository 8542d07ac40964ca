--------------------------- MODULE SnapshotManager ---------------------------
(***************************************************************************)
(* The capture sessions of rca_sdk/snapshot/assembler.py.                  *)
(*                                                                         *)
(* The first trigger opens a session whose anchor is the earliest trigger  *)
(* time, and copies the seconds before the anchor out of the buffer at     *)
(* once.  Later triggers only add their modality.  When the observed time  *)
(* reaches the end of the window, the seconds after the anchor are copied  *)
(* and both halves leave as one bundle.                                    *)
(*                                                                         *)
(* Log truncation (log_truncation_enabled) is not part of this module: a   *)
(* bundle here is the one of a run whose volume stays below the caps.      *)
(***************************************************************************)
EXTENDS MemoryBuffer

CONSTANTS
  PreSec,     \* seconds of the window before the anchor, 180 in the code
  PostSec,    \* seconds of the window after the anchor, 180 in the code
  NoSession   \* no capture in progress

ASSUME SnapshotAssumption ==
  /\ PreSec \in Nat
  /\ PostSec \in Nat \ {0}

VARIABLE session   \* the capture in progress, or NoSession

SnapshotInit == session = NoSession

WindowStart(anchor) == anchor - PreSec
WindowEnd(anchor)   == anchor + PostSec

(* The earliest trigger of a non-empty set of evidences. *)
IsAnchor(a, evidences) ==
  /\ \E e \in evidences : e.time = a
  /\ \A e \in evidences : a <= e.time

(* The modalities that fired. *)
Fired(evidences) == {e.modality : e \in evidences}

(* _CaptureSession: the pre half is copied while it is still buffered. *)
NewSession(anchor, evidences) ==
  [anchor |-> anchor,
   pre    |-> SnapshotRecords(WindowStart(anchor), anchor),
   roster |-> SnapshotCoverage(WindowStart(anchor), anchor),
   firedBy |-> Fired(evidences)]

(* register_triggers *)
OpenSession(evidences) ==
  /\ evidences # {}
  /\ session = NoSession
  /\ \E a \in {e.time : e \in evidences} :
       /\ IsAnchor(a, evidences)
       /\ session' = NewSession(a, evidences)

(* Seeded fault: a trigger during a capture starts the capture anew. *)
AbsorbTriggers_Restart(evidences) ==
  /\ evidences # {}
  /\ session # NoSession
  /\ \E a \in {e.time : e \in evidences} :
       /\ IsAnchor(a, evidences)
       /\ session' = NewSession(a, evidences)

AbsorbTriggers(evidences) ==
  /\ evidences # {}
  /\ session # NoSession
  /\ session' = [session EXCEPT !.firedBy = @ \cup Fired(evidences)]

RegisterTriggers(evidences) ==
  \/ evidences = {} /\ UNCHANGED session
  \/ OpenSession(evidences)
  \/ AbsorbTriggers(evidences)

(* _modality_info: present by OR and total by sum over the two halves; a   *)
(* source without a record in either half is empty or missing.             *)
ModalityInfo(pre, post, included) ==
  [m \in Modality |->
     LET total   == pre[m].count + post[m].count
         present == pre[m].present \/ post[m].present
     IN [listed |-> pre[m].listed \/ post[m].listed,
         status |-> IF total > 0 THEN "data"
                    ELSE IF present THEN "empty" ELSE "missing",
         total  |-> total,
         count  |-> Cardinality(included[m])]]

(* _assemble: the bundle of a session, its post half copied from the       *)
(* buffer now.                                                             *)
Assemble(s) ==
  LET post  == SnapshotRecords(s.anchor, WindowEnd(s.anchor))
      both  == [m \in Modality |-> s.pre[m] \cup post[m]]
  IN [anchor  |-> s.anchor,
      records |-> both,
      firedBy |-> s.firedBy,
      info    |-> ModalityInfo(s.roster,
                    SnapshotCoverage(s.anchor, WindowEnd(s.anchor)), both)]

(* finalize_ready returns a bundle exactly when the window has passed. *)
Ready(observedUntil) ==
  /\ session # NoSession
  /\ observedUntil >= WindowEnd(session.anchor)

(* Seeded fault: the session is not cleared. *)
FinalizeReady_Kept(observedUntil) ==
  /\ Ready(observedUntil) \in BOOLEAN
  /\ session' = session

FinalizeReady(observedUntil) ==
  session' = IF Ready(observedUntil) THEN NoSession ELSE session

Bundles(observedUntil) ==
  IF Ready(observedUntil) THEN <<Assemble(session)>> ELSE <<>>
=============================================================================
