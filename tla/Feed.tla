-------------------------------- MODULE Feed --------------------------------
(***************************************************************************)
(* What a collector promises about the files it tails: the records a file  *)
(* publishes reach the loop in the order of the file, each once, none left *)
(* out.  A file that is replaced, and a collector that is restarted, start *)
(* anew.                                                                   *)
(***************************************************************************)
EXTENDS Sequences, SequencesExt

CONSTANT Files

VARIABLES
  published,   \* published[f]: the records complete in file f
  taken        \* taken[f]: those of them handed to the loop

vars == <<published, taken>>

Init ==
  /\ published \in [Files -> {<<>>}]
  /\ taken \in [Files -> {<<>>}]

Publish(f) ==
  /\ \A g \in Files \ {f} : published'[g] = published[g]
  /\ IsPrefix(published[f], published'[f])
  /\ UNCHANGED taken

Replace(f) ==
  /\ published' = [published EXCEPT ![f] = <<>>]
  /\ taken' = [taken EXCEPT ![f] = <<>>]

Take ==
  /\ \A f \in Files : IsPrefix(taken[f], taken'[f])
                      /\ IsPrefix(taken'[f], published[f])
  /\ UNCHANGED published

Restart ==
  /\ taken' = [f \in Files |-> <<>>]
  /\ UNCHANGED published

Next == (\E f \in Files : Publish(f) \/ Replace(f)) \/ Take \/ Restart

Spec == Init /\ [][Next]_vars
=============================================================================
