------------------------------ MODULE MCTailer ------------------------------
(* The tailer as the model checker runs it; every constant is in the .cfg. *)
EXTENDS Tailer
=============================================================================
