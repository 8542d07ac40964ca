---------------------------- MODULE MCTruncation ----------------------------
(* The caps as the model checker runs them; the constants are in the .cfg. *)
EXTENDS Truncation
=============================================================================
