---------------------------- MODULE MCDeployment ----------------------------
(* Constants for the model checker that a .cfg cannot write. *)
EXTENDS Deployment

LogTrace == <<"log", "trace">>
=============================================================================
