------------------------------ MODULE MCRunner ------------------------------
(* Constants for the model checker that a .cfg cannot write. *)
EXTENDS Runner

LogMetric   == <<"log", "metric">>
MetricTrace == <<"metric", "trace">>
LogTrace    == <<"log", "trace">>
JustLog     == <<"log">>
JustMetric  == <<"metric">>
JustTrace   == <<"trace">>
=============================================================================
