------------------------------ MODULE MCRoster ------------------------------
(* Constants for the model checker that a .cfg cannot write. *)
EXTENDS Roster

Media       == [stem |-> "media", rest |-> ""]
MediaName   == [stem |-> "media", rest |-> "service"]
MediaStore  == [stem |-> "media", rest |-> "mongodb"]
Nginx       == [stem |-> "nginx", rest |-> ""]
NginxThrift == [stem |-> "nginxthrift", rest |-> ""]

MediaOnly == {Media}
TwoNames  == {MediaName, MediaStore}

LogsAndMetrics ==
  {[dir |-> "log", name |-> MediaName],
   [dir |-> "metric", name |-> "container"],
   [dir |-> "metric", name |-> "system"]}

AllSources == Sources
=============================================================================
