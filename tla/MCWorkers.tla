------------------------------ MODULE MCWorkers ------------------------------
(* Instances of Workers for TLC. *)
EXTENDS Workers, TLC

\* Three workers over two types: the round robin wraps, two workers compete.
TwoTypes   == <<"static_analysis", "file_analysis">>
TypeByTask == [t \in Tasks |-> IF t = "file" THEN "file_analysis" ELSE "static_analysis"]

\* The default of the command line, over the two workers it starts.
DefaultTypes == <<"static_analysis", "quality_scan", "file_analysis">>
==============================================================================
