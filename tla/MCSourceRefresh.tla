--------------------------- MODULE MCSourceRefresh ---------------------------
(***************************************************************************)
(* Instances of SourceRefresh for TLC.  One unit of time is an hour.       *)
(***************************************************************************)
EXTENDS SourceRefresh

MCMinutes == [s \in Sources |-> 1]
MCDaily == [s \in Sources |-> 24]
=============================================================================
