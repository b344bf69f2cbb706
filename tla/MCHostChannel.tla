--------------------------- MODULE MCHostChannel ---------------------------
(* Instances of HostChannel for TLC.                                       *)
EXTENDS HostChannel
============================================================================
