---------------------------- MODULE MCClusterCheck ----------------------------
(* A list of probes for TLC: one of each sort. *)
EXTENDS ClusterCheck

MCProbes == <<"agents", "storage", "limits">>
===============================================================================
