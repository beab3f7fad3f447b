--------------------------- MODULE MCConnections ---------------------------
(* Small instances of Connections for TLC. *)
EXTENDS ConnectionsInductive, TLC

Symmetry == Permutations(Sandboxes) \cup Permutations(HostKeys)
=============================================================================
