------------------------------ MODULE MCCluster -----------------------------
(* Small clusters for TLC. *)
EXTENDS Cluster, TLC

CONSTANTS n1, n2, n3

\* Nodes are interchangeable; used by the runs without temporal properties.
Symmetric == Permutations(Nodes)
=============================================================================
