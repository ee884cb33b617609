----------------------------- MODULE MCCluster -----------------------------
(* Small instances of Cluster for TLC. *)
EXTENDS Cluster

CONSTANTS n1, n2

TwoNodes == <<n1, n2>>

=============================================================================
