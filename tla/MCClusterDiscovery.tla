-------------------------- MODULE MCClusterDiscovery --------------------------
(* Small instances of ClusterDiscovery for TLC.                             *)
EXTENDS ClusterDiscovery
==============================================================================
