------------------------ MODULE MCClusterReconciler ------------------------
(* Small instances of ClusterReconciler for TLC.                            *)
EXTENDS ClusterReconciler
=============================================================================
