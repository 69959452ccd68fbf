------------------------ MODULE MCSentinelReconciler ------------------------
(* Small instances of SentinelReconciler for TLC.                           *)
EXTENDS SentinelReconciler
=============================================================================
