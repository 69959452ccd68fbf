-------------------------- MODULE MCClusterFormation --------------------------
(***************************************************************************)
(* Instances of ClusterFormation for TLC.  Two operators with different    *)
(* values of spec.masters, and seven slots, so that three and four masters *)
(* give different ranges and both leave a remainder.                       *)
(***************************************************************************)
EXTENDS ClusterFormation
=============================================================================
