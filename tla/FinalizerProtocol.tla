-------------------------- MODULE FinalizerProtocol --------------------------
(***************************************************************************)
(* What the finalizer redis.example.com/finalizer promises for a custom    *)
(* resource of the operator: the volumes of a resource are created only    *)
(* once the finalizer is stored, are removed before it is taken off, and a *)
(* deleted resource is let go in the end.                                  *)
(*                                                                         *)
(* ClusterReconciler implements it, with all its stale copies, conflicts,  *)
(* failed writes and restarts.                                             *)
(***************************************************************************)

VARIABLES
    stage,    \* "new", "live" with the finalizer, "terminating", "gone"
    volumes   \* PersistentVolumeClaims of the resource exist

vars == <<stage, volumes>>

Init == stage = "new" /\ volumes = FALSE

StoreFinalizer == stage = "new" /\ stage' = "live" /\ UNCHANGED volumes

\* Without a finalizer a delete takes effect at once.
Delete == /\ \/ stage = "new" /\ stage' = "gone"
             \/ stage = "live" /\ stage' = "terminating"
          /\ UNCHANGED volumes

CreateVolumes == stage = "live" /\ volumes' = TRUE /\ UNCHANGED stage

CleanUp == stage = "terminating" /\ volumes' = FALSE /\ UNCHANGED stage

RemoveFinalizer == stage = "terminating" /\ ~volumes /\ stage' = "gone" /\ UNCHANGED volumes

Next == StoreFinalizer \/ Delete \/ CreateVolumes \/ CleanUp \/ RemoveFinalizer

\* Users need not delete, but a delete is carried through.
Spec == Init /\ [][Next]_vars /\ WF_vars(CleanUp) /\ WF_vars(RemoveFinalizer)
=============================================================================
