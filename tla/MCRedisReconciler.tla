-------------------------- MODULE MCRedisReconciler --------------------------
(* RedisReconciler with two configs that differ in a hot and a cold part.    *)
EXTENDS RedisReconciler

MCConfigs == {[hot |-> 1, cold |-> 1], [hot |-> 2, cold |-> 2]}
=============================================================================
