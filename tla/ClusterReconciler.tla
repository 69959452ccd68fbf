-------------------------- MODULE ClusterReconciler --------------------------
(***************************************************************************)
(* The RedisCluster control plane: doReconcile of                          *)
(* rediscluster_controller.go against an API server with optimistic        *)
(* locking, an informer cache that lags behind it, the admission webhook,  *)
(* users who edit and delete the object, and a Redis cluster that fails.   *)
(*                                                                         *)
(* A reconcile is a sequence of steps, one per API write or Redis          *)
(* operation.  The object is read once, from the cache; every later write  *)
(* is made from that copy.  resourceVersion is abstracted to the question  *)
(* it answers: has the object changed since this copy was taken?           *)
(***************************************************************************)
EXTENDS Integers

CONSTANTS
    MastersRange,  \* the values users give spec.masters
    Configs,       \* contents of spec.redisConfig, all with restart-only keys
    HasReplicas,   \* spec.replicasPerMaster > 0
    WebhookOn,     \* --enable-webhooks
    Faults,        \* which failures the environment may inject
    MaxEdits,      \* bound on the users' edits
    MaxFaults      \* bound on the injected failures

AllFaults == {"write", "configmap", "form", "redis", "pods", "list", "pvc", "lateclaim", "crash"}

ASSUME ConstantsAssumption ==
    /\ MastersRange \subseteq Nat \ {0} /\ MastersRange # {}
    /\ "none" \notin Configs /\ Configs # {}
    /\ HasReplicas \in BOOLEAN /\ WebhookOn \in BOOLEAN /\ Faults \subseteq AllFaults
    /\ MaxEdits \in Nat /\ MaxFaults \in Nat

Phases == {"", "Initializing", "Ready", "Failed", "Scaling", "Recovering"}

VARIABLES
    obj,        \* the RedisCluster in the API server
    cache,      \* the informer's copy of it
    cacheFresh, \* the copy is the current version
    mem,        \* rc: the copy this reconcile works on
    memFresh,   \* its resourceVersion is the current one
    pc,         \* where doReconcile is
    sts,        \* masters and config hash of the StatefulSet template
    podsReady,  \* all master and replica pods are Ready (one flag for both)
    slots,      \* assigned slots: "none", "some", "all", or "lost": some, after a scale-in
    size,       \* cluster_size: masters that own slots
    failing,    \* cluster_state is fail for another reason than missing slots
    handedOff,  \* the config whose restart was preceded by CLUSTER FAILOVER
    pvcs,       \* PersistentVolumeClaims of the cluster exist
    edits, faults

apiVars   == <<obj, cache, cacheFresh>>
redisVars == <<slots, size, failing>>
vars == <<apiVars, mem, memFresh, pc, sts, podsReady, redisVars, handedOff, pvcs, edits, faults>>

Objects == [exists : BOOLEAN, deleting : BOOLEAN, finalizer : BOOLEAN, phase : Phases,
            masters : MastersRange, config : Configs, hash : Configs \cup {"none"}]

Init ==
    /\ obj \in [exists : {TRUE}, deleting : {FALSE}, finalizer : {FALSE}, phase : {""},
                masters : MastersRange, config : Configs, hash : {"none"}]
    /\ cache = obj /\ cacheFresh = TRUE /\ mem = obj /\ memFresh = TRUE
    /\ pc = "idle"
    /\ sts = [masters |-> 0, config |-> "none"] /\ podsReady = FALSE
    /\ slots = "none" /\ size = 0 /\ failing = FALSE
    /\ handedOff = "none" /\ pvcs = FALSE /\ edits = 0 /\ faults = 0

(***************************************************************************)
(* The API server and the users.                                           *)
(***************************************************************************)

MayFail(f) == f \in Faults /\ faults < MaxFaults
Fails(f)   == MayFail(f) /\ faults' = faults + 1
Works      == UNCHANGED faults

\* ValidateUpdate is called for every write of the main resource, the
\* operator's own included; ValidateDelete for deletes.
Admits == WebhookOn => obj.phase # "Scaling"

\* A write by someone other than this reconcile.
ForeignWrite(o) == /\ obj' = o /\ cacheFresh' = FALSE /\ memFresh' = FALSE
                   /\ UNCHANGED <<cache, mem, pc, sts, podsReady, redisVars, handedOff, pvcs, faults>>

UserScales(m) ==
    /\ edits < MaxEdits /\ obj.exists /\ Admits
    /\ m # obj.masters /\ obj.masters - m <= 1
    /\ ForeignWrite([obj EXCEPT !.masters = m]) /\ edits' = edits + 1

UserConfigures(c) ==
    /\ edits < MaxEdits /\ obj.exists /\ Admits /\ c # obj.config
    /\ ForeignWrite([obj EXCEPT !.config = c]) /\ edits' = edits + 1

\* Without a finalizer the object is gone at once, with one it is terminating.
UserDeletes ==
    /\ edits < MaxEdits /\ obj.exists /\ ~obj.deleting /\ Admits
    /\ ForeignWrite([obj EXCEPT !.deleting = TRUE, !.exists = obj.finalizer])
    /\ edits' = edits + 1

CacheSyncs ==
    /\ cache' = obj /\ cacheFresh' = TRUE /\ ~cacheFresh
    /\ UNCHANGED <<obj, mem, memFresh, pc, sts, podsReady, redisVars, handedOff, pvcs, edits, faults>>

\* Mutant: the status is written whatever version the copy has.
StatusOverwrite(p) ==
    IF obj.exists
    THEN /\ obj' = [obj EXCEPT !.phase = p] /\ cacheFresh' = FALSE
         /\ UNCHANGED <<cache, memFresh>>
    ELSE UNCHANGED <<apiVars, memFresh>>

\* Status().Update(rc) and Update(rc): accepted when the copy is current.  A
\* status that changes in nothing makes no new version.
StatusUpdate(p) ==
    IF memFresh /\ obj.exists
    THEN /\ obj' = [obj EXCEPT !.phase = p]
         /\ cacheFresh' \in {FALSE, cacheFresh /\ obj.phase = p}
         /\ UNCHANGED <<cache, memFresh>>
    ELSE UNCHANGED <<apiVars, memFresh>>

UpdateFinalizer(f) ==
    IF memFresh /\ obj.exists /\ Admits
    THEN /\ obj' = [obj EXCEPT !.finalizer = f, !.exists = (f \/ ~obj.deleting)]
         /\ cacheFresh' = FALSE
         /\ UNCHANGED <<cache, memFresh>>
    ELSE UNCHANGED <<apiVars, memFresh>>

(***************************************************************************)
(* Pods and Redis (external).                                              *)
(***************************************************************************)

\* The StatefulSet controller creates the claims with the pods, on its own time:
\* a "lateclaim" comes after the object was deleted.
ClaimsAreCreated ==
    /\ sts.masters > 0 /\ ~pvcs /\ pvcs' = TRUE
    /\ \/ ~obj.deleting /\ Works
       \/ obj.deleting /\ Fails("lateclaim")
    /\ UNCHANGED <<apiVars, mem, memFresh, pc, sts, podsReady, redisVars, handedOff, edits>>

\* The children of an object that is gone are garbage; claims are not children.
ChildrenAreCollected ==
    /\ ~obj.exists /\ sts.masters > 0
    /\ sts' = [masters |-> 0, config |-> "none"] /\ podsReady' = FALSE
    /\ UNCHANGED <<apiVars, mem, memFresh, pc, redisVars, handedOff, pvcs, edits, faults>>

PodsBecomeReady ==
    /\ ~podsReady /\ sts.masters > 0 /\ obj.exists /\ podsReady' = TRUE
    /\ UNCHANGED <<apiVars, mem, memFresh, pc, sts, redisVars, handedOff, pvcs, edits, faults>>

PodFails ==
    /\ podsReady /\ Fails("pods") /\ podsReady' = FALSE
    /\ UNCHANGED <<apiVars, mem, memFresh, pc, sts, redisVars, handedOff, pvcs, edits>>

RedisFails ==
    /\ ~failing /\ slots = "all" /\ Fails("redis") /\ failing' = TRUE
    /\ UNCHANGED <<apiVars, mem, memFresh, pc, sts, podsReady, slots, size, handedOff, pvcs, edits>>

RedisRecovers ==
    /\ failing /\ podsReady /\ failing' = FALSE
    /\ UNCHANGED <<apiVars, mem, memFresh, pc, sts, podsReady, slots, size, handedOff,
                   pvcs, edits, faults>>

ClusterOK == slots = "all" /\ ~failing

(***************************************************************************)
(* doReconcile.                                                            *)
(***************************************************************************)

\* Mutant: the children are reconciled before the finalizer is stored.
GetWithoutFinalizer ==
    /\ pc = "idle"
    /\ mem' = cache /\ memFresh' = cacheFresh
    /\ pc' = IF ~cache.exists THEN "idle"
             ELSE IF cache.deleting THEN "pvcs"
             ELSE IF cache.phase = "" THEN "initialize"
             ELSE "children"
    /\ UNCHANGED <<apiVars, sts, podsReady, redisVars, handedOff, pvcs, edits, faults>>

\* Get from the cache, and the early branches on what it returned.
Get ==
    /\ pc = "idle"
    /\ mem' = cache /\ memFresh' = cacheFresh
    /\ pc' = IF ~cache.exists THEN "idle"
             ELSE IF cache.deleting THEN "pvcs"
             ELSE IF ~cache.finalizer THEN "finalizer"
             ELSE IF cache.phase = "" THEN "initialize"
             ELSE "children"
    /\ UNCHANGED <<apiVars, sts, podsReady, redisVars, handedOff, pvcs, edits, faults>>

\* handleClusterDeletion, PVCs: an error of List is dropped, and claims that its
\* informer has not seen are not deleted ("list"); an error of Delete is returned.
DeletePVCs ==
    /\ pc = "pvcs"
    /\ \/ ~mem.finalizer /\ pc' = "idle" /\ UNCHANGED pvcs /\ Works
       \/ mem.finalizer /\ pc' = "removeFinalizer" /\ pvcs' = FALSE /\ Works
       \/ mem.finalizer /\ pc' = "removeFinalizer" /\ UNCHANGED pvcs /\ Fails("list")
       \/ mem.finalizer /\ pvcs /\ pc' = "idle" /\ UNCHANGED pvcs /\ Fails("pvc")
    /\ UNCHANGED <<apiVars, mem, memFresh, sts, podsReady, redisVars, handedOff, edits>>

\* Mutant: the finalizer is removed from the copy and not stored.
RemoveFinalizerInMemory ==
    /\ pc = "removeFinalizer" /\ pc' = "idle"
    /\ mem' = [mem EXCEPT !.finalizer = FALSE] /\ Works
    /\ UNCHANGED <<apiVars, memFresh, sts, podsReady, redisVars, handedOff, pvcs, edits>>

RemoveFinalizer ==
    /\ pc = "removeFinalizer" /\ pc' = "idle"
    /\ \/ UpdateFinalizer(FALSE) /\ Works
       \/ UNCHANGED <<apiVars, memFresh>> /\ Fails("write")
    /\ UNCHANGED <<mem, sts, podsReady, redisVars, handedOff, pvcs, edits>>

AddFinalizer ==
    /\ pc = "finalizer" /\ pc' = "idle"
    /\ \/ UpdateFinalizer(TRUE) /\ Works
       \/ UNCHANGED <<apiVars, memFresh>> /\ Fails("write")
    /\ UNCHANGED <<mem, sts, podsReady, redisVars, handedOff, pvcs, edits>>

InitializePhase ==
    /\ pc = "initialize"
    /\ mem' = [mem EXCEPT !.phase = "Initializing"]
    /\ \/ memFresh /\ StatusUpdate("Initializing") /\ pc' = "children" /\ Works
       \/ ~memFresh /\ pc' = "idle" /\ UNCHANGED <<apiVars, memFresh>> /\ Works
       \/ pc' = "idle" /\ UNCHANGED <<apiVars, memFresh>> /\ Fails("write")
    /\ UNCHANGED <<sts, podsReady, redisVars, handedOff, pvcs, edits>>

\* The StatefulSets get their template: a changed config restarts pods, a larger
\* count starts some.
Apply(template) ==
    /\ sts' = template
    /\ podsReady' = (/\ podsReady /\ template.config = sts.config
                     /\ template.masters <= sts.masters)

\* ConfigMap, StatefulSets, Services, PDBs and ServiceMonitor by CreateOrUpdate.
ReconcileChildren ==
    LET template == [masters |-> mem.masters, config |-> mem.config]
    IN  /\ pc = "children"
        /\ \/ /\ Apply(template) /\ pc' = "lifecycle" /\ Works
              /\ UNCHANGED <<apiVars, mem, memFresh>>
           \/ /\ Fails("configmap")          \* setClusterFailedStatus, then return
              /\ mem' = [mem EXCEPT !.phase = "Failed"] /\ StatusUpdate("Failed")
              /\ pc' = "idle" /\ UNCHANGED <<sts, podsReady>>
           \/ /\ Fails("write")              \* a later object, before or after
              /\ pc' = "idle"                \* the StatefulSets: return
              /\ \/ UNCHANGED <<sts, podsReady>>
                 \/ Apply(template)
              /\ UNCHANGED <<apiVars, mem, memFresh>>
        /\ UNCHANGED <<redisVars, handedOff, pvcs, edits>>

SetPhase(p) == mem' = [mem EXCEPT !.phase = p]

\* reconcileClusterLifecycle up to the scale branches.
Lifecycle ==
    /\ pc = "lifecycle"
    /\ \/ /\ ~podsReady                \* the probe fails, or no slots yet: wait for pods
          /\ SetPhase("Initializing") /\ pc' = "failover" /\ Works
       \/ /\ Fails("redis")             \* the probe fails although pods are ready
          /\ UNCHANGED mem /\ pc' = "failover"
       \/ slots = "none" /\ podsReady /\ UNCHANGED mem /\ pc' = "form" /\ Works
       \/ slots # "none" /\ ~ClusterOK /\ SetPhase("Recovering") /\ pc' = "failover" /\ Works
       \/ /\ ClusterOK /\ size = mem.masters /\ pc' = "failover" /\ Works
          /\ SetPhase(IF mem.phase = "Recovering" THEN "Ready" ELSE mem.phase)
       \/ /\ ClusterOK /\ size # mem.masters /\ SetPhase("Scaling") /\ Works
          /\ pc' = IF size < mem.masters /\ ~podsReady THEN "failover" ELSE "scale"
    /\ UNCHANGED <<apiVars, memFresh, sts, podsReady, redisVars, handedOff, pvcs, edits>>

\* FormCluster, step by step in the module ClusterFormation: it may stop before,
\* between or after the ADDSLOTS, and while replicas are attached even if no
\* command fails.
FormCluster ==
    /\ pc = "form" /\ pc' = "failover"
    /\ \/ /\ slots' = "all" /\ size' = mem.masters
          /\ SetPhase("Ready") /\ UNCHANGED <<apiVars, memFresh>> /\ Works
       \/ /\ HasReplicas /\ slots' = "all" /\ size' = mem.masters
          /\ SetPhase("Failed") /\ StatusUpdate("Failed") /\ Works
       \/ /\ Fails("form")
          /\ \/ UNCHANGED <<slots, size>>
             \/ slots' = "some" /\ size' \in 1 .. mem.masters - 1
             \/ slots' = "all" /\ size' = mem.masters
          /\ SetPhase("Failed") /\ StatusUpdate("Failed")
    /\ UNCHANGED <<sts, podsReady, failing, handedOff, pvcs, edits>>

\* reconcileScaleOut and reconcileScaleIn from AddMaster and RebalanceSlots on,
\* with the outcomes of the module ClusterScaling: masters get slots or give them
\* up, and RemoveMaster may reset a master with its slots still on it.  nil sets
\* Ready, whatever was achieved; an error, however far it came, leaves Scaling.
Scale ==
    /\ pc = "scale" /\ pc' = "failover"
    /\ \/ size < mem.masters /\ size' \in size .. mem.masters /\ UNCHANGED slots
       \/ /\ size > mem.masters /\ size' \in mem.masters .. size
          /\ \/ slots' = "all"
             \/ slots' = "lost" /\ size' < size
    /\ \/ SetPhase("Ready") /\ Works
       \/ UNCHANGED mem /\ Fails("redis")
    /\ UNCHANGED <<apiVars, memFresh, sts, podsReady, failing, handedOff, pvcs, edits>>

\* tryClusterRollingFailover, and recordLastConfigHash: a merge patch without
\* optimistic lock, whose answer replaces rc by the server's object.
RollingFailover ==
    /\ pc = "failover" /\ pc' = "status"
    /\ handedOff' = IF mem.hash \notin {"none", mem.config} /\ podsReady THEN mem.config ELSE handedOff
    /\ \/ /\ mem.hash # mem.config /\ obj.exists /\ Admits /\ Works
          /\ obj' = [obj EXCEPT !.hash = mem.config]
          /\ mem' = obj' /\ memFresh' = TRUE
          /\ cacheFresh' = FALSE /\ UNCHANGED cache
       \/ /\ mem.hash = mem.config \/ ~obj.exists \/ ~Admits
          /\ UNCHANGED <<apiVars, mem, memFresh>> /\ Works
       \/ /\ mem.hash # mem.config /\ Fails("write")
          /\ UNCHANGED <<apiVars, mem, memFresh>>
    /\ UNCHANGED <<sts, podsReady, redisVars, pvcs, edits>>

\* Mutants: ready pods are enough for the phase Ready; a phase Initializing is
\* not recomputed; the cluster state is stored as the phase.
ComputedPhaseOfPods(ok) ==
    LET allReady == podsReady /\ sts.masters >= mem.masters
    IN  IF mem.phase = "" \/ (mem.phase = "Initializing" /\ allReady)
        THEN IF allReady THEN "Ready" ELSE "Initializing"
        ELSE mem.phase

ComputedPhaseOnce(ok) ==
    LET allReady == podsReady /\ sts.masters >= mem.masters
    IN  IF mem.phase = "" THEN IF allReady /\ ok THEN "Ready" ELSE "Initializing" ELSE mem.phase

ComputedPhaseOfState(ok) ==
    LET allReady == podsReady /\ sts.masters >= mem.masters
    IN  IF mem.phase = "" \/ (mem.phase = "Initializing" /\ allReady)
        THEN IF ok THEN "ok" ELSE "fail"
        ELSE mem.phase

\* updateClusterStatus: only an empty or Initializing phase is recomputed.
ComputedPhase(ok) ==
    LET allReady == podsReady /\ sts.masters >= mem.masters
    IN  IF mem.phase = "" \/ (mem.phase = "Initializing" /\ allReady)
        THEN IF allReady /\ ok THEN "Ready" ELSE "Initializing"
        ELSE mem.phase

UpdateStatus ==
    /\ pc = "status" /\ pc' = "idle"
    /\ \/ SetPhase(ComputedPhase(ClusterOK)) /\ StatusUpdate(ComputedPhase(ClusterOK)) /\ Works
       \/ /\ Fails("redis")                  \* the probe fails: state "unknown"
          /\ SetPhase(ComputedPhase(FALSE)) /\ StatusUpdate(ComputedPhase(FALSE))
       \/ /\ Fails("write")
          /\ SetPhase(ComputedPhase(ClusterOK)) /\ UNCHANGED <<apiVars, memFresh>>
    /\ UNCHANGED <<sts, podsReady, redisVars, handedOff, pvcs, edits>>

\* The operator is restarted between two steps.
OperatorCrashes ==
    /\ pc # "idle" /\ Fails("crash") /\ pc' = "idle"
    /\ UNCHANGED <<apiVars, mem, memFresh, sts, podsReady, redisVars, handedOff, pvcs, edits>>

Reconcile ==
    \/ Get \/ DeletePVCs \/ RemoveFinalizer \/ AddFinalizer \/ InitializePhase
    \/ ReconcileChildren \/ Lifecycle \/ FormCluster \/ Scale \/ RollingFailover \/ UpdateStatus

Next ==
    \/ Reconcile \/ OperatorCrashes \/ CacheSyncs
    \/ \E m \in MastersRange : UserScales(m)
    \/ \E c \in Configs : UserConfigures(c)
    \/ UserDeletes
    \/ ClaimsAreCreated \/ ChildrenAreCollected
    \/ PodsBecomeReady \/ PodFails \/ RedisFails \/ RedisRecovers

Spec == Init /\ [][Next]_vars

\* Every return requeues, the informer catches up, pods that can start do and
\* Redis replicas take over.
Fairness == /\ WF_vars(Reconcile) /\ WF_vars(CacheSyncs)
            /\ WF_vars(PodsBecomeReady) /\ WF_vars(RedisRecovers)

FairSpec == Spec /\ Fairness

(***************************************************************************)
(* Properties.                                                             *)
(***************************************************************************)

\* The type of every variable: no write of a stale copy or of a patch's answer
\* stores a phase, hash or replica count that the code has no name for.
TypeOK ==
    /\ obj \in Objects /\ cache \in Objects /\ mem \in Objects
    /\ cacheFresh \in BOOLEAN /\ memFresh \in BOOLEAN
    /\ pc \in {"idle", "pvcs", "removeFinalizer", "finalizer", "initialize", "children",
               "lifecycle", "form", "scale", "failover", "status"}
    /\ sts.masters \in MastersRange \cup {0} /\ sts.config \in Configs \cup {"none"}
    /\ podsReady \in BOOLEAN /\ slots \in {"none", "some", "all", "lost"} /\ size \in Nat
    /\ failing \in BOOLEAN /\ pvcs \in BOOLEAN
    /\ handedOff \in Configs \cup {"none"}
    /\ edits \in 0 .. MaxEdits /\ faults \in 0 .. MaxFaults

\* A terminating object never gets the phase Scaling, in which the webhook would
\* refuse the operator's own removal of the finalizer.  It holds although a
\* reconcile that read the object before the delete still writes its status.
TerminatingNeverScaling == obj.exists /\ obj.deleting => obj.phase # "Scaling"

\* When the object is gone its volumes are gone, if the StatefulSet controller
\* made their claims before the deletion: no reconcile creates children before
\* the finalizer is stored, or again after the cleanup, from whatever stale copy.
GoneMeansClean == ~obj.exists => ~pvcs

\* A stored phase Ready means that the formation assigned every slot: neither a
\* FormCluster that stopped half-way nor a status computed while pods restart
\* reports it too early.  Slots that are missing then were lost later, by a
\* scale-in that removed their master, after which the code stores Ready too.
ReadyMeansFormed == obj.phase = "Ready" => slots \in {"all", "lost"}

\* A StatefulSet is written only while the stored object has its finalizer:
\* neither before it is stored nor, from a stale copy, after it was removed.
TemplateUnderFinalizer ==
    [][sts' # sts /\ sts'.masters > 0 => obj.exists /\ obj.finalizer]_vars

\* The reconciler keeps the promise of the finalizer, through stale copies,
\* conflicts, failed writes, refusals of the webhook and restarts; a deleted
\* object disappears.
Protocol == INSTANCE FinalizerProtocol WITH
    stage   <- IF ~obj.exists THEN "gone" ELSE IF obj.deleting THEN "terminating"
               ELSE IF obj.finalizer THEN "live" ELSE "new",
    volumes <- pvcs

ImplementsFinalizer == Protocol!Spec

\* No cluster stays Initializing: it gets Ready, fails, or is deleted, however
\* the formation ends.
LeavesInitializing ==
    obj.phase = "Initializing" ~> (obj.phase # "Initializing" \/ obj.deleting)

\* "PhaseScaling indicates a cluster is undergoing a scale operation": it ends.
ScalingEnds == obj.phase = "Scaling" ~> obj.phase # "Scaling"
=============================================================================
