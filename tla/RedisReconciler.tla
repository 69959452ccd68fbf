--------------------------- MODULE RedisReconciler ---------------------------
(***************************************************************************)
(* The standalone Redis resource: doReconcile of redis_controller.go, its  *)
(* admission webhook and the builders of its ConfigMap, Deployment and     *)
(* StatefulSet, against an API server with optimistic locking, a lagging   *)
(* informer, users who edit, delete and recreate the object, and pods that *)
(* read redis.conf only when they boot.                                    *)
(***************************************************************************)
EXTENDS Integers

CONSTANTS
    Configs,     \* contents of redis.conf: a hot and a restart-only part
    WebhookOn,   \* --enable-webhooks
    HasClient,   \* the reconciler has a RedisClient (main.go gives it none)
    Reverts,     \* users return to a config they had replaced
    Faults,      \* which failures the environment may inject
    MaxEdits,    \* bound on the users' edits, deletes and recreations
    MaxFaults    \* bound on the injected failures

AllFaults == {"write", "configmap", "crash", "pods", "claimget", "claimdelete", "lateclaim"}

None == [hot |-> 0, cold |-> 0]

ASSUME ConstantsAssumption ==
    /\ Configs \subseteq [hot : Nat \ {0}, cold : Nat \ {0}] /\ Configs # {}
    /\ WebhookOn \in BOOLEAN /\ HasClient \in BOOLEAN /\ Reverts \in BOOLEAN
    /\ Faults \subseteq AllFaults /\ MaxEdits \in Nat /\ MaxFaults \in Nat

Phases == {"", "Initializing", "Ready", "Failed"}
Kinds  == {"Deployment", "StatefulSet"}

\* spec.storage is nil, or has keepAfterDeletion false or true.
Specs == [storage : {"nil", "dropped", "kept"}, config : Configs]

VARIABLES
    obj,        \* the Redis object in the API server
    cache,      \* the informer's copy of it
    cacheFresh, \* the copy is the current version
    mem,        \* redisObj: the copy this reconcile works on
    memFresh,   \* its resourceVersion is the current one
    pc,         \* where doReconcile is
    confMap,    \* data of the ConfigMap, None before it is created
    template,   \* per kind, the config hash of its pod template
    pods,       \* per kind, template and running config of its pod
    garbage,    \* children of an earlier object of this name, not collected yet
    claim,      \* data-<name>-0: "none", "own", or "left" by an earlier object
    used,       \* configs the object has had
    edits, faults

apiVars == <<obj, cache, cacheFresh>>
children == <<confMap, template, pods, garbage>>
vars == <<apiVars, mem, memFresh, pc, children, claim, used, edits, faults>>

Objects == [exists : BOOLEAN, deleting : BOOLEAN, finalizer : BOOLEAN, phase : Phases,
            spec : Specs]
New(spec) == [exists |-> TRUE, deleting |-> FALSE, finalizer |-> FALSE, phase |-> "",
              spec |-> spec]

NoTemplate == [k \in Kinds |-> None]
NoPods == [k \in Kinds |-> [template |-> None, config |-> None]]

Init ==
    /\ \E spec \in Specs : obj = New(spec)
    /\ cache = obj /\ cacheFresh = TRUE /\ mem = obj /\ memFresh = TRUE /\ pc = "idle"
    /\ confMap = None /\ template = NoTemplate /\ pods = NoPods /\ garbage = {}
    /\ claim = "none" /\ used = {obj.spec.config} /\ edits = 0 /\ faults = 0

(***************************************************************************)
(* Users and the API server.                                               *)
(***************************************************************************)

MayFail(f) == f \in Faults /\ faults < MaxFaults
Fails(f)   == MayFail(f) /\ faults' = faults + 1
Works      == UNCHANGED faults

\* Mutant: only the removal of storage is refused.
ValidateUpdateOfRemoval(old, new) == WebhookOn => (new.storage = "nil" => old.storage = "nil")

\* Storage is neither added nor removed.  (Class and size, which may grow, reach
\* no child that exists and are left out.)
ValidateUpdate(old, new) == WebhookOn => (new.storage = "nil" <=> old.storage = "nil")

ForeignWrite(o) == /\ edits < MaxEdits /\ edits' = edits + 1
                   /\ obj' = o /\ cacheFresh' = FALSE /\ memFresh' = FALSE
                   /\ UNCHANGED <<cache, mem, pc, children, faults>>

UserUpdates(spec) ==
    /\ obj.exists /\ spec # obj.spec /\ ValidateUpdate(obj.spec, spec)
    /\ Reverts \/ spec.config = obj.spec.config \/ spec.config \notin used
    /\ ForeignWrite([obj EXCEPT !.spec = spec])
    /\ used' = used \cup {spec.config} /\ UNCHANGED claim

\* Without a finalizer the object is gone at once, with one it is terminating.
UserDeletes ==
    /\ obj.exists /\ ~obj.deleting
    /\ ForeignWrite([obj EXCEPT !.deleting = TRUE, !.exists = obj.finalizer])
    /\ UNCHANGED <<claim, used>>

\* "delete and recreate with storage configured"
UserRecreates(spec) ==
    /\ ~obj.exists /\ ForeignWrite(New(spec))
    /\ used' = {spec.config} /\ claim' = IF claim = "own" THEN "left" ELSE claim

CacheSyncs ==
    /\ ~cacheFresh /\ cache' = obj /\ cacheFresh' = TRUE
    /\ UNCHANGED <<obj, mem, memFresh, pc, children, claim, used, edits, faults>>

\* Status().Update: accepted when the copy is current.  A status that changes in
\* nothing makes no new version.
StatusUpdate(p) ==
    /\ UNCHANGED <<cache, memFresh>>
    /\ IF memFresh /\ obj.exists
       THEN /\ obj' = [obj EXCEPT !.phase = p]
            /\ cacheFresh' \in {FALSE, cacheFresh /\ obj.phase = p}
       ELSE UNCHANGED <<obj, cacheFresh>>

(***************************************************************************)
(* The workload controllers, kubelet and garbage collector (external).     *)
(***************************************************************************)

\* The template changed, or there is no pod yet: the new pod waits to boot.
PodIsCreated(k) ==
    /\ template[k] # None /\ pods[k].template # template[k]
    /\ pods' = [pods EXCEPT ![k] = [template |-> template[k], config |-> None]]
    /\ UNCHANGED <<apiVars, mem, memFresh, pc, confMap, template, garbage, claim, used,
                   edits, faults>>

\* It mounts what the ConfigMap says now, whatever hash its template has.
PodBoots(k) ==
    /\ pods[k].template # None /\ pods[k].config = None /\ confMap # None
    /\ pods' = [pods EXCEPT ![k].config = confMap]
    /\ UNCHANGED <<apiVars, mem, memFresh, pc, confMap, template, garbage, claim, used,
                   edits, faults>>

PodFails(k) ==
    /\ pods[k].config # None /\ Fails("pods")
    /\ pods' = [pods EXCEPT ![k].config = None]
    /\ UNCHANGED <<apiVars, mem, memFresh, pc, confMap, template, garbage, claim, used, edits>>

\* The StatefulSet controller makes the claim on its own time, or takes over the
\* one that is there; a "lateclaim" comes after the deletion.
ClaimIsCreated ==
    /\ \/ /\ template["StatefulSet"] # None /\ ~obj.deleting /\ claim # "own"
          /\ claim' = "own" /\ Works
       \/ /\ template["StatefulSet"] # None \/ "StatefulSet" \in garbage
          /\ obj.deleting /\ claim = "none" /\ claim' = "own" /\ Fails("lateclaim")
    /\ UNCHANGED <<apiVars, mem, memFresh, pc, children, used, edits>>

GarbageIsCollected ==
    /\ \E g \in garbage : garbage' = garbage \ {g}
    /\ UNCHANGED <<apiVars, mem, memFresh, pc, confMap, template, pods, claim, used,
                   edits, faults>>

(***************************************************************************)
(* doReconcile.                                                            *)
(***************************************************************************)

\* Get from the cache, and the early branches on what it returned.
Get ==
    /\ pc = "idle" /\ mem' = cache /\ memFresh' = cacheFresh
    /\ pc' = IF ~cache.exists THEN "idle"
             ELSE IF cache.deleting THEN "claim"
             ELSE IF ~cache.finalizer THEN "finalizer"
             ELSE IF cache.phase = "" THEN "initialize"
             ELSE "configmap"
    /\ UNCHANGED <<apiVars, children, claim, used, edits, faults>>

\* Mutant: a claim that is not there is an error.
DeleteClaimThatExists ==
    /\ pc = "claim" /\ mem.finalizer
    /\ IF mem.spec.storage = "dropped" /\ claim = "none"
       THEN pc' = "idle" /\ UNCHANGED claim
       ELSE /\ pc' = "removeFinalizer"
            /\ claim' = IF mem.spec.storage = "dropped" THEN "none" ELSE claim
    /\ Works /\ UNCHANGED <<apiVars, mem, memFresh, children, used, edits>>

\* Mutant: keepAfterDeletion is read again, the deletion is not.
DeleteClaimOfLatestSpec ==
    /\ pc = "claim" /\ mem.finalizer /\ pc' = "removeFinalizer"
    /\ claim' = IF obj.spec.storage = "dropped" THEN "none" ELSE claim
    /\ Works /\ UNCHANGED <<apiVars, mem, memFresh, children, used, edits>>

\* handleDeletion: any error of Get is dropped, a NotFound of an informer that has
\* not seen the claim yet too ("claimget"); one of Delete is returned.
DeleteClaim ==
    LET due == mem.finalizer /\ mem.spec.storage = "dropped" /\ claim # "none"
    IN  /\ pc = "claim"
        /\ \/ ~mem.finalizer /\ pc' = "idle" /\ UNCHANGED claim /\ Works
           \/ mem.finalizer /\ ~due /\ pc' = "removeFinalizer" /\ UNCHANGED claim /\ Works
           \/ due /\ pc' = "removeFinalizer" /\ claim' = "none" /\ Works
           \/ due /\ pc' = "removeFinalizer" /\ UNCHANGED claim /\ Fails("claimget")
           \/ due /\ pc' = "idle" /\ UNCHANGED claim /\ Fails("claimdelete")
        /\ UNCHANGED <<apiVars, mem, memFresh, children, used, edits>>

\* The object goes; its children turn into garbage.
Disappears ==
    /\ obj' = [obj EXCEPT !.finalizer = FALSE, !.exists = FALSE] /\ cacheFresh' = FALSE
    /\ garbage' = garbage \cup (IF confMap # None THEN {"configmap"} ELSE {})
                          \cup {k \in Kinds : template[k] # None}
    /\ confMap' = None /\ template' = NoTemplate /\ pods' = NoPods
    /\ UNCHANGED <<cache, memFresh>>

\* Mutant: a patch without optimistic lock.
PatchFinalizer ==
    /\ pc = "removeFinalizer" /\ pc' = "idle" /\ Works
    /\ IF obj.exists /\ obj.deleting THEN Disappears ELSE UNCHANGED <<apiVars, memFresh, children>>
    /\ UNCHANGED <<mem, claim, used, edits>>

\* The last step of handleDeletion: Update with the copy that was read.
RemoveFinalizer ==
    /\ pc = "removeFinalizer" /\ pc' = "idle"
    /\ \/ memFresh /\ obj.exists /\ Disappears /\ Works
       \/ ~(memFresh /\ obj.exists) /\ UNCHANGED <<apiVars, memFresh, children>> /\ Works
       \/ UNCHANGED <<apiVars, memFresh, children>> /\ Fails("write")
    /\ UNCHANGED <<mem, claim, used, edits>>

AddFinalizer ==
    /\ pc = "finalizer" /\ pc' = "idle"
    /\ \/ /\ memFresh /\ obj.exists /\ Works
          /\ obj' = [obj EXCEPT !.finalizer = TRUE] /\ cacheFresh' = FALSE
       \/ ~(memFresh /\ obj.exists) /\ UNCHANGED <<obj, cacheFresh>> /\ Works
       \/ UNCHANGED <<obj, cacheFresh>> /\ Fails("write")
    /\ UNCHANGED <<cache, mem, memFresh, children, claim, used, edits>>

InitializePhase ==
    /\ pc = "initialize"
    /\ mem' = [mem EXCEPT !.phase = "Initializing"]
    /\ \/ memFresh /\ StatusUpdate("Initializing") /\ pc' = "configmap" /\ Works
       \/ ~memFresh /\ pc' = "idle" /\ UNCHANGED <<apiVars, memFresh>> /\ Works
       \/ pc' = "idle" /\ UNCHANGED <<apiVars, memFresh>> /\ Fails("write")
    /\ UNCHANGED <<children, claim, used, edits>>

\* CreateOrUpdate with SetControllerReference: a child of another owner is an
\* error, and an error of the ConfigMap sets the phase Failed.
ReconcileConfigMap ==
    /\ pc = "configmap"
    /\ \/ /\ "configmap" \notin garbage /\ confMap' = mem.spec.config /\ Works
          /\ pc' = "workload" /\ UNCHANGED <<apiVars, mem, memFresh>>
       \/ /\ \/ "configmap" \in garbage /\ Works
             \/ Fails("configmap")
          /\ mem' = [mem EXCEPT !.phase = "Failed"] /\ StatusUpdate("Failed")
          /\ pc' = "idle" /\ UNCHANGED confMap
    /\ UNCHANGED <<template, pods, garbage, claim, used, edits>>

Kind(spec) == IF spec.storage = "nil" THEN "Deployment" ELSE "StatefulSet"

\* The pod templates: both carry the same labels and the hash of the config.
BuildRedisDeployment  == [template EXCEPT !["Deployment"] = mem.spec.config]
BuildRedisStatefulSet == [template EXCEPT !["StatefulSet"] = mem.spec.config]

\* Only the one kind is written, the other is neither updated nor removed.
Apply == template' = IF Kind(mem.spec) = "Deployment" THEN BuildRedisDeployment
                     ELSE BuildRedisStatefulSet

\* Mutant: the template of a workload that exists is left as it is.
ReconcileNewWorkload ==
    /\ pc = "workload" /\ Kind(mem.spec) \notin garbage /\ Works /\ pc' = "reload"
    /\ IF template[Kind(mem.spec)] = None THEN Apply ELSE UNCHANGED template
    /\ UNCHANGED <<apiVars, mem, memFresh, confMap, pods, garbage, claim, used, edits>>

\* The headless Service and StatefulSet, or the Deployment, with the hash of the
\* config this copy has, and the client Service; any of them may fail.  A workload
\* of another owner stops it only if it is of the same kind: one of the other kind
\* has another resource and is not looked at.
ReconcileWorkload ==
    /\ pc = "workload"
    /\ \/ Kind(mem.spec) \notin garbage /\ Apply /\ pc' = "reload" /\ Works
       \/ Kind(mem.spec) \in garbage /\ UNCHANGED template /\ pc' = "idle" /\ Works
       \/ /\ Fails("write") /\ pc' = "idle"
          /\ \/ UNCHANGED template
             \/ Kind(mem.spec) \notin garbage /\ Apply
    /\ UNCHANGED <<apiVars, mem, memFresh, confMap, pods, garbage, claim, used, edits>>

\* tryHotReload: CONFIG SET of the hot part in whatever pod answers; errors are
\* only logged.
HotReload ==
    /\ pc = "reload" /\ pc' = "status"
    /\ \/ UNCHANGED pods
       \/ \E k \in Kinds :
            /\ HasClient /\ pods[k].config # None
            /\ pods' = [pods EXCEPT ![k].config.hot = mem.spec.config.hot]
    /\ UNCHANGED <<apiVars, mem, memFresh, confMap, template, garbage, claim, used, edits, faults>>

Ready == \E k \in Kinds : pods[k].config # None

\* Mutants: a phase Failed stays; a phase that the API has no name for.
PhaseAfterFailure == IF mem.phase # "Failed" THEN IF Ready THEN "Ready" ELSE "Initializing" ELSE "Failed"
PhaseOfCondition == IF Ready THEN "Ready" ELSE "Reconciling"

\* updateStatus: a ready pod makes it Ready, a Failed one without stays Failed.
Phase == IF Ready THEN "Ready" ELSE IF mem.phase # "Failed" THEN "Initializing" ELSE "Failed"

UpdateStatus ==
    /\ pc = "status" /\ pc' = "idle"
    /\ mem' = [mem EXCEPT !.phase = Phase]
    /\ \/ StatusUpdate(Phase) /\ Works
       \/ UNCHANGED <<apiVars, memFresh>> /\ Fails("write")
    /\ UNCHANGED <<children, claim, used, edits>>

\* The operator is restarted between two steps.
OperatorCrashes ==
    /\ pc # "idle" /\ Fails("crash") /\ pc' = "idle"
    /\ UNCHANGED <<apiVars, mem, memFresh, children, claim, used, edits>>

Reconcile ==
    \/ Get \/ DeleteClaim \/ RemoveFinalizer \/ AddFinalizer \/ InitializePhase
    \/ ReconcileConfigMap \/ ReconcileWorkload \/ HotReload \/ UpdateStatus

Next ==
    \/ Reconcile \/ OperatorCrashes \/ CacheSyncs
    \/ \E spec \in Specs : UserUpdates(spec)
    \/ UserDeletes
    \/ \E spec \in Specs : UserRecreates(spec)
    \/ \E k \in Kinds : PodIsCreated(k) \/ PodBoots(k) \/ PodFails(k)
    \/ ClaimIsCreated \/ GarbageIsCollected

Spec == Init /\ [][Next]_vars

\* Every return requeues (an error, Requeue or 30 s), the informer catches up, the
\* workload controllers and the garbage collector do their work.
Fairness == /\ WF_vars(Reconcile) /\ WF_vars(CacheSyncs) /\ WF_vars(GarbageIsCollected)
            /\ \A k \in Kinds : WF_vars(PodIsCreated(k)) /\ WF_vars(PodBoots(k))

FairSpec == Spec /\ Fairness

(***************************************************************************)
(* Properties.                                                             *)
(***************************************************************************)

\* The type of every variable: no stale copy stores a phase without a name, and
\* the hash of a template is always that of a config users gave.
TypeOK ==
    /\ obj \in Objects /\ cache \in Objects /\ mem \in Objects
    /\ cacheFresh \in BOOLEAN /\ memFresh \in BOOLEAN
    /\ pc \in {"idle", "claim", "removeFinalizer", "finalizer", "initialize", "configmap",
               "workload", "reload", "status"}
    /\ confMap \in Configs \cup {None} /\ template \in [Kinds -> Configs \cup {None}]
    /\ pods \in [Kinds -> [template : Configs \cup {None}, config : [hot : Nat, cold : Nat]]]
    /\ garbage \subseteq {"configmap"} \cup Kinds /\ claim \in {"none", "own", "left"}
    /\ used \subseteq Configs /\ edits \in 0 .. MaxEdits /\ faults \in 0 .. MaxFaults

\* An object never has a Deployment and a StatefulSet: their pods carry the same
\* labels, so the Service would spread clients over two Redis servers.  It rests
\* on the webhook and, when users delete and recreate the object with the other
\* storage, on no cache showing the old object as one to be reconciled.  (The old
\* workload may still be garbage: nothing in the code waits for its collection.)
OneWorkload == \E k \in Kinds : template[k] = None

\* An object that is gone left its claim only if its last spec keeps it: a user
\* who changes keepAfterDeletion while handleDeletion runs is not overlooked.
LeftOnlyIfKept == ~obj.exists /\ claim = "own" => obj.spec.storage = "kept"

\* The claim of a living object is never deleted: not by a handler that still
\* sees the deletion of an earlier object of the same name either.
LiveClaimStays == [][claim # "none" /\ claim' = "none" /\ obj.exists => obj.deleting]_vars

\* handleDeletion ends: the object disappears, whatever it finds of the claim.
DeletionCompletes == obj.exists /\ obj.deleting ~> ~obj.exists

Runs(c) == pods[Kind(obj.spec)].config = c

\* A config that users leave alone is the one the pod ends up running, although
\* ConfigMap and template are two writes and the pod may boot between them.  Not
\* when a config returns that had been replaced: Reverts = FALSE.
ConfigConverges ==
    \A c \in Configs :
        <>[](obj.exists /\ ~obj.deleting /\ obj.spec.config = c) => <>[]Runs(c)

\* An object that stays is Ready in the end: a phase Failed from a ConfigMap that
\* still belonged to its predecessor does not stick.
StatusConverges == <>[](obj.exists /\ ~obj.deleting) => <>[](obj.phase = "Ready")
=============================================================================
