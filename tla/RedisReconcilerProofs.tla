------------------------ MODULE RedisReconcilerProofs ------------------------
(***************************************************************************)
(* The proofs about RedisReconciler, for all contents of redis.conf, any   *)
(* number of edits, deletions and recreations and any set of faults.       *)
(*                                                                         *)
(* A reconcile acts on a copy that may show an earlier object of the same  *)
(* name.  The inductive invariant says which mistakes that allows: a copy  *)
(* with a finalizer and no deletion is always one of the object that is    *)
(* there; a copy that shows a deletion is never taken for a living object  *)
(* with a finalizer, and if it asks for the claim to be dropped then the   *)
(* claim is already gone once that object is.                              *)
(***************************************************************************)
EXTENDS RedisReconciler, TLAPS

PCs == {"idle", "claim", "removeFinalizer", "finalizer", "initialize", "configmap",
        "workload", "reload", "status"}

\* The steps of handleDeletion, and those after the finalizer is stored.
Deleting == {"claim", "removeFinalizer"}
Working  == {"initialize", "configmap", "workload", "reload", "status"}

Alike(a, b) == /\ a.exists = b.exists /\ a.deleting = b.deleting
               /\ a.finalizer = b.finalizer /\ a.spec = b.spec

\* A current copy differs from the object at most in the phase; before the first
\* write of a reconcile the cache is current if its copy is.
CurrentCopies ==
    /\ cacheFresh => Alike(cache, obj)
    /\ pc # "idle" /\ memFresh => Alike(mem, obj)
    /\ pc \in Deleting \cup {"finalizer"} /\ memFresh => cacheFresh

\* What the branch that was taken says of the copy.
BranchTaken ==
    /\ pc \in Deleting => mem.exists /\ mem.deleting
    /\ pc = "removeFinalizer" => mem.finalizer
    /\ pc = "finalizer" => ~mem.deleting

\* Which copies can only be of the object that is there, and what the object's
\* children tell about it.
CopiesOfThisObject ==
    /\ obj.exists /\ obj.finalizer /\ ~obj.deleting => ~cache.deleting /\ pc \notin Deleting
    /\ cache.exists /\ cache.finalizer /\ ~cache.deleting => obj.exists /\ obj.finalizer
    /\ pc \in Working => obj.exists /\ obj.finalizer
    /\ \A k \in Kinds : template[k] # None => obj.exists /\ obj.finalizer

\* The webhook fixes the kind of workload for the life of an object.
KindIsKept ==
    WebhookOn =>
        /\ cache.exists /\ cache.finalizer /\ ~cache.deleting => Kind(cache.spec) = Kind(obj.spec)
        /\ pc \in Working => Kind(mem.spec) = Kind(obj.spec)
        /\ \A k \in Kinds : template[k] # None => Kind(obj.spec) = k

\* The claim is created before the deletion, and handleDeletion's Get shows it.
ClaimsInTime == "claimget" \notin Faults /\ "lateclaim" \notin Faults

\* An object has a claim only with its finalizer, and one that is gone has no
\* claim to drop, whatever stale copy says so.
DropIsDone ==
    ClaimsInTime =>
        /\ claim = "own" /\ obj.exists => obj.finalizer
        /\ WebhookOn /\ claim = "own" => Kind(obj.spec) = "StatefulSet"
        /\ pc = "removeFinalizer" /\ memFresh /\ mem.spec.storage = "dropped" => claim = "none"
        /\ cache.exists /\ cache.deleting /\ cache.finalizer /\ cache.spec.storage = "dropped" =>
               (obj.exists /\ obj.deleting) \/ claim = "none"
        /\ pc = "claim" /\ mem.finalizer /\ mem.spec.storage = "dropped" =>
               (obj.exists /\ obj.deleting) \/ claim = "none"
        /\ WebhookOn => LeftOnlyIfKept

IInv == /\ TypeOK /\ CurrentCopies /\ BranchTaken /\ CopiesOfThisObject /\ KindIsKept
        /\ DropIsDone

(***************************************************************************)
(* Writing one field of an object.                                         *)
(***************************************************************************)

\* Storing a phase leaves the rest of the object.
LEMMA PhaseField ==
  ASSUME NEW o \in Objects, NEW p \in Phases
  PROVE  LET q == [o EXCEPT !.phase = p] IN q \in Objects /\ Alike(q, o)
  BY DEF Objects, Alike

\* An edit of the spec leaves the rest of the object.
LEMMA SpecField ==
  ASSUME NEW o \in Objects, NEW s \in Specs
  PROVE  LET q == [o EXCEPT !.spec = s]
         IN  /\ q \in Objects /\ q.spec = s
             /\ q.exists = o.exists /\ q.deleting = o.deleting /\ q.finalizer = o.finalizer
  BY DEF Objects

\* A delete sets the deletion and keeps the object only for its finalizer.
LEMMA DeleteFields ==
  ASSUME NEW o \in Objects, NEW e \in BOOLEAN
  PROVE  LET q == [o EXCEPT !.deleting = TRUE, !.exists = e]
         IN  /\ q \in Objects /\ q.spec = o.spec
             /\ q.exists = e /\ q.deleting = TRUE /\ q.finalizer = o.finalizer
  BY DEF Objects

\* The finalizer is added to an object that stays, and leaves with the object.
LEMMA FinalizerFields ==
  ASSUME NEW o \in Objects
  PROVE  /\ LET q == [o EXCEPT !.finalizer = TRUE]
            IN  /\ q \in Objects /\ q.spec = o.spec /\ q.finalizer = TRUE
                /\ q.exists = o.exists /\ q.deleting = o.deleting
         /\ LET q == [o EXCEPT !.finalizer = FALSE, !.exists = FALSE]
            IN  /\ q \in Objects /\ q.spec = o.spec /\ q.finalizer = FALSE
                /\ q.exists = FALSE /\ q.deleting = o.deleting
  BY DEF Objects

\* A new object has neither deletion nor finalizer.
LEMMA NewFields ==
  ASSUME NEW s \in Specs
  PROVE  /\ New(s) \in Objects /\ New(s).spec = s
         /\ New(s).exists = TRUE /\ New(s).deleting = FALSE /\ New(s).finalizer = FALSE
  BY DEF New, Objects, Phases

\* The flags of an object are Booleans, its spec is one that users can give.
LEMMA ObjectFields ==
  ASSUME NEW o \in Objects
  PROVE  /\ o.exists \in BOOLEAN /\ o.deleting \in BOOLEAN /\ o.finalizer \in BOOLEAN
         /\ o.phase \in Phases /\ o.spec \in Specs /\ o.spec.config \in Configs
  BY DEF Objects, Specs

\* A status update changes nothing of the stored object but its phase.
LEMMA StatusUpdateEffect ==
  ASSUME obj \in Objects, NEW p \in Phases, cacheFresh \in BOOLEAN, StatusUpdate(p)
  PROVE  /\ obj' \in Objects /\ Alike(obj', obj) /\ cache' = cache /\ memFresh' = memFresh
         /\ cacheFresh' \in BOOLEAN /\ (cacheFresh' => cacheFresh)
<1>1. CASE memFresh /\ obj.exists
  <2>1. obj' = [obj EXCEPT !.phase = p] /\ cache' = cache /\ memFresh' = memFresh
    BY <1>1 DEF StatusUpdate
  <2>2. cacheFresh' \in BOOLEAN /\ (cacheFresh' => cacheFresh)
    BY <1>1, Zenon DEF StatusUpdate
  <2>. QED
    BY <2>1, <2>2, PhaseField, Zenon
<1>2. CASE ~(memFresh /\ obj.exists)
  BY <1>2, Zenon DEF StatusUpdate, Alike
<1>. QED
  BY <1>1, <1>2, Zenon

(***************************************************************************)
(* Type correctness.                                                       *)
(***************************************************************************)

\* The parts of TypeOK: the API objects, the children, and the bounds.
ObjectsTypeOK ==
    /\ obj \in Objects /\ cache \in Objects /\ mem \in Objects
    /\ cacheFresh \in BOOLEAN /\ memFresh \in BOOLEAN /\ pc \in PCs
ChildrenTypeOK ==
    /\ confMap \in Configs \cup {None} /\ template \in [Kinds -> Configs \cup {None}]
    /\ pods \in [Kinds -> [template : Configs \cup {None}, config : [hot : Nat, cold : Nat]]]
    /\ garbage \subseteq {"configmap"} \cup Kinds
RestTypeOK ==
    /\ claim \in {"none", "own", "left"} /\ used \subseteq Configs
    /\ edits \in 0 .. MaxEdits /\ faults \in 0 .. MaxFaults

\* TypeOK, taken apart.
LEMMA TypeParts == TypeOK <=> ObjectsTypeOK /\ ChildrenTypeOK /\ RestTypeOK
  BY Zenon DEF TypeOK, ObjectsTypeOK, ChildrenTypeOK, RestTypeOK, PCs

\* A failure is counted, up to the bound.
LEMMA FaultsType ==
  ASSUME faults \in 0 .. MaxFaults, NEW f, Works \/ Fails(f)
  PROVE  faults' \in 0 .. MaxFaults
  BY ConstantsAssumption DEF Works, Fails, MayFail

\* Every config is one of redis.conf, and None is the empty one.
LEMMA ConfigTypes ==
  /\ None \in [hot : Nat, cold : Nat] /\ Configs \subseteq [hot : Nat, cold : Nat]
  /\ NoTemplate \in [Kinds -> Configs \cup {None}]
  /\ NoPods \in [Kinds -> [template : Configs \cup {None}, config : [hot : Nat, cold : Nat]]]
<1>1. None \in [hot : Nat, cold : Nat] /\ Configs \subseteq [hot : Nat, cold : Nat]
  BY ConstantsAssumption DEF None
<1>. HIDE DEF None
<1>. QED
  BY <1>1 DEF NoTemplate, NoPods

\* The object is new at first and nothing else is there.
LEMMA InitTypeOK == Init => TypeOK
<1>. SUFFICES ASSUME Init PROVE ObjectsTypeOK /\ ChildrenTypeOK /\ RestTypeOK
  BY TypeParts, Zenon
<1>1. PICK s \in Specs : obj = New(s)
  BY DEF Init
<1>2. ObjectsTypeOK
  BY <1>1, NewFields DEF Init, ObjectsTypeOK, PCs
<1>3. ChildrenTypeOK
  BY ConfigTypes DEF Init, ChildrenTypeOK
<1>4. obj.spec.config \in Configs
  BY <1>1, NewFields, ObjectFields
<1>5. RestTypeOK
  BY <1>4, ConstantsAssumption DEF Init, RestTypeOK
<1>. QED
  BY <1>2, <1>3, <1>5

\* What users, the informer and the workload controllers do keeps the types.
LEMMA OutsideTypeOK ==
  ASSUME TypeOK,
         \/ CacheSyncs \/ UserDeletes \/ ClaimIsCreated \/ GarbageIsCollected
         \/ \E s \in Specs : UserUpdates(s) \/ UserRecreates(s)
         \/ \E k \in Kinds : PodIsCreated(k) \/ PodBoots(k) \/ PodFails(k)
  PROVE  TypeOK'
<1>0. ObjectsTypeOK /\ ChildrenTypeOK /\ RestTypeOK
  BY TypeParts, Zenon
<1>. SUFFICES ObjectsTypeOK' /\ ChildrenTypeOK' /\ RestTypeOK'
  BY Zenon DEF TypeOK, ObjectsTypeOK, ChildrenTypeOK, RestTypeOK, PCs
<1>1. CASE CacheSyncs
  BY <1>0, <1>1 DEF CacheSyncs, children, ObjectsTypeOK, ChildrenTypeOK, RestTypeOK
<1>2. ASSUME NEW o \in Objects, ForeignWrite(o), claim' \in {"none", "own", "left"},
             used' \subseteq Configs
      PROVE  ObjectsTypeOK' /\ ChildrenTypeOK' /\ RestTypeOK'
  <2>1. edits' \in 0 .. MaxEdits
    BY <1>0, <1>2, ConstantsAssumption DEF ForeignWrite, RestTypeOK
  <2>2. /\ obj' \in Objects /\ cache' = cache /\ mem' = mem /\ pc' = pc
        /\ cacheFresh' \in BOOLEAN /\ memFresh' \in BOOLEAN /\ faults' = faults
        /\ UNCHANGED <<confMap, template, pods, garbage>>
    BY <1>2 DEF ForeignWrite, children
  <2>. QED
    BY <1>0, <1>2, <2>1, <2>2, Zenon DEF ObjectsTypeOK, ChildrenTypeOK, RestTypeOK
<1>3. ASSUME NEW s \in Specs, UserUpdates(s)
      PROVE  ObjectsTypeOK' /\ ChildrenTypeOK' /\ RestTypeOK'
  <2>1. [obj EXCEPT !.spec = s] \in Objects /\ s.config \in Configs
    BY <1>0, SpecField DEF ObjectsTypeOK, Specs
  <2>2. claim' \in {"none", "own", "left"} /\ used' \subseteq Configs
    BY <1>0, <1>3, <2>1 DEF UserUpdates, RestTypeOK
  <2>. QED
    BY <1>2, <1>3, <2>1, <2>2, Zenon DEF UserUpdates
<1>4. CASE UserDeletes
  <2>1. [obj EXCEPT !.deleting = TRUE, !.exists = obj.finalizer] \in Objects
    BY <1>0, DeleteFields, ObjectFields, Zenon DEF ObjectsTypeOK
  <2>2. claim' \in {"none", "own", "left"} /\ used' \subseteq Configs
    BY <1>0, <1>4 DEF UserDeletes, RestTypeOK
  <2>. QED
    BY <1>2, <1>4, <2>1, <2>2, Zenon DEF UserDeletes
<1>5. ASSUME NEW s \in Specs, UserRecreates(s)
      PROVE  ObjectsTypeOK' /\ ChildrenTypeOK' /\ RestTypeOK'
  <2>1. New(s) \in Objects /\ s.config \in Configs
    BY NewFields DEF Specs
  <2>2. claim' \in {"none", "own", "left"} /\ used' \subseteq Configs
    BY <1>0, <1>5, <2>1 DEF UserRecreates, RestTypeOK
  <2>. QED
    BY <1>2, <1>5, <2>1, <2>2, Zenon DEF UserRecreates
<1>6. ASSUME NEW k \in Kinds, PodIsCreated(k) \/ PodBoots(k) \/ PodFails(k)
      PROVE  ObjectsTypeOK' /\ ChildrenTypeOK' /\ RestTypeOK'
  <2>1. pods' \in [Kinds -> [template : Configs \cup {None}, config : [hot : Nat, cold : Nat]]]
    <3>1. template[k] \in Configs \cup {None}
      BY <1>0 DEF ChildrenTypeOK
    <3>2. confMap \in [hot : Nat, cold : Nat] /\ None \in [hot : Nat, cold : Nat]
      BY <1>0, ConfigTypes DEF ChildrenTypeOK
    <3>. HIDE DEF None
    <3>. QED
      BY <1>0, <1>6, <3>1, <3>2 DEF ChildrenTypeOK, PodIsCreated, PodBoots, PodFails
  <2>2. faults' \in 0 .. MaxFaults
    BY <1>0, <1>6, FaultsType DEF PodIsCreated, PodBoots, PodFails, RestTypeOK
  <2>3. /\ UNCHANGED <<obj, cache, cacheFresh, mem, memFresh, pc>>
        /\ UNCHANGED <<confMap, template, garbage, claim, used, edits>>
    BY <1>6 DEF PodIsCreated, PodBoots, PodFails, apiVars
  <2>. QED
    BY <1>0, <2>1, <2>2, <2>3, Zenon DEF ObjectsTypeOK, ChildrenTypeOK, RestTypeOK
<1>7. CASE ClaimIsCreated
  <2>1. faults' \in 0 .. MaxFaults /\ claim' \in {"none", "own", "left"}
    BY <1>0, <1>7, FaultsType DEF ClaimIsCreated, RestTypeOK
  <2>2. /\ UNCHANGED <<obj, cache, cacheFresh, mem, memFresh, pc>>
        /\ UNCHANGED <<confMap, template, pods, garbage, used, edits>>
    BY <1>7 DEF ClaimIsCreated, apiVars, children
  <2>. QED
    BY <1>0, <2>1, <2>2, Zenon DEF ObjectsTypeOK, ChildrenTypeOK, RestTypeOK
<1>8. CASE GarbageIsCollected
  <2>1. garbage' \subseteq {"configmap"} \cup Kinds
    BY <1>0, <1>8 DEF GarbageIsCollected, ChildrenTypeOK
  <2>2. /\ UNCHANGED <<obj, cache, cacheFresh, mem, memFresh, pc>>
        /\ UNCHANGED <<confMap, template, pods, claim, used, edits, faults>>
    BY <1>8 DEF GarbageIsCollected, apiVars
  <2>. QED
    BY <1>0, <2>1, <2>2, Zenon DEF ObjectsTypeOK, ChildrenTypeOK, RestTypeOK
<1>. QED
  BY <1>1, <1>3, <1>4, <1>5, <1>6, <1>7, <1>8

\* Every step of doReconcile keeps the types: the ConfigMap and the templates
\* always hold the config of some copy.
LEMMA ReconcileTypeOK ==
  ASSUME TypeOK, Reconcile \/ OperatorCrashes
  PROVE  TypeOK'
<1>0. ObjectsTypeOK /\ ChildrenTypeOK /\ RestTypeOK
  BY TypeParts, Zenon
<1>. SUFFICES ObjectsTypeOK' /\ ChildrenTypeOK' /\ RestTypeOK'
  BY Zenon DEF TypeOK, ObjectsTypeOK, ChildrenTypeOK, RestTypeOK, PCs
<1>c. mem.spec \in Specs /\ mem.spec.config \in Configs /\ mem.phase \in Phases
  BY <1>0, ObjectFields DEF ObjectsTypeOK
<1>s. ASSUME NEW p \in Phases, StatusUpdate(p)
      PROVE  obj' \in Objects /\ cache' = cache /\ memFresh' = memFresh /\ cacheFresh' \in BOOLEAN
  BY <1>0, <1>s, StatusUpdateEffect, Zenon DEF ObjectsTypeOK
<1>m. \A p \in Phases : [mem EXCEPT !.phase = p] \in Objects
  BY <1>0, PhaseField DEF ObjectsTypeOK
<1>1. CASE Get
  <2>1. /\ mem' = cache /\ memFresh' = cacheFresh /\ pc' \in PCs
        /\ UNCHANGED <<obj, cache, cacheFresh, confMap, template, pods, garbage>>
        /\ UNCHANGED <<claim, used, edits, faults>>
    BY <1>1 DEF Get, apiVars, children, PCs
  <2>. QED
    BY <1>0, <2>1, Zenon DEF ObjectsTypeOK, ChildrenTypeOK, RestTypeOK
<1>2. CASE DeleteClaim
  <2>1. faults' \in 0 .. MaxFaults /\ claim' \in {"none", "own", "left"} /\ pc' \in PCs
    BY <1>0, <1>2, FaultsType DEF DeleteClaim, RestTypeOK, PCs
  <2>2. UNCHANGED <<obj, cache, cacheFresh, mem, memFresh, confMap, template, pods, garbage, used, edits>>
    BY <1>2 DEF DeleteClaim, apiVars, children
  <2>. QED
    BY <1>0, <2>1, <2>2, Zenon DEF ObjectsTypeOK, ChildrenTypeOK, RestTypeOK
<1>3. CASE RemoveFinalizer
  <2>1. faults' \in 0 .. MaxFaults /\ pc' \in PCs /\ UNCHANGED <<mem, claim, used, edits>>
    BY <1>0, <1>3, FaultsType DEF RemoveFinalizer, RestTypeOK, PCs
  <2>2. CASE Disappears
    <3>0. /\ obj' = [obj EXCEPT !.finalizer = FALSE, !.exists = FALSE] /\ cacheFresh' = FALSE
          /\ UNCHANGED <<cache, memFresh>>
      BY <2>2 DEF Disappears
    <3>1. obj' \in Objects /\ cacheFresh' \in BOOLEAN /\ UNCHANGED <<cache, memFresh>>
      BY <1>0, <3>0, FinalizerFields DEF ObjectsTypeOK
    <3>2. ChildrenTypeOK'
      BY <1>0, <2>2, ConfigTypes DEF Disappears, ChildrenTypeOK
    <3>. QED
      BY <1>0, <2>1, <3>1, <3>2, Zenon DEF ObjectsTypeOK, RestTypeOK
  <2>3. CASE UNCHANGED <<apiVars, memFresh, children>>
    BY <1>0, <2>1, <2>3, Zenon DEF ObjectsTypeOK, ChildrenTypeOK, RestTypeOK, apiVars, children
  <2>. QED
    BY <1>3, <2>2, <2>3 DEF RemoveFinalizer
<1>4. CASE AddFinalizer
  <2>1. faults' \in 0 .. MaxFaults /\ pc' \in PCs
    BY <1>0, <1>4, FaultsType DEF AddFinalizer, RestTypeOK, PCs
  <2>2. obj' \in Objects /\ cacheFresh' \in BOOLEAN
    <3>1. obj' = [obj EXCEPT !.finalizer = TRUE] \/ obj' = obj
      BY <1>4 DEF AddFinalizer
    <3>2. cacheFresh' = FALSE \/ cacheFresh' = cacheFresh
      BY <1>4 DEF AddFinalizer
    <3>3. obj \in Objects /\ [obj EXCEPT !.finalizer = TRUE] \in Objects
      BY <1>0, FinalizerFields DEF ObjectsTypeOK
    <3>. QED
      BY <1>0, <3>1, <3>2, <3>3, Zenon DEF ObjectsTypeOK
  <2>3. UNCHANGED <<cache, mem, memFresh, confMap, template, pods, garbage, claim, used, edits>>
    BY <1>4 DEF AddFinalizer, children
  <2>. QED
    BY <1>0, <2>1, <2>2, <2>3, Zenon DEF ObjectsTypeOK, ChildrenTypeOK, RestTypeOK
<1>5. CASE InitializePhase
  <2>1. faults' \in 0 .. MaxFaults /\ pc' \in PCs
    BY <1>0, <1>5, FaultsType DEF InitializePhase, RestTypeOK, PCs
  <2>2. mem' \in Objects /\ "Initializing" \in Phases
    BY <1>5, <1>m DEF InitializePhase, Phases
  <2>3. StatusUpdate("Initializing") \/ UNCHANGED <<apiVars, memFresh>>
    BY <1>5 DEF InitializePhase
  <2>4. obj' \in Objects /\ cache' = cache /\ memFresh' = memFresh /\ cacheFresh' \in BOOLEAN
    BY <1>0, <1>s, <2>2, <2>3, Zenon DEF apiVars, ObjectsTypeOK
  <2>5. UNCHANGED <<confMap, template, pods, garbage, claim, used, edits>>
    BY <1>5 DEF InitializePhase, children
  <2>. QED
    BY <1>0, <2>1, <2>2, <2>4, <2>5, Zenon DEF ObjectsTypeOK, ChildrenTypeOK, RestTypeOK
<1>6. CASE ReconcileConfigMap
  <2>1. faults' \in 0 .. MaxFaults /\ pc' \in PCs
    BY <1>0, <1>6, FaultsType DEF ReconcileConfigMap, RestTypeOK, PCs
  <2>2. mem' \in Objects /\ "Failed" \in Phases
    BY <1>0, <1>6, <1>m DEF ReconcileConfigMap, Phases, ObjectsTypeOK
  <2>3. StatusUpdate("Failed") \/ UNCHANGED <<apiVars, memFresh>>
    BY <1>6 DEF ReconcileConfigMap
  <2>4. obj' \in Objects /\ cache' = cache /\ memFresh' = memFresh /\ cacheFresh' \in BOOLEAN
    BY <1>0, <1>s, <2>2, <2>3, Zenon DEF apiVars, ObjectsTypeOK
  <2>5. confMap' \in Configs \cup {None}
    BY <1>0, <1>6, <1>c DEF ReconcileConfigMap, ChildrenTypeOK
  <2>6. UNCHANGED <<template, pods, garbage, claim, used, edits>>
    BY <1>6 DEF ReconcileConfigMap
  <2>. QED
    BY <1>0, <2>1, <2>2, <2>4, <2>5, <2>6, Zenon DEF ObjectsTypeOK, ChildrenTypeOK, RestTypeOK
<1>7. CASE ReconcileWorkload
  <2>1. faults' \in 0 .. MaxFaults /\ pc' \in PCs
    BY <1>0, <1>7, FaultsType DEF ReconcileWorkload, RestTypeOK, PCs
  <2>2. template' \in [Kinds -> Configs \cup {None}]
    <3>1. Apply \/ template' = template
      BY <1>7 DEF ReconcileWorkload
    <3>. QED
      BY <1>0, <1>c, <3>1 DEF Apply, BuildRedisDeployment, BuildRedisStatefulSet, ChildrenTypeOK
  <2>3. /\ UNCHANGED <<obj, cache, cacheFresh, mem, memFresh>>
        /\ UNCHANGED <<confMap, pods, garbage, claim, used, edits>>
    BY <1>7 DEF ReconcileWorkload, apiVars
  <2>. QED
    BY <1>0, <2>1, <2>2, <2>3, Zenon DEF ObjectsTypeOK, ChildrenTypeOK, RestTypeOK
<1>8. CASE HotReload
  <2>1. pods' \in [Kinds -> [template : Configs \cup {None}, config : [hot : Nat, cold : Nat]]]
    <3>1. mem.spec.config.hot \in Nat
      BY <1>c, ConfigTypes
    <3>. QED
      BY <1>0, <1>8, <3>1 DEF HotReload, ChildrenTypeOK
  <2>2. /\ UNCHANGED <<obj, cache, cacheFresh, mem, memFresh>> /\ pc' \in PCs
        /\ UNCHANGED <<confMap, template, garbage, claim, used, edits, faults>>
    BY <1>8 DEF HotReload, apiVars, PCs
  <2>. QED
    BY <1>0, <2>1, <2>2, Zenon DEF ObjectsTypeOK, ChildrenTypeOK, RestTypeOK
<1>9. CASE UpdateStatus
  <2>1. faults' \in 0 .. MaxFaults /\ pc' \in PCs
    BY <1>0, <1>9, FaultsType DEF UpdateStatus, RestTypeOK, PCs
  <2>2. Phase \in Phases
    BY DEF Phase, Phases
  <2>3. mem' \in Objects
    BY <1>9, <1>m, <2>2 DEF UpdateStatus
  <2>4. StatusUpdate(Phase) \/ UNCHANGED <<apiVars, memFresh>>
    BY <1>9 DEF UpdateStatus
  <2>5. obj' \in Objects /\ cache' = cache /\ memFresh' = memFresh /\ cacheFresh' \in BOOLEAN
    BY <1>0, <1>s, <2>2, <2>4, Zenon DEF apiVars, ObjectsTypeOK
  <2>6. UNCHANGED <<confMap, template, pods, garbage, claim, used, edits>>
    BY <1>9 DEF UpdateStatus, children
  <2>. QED
    BY <1>0, <2>1, <2>3, <2>5, <2>6, Zenon DEF ObjectsTypeOK, ChildrenTypeOK, RestTypeOK
<1>10. CASE OperatorCrashes
  <2>1. faults' \in 0 .. MaxFaults /\ pc' \in PCs
    BY <1>0, <1>10, FaultsType DEF OperatorCrashes, RestTypeOK, PCs
  <2>2. /\ UNCHANGED <<obj, cache, cacheFresh, mem, memFresh>>
        /\ UNCHANGED <<confMap, template, pods, garbage, claim, used, edits>>
    BY <1>10 DEF OperatorCrashes, apiVars, children
  <2>. QED
    BY <1>0, <2>1, <2>2, Zenon DEF ObjectsTypeOK, ChildrenTypeOK, RestTypeOK
<1>. QED
  BY <1>1, <1>2, <1>3, <1>4, <1>5, <1>6, <1>7, <1>8, <1>9, <1>10 DEF Reconcile

(***************************************************************************)
(* What the copies, the children and the claim tell about the object.      *)
(***************************************************************************)

TellsRight == CurrentCopies /\ BranchTaken /\ CopiesOfThisObject /\ KindIsKept /\ DropIsDone

\* The steps of the two branches have different names.
LEMMA Branches ==
  /\ "idle" \notin Deleting /\ "idle" \notin Working /\ "finalizer" \notin Deleting
  /\ "finalizer" \notin Working /\ "idle" \notin Deleting \cup {"finalizer"}
  /\ "claim" \in Deleting /\ "removeFinalizer" \in Deleting
  /\ "idle" # "claim" /\ "idle" # "removeFinalizer" /\ "idle" # "finalizer"
  /\ "claim" # "removeFinalizer" /\ "claim" # "finalizer" /\ "removeFinalizer" # "finalizer"
  /\ \A p \in Working : p \notin Deleting /\ p \notin Deleting \cup {"finalizer"}
  /\ \A p \in Working : p # "idle" /\ p # "claim" /\ p # "removeFinalizer" /\ p # "finalizer"
  BY DEF Deleting, Working

\* A step that touches neither the object, its copies and the claim nor the
\* templates, and at most ends the reconcile.
LEMMA QuietTells ==
  ASSUME TellsRight, UNCHANGED <<obj, cache, cacheFresh, mem, memFresh, template, claim>>,
         pc' \in {pc, "idle"}
  PROVE  TellsRight'
<1>0. /\ pc' \in Deleting => pc' = pc
      /\ pc' \in Working => pc' = pc
      /\ pc' # "idle" => pc' = pc
      /\ pc' \in Deleting \cup {"finalizer"} => pc' = pc
      /\ pc' = "removeFinalizer" => pc' = pc
      /\ pc' = "claim" => pc' = pc
      /\ pc' = "finalizer" => pc' = pc
  BY Branches, Zenon
<1>1. CurrentCopies' /\ BranchTaken'
  BY <1>0, Zenon DEF TellsRight, CurrentCopies, BranchTaken, Alike
<1>2. CopiesOfThisObject' /\ KindIsKept'
  BY <1>0, Zenon DEF TellsRight, CopiesOfThisObject, KindIsKept
<1>3. DropIsDone'
  BY <1>0, Zenon DEF TellsRight, DropIsDone, LeftOnlyIfKept
<1>. QED
  BY <1>1, <1>2, <1>3, Zenon DEF TellsRight

\* The informer catches up.
LEMMA CacheSyncsTells == ASSUME TellsRight, CacheSyncs PROVE TellsRight'
<1>0. /\ cache' = obj /\ obj' = obj /\ mem' = mem /\ memFresh' = memFresh /\ cacheFresh' = TRUE
      /\ pc' = pc /\ template' = template /\ claim' = claim
  BY DEF CacheSyncs, children
<1>1. CurrentCopies' /\ BranchTaken'
  BY <1>0, Zenon DEF TellsRight, CurrentCopies, BranchTaken, Alike
<1>2. pc \in Deleting /\ obj.exists /\ obj.finalizer => obj.deleting
  BY Zenon DEF TellsRight, CopiesOfThisObject
<1>3. CopiesOfThisObject'
  BY <1>0, <1>2, Zenon DEF TellsRight, CopiesOfThisObject
<1>4. KindIsKept' /\ DropIsDone'
  BY <1>0, Zenon DEF TellsRight, KindIsKept, DropIsDone, LeftOnlyIfKept
<1>. QED
  BY <1>1, <1>3, <1>4, Zenon DEF TellsRight

\* Get: the branch says of the cache what the invariant says of its copy.
LEMMA GetTells == ASSUME TellsRight, Get PROVE TellsRight'
<1>0. /\ obj' = obj /\ cache' = cache /\ cacheFresh' = cacheFresh /\ mem' = cache
      /\ memFresh' = cacheFresh /\ template' = template /\ claim' = claim
  BY DEF Get, apiVars, children
<1>1. \/ pc' = "idle"
      \/ pc' = "claim" /\ cache.exists /\ cache.deleting
      \/ pc' = "finalizer" /\ ~cache.deleting
      \/ /\ pc' \in {"initialize", "configmap"}
         /\ cache.exists /\ cache.finalizer /\ ~cache.deleting
  BY Zenon DEF Get
<1>2. /\ pc' \in Deleting => cache.exists /\ cache.deleting
      /\ pc' = "finalizer" => ~cache.deleting
      /\ pc' # "removeFinalizer"
      /\ pc' \in Working => cache.exists /\ cache.finalizer /\ ~cache.deleting
      /\ pc' = "claim" => cache.exists /\ cache.deleting
  BY <1>1 DEF Deleting, Working
<1>3. CurrentCopies' /\ BranchTaken'
  BY <1>0, <1>2, Zenon DEF TellsRight, CurrentCopies, BranchTaken, Alike
<1>4. CopiesOfThisObject'
  BY <1>0, <1>2, Zenon DEF TellsRight, CopiesOfThisObject
<1>5. KindIsKept'
  BY <1>0, <1>2, Zenon DEF TellsRight, KindIsKept
<1>6. DropIsDone'
  BY <1>0, <1>2, Zenon DEF TellsRight, DropIsDone, LeftOnlyIfKept
<1>. QED
  BY <1>3, <1>4, <1>5, <1>6, Zenon DEF TellsRight

\* An edit: no copy is current afterwards, and the webhook keeps the kind.
LEMMA UserUpdatesTells ==
  ASSUME TypeOK, TellsRight, NEW s \in Specs, UserUpdates(s)
  PROVE  TellsRight'
<1>0. /\ obj' = [obj EXCEPT !.spec = s] /\ cache' = cache /\ mem' = mem /\ pc' = pc
      /\ ~cacheFresh' /\ ~memFresh' /\ template' = template /\ claim' = claim /\ obj.exists
  BY Zenon DEF UserUpdates, ForeignWrite, children
<1>1. /\ obj'.exists = obj.exists /\ obj'.deleting = obj.deleting
      /\ obj'.finalizer = obj.finalizer /\ obj'.spec = s
  BY <1>0, SpecField DEF TypeOK
<1>2. WebhookOn => Kind(obj'.spec) = Kind(obj.spec)
  BY <1>1, Zenon DEF UserUpdates, ValidateUpdate, Kind
<1>3. CurrentCopies' /\ BranchTaken'
  BY <1>0, Zenon DEF TellsRight, CurrentCopies, BranchTaken
<1>4. CopiesOfThisObject'
  BY <1>0, <1>1, Zenon DEF TellsRight, CopiesOfThisObject
<1>5. KindIsKept'
  BY <1>0, <1>2, Zenon DEF TellsRight, KindIsKept
<1>6. DropIsDone'
  BY <1>0, <1>1, <1>2, Zenon DEF TellsRight, DropIsDone, LeftOnlyIfKept
<1>. QED
  BY <1>3, <1>4, <1>5, <1>6, Zenon DEF TellsRight

\* A delete: only an object without finalizer is gone, and that one has neither
\* children nor a claim.
LEMMA UserDeletesTells == ASSUME TypeOK, TellsRight, UserDeletes PROVE TellsRight'
<1>0. /\ obj' = [obj EXCEPT !.deleting = TRUE, !.exists = obj.finalizer] /\ cache' = cache
      /\ mem' = mem /\ pc' = pc /\ ~cacheFresh' /\ ~memFresh' /\ template' = template
      /\ claim' = claim /\ obj.exists /\ ~obj.deleting
  BY Zenon DEF UserDeletes, ForeignWrite, children
<1>1. /\ obj'.exists = obj.finalizer /\ obj'.deleting = TRUE
      /\ obj'.finalizer = obj.finalizer /\ obj'.spec = obj.spec
  <2>1. obj \in Objects /\ obj.finalizer \in BOOLEAN
    BY ObjectFields, Zenon DEF TypeOK
  <2>. QED
    BY <1>0, <2>1, DeleteFields, Zenon
<1>2. CurrentCopies' /\ BranchTaken'
  BY <1>0, Zenon DEF TellsRight, CurrentCopies, BranchTaken
<1>3. CopiesOfThisObject'
  BY <1>0, <1>1, Zenon DEF TellsRight, CopiesOfThisObject
<1>4. KindIsKept'
  BY <1>0, <1>1, Zenon DEF TellsRight, KindIsKept
<1>5. ClaimsInTime => LeftOnlyIfKept'
  BY <1>0, <1>1, Zenon DEF TellsRight, DropIsDone, LeftOnlyIfKept
<1>6. DropIsDone'
  BY <1>0, <1>1, <1>5, Zenon DEF TellsRight, DropIsDone
<1>. QED
  BY <1>2, <1>3, <1>4, <1>6, Zenon DEF TellsRight

\* A new object of the same name: nothing of the old one counts as its own, and
\* no copy of the old one has a finalizer without a deletion.
LEMMA UserRecreatesTells ==
  ASSUME TypeOK, TellsRight, NEW s \in Specs, UserRecreates(s)
  PROVE  TellsRight'
<1>0. /\ obj' = New(s) /\ cache' = cache /\ mem' = mem /\ pc' = pc /\ ~cacheFresh' /\ ~memFresh'
      /\ template' = template /\ ~obj.exists
  BY Zenon DEF UserRecreates, ForeignWrite, children
<1>1. obj'.exists = TRUE /\ obj'.deleting = FALSE /\ obj'.finalizer = FALSE
  BY <1>0, NewFields
<1>2. claim' # "own" /\ (claim = "none" => claim' = "none")
  BY DEF UserRecreates
<1>3. CurrentCopies' /\ BranchTaken'
  BY <1>0, Zenon DEF TellsRight, CurrentCopies, BranchTaken
<1>4. /\ ~(cache.exists /\ cache.finalizer /\ ~cache.deleting) /\ pc \notin Working
      /\ \A k \in Kinds : template[k] = None
  BY <1>0, Zenon DEF TellsRight, CopiesOfThisObject
<1>5. CopiesOfThisObject' /\ KindIsKept'
  BY <1>0, <1>1, <1>2, <1>4, Zenon DEF CopiesOfThisObject, KindIsKept
<1>6. DropIsDone'
  BY <1>0, <1>1, <1>2, Zenon DEF TellsRight, DropIsDone, LeftOnlyIfKept
<1>. QED
  BY <1>3, <1>5, <1>6, Zenon DEF TellsRight

\* The StatefulSet controller makes a claim for the object that is there, before
\* its deletion unless the claim is late.
LEMMA ClaimIsCreatedTells == ASSUME TellsRight, ClaimIsCreated PROVE TellsRight'
<1>0. UNCHANGED <<obj, cache, cacheFresh, mem, memFresh, pc, template>> /\ claim' = "own"
  BY DEF ClaimIsCreated, apiVars, children
<1>1. CurrentCopies' /\ BranchTaken' /\ CopiesOfThisObject' /\ KindIsKept'
  BY <1>0, Zenon DEF TellsRight, CurrentCopies, BranchTaken, CopiesOfThisObject, KindIsKept, Alike
<1>2. ASSUME ClaimsInTime
      PROVE  template["StatefulSet"] # None /\ ~obj.deleting
  BY <1>2, Zenon DEF ClaimsInTime, ClaimIsCreated, Fails, MayFail
<1>3. "StatefulSet" \in Kinds
  BY DEF Kinds
<1>4. ASSUME ClaimsInTime
      PROVE  obj.exists /\ obj.finalizer /\ ~obj.deleting /\ ~cache.deleting /\ pc \notin Deleting
  BY <1>2, <1>3, <1>4, Zenon DEF TellsRight, CopiesOfThisObject
<1>5. ASSUME ClaimsInTime PROVE WebhookOn => Kind(obj.spec) = "StatefulSet"
  BY <1>2, <1>3, <1>5, Zenon DEF TellsRight, KindIsKept
<1>6. DropIsDone'
  BY <1>0, <1>4, <1>5, Branches, Zenon DEF DropIsDone, LeftOnlyIfKept
<1>. QED
  BY <1>1, <1>6, Zenon DEF TellsRight

\* handleDeletion, the claim: past it a claim that was to be dropped is gone.
LEMMA DeleteClaimTells == ASSUME TellsRight, DeleteClaim PROVE TellsRight'
<1>0. UNCHANGED <<obj, cache, cacheFresh, mem, memFresh, template>> /\ pc = "claim"
  BY DEF DeleteClaim, apiVars, children
<1>1. /\ pc' = "idle" \/ (pc' = "removeFinalizer" /\ mem.finalizer)
      /\ claim' = claim \/ claim' = "none"
  BY Zenon DEF DeleteClaim
<1>2. /\ pc' \in Deleting \cup {"finalizer"} => pc' = "removeFinalizer"
      /\ pc' \in Deleting => pc' = "removeFinalizer"
      /\ pc' \notin Working /\ pc' # "claim" /\ pc' # "finalizer"
      /\ pc \in Deleting /\ pc \in Deleting \cup {"finalizer"} /\ pc # "idle"
      /\ (claim' = "own" => claim = "own") /\ (claim = "none" => claim' = "none")
  BY <1>0, <1>1 DEF Deleting, Working
<1>3. CurrentCopies'
  BY <1>0, <1>1, <1>2, Zenon DEF TellsRight, CurrentCopies, Alike
<1>4. BranchTaken'
  BY <1>0, <1>1, <1>2, Zenon DEF TellsRight, BranchTaken
<1>5. CopiesOfThisObject' /\ KindIsKept'
  BY <1>0, <1>1, <1>2, Zenon DEF TellsRight, CopiesOfThisObject, KindIsKept
<1>6. ASSUME ClaimsInTime, pc' = "removeFinalizer", mem.spec.storage = "dropped"
      PROVE  claim' = "none"
  <2>1. pc' # "idle"
    BY <1>6
  <2>2. mem.finalizer
    BY <1>1, <2>1, Zenon
  <2>3. ~Fails("claimget")
    BY <1>6, Zenon DEF ClaimsInTime, Fails, MayFail
  <2>4. claim # "none" => claim' = "none"
    BY <1>6, <2>1, <2>2, <2>3, Zenon DEF DeleteClaim
  <2>. QED
    BY <1>2, <2>4, Zenon
<1>7. DropIsDone'
  BY <1>0, <1>2, <1>6, Zenon DEF TellsRight, DropIsDone, LeftOnlyIfKept
<1>. QED
  BY <1>3, <1>4, <1>5, <1>7, Zenon DEF TellsRight

\* handleDeletion, the finalizer: the update is accepted only from a current
\* copy, so the cache shows the deletion and the spec that decided on the claim.
LEMMA RemoveFinalizerTells == ASSUME TypeOK, TellsRight, RemoveFinalizer PROVE TellsRight'
<1>0. mem' = mem /\ claim' = claim /\ pc = "removeFinalizer" /\ pc' = "idle"
  BY DEF RemoveFinalizer
<1>1. CASE UNCHANGED <<apiVars, memFresh, children>>
  BY <1>0, <1>1, QuietTells DEF apiVars, children
<1>2. CASE memFresh /\ obj.exists /\ Disappears
  <2>1. /\ obj' = [obj EXCEPT !.finalizer = FALSE, !.exists = FALSE] /\ cacheFresh' = FALSE
        /\ cache' = cache /\ memFresh' = memFresh /\ template' = NoTemplate
    BY <1>2 DEF Disappears
  <2>2. /\ obj'.exists = FALSE /\ obj'.finalizer = FALSE /\ obj'.deleting = obj.deleting
        /\ obj'.spec = obj.spec
    BY <2>1, FinalizerFields DEF TypeOK
  <2>3. /\ pc \in Deleting \cup {"finalizer"} /\ pc # "idle" /\ pc \in Deleting
        /\ pc' \notin Deleting /\ pc' \notin Deleting \cup {"finalizer"} /\ pc' \notin Working
        /\ pc' # "removeFinalizer" /\ pc' # "claim" /\ pc' # "finalizer"
    BY <1>0 DEF Deleting, Working
  <2>4. cacheFresh /\ Alike(mem, obj) /\ Alike(cache, obj) /\ mem.deleting
    BY <1>2, <2>3, Zenon DEF TellsRight, CurrentCopies, BranchTaken
  <2>5. cache.deleting /\ obj.deleting /\ cache.spec = obj.spec /\ mem.spec = obj.spec
    BY <2>4, Zenon DEF Alike
  <2>6. \A k \in Kinds : template'[k] = None
    BY <2>1 DEF NoTemplate
  <2>7. CurrentCopies' /\ BranchTaken'
    BY <1>0, <2>1, <2>3, Zenon DEF CurrentCopies, BranchTaken
  <2>8. CopiesOfThisObject'
    BY <2>1, <2>2, <2>3, <2>5, <2>6, Zenon DEF CopiesOfThisObject
  <2>9. KindIsKept'
    BY <2>1, <2>3, <2>5, <2>6, Zenon DEF KindIsKept
  <2>10. ClaimsInTime => (obj.spec.storage = "dropped" => claim = "none")
    BY <1>0, <1>2, <2>5, Zenon DEF TellsRight, DropIsDone
  <2>11. ASSUME ClaimsInTime, WebhookOn, claim = "own" PROVE obj.spec.storage = "kept"
    <3>1. Kind(obj.spec) = "StatefulSet"
      BY <2>11, Zenon DEF TellsRight, DropIsDone
    <3>2. obj.spec.storage # "nil"
      BY <3>1 DEF Kind
    <3>3. obj.spec.storage # "dropped"
      BY <2>10, <2>11
    <3>4. obj.spec \in Specs
      BY ObjectFields DEF TypeOK
    <3>. QED
      BY <3>2, <3>3, <3>4 DEF Specs
  <2>12. DropIsDone'
    BY <1>0, <2>1, <2>2, <2>3, <2>5, <2>10, <2>11, Zenon DEF TellsRight, DropIsDone, LeftOnlyIfKept
  <2>. QED
    BY <2>7, <2>8, <2>9, <2>12, Zenon DEF TellsRight
<1>. QED
  BY <1>1, <1>2, Zenon DEF RemoveFinalizer

\* The finalizer is stored only from a current copy without a deletion, so by
\* then the cache has left every earlier object behind.
LEMMA AddFinalizerTells == ASSUME TypeOK, TellsRight, AddFinalizer PROVE TellsRight'
<1>0. /\ cache' = cache /\ mem' = mem /\ memFresh' = memFresh /\ template' = template
      /\ claim' = claim /\ pc = "finalizer" /\ pc' = "idle"
  BY DEF AddFinalizer, children
<1>1. CASE obj' = obj /\ cacheFresh' = cacheFresh
  BY <1>0, <1>1, QuietTells
<1>2. CASE memFresh /\ obj.exists /\ obj' = [obj EXCEPT !.finalizer = TRUE] /\ cacheFresh' = FALSE
  <2>1. /\ obj'.exists = obj.exists /\ obj'.finalizer = TRUE /\ obj'.deleting = obj.deleting
        /\ obj'.spec = obj.spec
    BY <1>2, FinalizerFields DEF TypeOK
  <2>2. /\ pc \in Deleting \cup {"finalizer"} /\ pc # "idle"
        /\ pc' \notin Deleting /\ pc' \notin Deleting \cup {"finalizer"} /\ pc' \notin Working
        /\ pc' # "removeFinalizer" /\ pc' # "claim" /\ pc' # "finalizer"
    BY <1>0 DEF Deleting, Working
  <2>3. cacheFresh /\ Alike(mem, obj) /\ Alike(cache, obj) /\ ~mem.deleting
    BY <1>0, <1>2, <2>2, Zenon DEF TellsRight, CurrentCopies, BranchTaken
  <2>4. ~cache.deleting /\ ~obj.deleting /\ cache.spec = obj.spec
    BY <2>3, Zenon DEF Alike
  <2>5. CurrentCopies' /\ BranchTaken'
    BY <1>0, <1>2, <2>2, Zenon DEF CurrentCopies, BranchTaken
  <2>6. CopiesOfThisObject'
    BY <1>0, <1>2, <2>1, <2>2, <2>4, Zenon DEF TellsRight, CopiesOfThisObject
  <2>7. KindIsKept'
    BY <1>0, <2>1, <2>2, <2>4, Zenon DEF TellsRight, KindIsKept
  <2>8. DropIsDone'
    BY <1>0, <1>2, <2>1, <2>2, <2>4, Zenon DEF TellsRight, DropIsDone, LeftOnlyIfKept
  <2>. QED
    BY <2>5, <2>6, <2>7, <2>8, Zenon DEF TellsRight
<1>. QED
  BY <1>1, <1>2, Zenon DEF AddFinalizer

\* A step after the finalizer is stored: it writes phases and the template of the
\* kind its copy asks for.
LEMMA WorkTells ==
  ASSUME TellsRight, pc \in Working, pc' \in Working \cup {"idle"}, Alike(mem', mem),
         Alike(obj', obj), cache' = cache, memFresh' = memFresh, cacheFresh' => cacheFresh,
         claim' = claim,
         \A k \in Kinds : template'[k] # None => template[k] # None \/ Kind(mem.spec) = k
  PROVE  TellsRight'
<1>0. /\ obj'.exists = obj.exists /\ obj'.deleting = obj.deleting
      /\ obj'.finalizer = obj.finalizer /\ obj'.spec = obj.spec /\ mem'.spec = mem.spec
  BY Zenon DEF Alike
<1>1. /\ pc' \notin Deleting /\ pc' \notin Deleting \cup {"finalizer"}
      /\ pc' # "removeFinalizer" /\ pc' # "claim" /\ pc' # "finalizer" /\ pc # "idle"
  BY DEF Deleting, Working
<1>2. cacheFresh => Alike(cache, obj)
  BY Zenon DEF TellsRight, CurrentCopies
<1>3. memFresh => Alike(mem, obj)
  BY <1>1, Zenon DEF TellsRight, CurrentCopies
<1>4. (cacheFresh' => Alike(cache', obj')) /\ (memFresh' => Alike(mem', obj'))
  BY <1>2, <1>3, Zenon DEF Alike
<1>5. CurrentCopies' /\ BranchTaken'
  BY <1>1, <1>4, Zenon DEF CurrentCopies, BranchTaken, Alike
<1>6. CopiesOfThisObject'
  BY <1>0, <1>1, Zenon DEF TellsRight, CopiesOfThisObject
<1>7. KindIsKept'
  BY <1>0, <1>1, Zenon DEF TellsRight, KindIsKept
<1>8. DropIsDone'
  BY <1>0, <1>1, Zenon DEF TellsRight, DropIsDone, LeftOnlyIfKept
<1>. QED
  BY <1>5, <1>6, <1>7, <1>8, Zenon DEF TellsRight

\* The steps of doReconcile from the phase to the status.
LEMMA WorkingTells ==
  ASSUME TypeOK, TellsRight,
         InitializePhase \/ ReconcileConfigMap \/ ReconcileWorkload \/ HotReload \/ UpdateStatus
  PROVE  TellsRight'
<1>0. /\ obj \in Objects /\ mem \in Objects /\ cacheFresh \in BOOLEAN
      /\ template \in [Kinds -> Configs \cup {None}]
  BY DEF TypeOK
<1>a. \A o : Alike(o, o)
  BY DEF Alike
<1>s. ASSUME NEW p \in Phases, StatusUpdate(p) \/ UNCHANGED <<apiVars, memFresh>>
      PROVE  Alike(obj', obj) /\ cache' = cache /\ memFresh' = memFresh /\ (cacheFresh' => cacheFresh)
  <2>1. CASE StatusUpdate(p)
    BY <1>0, <2>1, StatusUpdateEffect, Zenon
  <2>2. CASE UNCHANGED <<apiVars, memFresh>>
    BY <1>a, <2>2, Zenon DEF apiVars
  <2>. QED
    BY <1>s, <2>1, <2>2, Zenon
<1>1. CASE InitializePhase
  <2>1. /\ pc \in Working /\ pc' \in Working \cup {"idle"} /\ "Initializing" \in Phases
        /\ claim' = claim /\ template' = template
    BY <1>1 DEF InitializePhase, Working, Phases, children
  <2>2. Alike(mem', mem)
    BY <1>0, <1>1, <2>1, PhaseField DEF InitializePhase
  <2>3. StatusUpdate("Initializing") \/ UNCHANGED <<apiVars, memFresh>>
    BY <1>1 DEF InitializePhase
  <2>. QED
    BY <1>s, <2>1, <2>2, <2>3, WorkTells, Zenon
<1>2. CASE ReconcileConfigMap
  <2>1. /\ pc \in Working /\ pc' \in Working \cup {"idle"} /\ "Failed" \in Phases
        /\ claim' = claim /\ template' = template
    BY <1>2 DEF ReconcileConfigMap, Working, Phases
  <2>2. mem' = mem \/ mem' = [mem EXCEPT !.phase = "Failed"]
    BY <1>2 DEF ReconcileConfigMap
  <2>3. Alike([mem EXCEPT !.phase = "Failed"], mem)
    BY <1>0, <2>1, PhaseField
  <2>4. Alike(mem', mem)
    BY <1>a, <2>2, <2>3, Zenon
  <2>5. StatusUpdate("Failed") \/ UNCHANGED <<apiVars, memFresh>>
    BY <1>2 DEF ReconcileConfigMap
  <2>. QED
    BY <1>s, <2>1, <2>4, <2>5, WorkTells, Zenon
<1>3. CASE ReconcileWorkload
  <2>1. /\ pc \in Working /\ pc' \in Working \cup {"idle"} /\ claim' = claim
        /\ UNCHANGED <<obj, cache, cacheFresh, mem, memFresh>>
    BY <1>3 DEF ReconcileWorkload, Working, apiVars
  <2>2. template' = template \/ Apply
    BY <1>3 DEF ReconcileWorkload
  <2>3. \A k \in Kinds : template'[k] # None => template[k] # None \/ Kind(mem.spec) = k
    BY <1>0, <2>2 DEF Apply, BuildRedisDeployment, BuildRedisStatefulSet, Kind
  <2>. QED
    BY <1>a, <2>1, <2>3, WorkTells, Zenon
<1>4. CASE HotReload
  <2>1. /\ pc \in Working /\ pc' \in Working \cup {"idle"} /\ claim' = claim
        /\ UNCHANGED <<obj, cache, cacheFresh, mem, memFresh, template>>
    BY <1>4 DEF HotReload, Working, apiVars
  <2>. QED
    BY <1>a, <2>1, WorkTells, Zenon
<1>5. CASE UpdateStatus
  <2>1. /\ pc \in Working /\ pc' \in Working \cup {"idle"} /\ Phase \in Phases
        /\ claim' = claim /\ template' = template
    BY <1>5 DEF UpdateStatus, Working, Phase, Phases, children
  <2>2. Alike(mem', mem)
    BY <1>0, <1>5, <2>1, PhaseField DEF UpdateStatus
  <2>3. StatusUpdate(Phase) \/ UNCHANGED <<apiVars, memFresh>>
    BY <1>5 DEF UpdateStatus
  <2>. QED
    BY <1>s, <2>1, <2>2, <2>3, WorkTells, Zenon
<1>. QED
  BY <1>1, <1>2, <1>3, <1>4, <1>5

(***************************************************************************)
(* The theorems.                                                           *)
(***************************************************************************)

\* The inductive invariant holds of a new object.
LEMMA InitIInv == Init => IInv
<1>. SUFFICES ASSUME Init PROVE IInv
  OBVIOUS
<1>1. PICK s \in Specs : obj = New(s)
  BY DEF Init
<1>2. obj.exists = TRUE /\ obj.deleting = FALSE /\ obj.finalizer = FALSE
  BY <1>1, NewFields
<1>3. /\ cache = obj /\ mem = obj /\ pc = "idle" /\ claim = "none"
      /\ \A k \in Kinds : template[k] = None
  BY DEF Init, NoTemplate
<1>4. CurrentCopies /\ BranchTaken
  BY <1>3, Branches, Zenon DEF CurrentCopies, BranchTaken, Alike
<1>5. CopiesOfThisObject /\ KindIsKept
  BY <1>2, <1>3, Branches, Zenon DEF CopiesOfThisObject, KindIsKept
<1>6. "none" # "own"
  OBVIOUS
<1>7. DropIsDone
  BY <1>2, <1>3, <1>6, Zenon DEF DropIsDone, LeftOnlyIfKept
<1>. QED
  BY <1>4, <1>5, <1>7, InitTypeOK, Zenon DEF IInv

\* Every step of the users, of Kubernetes and of doReconcile keeps it.
LEMMA NextIInv == IInv /\ [Next]_vars => IInv'
<1>. SUFFICES ASSUME IInv, [Next]_vars PROVE IInv'
  OBVIOUS
<1>0. TypeOK /\ TellsRight
  BY Zenon DEF IInv, TellsRight
<1>. SUFFICES TypeOK' /\ TellsRight'
  BY Zenon DEF IInv, TellsRight
<1>1. CASE Reconcile
  BY <1>0, <1>1, ReconcileTypeOK, GetTells, DeleteClaimTells, RemoveFinalizerTells,
     AddFinalizerTells, WorkingTells, Zenon DEF Reconcile
<1>2. CASE OperatorCrashes
  <2>1. UNCHANGED <<obj, cache, cacheFresh, mem, memFresh, template, claim>> /\ pc' \in {pc, "idle"}
    BY <1>2 DEF OperatorCrashes, apiVars, children
  <2>. QED
    BY <1>0, <1>2, <2>1, ReconcileTypeOK, QuietTells, Zenon
<1>3. CASE CacheSyncs
  BY <1>0, <1>3, OutsideTypeOK, CacheSyncsTells, Zenon
<1>4. CASE \E s \in Specs : UserUpdates(s) \/ UserRecreates(s)
  BY <1>0, <1>4, OutsideTypeOK, UserUpdatesTells, UserRecreatesTells, Zenon
<1>5. CASE UserDeletes
  BY <1>0, <1>5, OutsideTypeOK, UserDeletesTells, Zenon
<1>6. CASE \E k \in Kinds : PodIsCreated(k) \/ PodBoots(k) \/ PodFails(k)
  <2>1. UNCHANGED <<obj, cache, cacheFresh, mem, memFresh, template, claim>> /\ pc' \in {pc, "idle"}
    BY <1>6 DEF PodIsCreated, PodBoots, PodFails, apiVars
  <2>. QED
    BY <1>0, <1>6, <2>1, OutsideTypeOK, QuietTells, Zenon
<1>7. CASE ClaimIsCreated
  BY <1>0, <1>7, OutsideTypeOK, ClaimIsCreatedTells, Zenon
<1>8. CASE GarbageIsCollected
  <2>1. UNCHANGED <<obj, cache, cacheFresh, mem, memFresh, template, claim>> /\ pc' \in {pc, "idle"}
    BY <1>8 DEF GarbageIsCollected, apiVars
  <2>. QED
    BY <1>0, <1>8, <2>1, OutsideTypeOK, QuietTells, Zenon
<1>9. CASE UNCHANGED vars
  <2>1. UNCHANGED <<obj, cache, cacheFresh, mem, memFresh, template, claim>> /\ pc' \in {pc, "idle"}
    BY <1>9 DEF vars, apiVars, children
  <2>2. TypeOK'
    BY <1>0, <1>9, Zenon DEF TypeOK, vars, apiVars, children
  <2>. QED
    BY <1>0, <2>1, <2>2, QuietTells, Zenon
<1>. QED
  BY <1>1, <1>2, <1>3, <1>4, <1>5, <1>6, <1>7, <1>8, <1>9 DEF Next

\* What the copies tell about the object is right in every reachable state.
THEOREM Invariance == Spec => []IInv
  BY InitIInv, NextIInv, PTL DEF Spec

\* Every variable keeps its type: the phase stored is always one of the API's,
\* and the templates only ever carry the hash of a config that users gave.
THEOREM RedisTypeCorrect == Spec => []TypeOK
<1>1. IInv => TypeOK
  BY DEF IInv
<1>. QED
  BY <1>1, Invariance, PTL

\* With the webhook an object never has both a Deployment and a StatefulSet, not
\* even after it was deleted and recreated with the other storage while the
\* operator worked on a stale copy.
THEOREM NeverTwoWorkloads == ASSUME WebhookOn PROVE Spec => []OneWorkload
<1>1. IInv => OneWorkload
  <2>. SUFFICES ASSUME IInv PROVE OneWorkload
    OBVIOUS
  <2>1. \A k \in Kinds : template[k] # None => Kind(obj.spec) = k
    BY Zenon DEF IInv, KindIsKept
  <2>. QED
    BY <2>1 DEF OneWorkload, Kinds
<1>. QED
  BY <1>1, Invariance, PTL

\* If claims are created and seen in time, an object that is gone left its claim
\* only if its last spec keeps it, however the users changed their mind.
THEOREM NothingLeftBehind == ASSUME WebhookOn, ClaimsInTime PROVE Spec => []LeftOnlyIfKept
<1>1. IInv => LeftOnlyIfKept
  BY Zenon DEF IInv, DropIsDone
<1>. QED
  BY <1>1, Invariance, PTL

\* handleDeletion never deletes the claim of a living object, although it may
\* run on the stale copy of an earlier object of the same name.
THEOREM LiveClaimIsSafe == ASSUME ClaimsInTime PROVE Spec => LiveClaimStays
<1>1. IInv /\ [Next]_vars => [claim # "none" /\ claim' = "none" /\ obj.exists => obj.deleting]_vars
  <2>. SUFFICES ASSUME IInv, [Next]_vars, claim # "none", claim' = "none", obj.exists
                PROVE  obj.deleting
    BY Zenon
  <2>1. CASE DeleteClaim
    <3>1. pc = "claim" /\ mem.finalizer /\ mem.spec.storage = "dropped"
      BY <2>1, Zenon DEF DeleteClaim
    <3>. QED
      BY <3>1, Zenon DEF IInv, DropIsDone
  <2>2. CASE ~DeleteClaim
    <3>1. claim' # claim
      OBVIOUS
    <3>2. CASE ClaimIsCreated
      BY <3>2 DEF ClaimIsCreated
    <3>3. ASSUME NEW s \in Specs, UserRecreates(s) PROVE FALSE
      BY <3>3 DEF UserRecreates
    <3>. QED
      BY <2>2, <3>1, <3>2, <3>3
      DEF Next, Reconcile, Get, RemoveFinalizer, AddFinalizer, InitializePhase,
          ReconcileConfigMap, ReconcileWorkload, HotReload, UpdateStatus, OperatorCrashes,
          CacheSyncs, UserUpdates, UserDeletes, PodIsCreated, PodBoots, PodFails,
          GarbageIsCollected, vars
  <2>. QED
    BY <2>1, <2>2
<1>. QED
  BY <1>1, Invariance, PTL DEF Spec, LiveClaimStays
=============================================================================
