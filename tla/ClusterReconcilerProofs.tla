----------------------- MODULE ClusterReconcilerProofs -----------------------
(***************************************************************************)
(* The proofs about ClusterReconciler, for all constants: how many masters *)
(* and configs users try, how often they edit, and what fails.             *)
(*                                                                         *)
(* What a reconcile may do depends on a copy of the object that it read    *)
(* some steps ago from a cache that was already behind.  The inductive     *)
(* invariant says what the copies still tell about the stored object: a    *)
(* current copy agrees on the deletion, a copy that shows the deletion is  *)
(* right about it for ever, and a copy that shows a finalizer and no       *)
(* deletion proves that the object still has its finalizer.                *)
(***************************************************************************)
EXTENDS ClusterReconciler, TLAPS

PCs == {"idle", "pvcs", "removeFinalizer", "finalizer", "initialize", "children",
        "lifecycle", "form", "scale", "failover", "status"}

\* The steps of handleClusterDeletion, and those after the finalizer is stored.
Deleting == {"pvcs", "removeFinalizer"}
Working  == {"initialize", "children", "lifecycle", "form", "scale", "failover", "status"}

Typed == /\ obj \in Objects /\ cache \in Objects /\ mem \in Objects
         /\ pc \in PCs

\* What the copies tell about the deletion.
CopiesTellDeletion ==
    /\ cacheFresh => cache.deleting = obj.deleting
    /\ memFresh => mem.deleting = obj.deleting
    /\ cache.deleting => obj.deleting
    /\ pc \in Deleting => cache.deleting
    /\ pc \in Working \ {"status"} => ~mem.deleting

\* The claims are created before the deletion, and its List shows them.
ClaimsInTime == "list" \notin Faults /\ "lateclaim" \notin Faults

\* What they tell about the finalizer, and what depends on it.
CopiesTellFinalizer ==
    /\ cache.exists /\ cache.finalizer /\ ~cache.deleting => obj.exists /\ obj.finalizer
    /\ pc \in Working => obj.exists /\ obj.finalizer
    /\ sts.masters > 0 /\ ~obj.deleting => obj.exists /\ obj.finalizer
    /\ ClaimsInTime => (pvcs => obj.exists /\ obj.finalizer)
    /\ ClaimsInTime => (pc = "removeFinalizer" => ~pvcs)

\* The phase a terminating object has, and the one a reconcile may still store.
NoScalingLeft ==
    WebhookOn => /\ obj.exists /\ obj.deleting => obj.phase # "Scaling"
                 /\ pc = "status" /\ mem.deleting => mem.phase # "Scaling"

IInv == Typed /\ CopiesTellDeletion /\ CopiesTellFinalizer /\ NoScalingLeft

(***************************************************************************)
(* Writing one field of an object.                                         *)
(***************************************************************************)

\* Storing a phase leaves the rest of the object.
LEMMA PhaseField ==
  ASSUME NEW o \in Objects, NEW p \in Phases
  PROVE  LET q == [o EXCEPT !.phase = p]
         IN  /\ q \in Objects /\ q.phase = p
             /\ q.exists = o.exists /\ q.deleting = o.deleting /\ q.finalizer = o.finalizer
  BY DEF Objects

\* So does an edit of spec.masters.
LEMMA MastersField ==
  ASSUME NEW o \in Objects, NEW m \in MastersRange
  PROVE  LET q == [o EXCEPT !.masters = m]
         IN  /\ q \in Objects /\ q.phase = o.phase
             /\ q.exists = o.exists /\ q.deleting = o.deleting /\ q.finalizer = o.finalizer
  BY DEF Objects

\* An edit of the config leaves the rest of the object.
LEMMA ConfigField ==
  ASSUME NEW o \in Objects, NEW c \in Configs
  PROVE  LET q == [o EXCEPT !.config = c]
         IN  /\ q \in Objects /\ q.phase = o.phase
             /\ q.exists = o.exists /\ q.deleting = o.deleting /\ q.finalizer = o.finalizer
  BY DEF Objects

\* So does the merge patch that records the config hash.
LEMMA HashField ==
  ASSUME NEW o \in Objects, NEW c \in Configs
  PROVE  LET q == [o EXCEPT !.hash = c]
         IN  /\ q \in Objects /\ q.phase = o.phase
             /\ q.exists = o.exists /\ q.deleting = o.deleting /\ q.finalizer = o.finalizer
  BY DEF Objects

\* A delete sets the deletion and keeps the object only for its finalizer.
LEMMA DeleteFields ==
  ASSUME NEW o \in Objects, NEW e \in BOOLEAN
  PROVE  LET q == [o EXCEPT !.deleting = TRUE, !.exists = e]
         IN  /\ q \in Objects /\ q.phase = o.phase
             /\ q.exists = e /\ q.deleting = TRUE /\ q.finalizer = o.finalizer
  BY DEF Objects

\* The flags of an object are Booleans, its phase and specs are of their sets.
LEMMA ObjectFields ==
  ASSUME NEW o \in Objects
  PROVE  /\ o.exists \in BOOLEAN /\ o.deleting \in BOOLEAN /\ o.finalizer \in BOOLEAN
         /\ o.phase \in Phases /\ o.config \in Configs /\ o.masters \in MastersRange
  BY DEF Objects

\* A status update changes nothing of the stored object but its phase, and that
\* only from a current copy.
LEMMA StatusUpdateEffect ==
  ASSUME Typed, NEW p \in Phases, StatusUpdate(p)
  PROVE  /\ obj' \in Objects /\ obj'.exists = obj.exists
         /\ obj'.deleting = obj.deleting /\ obj'.finalizer = obj.finalizer
         /\ obj'.phase = obj.phase \/ (memFresh /\ obj'.phase = p)
         /\ cache' = cache /\ memFresh' = memFresh /\ (cacheFresh' => cacheFresh)
<1>. obj \in Objects
  BY DEF Typed
<1>1. CASE memFresh /\ obj.exists
  <2>1. obj' = [obj EXCEPT !.phase = p] /\ cache' = cache /\ memFresh' = memFresh
    BY <1>1 DEF StatusUpdate
  <2>2. cacheFresh' => cacheFresh
    BY <1>1, Zenon DEF StatusUpdate
  <2>. QED
    BY <1>1, <2>1, <2>2, PhaseField, Zenon
<1>2. CASE ~(memFresh /\ obj.exists)
  BY <1>2, Zenon DEF StatusUpdate, apiVars
<1>. QED
  BY <1>1, <1>2, Zenon

\* A write of the finalizer changes it and perhaps removes the object, or it is
\* refused; then nothing changes.
LEMMA UpdateFinalizerEffect ==
  ASSUME Typed, NEW f \in BOOLEAN, UpdateFinalizer(f)
  PROVE  /\ obj' \in Objects /\ obj'.deleting = obj.deleting /\ obj'.phase = obj.phase
         /\ cache' = cache /\ memFresh' = memFresh /\ (cacheFresh' => cacheFresh)
         /\ \/ obj' = obj
            \/ obj.exists /\ obj'.finalizer = f /\ obj'.exists = (f \/ ~obj.deleting)
<1>. obj \in Objects
  BY DEF Typed
<1>1. CASE memFresh /\ obj.exists /\ Admits
  <2>1. PICK e \in BOOLEAN : e = (f \/ ~obj.deleting)
    BY Zenon
  <2>2. obj' = [obj EXCEPT !.finalizer = f, !.exists = e]
    BY <1>1, <2>1, Zenon DEF UpdateFinalizer
  <2>3. cache' = cache /\ memFresh' = memFresh /\ ~cacheFresh'
    BY <1>1, Zenon DEF UpdateFinalizer
  <2>4. /\ obj' \in Objects /\ obj'.deleting = obj.deleting /\ obj'.phase = obj.phase
        /\ obj'.finalizer = f /\ obj'.exists = e
    BY <2>2 DEF Objects
  <2>. QED
    BY <1>1, <2>1, <2>3, <2>4, Zenon
<1>2. CASE ~(memFresh /\ obj.exists /\ Admits)
  BY <1>2, Zenon DEF UpdateFinalizer, apiVars
<1>. QED
  BY <1>1, <1>2, Zenon

(***************************************************************************)
(* The inductive invariant.                                                *)
(***************************************************************************)

\* It holds in a new object that no reconcile has seen.
LEMMA InitIInv == Init => IInv
<1>. SUFFICES ASSUME Init PROVE IInv
  OBVIOUS
<1>1. obj \in Objects /\ ~obj.deleting
  BY DEF Init, Objects, Phases
<1>2. cache = obj /\ mem = obj /\ pc = "idle" /\ pvcs = FALSE
  BY DEF Init
<1>3. ~obj.finalizer
  BY DEF Init
<1>4. pc \in PCs /\ pc \notin Deleting /\ pc \notin Working /\ pc # "removeFinalizer" /\ pc # "status"
  BY <1>2 DEF PCs, Deleting, Working
<1>5. ~(sts.masters > 0)
  <2>1. sts = [masters |-> 0, config |-> "none"]
    BY DEF Init
  <2>. QED
    BY <2>1
<1>. QED
  BY <1>1, <1>2, <1>3, <1>4, <1>5, Zenon
     DEF IInv, Typed, CopiesTellDeletion, CopiesTellFinalizer, NoScalingLeft

\* A write by a user keeps it, when deletes go through the webhook.
LEMMA ForeignWriteIInv ==
  ASSUME IInv, NEW o \in Objects, ForeignWrite(o), o.phase = obj.phase,
         o.finalizer = obj.finalizer, obj.deleting => o.deleting,
         obj.exists /\ obj.finalizer => o.exists,
         WebhookOn /\ o.exists /\ o.deleting => obj.phase # "Scaling"
  PROVE  IInv'
<1>1. /\ obj' = o /\ ~cacheFresh' /\ ~memFresh' /\ cache' = cache /\ mem' = mem
      /\ pc' = pc /\ sts' = sts /\ pvcs' = pvcs
  BY DEF ForeignWrite
<1>2. Typed'
  BY <1>1, Zenon DEF IInv, Typed
<1>3. CopiesTellDeletion'
  BY <1>1, Zenon DEF IInv, CopiesTellDeletion
<1>4. CopiesTellFinalizer'
  BY <1>1, Zenon DEF IInv, CopiesTellFinalizer
<1>5. NoScalingLeft'
  BY <1>1, Zenon DEF IInv, NoScalingLeft
<1>. QED
  BY <1>2, <1>3, <1>4, <1>5, Zenon DEF IInv

\* The users' edits and their delete.
LEMMA UsersIInv ==
  ASSUME IInv,
         \/ \E m \in MastersRange : UserScales(m)
         \/ \E c \in Configs : UserConfigures(c)
         \/ UserDeletes
  PROVE  IInv'
<1>. obj \in Objects
  BY DEF IInv, Typed
<1>1. ASSUME NEW m \in MastersRange, UserScales(m) PROVE IInv'
  <2>. DEFINE o == [obj EXCEPT !.masters = m]
  <2>1. ForeignWrite(o) /\ (WebhookOn => obj.phase # "Scaling")
    BY <1>1, Zenon DEF UserScales, Admits
  <2>2. /\ o \in Objects /\ o.phase = obj.phase
        /\ o.exists = obj.exists /\ o.deleting = obj.deleting /\ o.finalizer = obj.finalizer
    BY MastersField
  <2>. HIDE DEF o
  <2>. QED
    BY <2>1, <2>2, ForeignWriteIInv, Zenon
<1>2. ASSUME NEW c \in Configs, UserConfigures(c) PROVE IInv'
  <2>. DEFINE o == [obj EXCEPT !.config = c]
  <2>1. ForeignWrite(o) /\ (WebhookOn => obj.phase # "Scaling")
    BY <1>2, Zenon DEF UserConfigures, Admits
  <2>2. /\ o \in Objects /\ o.phase = obj.phase
        /\ o.exists = obj.exists /\ o.deleting = obj.deleting /\ o.finalizer = obj.finalizer
    BY ConfigField
  <2>. HIDE DEF o
  <2>. QED
    BY <2>1, <2>2, ForeignWriteIInv, Zenon
<1>3. CASE UserDeletes
  <2>. DEFINE o == [obj EXCEPT !.deleting = TRUE, !.exists = obj.finalizer]
  <2>1. ForeignWrite(o) /\ (WebhookOn => obj.phase # "Scaling")
    BY <1>3, Zenon DEF UserDeletes, Admits
  <2>2. obj.finalizer \in BOOLEAN
    BY ObjectFields, Zenon
  <2>3. /\ o \in Objects /\ o.phase = obj.phase
        /\ o.exists = obj.finalizer /\ o.deleting = TRUE /\ o.finalizer = obj.finalizer
    BY <2>2, DeleteFields, Zenon
  <2>. HIDE DEF o
  <2>. QED
    BY <2>1, <2>3, ForeignWriteIInv, Zenon
<1>. QED
  BY <1>1, <1>2, <1>3, Zenon

\* The informer catches up.
LEMMA CacheSyncsIInv == ASSUME IInv, CacheSyncs PROVE IInv'
<1>1. /\ cache' = obj /\ obj' = obj /\ mem' = mem /\ memFresh' = memFresh
      /\ pc' = pc /\ sts' = sts /\ pvcs' = pvcs
  BY DEF CacheSyncs
<1>2. Typed' /\ CopiesTellDeletion'
  BY <1>1, Zenon DEF IInv, Typed, CopiesTellDeletion
<1>3. CopiesTellFinalizer' /\ NoScalingLeft'
  BY <1>1, Zenon DEF IInv, CopiesTellFinalizer, NoScalingLeft
<1>. QED
  BY <1>2, <1>3, Zenon DEF IInv

\* A step that touches neither the object nor the copies, nor the children, and
\* at most ends the reconcile.
LEMMA QuietIInv ==
  ASSUME IInv, UNCHANGED <<obj, cache, cacheFresh, mem, memFresh, sts, pvcs>>,
         pc' \in {pc, "idle"}
  PROVE  IInv'
<1>1. "idle" \in PCs /\ "idle" \notin Deleting /\ "idle" \notin Working
      /\ "idle" # "removeFinalizer" /\ "idle" # "status"
  BY DEF PCs, Deleting, Working
<1>2. Typed'
  BY <1>1, Zenon DEF IInv, Typed
<1>3. CopiesTellDeletion'
  <2>1. pc' \in Deleting => pc \in Deleting
    BY <1>1, Zenon
  <2>2. pc' \in Working \ {"status"} => pc \in Working \ {"status"}
    BY <1>1, Zenon
  <2>. QED
    BY <2>1, <2>2, Zenon DEF IInv, CopiesTellDeletion
<1>4. CopiesTellFinalizer' /\ NoScalingLeft'
  BY <1>1, Zenon DEF IInv, CopiesTellFinalizer, NoScalingLeft
<1>. QED
  BY <1>2, <1>3, <1>4, Zenon DEF IInv

\* Get: what the branch condition says of the cache is what the invariant says
\* of the step it leads to.
LEMMA GetIInv == ASSUME IInv, Get PROVE IInv'
<1>1. /\ obj' = obj /\ cache' = cache /\ cacheFresh' = cacheFresh /\ mem' = cache
      /\ memFresh' = cacheFresh /\ sts' = sts /\ pvcs' = pvcs
  BY DEF Get, apiVars
<1>2. \/ pc' = "idle"
      \/ pc' = "pvcs" /\ cache.deleting
      \/ pc' = "finalizer" /\ ~cache.deleting
      \/ /\ pc' \in {"initialize", "children"}
         /\ cache.exists /\ cache.finalizer /\ ~cache.deleting
  BY Zenon DEF Get
<1>3. /\ pc' \in PCs /\ pc' # "removeFinalizer" /\ pc' # "status"
      /\ pc' \in Deleting => cache.deleting
      /\ pc' \in Working => cache.exists /\ cache.finalizer /\ ~cache.deleting
  BY <1>2 DEF PCs, Deleting, Working
<1>4. Typed'
  BY <1>1, <1>3, Zenon DEF IInv, Typed
<1>5. CopiesTellDeletion'
  BY <1>1, <1>3, Zenon DEF IInv, CopiesTellDeletion
<1>6. CopiesTellFinalizer' /\ NoScalingLeft'
  BY <1>1, <1>3, Zenon DEF IInv, CopiesTellFinalizer, NoScalingLeft
<1>. QED
  BY <1>4, <1>5, <1>6, Zenon DEF IInv

\* The deletion: the claims go first, unless List fails, then the finalizer.
LEMMA DeletePVCsIInv == ASSUME IInv, DeletePVCs PROVE IInv'
<1>1. /\ obj' = obj /\ cache' = cache /\ cacheFresh' = cacheFresh /\ mem' = mem
      /\ memFresh' = memFresh /\ sts' = sts /\ pc = "pvcs"
  BY DEF DeletePVCs, apiVars
<1>2. \/ pc' = "idle" /\ pvcs' = pvcs
      \/ pc' = "removeFinalizer" /\ (pvcs' => pvcs) /\ (ClaimsInTime => ~pvcs')
  BY Zenon DEF DeletePVCs, Fails, MayFail, ClaimsInTime
<1>3. CASE pc' = "idle" /\ pvcs' = pvcs
  BY <1>1, <1>3, QuietIInv
<1>4. CASE pc' = "removeFinalizer" /\ (pvcs' => pvcs) /\ (ClaimsInTime => ~pvcs')
  <2>1. /\ pc' \in PCs /\ pc' \notin Working /\ pc' # "status" /\ pc \in Deleting
    BY <1>1, <1>4 DEF PCs, Deleting, Working
  <2>2. Typed' /\ CopiesTellDeletion'
    BY <1>1, <2>1, Zenon DEF IInv, Typed, CopiesTellDeletion
  <2>3. CopiesTellFinalizer' /\ NoScalingLeft'
    BY <1>1, <1>4, <2>1, Zenon DEF IInv, CopiesTellFinalizer, NoScalingLeft
  <2>. QED
    BY <2>2, <2>3, Zenon DEF IInv
<1>. QED
  BY <1>2, <1>3, <1>4, Zenon

\* Removing the finalizer may remove the object: its claims are gone by then.
LEMMA RemoveFinalizerIInv == ASSUME IInv, RemoveFinalizer PROVE IInv'
<1>1. mem' = mem /\ sts' = sts /\ pvcs' = pvcs /\ pc = "removeFinalizer" /\ pc' = "idle"
  BY DEF RemoveFinalizer
<1>2. CASE UNCHANGED <<apiVars, memFresh>>
  BY <1>1, <1>2, QuietIInv DEF apiVars
<1>3. CASE UpdateFinalizer(FALSE)
  <2>1. /\ obj' \in Objects /\ obj'.deleting = obj.deleting /\ obj'.phase = obj.phase
        /\ cache' = cache /\ memFresh' = memFresh /\ (cacheFresh' => cacheFresh)
        /\ obj' = obj \/ (obj.exists /\ obj'.finalizer = FALSE /\ obj'.exists = ~obj.deleting)
    BY <1>3, UpdateFinalizerEffect DEF IInv
  <2>2. /\ pc' \in PCs /\ pc' \notin Working /\ pc' \notin Deleting /\ pc' # "status"
        /\ pc' # "removeFinalizer" /\ pc \in Deleting
    BY <1>1 DEF PCs, Deleting, Working
  <2>3. (ClaimsInTime => ~pvcs) /\ cache.deleting /\ obj.deleting
    BY <1>1, <2>2, Zenon DEF IInv, CopiesTellFinalizer, CopiesTellDeletion
  <2>4. Typed' /\ CopiesTellDeletion'
    BY <1>1, <2>1, <2>2, Zenon DEF IInv, Typed, CopiesTellDeletion
  <2>5. CopiesTellFinalizer'
    BY <1>1, <2>1, <2>2, <2>3, Zenon DEF CopiesTellFinalizer
  <2>6. NoScalingLeft'
    BY <1>1, <2>1, <2>2, Zenon DEF IInv, NoScalingLeft
  <2>. QED
    BY <2>4, <2>5, <2>6, Zenon DEF IInv
<1>. QED
  BY <1>2, <1>3, Zenon DEF RemoveFinalizer

\* Storing the finalizer from a copy that is current cannot revive an object.
LEMMA AddFinalizerIInv == ASSUME IInv, AddFinalizer PROVE IInv'
<1>1. mem' = mem /\ sts' = sts /\ pvcs' = pvcs /\ pc = "finalizer" /\ pc' = "idle"
  BY DEF AddFinalizer
<1>2. CASE UNCHANGED <<apiVars, memFresh>>
  BY <1>1, <1>2, QuietIInv DEF apiVars
<1>3. CASE UpdateFinalizer(TRUE)
  <2>1. /\ obj' \in Objects /\ obj'.deleting = obj.deleting /\ obj'.phase = obj.phase
        /\ cache' = cache /\ memFresh' = memFresh /\ (cacheFresh' => cacheFresh)
        /\ obj' = obj \/ (obj.exists /\ obj'.finalizer = TRUE /\ obj'.exists = TRUE)
    BY <1>3, UpdateFinalizerEffect DEF IInv
  <2>2. /\ pc' \in PCs /\ pc' \notin Working /\ pc' \notin Deleting /\ pc' # "status"
        /\ pc' # "removeFinalizer"
    BY <1>1 DEF PCs, Deleting, Working
  <2>4. Typed' /\ CopiesTellDeletion'
    BY <1>1, <2>1, <2>2, Zenon DEF IInv, Typed, CopiesTellDeletion
  <2>5. CopiesTellFinalizer'
    BY <1>1, <2>1, <2>2, Zenon DEF IInv, CopiesTellFinalizer
  <2>6. NoScalingLeft'
    BY <1>1, <2>1, <2>2, Zenon DEF IInv, NoScalingLeft
  <2>. QED
    BY <2>4, <2>5, <2>6, Zenon DEF IInv
<1>. QED
  BY <1>2, <1>3, Zenon DEF AddFinalizer

\* A step between "initialize" and "failover" that leaves the object alone and
\* sets at most the phase of the copy; it may write the children.
LEMMA WorkingIInv ==
  ASSUME IInv, UNCHANGED <<obj, cache, cacheFresh, memFresh>>, pc \in Working \ {"status"},
         pc' \in Working \cup {"idle"}, mem' \in Objects, mem'.deleting = mem.deleting,
         pvcs' = pvcs
  PROVE  IInv'
<1>1. /\ pc' \in PCs /\ pc' \notin Deleting /\ pc' # "removeFinalizer" /\ pc \in Working
  BY DEF PCs, Working, Deleting
<1>2. ~mem.deleting /\ obj.exists /\ obj.finalizer
  BY <1>1, Zenon DEF IInv, CopiesTellDeletion, CopiesTellFinalizer
<1>3. Typed' /\ CopiesTellDeletion'
  BY <1>1, <1>2, Zenon DEF IInv, Typed, CopiesTellDeletion
<1>4. CopiesTellFinalizer'
  BY <1>1, <1>2, Zenon DEF IInv, CopiesTellFinalizer
<1>5. NoScalingLeft'
  BY <1>2, Zenon DEF IInv, NoScalingLeft
<1>. QED
  BY <1>3, <1>4, <1>5, Zenon DEF IInv

\* A step that stores a phase, from a reconcile that did not see a deletion or
\* that read another phase than Scaling with it.
LEMMA StatusIInv ==
  ASSUME IInv, NEW p \in Phases, StatusUpdate(p), pc \in Working,
         WebhookOn /\ mem.deleting => p # "Scaling",
         pc' \in (Working \ {"status"}) \cup {"idle"}, pc' # "idle" => ~mem.deleting,
         mem' = [mem EXCEPT !.phase = p], pvcs' = pvcs, sts' = sts
  PROVE  IInv'
<1>1. /\ obj' \in Objects /\ obj'.exists = obj.exists
      /\ obj'.deleting = obj.deleting /\ obj'.finalizer = obj.finalizer
      /\ obj'.phase = obj.phase \/ (memFresh /\ obj'.phase = p)
      /\ cache' = cache /\ memFresh' = memFresh /\ (cacheFresh' => cacheFresh)
  BY StatusUpdateEffect, Zenon DEF IInv
<1>2. mem \in Objects
  BY Zenon DEF IInv, Typed
<1>3. mem' \in Objects /\ mem'.phase = p /\ mem'.deleting = mem.deleting
  BY <1>2, PhaseField, Zenon
<1>4. /\ pc' \in PCs /\ pc' \notin Deleting /\ pc' # "removeFinalizer" /\ pc' # "status"
      /\ pc' \in Working => pc' # "idle"
  BY DEF PCs, Working, Deleting
<1>5. Typed' /\ CopiesTellDeletion'
  BY <1>1, <1>3, <1>4, Zenon DEF IInv, Typed, CopiesTellDeletion
<1>6. CopiesTellFinalizer'
  BY <1>1, <1>4, Zenon DEF IInv, CopiesTellFinalizer
<1>7. NoScalingLeft'
  <2>1. memFresh => mem.deleting = obj.deleting
    BY Zenon DEF IInv, CopiesTellDeletion
  <2>. QED
    BY <1>1, <1>4, <2>1, Zenon DEF IInv, NoScalingLeft
<1>. QED
  BY <1>5, <1>6, <1>7, Zenon DEF IInv

\* The first status update either succeeds or ends the reconcile.
LEMMA InitializePhaseIInv == ASSUME IInv, InitializePhase PROVE IInv'
<1>1. /\ pc = "initialize" /\ mem' = [mem EXCEPT !.phase = "Initializing"]
      /\ pvcs' = pvcs /\ sts' = sts
  BY DEF InitializePhase
<1>2. /\ "Initializing" \in Phases /\ "Initializing" # "Scaling"
      /\ pc \in Working /\ pc \in Working \ {"status"}
      /\ "children" \in Working /\ "children" \in Working \ {"status"}
  BY <1>1 DEF Phases, Working
<1>3. mem \in Objects /\ ~mem.deleting
  BY <1>2, Zenon DEF IInv, Typed, CopiesTellDeletion
<1>4. CASE StatusUpdate("Initializing") /\ pc' = "children"
  <2>1. pc' \in (Working \ {"status"}) \cup {"idle"}
    BY <1>2, <1>4, Zenon
  <2>. QED
    BY <1>1, <1>2, <1>3, <1>4, <2>1, StatusIInv, Zenon
<1>5. CASE pc' = "idle" /\ UNCHANGED <<apiVars, memFresh>>
  <2>1. mem' \in Objects /\ mem'.deleting = mem.deleting
    BY <1>1, <1>2, <1>3, PhaseField, Zenon
  <2>2. UNCHANGED <<obj, cache, cacheFresh, memFresh>> /\ pc' \in Working \cup {"idle"}
    BY <1>5 DEF apiVars
  <2>. QED
    BY <1>1, <1>2, <2>1, <2>2, WorkingIInv, Zenon
<1>. QED
  BY <1>4, <1>5, Zenon DEF InitializePhase

\* The children are created while the object has its finalizer.
LEMMA ReconcileChildrenIInv == ASSUME IInv, ReconcileChildren PROVE IInv'
<1>1. pc = "children" /\ pvcs' = pvcs
  BY DEF ReconcileChildren
<1>2. /\ "Failed" \in Phases /\ "Failed" # "Scaling"
      /\ pc \in Working /\ pc \in Working \ {"status"} /\ "lifecycle" \in Working
  BY <1>1 DEF Phases, Working
<1>3. mem \in Objects /\ ~mem.deleting
  BY <1>2, Zenon DEF IInv, Typed, CopiesTellDeletion
<1>4. CASE /\ UNCHANGED <<apiVars, mem, memFresh>>
           /\ pc' \in {"lifecycle", "idle"}
  <2>1. UNCHANGED <<obj, cache, cacheFresh, memFresh>> /\ mem' = mem
    BY <1>4 DEF apiVars
  <2>2. pc' \in Working \cup {"idle"}
    BY <1>2, <1>4, Zenon
  <2>. QED
    BY <1>1, <1>2, <1>3, <2>1, <2>2, WorkingIInv, Zenon
<1>5. CASE /\ mem' = [mem EXCEPT !.phase = "Failed"] /\ StatusUpdate("Failed")
           /\ pc' = "idle" /\ UNCHANGED sts
  BY <1>1, <1>2, <1>3, <1>5, StatusIInv, Zenon
<1>. QED
  BY <1>4, <1>5, Zenon DEF ReconcileChildren

\* The lifecycle branches only choose a phase for the copy.
LEMMA LifecycleIInv == ASSUME IInv, Lifecycle PROVE IInv'
<1>1. /\ pc = "lifecycle" /\ UNCHANGED <<obj, cache, cacheFresh, memFresh>> /\ pvcs' = pvcs
  BY DEF Lifecycle, apiVars
<1>2. pc' \in {"failover", "form", "scale"}
  BY Zenon DEF Lifecycle
<1>3. pc \in Working \ {"status"} /\ pc' \in Working \cup {"idle"}
  BY <1>1, <1>2 DEF Working
<1>4. mem \in Objects
  BY Zenon DEF IInv, Typed
<1>5. mem.phase \in Phases
  BY <1>4, ObjectFields, Zenon
<1>6. {"Initializing", "Recovering", "Ready", "Scaling"} \subseteq Phases
  BY DEF Phases
<1>7. mem' = mem \/ \E p \in Phases : mem' = [mem EXCEPT !.phase = p]
  BY <1>5, <1>6, Zenon DEF Lifecycle, SetPhase
<1>8. mem' \in Objects /\ mem'.deleting = mem.deleting
  BY <1>4, <1>7, PhaseField, Zenon
<1>. QED
  BY <1>1, <1>3, <1>8, WorkingIInv, Zenon

\* Forming the cluster stores at most the phase Failed.
LEMMA FormClusterIInv == ASSUME IInv, FormCluster PROVE IInv'
<1>1. pc = "form" /\ pc' = "failover" /\ pvcs' = pvcs /\ sts' = sts
  BY DEF FormCluster
<1>2. /\ "Failed" \in Phases /\ "Ready" \in Phases /\ "Failed" # "Scaling" /\ pc \in Working
      /\ pc \in Working \ {"status"} /\ pc' \in Working
      /\ pc' \in (Working \ {"status"}) \cup {"idle"} /\ pc' \in Working \cup {"idle"}
  BY <1>1 DEF Phases, Working
<1>3. mem \in Objects /\ ~mem.deleting
  BY <1>2, Zenon DEF IInv, Typed, CopiesTellDeletion
<1>4. CASE SetPhase("Ready") /\ UNCHANGED <<apiVars, memFresh>>
  <2>1. UNCHANGED <<obj, cache, cacheFresh, memFresh>> /\ mem' = [mem EXCEPT !.phase = "Ready"]
    BY <1>4 DEF apiVars, SetPhase
  <2>2. mem' \in Objects /\ mem'.deleting = mem.deleting
    BY <1>2, <1>3, <2>1, PhaseField, Zenon
  <2>. QED
    BY <1>1, <1>2, <2>1, <2>2, WorkingIInv, Zenon
<1>5. CASE SetPhase("Failed") /\ StatusUpdate("Failed")
  BY <1>1, <1>2, <1>3, <1>5, StatusIInv, Zenon DEF SetPhase
<1>. QED
  BY <1>4, <1>5, Zenon DEF FormCluster

\* Scaling changes the copy's phase to Ready or leaves it at Scaling.
LEMMA ScaleIInv == ASSUME IInv, Scale PROVE IInv'
<1>1. /\ pc = "scale" /\ pc' = "failover" /\ UNCHANGED <<obj, cache, cacheFresh, memFresh>>
      /\ pvcs' = pvcs
  BY DEF Scale, apiVars
<1>2. /\ "Ready" \in Phases /\ pc \in Working \ {"status"} /\ pc' \in Working \cup {"idle"}
  BY <1>1 DEF Phases, Working
<1>3. mem \in Objects
  BY Zenon DEF IInv, Typed
<1>4. mem' = mem \/ \E p \in Phases : mem' = [mem EXCEPT !.phase = p]
  BY <1>2, Zenon DEF Scale, SetPhase
<1>5. mem' \in Objects /\ mem'.deleting = mem.deleting
  BY <1>3, <1>4, PhaseField, Zenon
<1>. QED
  BY <1>1, <1>2, <1>5, WorkingIInv, Zenon

\* The hash patch replaces the copy by the stored object: if that object is being
\* deleted, its phase is the one the invariant allows, not the copy's.
LEMMA RollingFailoverIInv == ASSUME IInv, RollingFailover PROVE IInv'
<1>1. pc = "failover" /\ pc' = "status" /\ pvcs' = pvcs /\ sts' = sts
  BY DEF RollingFailover
<1>2. /\ pc \in Working /\ pc \in Working \ {"status"} /\ pc' \in Working \cup {"idle"} /\ pc' \in PCs
      /\ pc' \notin Deleting /\ pc' \notin Working \ {"status"} /\ pc' # "removeFinalizer"
  BY <1>1 DEF Working, PCs, Deleting
<1>3. mem \in Objects /\ obj \in Objects
  BY Zenon DEF IInv, Typed
<1>4. CASE UNCHANGED <<apiVars, mem, memFresh>>
  <2>1. UNCHANGED <<obj, cache, cacheFresh, memFresh>> /\ mem' = mem
    BY <1>4 DEF apiVars
  <2>. QED
    BY <1>1, <1>2, <1>3, <2>1, WorkingIInv, Zenon
<1>5. CASE /\ obj' = [obj EXCEPT !.hash = mem.config] /\ mem' = obj' /\ memFresh' = TRUE
           /\ cacheFresh' = FALSE /\ UNCHANGED cache
  <2>1. mem.config \in Configs
    BY <1>3, ObjectFields, Zenon
  <2>2. /\ obj' \in Objects /\ obj'.phase = obj.phase /\ obj'.exists = obj.exists
        /\ obj'.deleting = obj.deleting /\ obj'.finalizer = obj.finalizer
    BY <1>3, <1>5, <2>1, HashField, Zenon
  <2>3. Typed' /\ CopiesTellDeletion'
    BY <1>2, <1>5, <2>2, Zenon DEF IInv, Typed, CopiesTellDeletion
  <2>4. CopiesTellFinalizer'
    BY <1>1, <1>2, <1>5, <2>2, Zenon DEF IInv, CopiesTellFinalizer
  <2>5. obj.exists
    BY <1>2, Zenon DEF IInv, CopiesTellFinalizer
  <2>6. NoScalingLeft'
    BY <1>5, <2>2, <2>5, Zenon DEF IInv, NoScalingLeft
  <2>. QED
    BY <2>3, <2>4, <2>6, Zenon DEF IInv
<1>. QED
  BY <1>4, <1>5, Zenon DEF RollingFailover

\* The final status update stores the copy's phase or a recomputed one.
LEMMA UpdateStatusIInv == ASSUME IInv, UpdateStatus PROVE IInv'
<1>1. pc = "status" /\ pc' = "idle" /\ pvcs' = pvcs /\ sts' = sts
  BY DEF UpdateStatus
<1>2. pc \in Working /\ pc' \in (Working \ {"status"}) \cup {"idle"} /\ pc' \in PCs
      /\ pc' \notin Deleting /\ pc' \notin Working /\ pc' # "status" /\ pc' # "removeFinalizer"
  BY <1>1 DEF Working, PCs, Deleting
<1>3. mem \in Objects
  BY Zenon DEF IInv, Typed
<1>4. ASSUME NEW ok
      PROVE  ComputedPhase(ok) \in Phases /\ (WebhookOn /\ mem.deleting => ComputedPhase(ok) # "Scaling")
  <2>1. ComputedPhase(ok) \in {"Ready", "Initializing", mem.phase}
    BY Zenon DEF ComputedPhase
  <2>2. mem.phase \in Phases /\ (WebhookOn /\ mem.deleting => mem.phase # "Scaling")
    BY <1>1, <1>3, ObjectFields, Zenon DEF IInv, NoScalingLeft
  <2>3. {"Ready", "Initializing"} \subseteq Phases /\ "Ready" # "Scaling" /\ "Initializing" # "Scaling"
    BY DEF Phases
  <2>. QED
    BY <2>1, <2>2, <2>3, Zenon
<1>5. CASE SetPhase(ComputedPhase(ClusterOK)) /\ StatusUpdate(ComputedPhase(ClusterOK))
  BY <1>1, <1>2, <1>4, <1>5, StatusIInv, Zenon DEF SetPhase
<1>6. CASE SetPhase(ComputedPhase(FALSE)) /\ StatusUpdate(ComputedPhase(FALSE))
  BY <1>1, <1>2, <1>4, <1>6, StatusIInv, Zenon DEF SetPhase
<1>7. CASE SetPhase(ComputedPhase(ClusterOK)) /\ UNCHANGED <<apiVars, memFresh>>
  <2>1. mem' \in Objects /\ mem'.deleting = mem.deleting
    BY <1>3, <1>4, <1>7, PhaseField, Zenon DEF SetPhase
  <2>2. UNCHANGED <<obj, cache, cacheFresh, memFresh>>
    BY <1>7 DEF apiVars
  <2>3. Typed' /\ CopiesTellDeletion'
    BY <1>2, <2>1, <2>2, Zenon DEF IInv, Typed, CopiesTellDeletion
  <2>4. CopiesTellFinalizer' /\ NoScalingLeft'
    BY <1>1, <1>2, <2>1, <2>2, Zenon DEF IInv, CopiesTellFinalizer, NoScalingLeft
  <2>. QED
    BY <2>3, <2>4, Zenon DEF IInv
<1>. QED
  BY <1>5, <1>6, <1>7, Zenon DEF UpdateStatus

\* Claims come while the StatefulSet's owner lives; garbage collection removes
\* only children.
LEMMA ChildrenIInv == ASSUME IInv, ClaimsAreCreated \/ ChildrenAreCollected PROVE IInv'
<1>1. UNCHANGED <<obj, cache, cacheFresh, mem, memFresh, pc>>
  BY DEF ClaimsAreCreated, ChildrenAreCollected, apiVars
<1>2. Typed' /\ CopiesTellDeletion' /\ NoScalingLeft'
  BY <1>1, Zenon DEF IInv, Typed, CopiesTellDeletion, NoScalingLeft
<1>3. CASE ClaimsAreCreated
  <2>1. sts' = sts /\ sts.masters > 0 /\ (ClaimsInTime => ~obj.deleting)
    BY <1>3, Zenon DEF ClaimsAreCreated, Fails, MayFail, ClaimsInTime
  <2>2. pc = "removeFinalizer" => obj.deleting
    <3>1. pc = "removeFinalizer" => pc \in Deleting
      BY DEF Deleting
    <3>. QED
      BY <3>1, Zenon DEF IInv, CopiesTellDeletion
  <2>3. CopiesTellFinalizer'
    BY <1>1, <2>1, <2>2, Zenon DEF IInv, CopiesTellFinalizer
  <2>. QED
    BY <1>2, <2>3, Zenon DEF IInv
<1>4. CASE ChildrenAreCollected
  <2>1. pvcs' = pvcs /\ ~(sts'.masters > 0)
    BY <1>4 DEF ChildrenAreCollected
  <2>2. CopiesTellFinalizer'
    BY <1>1, <2>1, Zenon DEF IInv, CopiesTellFinalizer
  <2>. QED
    BY <1>2, <2>2, Zenon DEF IInv
<1>. QED
  BY <1>3, <1>4

\* Every step keeps the invariant.
LEMMA NextIInv == IInv /\ [Next]_vars => IInv'
<1>. SUFFICES ASSUME IInv, [Next]_vars PROVE IInv'
  OBVIOUS
<1>1. CASE Reconcile
  BY <1>1, GetIInv, DeletePVCsIInv, RemoveFinalizerIInv, AddFinalizerIInv, InitializePhaseIInv,
     ReconcileChildrenIInv, LifecycleIInv, FormClusterIInv, ScaleIInv, RollingFailoverIInv,
     UpdateStatusIInv, Zenon DEF Reconcile
<1>2. CASE OperatorCrashes
  BY <1>2, QuietIInv DEF OperatorCrashes, apiVars
<1>3. CASE CacheSyncs
  BY <1>3, CacheSyncsIInv
<1>4. CASE \/ \E m \in MastersRange : UserScales(m)
           \/ \E c \in Configs : UserConfigures(c)
           \/ UserDeletes
  BY <1>4, UsersIInv, Zenon
<1>5. CASE PodsBecomeReady \/ PodFails \/ RedisFails \/ RedisRecovers
  <2>1. UNCHANGED <<obj, cache, cacheFresh, mem, memFresh, sts, pvcs>> /\ pc' = pc
    BY <1>5 DEF PodsBecomeReady, PodFails, RedisFails, RedisRecovers, apiVars
  <2>. QED
    BY <2>1, QuietIInv, Zenon
<1>6. CASE ClaimsAreCreated \/ ChildrenAreCollected
  BY <1>6, ChildrenIInv
<1>7. CASE UNCHANGED vars
  BY <1>7, QuietIInv DEF vars, apiVars
<1>. QED
  BY <1>1, <1>2, <1>3, <1>4, <1>5, <1>6, <1>7, Zenon DEF Next

\* The invariant holds in every behaviour.
THEOREM Invariance == Spec => []IInv
<1>. QED
  BY InitIInv, NextIInv, PTL DEF Spec

\* With the webhook on, a reconcile that read the object before the delete never
\* gives the terminating object the phase Scaling: the operator can always take
\* its finalizer off.
THEOREM TerminatingIsNeverScaling == ASSUME WebhookOn PROVE Spec => []TerminatingNeverScaling
<1>1. IInv => TerminatingNeverScaling
  BY Zenon DEF IInv, NoScalingLeft, TerminatingNeverScaling
<1>. QED
  BY <1>1, Invariance, PTL

\* When the claims are created before the deletion and its List shows them, an
\* object that is gone has left none: no reconcile working from an old copy
\* creates children after the cleanup.
THEOREM GoneIsClean == ASSUME ClaimsInTime PROVE Spec => []GoneMeansClean
<1>1. IInv => GoneMeansClean
  BY Zenon DEF IInv, CopiesTellFinalizer, GoneMeansClean
<1>. QED
  BY <1>1, Invariance, PTL

\* Whatever fails, and however old the copy a reconcile works from, it writes
\* the StatefulSet only while the stored object has its finalizer.
THEOREM TemplateIsUnderFinalizer == Spec => TemplateUnderFinalizer
<1>1. IInv /\ [Next]_vars => [sts' # sts /\ sts'.masters > 0 => obj.exists /\ obj.finalizer]_vars
  <2>. SUFFICES ASSUME IInv, [Next]_vars, sts' # sts, sts'.masters > 0
                PROVE  obj.exists /\ obj.finalizer
    BY Zenon
  <2>1. ReconcileChildren
    <3>1. ~Get /\ ~DeletePVCs /\ ~RemoveFinalizer /\ ~AddFinalizer /\ ~InitializePhase
          /\ ~Lifecycle /\ ~FormCluster /\ ~Scale /\ ~RollingFailover /\ ~UpdateStatus
      BY DEF Get, DeletePVCs, RemoveFinalizer, AddFinalizer, InitializePhase, Lifecycle,
             FormCluster, Scale, RollingFailover, UpdateStatus
    <3>2. ~OperatorCrashes /\ ~CacheSyncs /\ ~ClaimsAreCreated /\ ~ChildrenAreCollected
          /\ ~PodsBecomeReady /\ ~PodFails /\ ~RedisFails /\ ~RedisRecovers
      BY DEF OperatorCrashes, CacheSyncs, ClaimsAreCreated, ChildrenAreCollected,
             PodsBecomeReady, PodFails, RedisFails, RedisRecovers
    <3>3. /\ \A m \in MastersRange : ~UserScales(m)
          /\ \A c \in Configs : ~UserConfigures(c)
          /\ ~UserDeletes
      BY DEF UserScales, UserConfigures, UserDeletes, ForeignWrite
    <3>4. vars' # vars
      BY DEF vars
    <3>. QED
      BY <3>1, <3>2, <3>3, <3>4, Zenon DEF Next, Reconcile
  <2>2. pc \in Working
    BY <2>1 DEF ReconcileChildren, Working
  <2>. QED
    BY <2>2, Zenon DEF IInv, CopiesTellFinalizer
<1>. QED
  BY <1>1, Invariance, PTL DEF Spec, TemplateUnderFinalizer

(***************************************************************************)
(* A stored phase Ready and the slots.  A scale-in may lose slots, but     *)
(* nothing returns to a cluster that is half formed or not formed, so a    *)
(* copy that once said Ready stays right.                                  *)
(***************************************************************************)

\* FormCluster assigned every slot once.
Formed == slots \in {"all", "lost"}

FormedInv ==
    /\ obj.phase = "Ready" => Formed
    /\ cache.phase = "Ready" => Formed
    /\ mem.phase = "Ready" => Formed
    /\ pc = "form" => slots = "none"
    /\ pc = "scale" => slots = "all"

\* A new object has no phase.
LEMMA InitFormed == Init => FormedInv
<1>. SUFFICES ASSUME Init PROVE FormedInv
  OBVIOUS
<1>1. obj.phase # "Ready" /\ cache = obj /\ mem = obj /\ pc = "idle"
  BY DEF Init
<1>. QED
  BY <1>1 DEF FormedInv, Formed

\* Neither users nor the informer, pods, Redis or a crash invent a phase Ready.
LEMMA EnvironmentFormed ==
  ASSUME Typed, FormedInv,
         \/ OperatorCrashes \/ CacheSyncs
         \/ \E m \in MastersRange : UserScales(m)
         \/ \E c \in Configs : UserConfigures(c)
         \/ UserDeletes
         \/ ClaimsAreCreated \/ ChildrenAreCollected
         \/ PodsBecomeReady \/ PodFails \/ RedisFails \/ RedisRecovers
         \/ UNCHANGED vars
  PROVE  FormedInv'
<1>. obj \in Objects
  BY DEF Typed
<1>1. ASSUME NEW o, ForeignWrite(o), o.phase = obj.phase PROVE FormedInv'
  BY <1>1 DEF ForeignWrite, redisVars, FormedInv, Formed
<1>2. ASSUME NEW m \in MastersRange, UserScales(m) PROVE FormedInv'
  BY <1>1, <1>2, MastersField DEF UserScales
<1>3. ASSUME NEW c \in Configs, UserConfigures(c) PROVE FormedInv'
  BY <1>1, <1>3, ConfigField DEF UserConfigures
<1>4. CASE UserDeletes
  <2>1. obj.finalizer \in BOOLEAN
    BY ObjectFields, Zenon
  <2>2. [obj EXCEPT !.deleting = TRUE, !.exists = obj.finalizer].phase = obj.phase
    BY <2>1, DeleteFields, Zenon
  <2>. QED
    BY <1>1, <1>4, <2>2, Zenon DEF UserDeletes
<1>5. CASE OperatorCrashes
  BY <1>5 DEF OperatorCrashes, apiVars, redisVars, FormedInv, Formed
<1>6. CASE CacheSyncs
  BY <1>6 DEF CacheSyncs, redisVars, FormedInv, Formed
<1>7. CASE PodsBecomeReady \/ PodFails \/ RedisFails \/ RedisRecovers
  BY <1>7 DEF PodsBecomeReady, PodFails, RedisFails, RedisRecovers, apiVars, redisVars, FormedInv, Formed
<1>8. CASE UNCHANGED vars
  BY <1>8 DEF vars, apiVars, redisVars, FormedInv, Formed
<1>9. CASE ClaimsAreCreated \/ ChildrenAreCollected
  BY <1>9 DEF ClaimsAreCreated, ChildrenAreCollected, apiVars, redisVars, FormedInv, Formed
<1>. QED
  BY <1>2, <1>3, <1>4, <1>5, <1>6, <1>7, <1>8, <1>9, Zenon

\* A step that stores the phase p, and sets it in the copy.
LEMMA StatusFormed ==
  ASSUME Typed, FormedInv, NEW p \in Phases, StatusUpdate(p), p = "Ready" => Formed,
         slots' = slots, mem' = [mem EXCEPT !.phase = p], pc' \notin {"form", "scale"}
  PROVE  FormedInv'
<1>1. cache' = cache /\ (obj'.phase = obj.phase \/ obj'.phase = p)
  BY StatusUpdateEffect, Zenon
<1>2. mem'.phase = p
  BY PhaseField, Zenon DEF Typed
<1>. QED
  BY <1>1, <1>2 DEF FormedInv, Formed

\* A step that only sets the phase of the copy.
LEMMA CopyFormed ==
  ASSUME Typed, FormedInv, UNCHANGED <<obj, cache, slots>>, NEW p \in Phases,
         p = "Ready" => Formed, mem' = [mem EXCEPT !.phase = p],
         pc' = "form" => slots = "none", pc' = "scale" => slots = "all"
  PROVE  FormedInv'
<1>1. mem'.phase = p
  BY PhaseField, Zenon DEF Typed
<1>. QED
  BY <1>1 DEF FormedInv, Formed

\* The steps before and after the lifecycle.
LEMMA OuterFormed ==
  ASSUME Typed, FormedInv,
         \/ Get \/ DeletePVCs \/ RemoveFinalizer \/ AddFinalizer \/ InitializePhase
         \/ ReconcileChildren \/ RollingFailover \/ UpdateStatus
  PROVE  FormedInv'
<1>0. {"Initializing", "Failed", "Ready"} \subseteq Phases
  BY DEF Phases
<1>1. CASE Get
  BY <1>1 DEF Get, apiVars, redisVars, FormedInv, Formed
<1>2. CASE DeletePVCs
  BY <1>2 DEF DeletePVCs, apiVars, redisVars, FormedInv, Formed
<1>3. ASSUME RemoveFinalizer \/ AddFinalizer PROVE FormedInv'
  <2>1. mem' = mem /\ slots' = slots /\ pc' = "idle"
    BY <1>3 DEF RemoveFinalizer, AddFinalizer, redisVars
  <2>2. UpdateFinalizer(TRUE) \/ UpdateFinalizer(FALSE) \/ UNCHANGED apiVars
    BY <1>3, Zenon DEF RemoveFinalizer, AddFinalizer
  <2>3. obj'.phase = obj.phase /\ cache' = cache
    BY <2>2, UpdateFinalizerEffect, Zenon DEF apiVars
  <2>. QED
    BY <2>1, <2>3 DEF FormedInv, Formed
<1>4. CASE InitializePhase
  <2>1. /\ mem' = [mem EXCEPT !.phase = "Initializing"] /\ slots' = slots
        /\ pc' \notin {"form", "scale"}
    BY <1>4 DEF InitializePhase, redisVars
  <2>2. CASE StatusUpdate("Initializing")
    BY <1>0, <2>1, <2>2, StatusFormed
  <2>3. CASE UNCHANGED <<apiVars, memFresh>>
    BY <1>0, <2>1, <2>3, CopyFormed DEF apiVars
  <2>. QED
    BY <1>4, <2>2, <2>3, Zenon DEF InitializePhase
<1>5. CASE ReconcileChildren
  <2>1. slots' = slots /\ pc' \notin {"form", "scale"}
    BY <1>5 DEF ReconcileChildren, redisVars
  <2>2. CASE mem' = [mem EXCEPT !.phase = "Failed"] /\ StatusUpdate("Failed")
    BY <1>0, <2>1, <2>2, StatusFormed
  <2>3. CASE UNCHANGED <<apiVars, mem, memFresh>>
    BY <2>1, <2>3 DEF apiVars, FormedInv, Formed
  <2>. QED
    BY <1>5, <2>2, <2>3, Zenon DEF ReconcileChildren
<1>6. CASE RollingFailover
  <2>1. slots' = slots /\ pc' = "status"
    BY <1>6 DEF RollingFailover, redisVars
  <2>2. CASE obj' = [obj EXCEPT !.hash = mem.config] /\ mem' = obj' /\ cache' = cache
    <3>1. mem.config \in Configs
      BY ObjectFields, Zenon DEF Typed
    <3>2. obj'.phase = obj.phase
      BY <2>2, <3>1, HashField, Zenon DEF Typed
    <3>. QED
      BY <2>1, <2>2, <3>2 DEF FormedInv, Formed
  <2>3. CASE UNCHANGED <<apiVars, mem, memFresh>>
    BY <2>1, <2>3 DEF apiVars, FormedInv, Formed
  <2>. QED
    BY <1>6, <2>2, <2>3, Zenon DEF RollingFailover
<1>7. CASE UpdateStatus
  <2>1. slots' = slots /\ pc' \notin {"form", "scale"}
    BY <1>7 DEF UpdateStatus, redisVars
  <2>2. ASSUME NEW ok, ok => ClusterOK
        PROVE  ComputedPhase(ok) \in Phases /\ (ComputedPhase(ok) = "Ready" => Formed)
    <3>1. mem.phase \in Phases
      BY ObjectFields, Zenon DEF Typed
    <3>2. \/ ComputedPhase(ok) \in {"Initializing", mem.phase}
          \/ ComputedPhase(ok) = "Ready" /\ Formed
      BY <2>2, Zenon DEF ComputedPhase, ClusterOK, Formed
    <3>. QED
      BY <1>0, <3>1, <3>2 DEF FormedInv, Formed
  <2>3. CASE SetPhase(ComputedPhase(ClusterOK)) /\ StatusUpdate(ComputedPhase(ClusterOK))
    BY <2>1, <2>2, <2>3, StatusFormed, Zenon DEF SetPhase
  <2>4. CASE SetPhase(ComputedPhase(FALSE)) /\ StatusUpdate(ComputedPhase(FALSE))
    BY <2>1, <2>2, <2>4, StatusFormed, Zenon DEF SetPhase
  <2>5. CASE SetPhase(ComputedPhase(ClusterOK)) /\ UNCHANGED <<apiVars, memFresh>>
    <3>1. UNCHANGED <<obj, cache, slots>> /\ pc' # "form" /\ pc' # "scale"
      BY <2>1, <2>5 DEF apiVars
    <3>. QED
      BY <2>2, <2>5, <3>1, CopyFormed, Zenon DEF SetPhase
  <2>. QED
    BY <1>7, <2>3, <2>4, <2>5, Zenon DEF UpdateStatus
<1>. QED
  BY <1>1, <1>2, <1>3, <1>4, <1>5, <1>6, <1>7, Zenon

\* The lifecycle: Ready is set when a probe found the cluster ok, when the
\* formation succeeded, and after a scale operation of a formed cluster.
LEMMA LifecycleFormed ==
  ASSUME Typed, FormedInv, Lifecycle \/ FormCluster \/ Scale
  PROVE  FormedInv'
<1>0. {"Initializing", "Failed", "Ready", "Recovering", "Scaling"} \subseteq Phases
  BY DEF Phases
<1>. mem.phase \in Phases /\ (mem.phase = "Ready" => Formed)
  BY ObjectFields, Zenon DEF Typed, FormedInv, Formed
<1>1. CASE Lifecycle
  <2>1. UNCHANGED <<obj, cache, slots>>
    BY <1>1 DEF Lifecycle, apiVars, redisVars
  <2>2. (pc' = "form" => slots = "none") /\ (pc' = "scale" => slots = "all")
    BY <1>1 DEF Lifecycle, ClusterOK
  <2>3. \/ mem' = mem
        \/ \E p \in Phases : (p = "Ready" => Formed) /\ mem' = [mem EXCEPT !.phase = p]
    BY <1>0, <1>1, Zenon DEF Lifecycle, SetPhase, ClusterOK, Formed
  <2>4. CASE mem' = mem
    BY <2>1, <2>2, <2>4 DEF FormedInv, Formed
  <2>. QED
    BY <2>1, <2>2, <2>3, <2>4, CopyFormed, Zenon
<1>2. CASE FormCluster
  <2>1. slots = "none" /\ pc' = "failover"
    BY <1>2 DEF FormCluster, FormedInv, Formed
  <2>2. CASE slots' = "all"
    BY <2>1, <2>2 DEF FormedInv, Formed
  <2>3. CASE SetPhase("Failed") /\ StatusUpdate("Failed")
    <3>1. cache' = cache /\ (obj'.phase = obj.phase \/ obj'.phase = "Failed")
      BY <1>0, <2>3, StatusUpdateEffect, Zenon
    <3>2. mem'.phase = "Failed"
      BY <1>0, <2>3, PhaseField, Zenon DEF Typed, SetPhase
    <3>. QED
      BY <2>1, <3>1, <3>2 DEF FormedInv, Formed
  <2>. QED
    BY <1>2, <2>2, <2>3, Zenon DEF FormCluster
<1>3. CASE Scale
  <2>1. Formed' /\ pc' = "failover"
    BY <1>3 DEF Scale, FormedInv, Formed
  <2>. QED
    BY <2>1 DEF FormedInv
<1>. QED
  BY <1>1, <1>2, <1>3, Zenon

\* Whatever stale phase a reconcile carries and whatever fails, a cluster whose
\* stored phase is Ready was formed: FormCluster assigned every slot, and a slot
\* without owner was lost by a later scale-in.
THEOREM ReadyIsFormed == Spec => []ReadyMeansFormed
<1>1. Typed /\ FormedInv /\ [Next]_vars => FormedInv'
  <2>. SUFFICES ASSUME Typed, FormedInv, [Next]_vars PROVE FormedInv'
    OBVIOUS
  <2>. QED
    BY EnvironmentFormed, OuterFormed, LifecycleFormed, Zenon DEF Next, Reconcile
<1>2. IInv => Typed
  BY DEF IInv
<1>3. FormedInv => ReadyMeansFormed
  BY DEF FormedInv, Formed, ReadyMeansFormed
<1>. QED
  BY <1>1, <1>2, <1>3, InitFormed, Invariance, PTL DEF Spec

(***************************************************************************)
(* The types of the rest of the state.                                     *)
(***************************************************************************)

\* The variables of TypeOK that Typed leaves out.
RestTyped ==
    /\ cacheFresh \in BOOLEAN /\ memFresh \in BOOLEAN
    /\ sts.masters \in MastersRange \cup {0} /\ sts.config \in Configs \cup {"none"}
    /\ podsReady \in BOOLEAN /\ slots \in {"none", "some", "all", "lost"} /\ size \in Nat
    /\ failing \in BOOLEAN /\ pvcs \in BOOLEAN
    /\ handedOff \in Configs \cup {"none"}
    /\ edits \in 0 .. MaxEdits /\ faults \in 0 .. MaxFaults

\* The injected failures stay within their bound.
LEMMA FaultsBound ==
  ASSUME RestTyped, Works \/ \E f \in AllFaults : Fails(f)
  PROVE  faults' \in 0 .. MaxFaults
  BY ConstantsAssumption DEF RestTyped, Works, Fails, MayFail

\* Whether a copy is still current stays a Boolean when the operator writes.
LEMMA FreshTyped ==
  ASSUME RestTyped, \/ \E p \in Phases : StatusUpdate(p)
                    \/ \E f \in BOOLEAN : UpdateFinalizer(f)
                    \/ UNCHANGED <<apiVars, memFresh>>
  PROVE  cacheFresh' \in BOOLEAN /\ memFresh' \in BOOLEAN
<1>1. ASSUME NEW p \in Phases, StatusUpdate(p) PROVE cacheFresh' \in BOOLEAN /\ memFresh' \in BOOLEAN
  <2>1. memFresh' = memFresh
    BY <1>1, Zenon DEF StatusUpdate
  <2>2. cacheFresh' = cacheFresh \/ cacheFresh' = FALSE \/ cacheFresh' = (cacheFresh /\ obj.phase = p)
    BY <1>1, Zenon DEF StatusUpdate, apiVars
  <2>. QED
    BY <2>1, <2>2, Zenon DEF RestTyped
<1>2. ASSUME NEW f \in BOOLEAN, UpdateFinalizer(f)
      PROVE  cacheFresh' \in BOOLEAN /\ memFresh' \in BOOLEAN
  BY <1>2, Zenon DEF UpdateFinalizer, apiVars, RestTyped
<1>. QED
  BY <1>1, <1>2, Zenon DEF apiVars, RestTyped

\* What users, the informer, pods and Redis do.
LEMMA EnvironmentTyped ==
  ASSUME RestTyped,
         \/ OperatorCrashes \/ CacheSyncs
         \/ \E m \in MastersRange : UserScales(m)
         \/ \E c \in Configs : UserConfigures(c)
         \/ UserDeletes
         \/ ClaimsAreCreated \/ ChildrenAreCollected
         \/ PodsBecomeReady \/ PodFails \/ RedisFails \/ RedisRecovers
         \/ UNCHANGED vars
  PROVE  RestTyped'
<1>. AllFaults = {"write", "configmap", "form", "redis", "pods", "list", "pvc", "lateclaim", "crash"}
  BY DEF AllFaults
<1>1. ASSUME NEW o, ForeignWrite(o), edits < MaxEdits, edits' = edits + 1 PROVE RestTyped'
  <2>1. edits' \in 0 .. MaxEdits
    BY <1>1, ConstantsAssumption DEF RestTyped
  <2>2. /\ UNCHANGED <<sts, podsReady, slots, size, failing, handedOff, pvcs, faults>>
        /\ cacheFresh' = FALSE /\ memFresh' = FALSE
    BY <1>1 DEF ForeignWrite, redisVars
  <2>. QED
    BY <2>1, <2>2, Zenon DEF RestTyped
<1>2. CASE \/ \E m \in MastersRange : UserScales(m)
           \/ \E c \in Configs : UserConfigures(c)
           \/ UserDeletes
  BY <1>1, <1>2, Zenon DEF UserScales, UserConfigures, UserDeletes
<1>3. CASE OperatorCrashes
  BY <1>3, ConstantsAssumption DEF OperatorCrashes, Fails, MayFail, apiVars, redisVars, RestTyped
<1>4. CASE CacheSyncs
  BY <1>4 DEF CacheSyncs, redisVars, RestTyped
<1>5. CASE ClaimsAreCreated
  BY <1>5, ConstantsAssumption
     DEF ClaimsAreCreated, Works, Fails, MayFail, apiVars, redisVars, RestTyped
<1>6. CASE ChildrenAreCollected
  BY <1>6 DEF ChildrenAreCollected, apiVars, redisVars, RestTyped
<1>7. CASE PodsBecomeReady \/ RedisRecovers
  BY <1>7 DEF PodsBecomeReady, RedisRecovers, apiVars, redisVars, RestTyped
<1>8. CASE PodFails \/ RedisFails
  <2>1. faults' \in 0 .. MaxFaults
    BY <1>8, FaultsBound, Zenon DEF PodFails, RedisFails
  <2>2. /\ UNCHANGED <<cacheFresh, memFresh, sts, slots, size, handedOff, pvcs, edits>>
        /\ podsReady' \in {podsReady, FALSE} /\ failing' \in {failing, TRUE}
    BY <1>8 DEF PodFails, RedisFails, apiVars, redisVars
  <2>. QED
    BY <2>1, <2>2, Zenon DEF RestTyped
<1>9. CASE UNCHANGED vars
  BY <1>9 DEF vars, apiVars, redisVars, RestTyped
<1>. QED
  BY <1>2, <1>3, <1>4, <1>5, <1>6, <1>7, <1>8, <1>9, Zenon

\* What doReconcile does: the children get the copy's masters and config, the
\* cluster its masters, and the failover its config.
LEMMA ReconcileTyped == ASSUME Typed, RestTyped, Reconcile PROVE RestTyped'
<1>. DEFINE Faulty == Works \/ \E f \in AllFaults : Fails(f)
<1>. AllFaults = {"write", "configmap", "form", "redis", "pods", "list", "pvc", "lateclaim", "crash"}
  BY DEF AllFaults
<1>. {"Initializing", "Failed", "Ready"} \subseteq Phases
  BY DEF Phases
<1>. mem.masters \in MastersRange /\ mem.config \in Configs /\ mem.phase \in Phases
  BY ObjectFields, Zenon DEF Typed
<1>0. ASSUME cacheFresh' \in BOOLEAN, memFresh' \in BOOLEAN, faults' \in 0 .. MaxFaults,
             UNCHANGED <<sts, podsReady, redisVars, handedOff, edits>>, pvcs' \in BOOLEAN
      PROVE  RestTyped'
  BY <1>0 DEF redisVars, RestTyped
<1>1. CASE Get
  BY <1>1 DEF Get, apiVars, redisVars, RestTyped
<1>2. CASE DeletePVCs
  <2>1. Faulty
    BY <1>2, Zenon DEF DeletePVCs
  <2>2. pvcs' \in BOOLEAN
    BY <1>2, Zenon DEF DeletePVCs, RestTyped
  <2>3. cacheFresh' \in BOOLEAN /\ memFresh' \in BOOLEAN
    BY <1>2, Zenon DEF DeletePVCs, apiVars, RestTyped
  <2>. QED
    BY <1>0, <1>2, <2>1, <2>2, <2>3, FaultsBound, Zenon DEF DeletePVCs
<1>3. CASE RemoveFinalizer \/ AddFinalizer
  <2>1. Faulty
    BY <1>3, Zenon DEF RemoveFinalizer, AddFinalizer
  <2>2. \/ \E f \in BOOLEAN : UpdateFinalizer(f)
        \/ UNCHANGED <<apiVars, memFresh>>
    BY <1>3, Zenon DEF RemoveFinalizer, AddFinalizer
  <2>3. pvcs' \in BOOLEAN /\ UNCHANGED <<sts, podsReady, redisVars, handedOff, edits>>
    BY <1>3, Zenon DEF RemoveFinalizer, AddFinalizer, RestTyped
  <2>. QED
    BY <1>0, <2>1, <2>2, <2>3, FaultsBound, FreshTyped, Zenon
<1>4. CASE InitializePhase
  <2>1. Faulty
    BY <1>4, Zenon DEF InitializePhase
  <2>2. \/ \E p \in Phases : StatusUpdate(p)
        \/ UNCHANGED <<apiVars, memFresh>>
    BY <1>4, Zenon DEF InitializePhase
  <2>3. pvcs' \in BOOLEAN /\ UNCHANGED <<sts, podsReady, redisVars, handedOff, edits>>
    BY <1>4, Zenon DEF InitializePhase, RestTyped
  <2>. QED
    BY <1>0, <2>1, <2>2, <2>3, FaultsBound, FreshTyped, Zenon
<1>5. CASE ReconcileChildren
  <2>. DEFINE template == [masters |-> mem.masters, config |-> mem.config]
  <2>1. Faulty
    BY <1>5, Zenon DEF ReconcileChildren
  <2>2. \/ \E p \in Phases : StatusUpdate(p)
        \/ UNCHANGED <<apiVars, memFresh>>
    BY <1>5, Zenon DEF ReconcileChildren
  <2>3. UNCHANGED <<sts, podsReady>> \/ Apply(template)
    BY <1>5, Zenon DEF ReconcileChildren
  <2>4. sts'.masters \in MastersRange \cup {0} /\ sts'.config \in Configs \cup {"none"}
    <3>1. CASE sts' = sts
      BY <3>1, Zenon DEF RestTyped
    <3>2. CASE sts' = template
      BY <3>2
    <3>. QED
      BY <2>3, <3>1, <3>2, Zenon DEF Apply
  <2>5. podsReady' \in BOOLEAN
    BY <2>3, Zenon DEF Apply, RestTyped
  <2>6. UNCHANGED <<slots, size, failing, handedOff, pvcs, edits>>
    BY <1>5 DEF ReconcileChildren, redisVars
  <2>7. faults' \in 0 .. MaxFaults /\ cacheFresh' \in BOOLEAN /\ memFresh' \in BOOLEAN
    BY <2>1, <2>2, FaultsBound, FreshTyped, Zenon
  <2>. QED
    BY <2>4, <2>5, <2>6, <2>7 DEF RestTyped
<1>6. CASE Lifecycle
  <2>1. Faulty
    BY <1>6, Zenon DEF Lifecycle
  <2>2. UNCHANGED <<apiVars, memFresh, sts, podsReady, redisVars, handedOff, pvcs, edits>>
    BY <1>6, Zenon DEF Lifecycle
  <2>. QED
    BY <1>0, <2>1, <2>2, FaultsBound, FreshTyped, Zenon DEF RestTyped
<1>7. CASE FormCluster
  <2>1. Faulty
    BY <1>7, Zenon DEF FormCluster
  <2>2. \/ \E p \in Phases : StatusUpdate(p)
        \/ UNCHANGED <<apiVars, memFresh>>
    BY <1>7, Zenon DEF FormCluster
  <2>3. slots' \in {"none", "some", "all", "lost"} /\ size' \in Nat
    <3>1. \/ slots' = slots /\ size' = size
          \/ slots' = "all" /\ size' = mem.masters
          \/ slots' = "some" /\ size' \in 1 .. mem.masters - 1
      BY <1>7, Zenon DEF FormCluster
    <3>2. slots \in {"none", "some", "all", "lost"} /\ size \in Nat /\ mem.masters \in Nat
      BY ConstantsAssumption, Zenon DEF RestTyped
    <3>. QED
      BY <3>1, <3>2
  <2>4. UNCHANGED <<sts, podsReady, failing, handedOff, pvcs, edits>>
    BY <1>7, Zenon DEF FormCluster
  <2>5. faults' \in 0 .. MaxFaults /\ cacheFresh' \in BOOLEAN /\ memFresh' \in BOOLEAN
    BY <2>1, <2>2, FaultsBound, FreshTyped, Zenon
  <2>. QED
    BY <2>3, <2>4, <2>5 DEF RestTyped
<1>8. CASE Scale
  <2>1. Faulty
    BY <1>8, Zenon DEF Scale
  <2>2. slots' \in {"none", "some", "all", "lost"} /\ size' \in Nat
    <3>1. \/ slots' = slots /\ size' \in size .. mem.masters
          \/ slots' \in {"all", "lost"} /\ size' \in mem.masters .. size
      BY <1>8, Zenon DEF Scale
    <3>2. slots \in {"none", "some", "all", "lost"} /\ size \in Nat /\ mem.masters \in Nat
      BY ConstantsAssumption, Zenon DEF RestTyped
    <3>. QED
      BY <3>1, <3>2
  <2>3. UNCHANGED <<apiVars, memFresh, sts, podsReady, failing, handedOff, pvcs, edits>>
    BY <1>8, Zenon DEF Scale
  <2>4. faults' \in 0 .. MaxFaults /\ cacheFresh' \in BOOLEAN /\ memFresh' \in BOOLEAN
    BY <2>1, <2>3, FaultsBound, FreshTyped, Zenon
  <2>. QED
    BY <2>2, <2>3, <2>4 DEF RestTyped
<1>9. CASE RollingFailover
  <2>1. Faulty
    BY <1>9, Zenon DEF RollingFailover
  <2>2. cacheFresh' \in BOOLEAN /\ memFresh' \in BOOLEAN
    BY <1>9, Zenon DEF RollingFailover, apiVars, RestTyped
  <2>3. handedOff' \in Configs \cup {"none"}
    BY <1>9, Zenon DEF RollingFailover, RestTyped
  <2>4. UNCHANGED <<sts, podsReady, slots, size, failing, pvcs, edits>>
    BY <1>9 DEF RollingFailover, redisVars
  <2>5. faults' \in 0 .. MaxFaults
    BY <2>1, FaultsBound, Zenon
  <2>. QED
    BY <2>2, <2>3, <2>4, <2>5 DEF RestTyped
<1>10. CASE UpdateStatus
  <2>1. Faulty
    BY <1>10, Zenon DEF UpdateStatus
  <2>2. ASSUME NEW ok PROVE ComputedPhase(ok) \in Phases
    BY Zenon DEF ComputedPhase
  <2>3. \/ \E p \in Phases : StatusUpdate(p)
        \/ UNCHANGED <<apiVars, memFresh>>
    BY <1>10, <2>2, Zenon DEF UpdateStatus
  <2>4. pvcs' \in BOOLEAN /\ UNCHANGED <<sts, podsReady, redisVars, handedOff, edits>>
    BY <1>10, Zenon DEF UpdateStatus, RestTyped
  <2>. QED
    BY <1>0, <2>1, <2>3, <2>4, FaultsBound, FreshTyped, Zenon
<1>. QED
  BY <1>1, <1>2, <1>3, <1>4, <1>5, <1>6, <1>7, <1>8, <1>9, <1>10, Zenon DEF Reconcile

\* The rest of the state keeps its type in every behaviour.
LEMMA RestIsTyped == Spec => []RestTyped
<1>1. Init => RestTyped
  <2>. SUFFICES ASSUME Init PROVE RestTyped
    OBVIOUS
  <2>1. sts.masters = 0 /\ sts.config = "none"
    BY DEF Init
  <2>2. /\ slots \in {"none", "some", "all", "lost"} /\ size \in Nat
        /\ edits \in 0 .. MaxEdits /\ faults \in 0 .. MaxFaults
    <3>1. slots = "none" /\ size = 0 /\ edits = 0 /\ faults = 0
      BY DEF Init
    <3>2. MaxEdits \in Nat /\ MaxFaults \in Nat
      BY ConstantsAssumption, Zenon
    <3>. QED
      BY <3>1, <3>2
  <2>. QED
    BY <2>1, <2>2, Zenon DEF Init, RestTyped
<1>2. Typed /\ RestTyped /\ [Next]_vars => RestTyped'
  BY EnvironmentTyped, ReconcileTyped, Zenon DEF Next
<1>3. IInv => Typed
  BY DEF IInv
<1>. QED
  BY <1>1, <1>2, <1>3, Invariance, PTL DEF Spec

\* The answer of a merge patch replaces the copy in the middle of a reconcile and
\* a stale copy is written back: whatever the order, only phases, hashes and
\* replica counts that the code has names for are ever stored.
THEOREM ClusterTypeCorrect == Spec => []TypeOK
<1>1. IInv /\ RestTyped => TypeOK
  BY Zenon DEF IInv, Typed, RestTyped, TypeOK, PCs
<1>. QED
  BY <1>1, Invariance, RestIsTyped, PTL

(***************************************************************************)
(* The promise of the finalizer.  The stage of the protocol is what the    *)
(* stored object's flags say; the proof maps each step of the control      *)
(* plane to a step of FinalizerProtocol or to a stutter.  Stale copies     *)
(* matter at three places: the finalizer is added only from a copy that    *)
(* showed no deletion and is current, the claims are deleted by a          *)
(* reconcile whose object may be gone already, and the finalizer is taken  *)
(* off by one that has seen the deletion and deleted the claims.           *)
(***************************************************************************)

\* The stage the stored object is in, as the refinement mapping has it.
Stage == IF ~obj.exists THEN "gone" ELSE IF obj.deleting THEN "terminating"
         ELSE IF obj.finalizer THEN "live" ELSE "new"

\* A reconcile adds the finalizer because its copy showed no deletion.
AddsToUndeleted == pc = "finalizer" => ~mem.deleting

\* The steps of the protocol in terms of the stage and the claims.
LEMMA ProtocolSteps ==
  ASSUME \/ Stage' = Stage /\ pvcs' = pvcs
         \/ Stage = "new" /\ Stage' = "live" /\ pvcs' = pvcs
         \/ Stage = "new" /\ Stage' = "gone" /\ pvcs' = pvcs
         \/ Stage = "live" /\ Stage' = "terminating" /\ pvcs' = pvcs
         \/ Stage = "live" /\ Stage' = Stage /\ pvcs' = TRUE
         \/ Stage = "terminating" /\ Stage' = Stage /\ pvcs' = FALSE
         \/ Stage = "terminating" /\ ~pvcs /\ Stage' = "gone" /\ pvcs' = pvcs
  PROVE  [Protocol!Next]_(Protocol!vars)
  BY Zenon DEF Stage, Protocol!Next, Protocol!vars, Protocol!StoreFinalizer, Protocol!Delete,
               Protocol!CreateVolumes, Protocol!CleanUp, Protocol!RemoveFinalizer

\* The stage depends on the three flags only.
LEMMA StageOfFlags ==
  ASSUME obj'.exists = obj.exists, obj'.deleting = obj.deleting, obj'.finalizer = obj.finalizer
  PROVE  Stage' = Stage
  BY Zenon DEF Stage

\* The operator's own steps other than those of the finalizer and the claims
\* leave the stage: they store a phase, or a hash.
LEMMA WorkKeepsStage ==
  ASSUME Typed,
         \/ Get \/ InitializePhase \/ ReconcileChildren \/ Lifecycle \/ FormCluster \/ Scale
         \/ RollingFailover \/ UpdateStatus
  PROVE  Stage' = Stage /\ pvcs' = pvcs
<1>. {"Initializing", "Failed", "Ready"} \subseteq Phases
  BY DEF Phases
<1>. mem.config \in Configs /\ mem.phase \in Phases
  BY ObjectFields, Zenon DEF Typed
<1>1. pvcs' = pvcs
  BY DEF Get, InitializePhase, ReconcileChildren, Lifecycle, FormCluster, Scale,
         RollingFailover, UpdateStatus
<1>2. ASSUME NEW p \in Phases, StatusUpdate(p) PROVE Stage' = Stage
  BY <1>2, StatusUpdateEffect, StageOfFlags, Zenon
<1>3. CASE obj' = obj
  BY <1>1, <1>3, StageOfFlags, Zenon
<1>4. CASE obj' = [obj EXCEPT !.hash = mem.config]
  BY <1>1, <1>4, HashField, StageOfFlags, Zenon DEF Typed
<1>5. CASE Get \/ Lifecycle \/ Scale
  BY <1>3, <1>5, Zenon DEF Get, Lifecycle, Scale, apiVars
<1>6. CASE InitializePhase \/ ReconcileChildren \/ FormCluster
  BY <1>2, <1>3, <1>6, Zenon DEF InitializePhase, ReconcileChildren, FormCluster, apiVars
<1>7. CASE RollingFailover
  BY <1>3, <1>4, <1>7, Zenon DEF RollingFailover, apiVars
<1>8. CASE UpdateStatus
  <2>1. ASSUME NEW ok PROVE ComputedPhase(ok) \in Phases
    BY Zenon DEF ComputedPhase
  <2>. QED
    BY <1>2, <1>3, <1>8, <2>1, Zenon DEF UpdateStatus, apiVars
<1>. QED
  BY <1>1, <1>5, <1>6, <1>7, <1>8, Zenon

\* The users' edits leave the stage, and a delete moves it on.
LEMMA UsersStage ==
  ASSUME Typed,
         \/ \E m \in MastersRange : UserScales(m)
         \/ \E c \in Configs : UserConfigures(c)
         \/ UserDeletes
  PROVE  /\ pvcs' = pvcs
         /\ \/ Stage' = Stage
            \/ Stage = "new" /\ Stage' = "gone"
            \/ Stage = "live" /\ Stage' = "terminating"
<1>. obj \in Objects
  BY DEF Typed
<1>1. pvcs' = pvcs
  BY Zenon DEF UserScales, UserConfigures, UserDeletes, ForeignWrite
<1>2. ASSUME NEW m \in MastersRange, UserScales(m) PROVE Stage' = Stage
  BY <1>2, MastersField, StageOfFlags, Zenon DEF UserScales, ForeignWrite
<1>3. ASSUME NEW c \in Configs, UserConfigures(c) PROVE Stage' = Stage
  BY <1>3, ConfigField, StageOfFlags, Zenon DEF UserConfigures, ForeignWrite
<1>4. CASE UserDeletes
  <2>1. obj.finalizer \in BOOLEAN
    BY ObjectFields, Zenon
  <2>2. obj'.exists = obj.finalizer /\ obj'.deleting = TRUE
    BY <1>4, <2>1, DeleteFields, Zenon DEF UserDeletes, ForeignWrite
  <2>3. obj.exists /\ ~obj.deleting
    BY <1>4, Zenon DEF UserDeletes
  <2>. QED
    BY <1>1, <2>2, <2>3, Zenon DEF Stage
<1>. QED
  BY <1>1, <1>2, <1>3, <1>4, Zenon

\* The finalizer is added to a stored object that has none and is not deleted:
\* the write is refused unless the copy is current.
LEMMA AddFinalizerStage ==
  ASSUME IInv, AddsToUndeleted, AddFinalizer
  PROVE  /\ pvcs' = pvcs
         /\ Stage' = Stage \/ (Stage = "new" /\ Stage' = "live")
<1>1. pvcs' = pvcs /\ pc = "finalizer"
  BY DEF AddFinalizer
<1>2. CASE UpdateFinalizer(TRUE) /\ memFresh /\ obj.exists /\ Admits
  <2>1. ~obj.deleting /\ Typed
    BY <1>1, <1>2, Zenon DEF IInv, CopiesTellDeletion, AddsToUndeleted
  <2>2. obj'.deleting = obj.deleting
    BY <1>2, <2>1, UpdateFinalizerEffect, Zenon
  <2>3. (obj'.finalizer = TRUE /\ obj'.exists = TRUE) \/ obj' = obj
    BY <1>2, <2>1, UpdateFinalizerEffect, Zenon
  <2>. QED
    BY <1>1, <1>2, <2>1, <2>2, <2>3, Zenon DEF Stage
<1>3. CASE obj' = obj
  BY <1>1, <1>3, StageOfFlags, Zenon
<1>. QED
  BY <1>2, <1>3, Zenon DEF AddFinalizer, UpdateFinalizer, apiVars

\* The claims are deleted of an object that is terminating; when another
\* reconcile has let it go already, no claim is left.
LEMMA DeletePVCsStage ==
  ASSUME IInv, RestTyped, ClaimsInTime, DeletePVCs
  PROVE  /\ Stage' = Stage
         /\ pvcs' = pvcs \/ (Stage = "terminating" /\ pvcs' = FALSE)
<1>1. obj' = obj /\ pc = "pvcs" /\ (pvcs' = pvcs \/ pvcs' = FALSE)
  BY Zenon DEF DeletePVCs, apiVars
<1>2. Stage' = Stage
  BY <1>1, StageOfFlags, Zenon
<1>3. obj.deleting
  <2>1. pc \in Deleting
    BY <1>1 DEF Deleting
  <2>. QED
    BY <2>1, Zenon DEF IInv, CopiesTellDeletion
<1>4. CASE obj.exists
  BY <1>1, <1>2, <1>3, <1>4, Zenon DEF Stage
<1>5. CASE ~obj.exists
  BY <1>1, <1>2, <1>5, Zenon DEF IInv, CopiesTellFinalizer, RestTyped
<1>. QED
  BY <1>4, <1>5, Zenon

\* The finalizer is taken off a terminating object whose claims are deleted.
LEMMA RemoveFinalizerStage ==
  ASSUME IInv, ClaimsInTime, RemoveFinalizer
  PROVE  /\ pvcs' = pvcs
         /\ Stage' = Stage \/ (Stage = "terminating" /\ ~pvcs /\ Stage' = "gone")
<1>1. pvcs' = pvcs /\ pc = "removeFinalizer"
  BY DEF RemoveFinalizer
<1>2. obj.deleting /\ ~pvcs
  <2>1. pc \in Deleting
    BY <1>1 DEF Deleting
  <2>. QED
    BY <1>1, <2>1, Zenon DEF IInv, CopiesTellDeletion, CopiesTellFinalizer
<1>3. CASE UpdateFinalizer(FALSE)
  <2>1. obj' = obj \/ (obj.exists /\ ~obj'.exists)
    BY <1>2, <1>3, UpdateFinalizerEffect, Zenon DEF IInv
  <2>. QED
    BY <1>1, <1>2, <2>1, StageOfFlags, Zenon DEF Stage
<1>4. CASE obj' = obj
  BY <1>1, <1>4, StageOfFlags, Zenon
<1>. QED
  BY <1>3, <1>4, Zenon DEF RemoveFinalizer, apiVars

\* The StatefulSet controller creates claims while the object is live.
LEMMA ClaimsStage ==
  ASSUME IInv, ClaimsInTime, ClaimsAreCreated
  PROVE  Stage = "live" /\ Stage' = Stage /\ pvcs' = TRUE
<1>1. obj' = obj /\ pvcs' = TRUE /\ sts.masters > 0 /\ ~obj.deleting
  BY Zenon DEF ClaimsAreCreated, Fails, MayFail, ClaimsInTime, apiVars
<1>2. obj.exists /\ obj.finalizer
  BY <1>1, Zenon DEF IInv, CopiesTellFinalizer
<1>. QED
  BY <1>1, <1>2, StageOfFlags, Zenon DEF Stage

\* Nothing else touches the object or the claims.
LEMMA RestKeepsStage ==
  ASSUME \/ OperatorCrashes \/ CacheSyncs \/ ChildrenAreCollected
         \/ PodsBecomeReady \/ PodFails \/ RedisFails \/ RedisRecovers \/ UNCHANGED vars
  PROVE  Stage' = Stage /\ pvcs' = pvcs
<1>1. obj' = obj /\ pvcs' = pvcs
  BY DEF OperatorCrashes, CacheSyncs, ChildrenAreCollected, PodsBecomeReady, PodFails,
         RedisFails, RedisRecovers, vars, apiVars
<1>. QED
  BY <1>1, StageOfFlags, Zenon

\* Only Get starts to add a finalizer, and it looks at the deletion first.
LEMMA AddsToUndeletedKept == AddsToUndeleted /\ [Next]_vars => AddsToUndeleted'
<1>. SUFFICES ASSUME AddsToUndeleted, [Next]_vars PROVE AddsToUndeleted'
  OBVIOUS
<1>1. CASE Get
  <2>1. mem' = cache
    BY <1>1 DEF Get
  <2>2. pc' = "finalizer" => ~cache.deleting
    BY <1>1 DEF Get
  <2>. QED
    BY <2>1, <2>2, Zenon DEF AddsToUndeleted
<1>2. CASE \/ DeletePVCs \/ RemoveFinalizer \/ AddFinalizer \/ InitializePhase
           \/ ReconcileChildren \/ Lifecycle \/ FormCluster \/ Scale \/ RollingFailover
           \/ UpdateStatus \/ OperatorCrashes
  <2>1. pc' # "finalizer"
    BY <1>2 DEF DeletePVCs, RemoveFinalizer, AddFinalizer, InitializePhase, ReconcileChildren,
                Lifecycle, FormCluster, Scale, RollingFailover, UpdateStatus, OperatorCrashes
  <2>. QED
    BY <2>1, Zenon DEF AddsToUndeleted
<1>3. CASE \/ CacheSyncs \/ ClaimsAreCreated \/ ChildrenAreCollected \/ PodsBecomeReady
           \/ PodFails \/ RedisFails \/ RedisRecovers \/ UNCHANGED vars
           \/ \E m \in MastersRange : UserScales(m)
           \/ \E c \in Configs : UserConfigures(c)
           \/ UserDeletes
  <2>1. pc' = pc /\ mem' = mem
    BY <1>3 DEF CacheSyncs, ClaimsAreCreated, ChildrenAreCollected, PodsBecomeReady, PodFails,
                RedisFails, RedisRecovers, vars, UserScales, UserConfigures, UserDeletes,
                ForeignWrite
  <2>. QED
    BY <2>1, Zenon DEF AddsToUndeleted
<1>. QED
  BY <1>1, <1>2, <1>3, Zenon DEF Next, Reconcile

\* When the claims come in time and are listed, every step of the control plane
\* is a step the finalizer's protocol allows: through stale copies, conflicts,
\* failed writes, refusals of the webhook and restarts, volumes are created only
\* under the stored finalizer, and it is taken off only after they are deleted.
THEOREM KeepsFinalizerPromise ==
  ASSUME ClaimsInTime
  PROVE  Spec => Protocol!Init /\ [][Protocol!Next]_(Protocol!vars)
<1>1. Init => Protocol!Init /\ AddsToUndeleted
  <2>. SUFFICES ASSUME Init PROVE Protocol!Init /\ AddsToUndeleted
    OBVIOUS
  <2>1. obj.exists /\ ~obj.deleting /\ ~obj.finalizer /\ pvcs = FALSE /\ pc = "idle"
    BY DEF Init
  <2>2. pc # "finalizer"
    BY <2>1
  <2>. QED
    BY <2>1, <2>2, Zenon DEF Protocol!Init, AddsToUndeleted
<1>2. IInv /\ RestTyped /\ AddsToUndeleted /\ [Next]_vars => [Protocol!Next]_(Protocol!vars)
  <2>. SUFFICES ASSUME IInv, RestTyped, AddsToUndeleted, [Next]_vars
                PROVE  [Protocol!Next]_(Protocol!vars)
    OBVIOUS
  <2>. Typed
    BY DEF IInv
  <2>1. CASE \/ Get \/ InitializePhase \/ ReconcileChildren \/ Lifecycle \/ FormCluster \/ Scale
             \/ RollingFailover \/ UpdateStatus
    BY <2>1, WorkKeepsStage, ProtocolSteps, Zenon
  <2>2. CASE \/ \E m \in MastersRange : UserScales(m)
             \/ \E c \in Configs : UserConfigures(c)
             \/ UserDeletes
    BY <2>2, UsersStage, ProtocolSteps, Zenon
  <2>3. CASE AddFinalizer
    BY <2>3, AddFinalizerStage, ProtocolSteps, Zenon
  <2>4. CASE DeletePVCs
    BY <2>4, DeletePVCsStage, ProtocolSteps, Zenon
  <2>5. CASE RemoveFinalizer
    BY <2>5, RemoveFinalizerStage, ProtocolSteps, Zenon
  <2>6. CASE ClaimsAreCreated
    BY <2>6, ClaimsStage, ProtocolSteps, Zenon
  <2>7. CASE \/ OperatorCrashes \/ CacheSyncs \/ ChildrenAreCollected
             \/ PodsBecomeReady \/ PodFails \/ RedisFails \/ RedisRecovers \/ UNCHANGED vars
    BY <2>7, RestKeepsStage, ProtocolSteps, Zenon
  <2>. QED
    BY <2>1, <2>2, <2>3, <2>4, <2>5, <2>6, <2>7, Zenon DEF Next, Reconcile
<1>. QED
  BY <1>1, <1>2, AddsToUndeletedKept, Invariance, RestIsTyped, PTL DEF Spec
=============================================================================
