------------------------- MODULE SentinelReconciler -------------------------
(***************************************************************************)
(* doReconcile of redissentinel_controller.go and the routing it is there  *)
(* for: reconcileRoleLabels asks a Sentinel for the master, finds its pod  *)
(* by IP and labels the pods, and the Services select pods by that label.  *)
(*                                                                         *)
(* Meanwhile pods die and come back under another IP and without a role    *)
(* label, Sentinel fails over, a Sentinel lags behind or starts again from *)
(* its ConfigMap, and the informer shows pods and labels of the past.      *)
(*                                                                         *)
(* Deletion and the finalizer work as in module ClusterReconciler and are  *)
(* left out.  An IP is the pod and how often it was started.               *)
(***************************************************************************)
EXTENDS Naturals, FiniteSets

CONSTANTS
    NumPods,       \* spec.replicas: pods 0 .. NumPods - 1
    Sentinels,     \* the Sentinel pods behind the Sentinel Service
    HasClient,     \* the reconciler was given a RedisClient; FALSE as built
    Faults,        \* which calls may fail
    MaxDeaths,     \* bound on deaths of pods and on handovers
    MaxRestarts,   \* bound on restarts of Sentinels
    MaxFaults      \* bound on failed calls and operator crashes

Pods  == 0 .. NumPods - 1
NoPod == NumPods  \* the empty status.masterNode

ASSUME PodsAssumption   == NumPods \in Nat \ {0} /\ Sentinels # {}
ASSUME BoundsAssumption == /\ HasClient \in BOOLEAN
                           /\ Faults \subseteq {"configmap", "write", "sentinel", "list", "patch", "crash"}
                           /\ MaxDeaths \in Nat /\ MaxRestarts \in Nat /\ MaxFaults \in Nat

VARIABLES
    created,    \* the StatefulSet exists
    up,         \* pods that run; the others have no object
    gen,        \* how often each pod was started
    label,      \* role label of each pod
    seen,       \* each pod as the informer cache shows it
    elected,    \* the master's address, after Sentinel's last failover
    view,       \* the address each Sentinel answers
    phase, masterNode,  \* status in the API server
    pc,         \* where doReconcile is
    mem,        \* phase and masterNode in rs
    target,     \* masterPodName
    listed,     \* labels in the pod list this reconcile works on
    todo,       \* pods of that list not yet visited
    deaths, restarts, faults

podVars      == <<up, gen, label>>
sentinelVars == <<elected, view>>
statusVars   == <<phase, masterNode>>
memVars      == <<pc, mem, target, listed, todo>>
vars == <<created, podVars, seen, sentinelVars, statusVars, memVars, deaths, restarts, faults>>

Address(p) == [pod |-> p, gen |-> gen[p]]

Init ==
    /\ created = FALSE /\ up = {} /\ gen = [p \in Pods |-> 0] /\ label = [p \in Pods |-> "none"]
    /\ seen = [p \in Pods |-> [up |-> FALSE, gen |-> 0, label |-> "none"]]
    /\ elected = [pod |-> 0, gen |-> 1] /\ view = [s \in Sentinels |-> elected]
    /\ phase = "" /\ masterNode = NoPod
    /\ pc = "idle" /\ mem = [phase |-> "", master |-> NoPod]
    /\ target = 0 /\ listed = label /\ todo = {}
    /\ deaths = 0 /\ restarts = 0 /\ faults = 0

(***************************************************************************)
(* Pods, Sentinel and the informer (external).                             *)
(***************************************************************************)

\* A pod of the StatefulSet starts, with the template's labels only.
PodStarts(p) ==
    /\ created /\ p \notin up
    /\ up' = up \cup {p} /\ gen' = [gen EXCEPT ![p] = @ + 1]
    /\ UNCHANGED <<created, label, seen, sentinelVars, statusVars, memVars, deaths, restarts, faults>>

PodDies(p) ==
    /\ p \in up /\ deaths < MaxDeaths /\ deaths' = deaths + 1
    /\ up' = up \ {p} /\ label' = [label EXCEPT ![p] = "none"]
    /\ UNCHANGED <<created, gen, seen, sentinelVars, statusVars, memVars, restarts, faults>>

\* The address Sentinel calls master answers.
MasterLives == elected.pod \in up /\ elected.gen = gen[elected.pod]

Elect(q, s) ==
    /\ elected' = Address(q) /\ view' = [view EXCEPT ![s] = Address(q)]

\* Sentinel's own failover, seen first by the Sentinel that led it.
Failover(q, s) ==
    /\ ~MasterLives /\ gen[0] > 0 /\ q \in up /\ Elect(q, s)
    /\ UNCHANGED <<created, podVars, seen, statusVars, memVars, deaths, restarts, faults>>

\* The pre-stop hook of the master pod: SENTINEL FAILOVER while it still runs.
PreStop(q, s) ==
    /\ MasterLives /\ q \in up \ {elected.pod} /\ deaths < MaxDeaths
    /\ deaths' = deaths + 1 /\ Elect(q, s)
    /\ UNCHANGED <<created, podVars, seen, statusVars, memVars, restarts, faults>>

SentinelLearns(s) ==
    /\ view[s] # elected /\ view' = [view EXCEPT ![s] = elected]
    /\ UNCHANGED <<created, podVars, seen, elected, statusVars, memVars, deaths, restarts, faults>>

\* A Sentinel starts again from sentinel.conf, which names pod 0; another one
\* still knows the master.
SentinelRestarts(s) ==
    /\ restarts < MaxRestarts /\ restarts' = restarts + 1
    /\ \E t \in Sentinels \ {s} : view[t] = elected
    /\ view' = [view EXCEPT ![s] = Address(0)]
    /\ UNCHANGED <<created, podVars, seen, elected, statusVars, memVars, deaths, faults>>

CacheSyncs(p) ==
    LET now == [up |-> p \in up, gen |-> gen[p], label |-> label[p]]
    IN  /\ seen[p] # now /\ seen' = [seen EXCEPT ![p] = now]
        /\ UNCHANGED <<created, podVars, sentinelVars, statusVars, memVars, deaths, restarts, faults>>

(***************************************************************************)
(* doReconcile.                                                            *)
(***************************************************************************)

Fails(f) == f \in Faults /\ faults < MaxFaults /\ faults' = faults + 1
Works    == UNCHANGED faults

\* Get, the first status update, ConfigMaps, StatefulSet, Deployment, Services
\* and PDBs.  A failed Redis ConfigMap stores the phase Failed, if that write
\* works; any other failed write returns, before or after the StatefulSet.
ReconcileChildren ==
    LET first == IF phase = "" THEN "Initializing" ELSE phase
    IN  /\ pc = "idle"
        /\ \/ /\ created' = TRUE /\ phase' = first /\ pc' = "query" /\ Works
              /\ mem' = [phase |-> first, master |-> masterNode]
           \/ /\ Fails("configmap") /\ phase' \in {first, "Failed"} /\ UNCHANGED <<created, pc>>
              /\ mem' = [phase |-> "Failed", master |-> masterNode]
           \/ /\ Fails("write") /\ phase' \in {phase, first} /\ UNCHANGED pc
              /\ created' \in {created, phase' # ""}
              /\ mem' = [phase |-> first, master |-> masterNode]
        /\ UNCHANGED <<podVars, seen, sentinelVars, masterNode, target, listed, todo, deaths, restarts>>

\* Mutant: the resolved pod is one ordinal off.
ResolveNext(addr) ==
    IF seen[addr.pod].up /\ seen[addr.pod].gen = addr.gen THEN addr.pod + 1 ELSE 0

\* The pod whose IP a Sentinel answered, and pod 0 when no listed pod has it.
Resolve(addr) ==
    IF seen[addr.pod].up /\ seen[addr.pod].gen = addr.gen THEN addr.pod ELSE 0

\* reconcileRoleLabels: pod 0 is also the answer without a client, and when
\* Sentinel or the list of pods cannot be read.
DiscoverMaster ==
    /\ pc = "query" /\ pc' = "list"
    /\ \/ HasClient /\ Works /\ \E s \in Sentinels : target' = Resolve(view[s])
       \/ HasClient /\ (Fails("sentinel") \/ Fails("list")) /\ target' = 0
       \/ ~HasClient /\ Works /\ target' = 0
    /\ UNCHANGED <<created, podVars, seen, sentinelVars, statusVars, mem, listed, todo, deaths, restarts>>

ListPods ==
    /\ pc = "list"
    /\ \/ /\ todo' = {p \in Pods : seen[p].up} /\ listed' = [p \in Pods |-> seen[p].label]
          /\ pc' = "patch" /\ Works
       \/ Fails("list") /\ pc' = "status" /\ UNCHANGED <<todo, listed>>
    /\ UNCHANGED <<created, podVars, seen, sentinelVars, statusVars, mem, target, deaths, restarts>>

Role(p) == IF p = target THEN "master" ELSE "replica"

\* Mutant: a pod that has a role label is skipped, whatever its value.
PatchPodOnce(p) ==
    /\ pc = "patch" /\ p \in todo /\ \A q \in todo : p <= q
    /\ todo' = todo \ {p}
    /\ label' = IF listed[p] = "none" /\ p \in up THEN [label EXCEPT ![p] = Role(p)] ELSE label
    /\ UNCHANGED <<created, up, gen, seen, sentinelVars, statusVars, pc, mem, target, listed,
                   deaths, restarts, faults>>

\* One pod of the list: a label that already is right there is not written, an
\* error of Patch is dropped.
PatchPod(p) ==
    /\ pc = "patch" /\ p \in todo /\ \A q \in todo : p <= q
    /\ todo' = todo \ {p}
    /\ \/ /\ listed[p] # Role(p) /\ p \in up /\ Works
          /\ label' = [label EXCEPT ![p] = Role(p)]
       \/ (listed[p] = Role(p) \/ p \notin up) /\ UNCHANGED label /\ Works
       \/ listed[p] # Role(p) /\ Fails("patch") /\ UNCHANGED label
    /\ UNCHANGED <<created, up, gen, seen, sentinelVars, statusVars, pc, mem, target, listed, deaths, restarts>>

RecordMaster ==
    /\ pc = "patch" /\ todo = {}
    /\ pc' = "status" /\ mem' = [mem EXCEPT !.master = target]
    /\ UNCHANGED <<created, podVars, seen, sentinelVars, statusVars, target, listed, todo, deaths,
                   restarts, faults>>

\* Mutant: a phase Failed is kept although all pods are ready.
UpdateStatusKeepsFailed ==
    LET allReady == \A p \in Pods : seen[p].up
        next == IF mem.phase = "Failed" THEN "Failed" ELSE IF allReady THEN "Ready" ELSE "Initializing"
    IN  /\ pc = "status" /\ pc' = "idle"
        /\ \/ phase' = next /\ masterNode' = mem.master /\ Works
           \/ (Fails("write") \/ Fails("list")) /\ UNCHANGED statusVars
        /\ UNCHANGED <<created, podVars, seen, sentinelVars, mem, target, listed, todo, deaths, restarts>>

\* updateSentinelStatus; the Sentinels are taken to be ready.
UpdateStatus ==
    LET allReady == \A p \in Pods : seen[p].up
        next == IF allReady THEN "Ready"
                ELSE IF mem.phase # "Failed" THEN "Initializing" ELSE "Failed"
    IN  /\ pc = "status" /\ pc' = "idle"
        /\ \/ phase' = next /\ masterNode' = mem.master /\ Works
           \/ (Fails("write") \/ Fails("list")) /\ UNCHANGED statusVars
        /\ UNCHANGED <<created, podVars, seen, sentinelVars, mem, target, listed, todo, deaths, restarts>>

OperatorCrashes ==
    /\ pc # "idle" /\ Fails("crash") /\ pc' = "idle"
    /\ UNCHANGED <<created, podVars, seen, sentinelVars, statusVars, mem, target, listed, todo, deaths, restarts>>

Reconcile ==
    \/ ReconcileChildren \/ DiscoverMaster \/ ListPods
    \/ (\E p \in Pods : PatchPod(p)) \/ RecordMaster \/ UpdateStatus

Next ==
    \/ Reconcile \/ OperatorCrashes
    \/ \E p \in Pods : PodStarts(p) \/ PodDies(p) \/ CacheSyncs(p)
    \/ \E q \in Pods, s \in Sentinels : Failover(q, s) \/ PreStop(q, s)
    \/ \E s \in Sentinels : SentinelLearns(s) \/ SentinelRestarts(s)

Spec == Init /\ [][Next]_vars

\* The object is reconciled at least every 30 seconds; the StatefulSet starts
\* its pods, Sentinels agree and fail over, the informer catches up.
Fairness ==
    /\ WF_vars(Reconcile)
    /\ \A p \in Pods : WF_vars(PodStarts(p)) /\ WF_vars(CacheSyncs(p))
    /\ \A s \in Sentinels : WF_vars(SentinelLearns(s))
    /\ WF_vars(\E q \in Pods, s \in Sentinels : Failover(q, s))

FairSpec == Spec /\ Fairness

(***************************************************************************)
(* Properties.                                                             *)
(***************************************************************************)

\* The type of every variable.
TypeOK ==
    /\ created \in BOOLEAN /\ up \subseteq Pods /\ gen \in [Pods -> Nat]
    /\ label \in [Pods -> {"none", "master", "replica"}]
    /\ seen \in [Pods -> [up : BOOLEAN, gen : Nat, label : {"none", "master", "replica"}]]
    /\ elected \in [pod : Pods, gen : Nat]
    /\ view \in [Sentinels -> [pod : Pods, gen : Nat]]
    /\ phase \in {"", "Initializing", "Ready", "Failed"} /\ masterNode \in Pods \cup {NoPod}
    /\ pc \in {"idle", "query", "list", "patch", "status"}
    /\ target \in Pods /\ todo \subseteq Pods
    /\ listed \in [Pods -> {"none", "master", "replica"}]

\* The Services select exactly the pod Sentinel elected as the master.
Routed == MasterLives /\ \A p \in up : (label[p] = "master") <=> (p = elected.pod)

\* However stale the informer's labels and IPs and the asked Sentinel were, and
\* whatever failed, the master Service and status.masterNode end at the elected
\* master once pods stop dying.
RoutingConverges == <>[](Routed /\ masterNode = elected.pod)

\* The phase Failed of a failed ConfigMap write is left once the pods run.
HealthyLeavesFailed == phase = "Failed" ~> phase = "Ready"
=============================================================================
