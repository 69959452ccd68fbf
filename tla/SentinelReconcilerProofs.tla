---------------------- MODULE SentinelReconcilerProofs ----------------------
(***************************************************************************)
(* Proofs about SentinelReconciler, for any number of pods, Sentinels,     *)
(* deaths, restarts and failed calls.                                      *)
(*                                                                         *)
(* That routing and status converge is liveness and is checked by TLC      *)
(* only.  What is proved is the type invariant they rest on: whatever a    *)
(* Sentinel answers and however stale the pod list is, the pod that gets   *)
(* the role label master, and that status.masterNode names, is a pod of    *)
(* this StatefulSet.                                                       *)
(***************************************************************************)
EXTENDS SentinelReconciler, TLAPS

Addresses == [pod : Pods, gen : Nat]
Labels    == {"none", "master", "replica"}
Phases    == {"", "Initializing", "Ready", "Failed"}

\* The copy of the status in the object doReconcile works on.
MemTyped == mem \in [phase : Phases, master : Pods \cup {NoPod}]

\* The type invariant is inductive with the type of that copy, from which the
\* status is written.
IInv == TypeOK /\ MemTyped

USE PodsAssumption DEF Phases

\* There is a pod 0, the one every fallback of reconcileRoleLabels names.
LEMMA PodZero == 0 \in Pods
  BY DEF PodsAssumption, Pods

\* An address is a pod and how often it was started.
LEMMA AddressTyped ==
    ASSUME TypeOK, NEW p \in Pods
    PROVE  Address(p) \in Addresses
  BY DEF TypeOK, Address, Addresses

\* Any address resolves to a pod of the StatefulSet.
LEMMA ResolveTyped ==
    ASSUME TypeOK, NEW a \in Addresses
    PROVE  Resolve(a) \in Pods
  BY PodZero DEF Resolve, Addresses

\* The state before the first reconcile is well typed.
LEMMA InitTyped == Init => IInv
<1> SUFFICES ASSUME Init PROVE IInv OBVIOUS
<1>1. elected \in Addresses BY PodZero DEF Init, Addresses
<1>2. view \in [Sentinels -> Addresses] BY <1>1 DEF Init
<1>3. seen \in [Pods -> [up : BOOLEAN, gen : Nat, label : Labels]] BY DEF Init, Labels
<1>4. label \in [Pods -> Labels] /\ listed \in [Pods -> Labels] BY DEF Init, Labels
<1>5. MemTyped BY DEF Init, MemTyped
<1>6. gen \in [Pods -> Nat] /\ target \in Pods BY PodZero DEF Init
<1> QED BY <1>1, <1>2, <1>3, <1>4, <1>5, <1>6 DEF Init, IInv, TypeOK, Addresses, Labels

\* Pods, Sentinels and the informer.
LEMMA EnvironmentTyped ==
    ASSUME IInv,
           \/ \E p \in Pods : PodStarts(p) \/ PodDies(p) \/ CacheSyncs(p)
           \/ \E q \in Pods, s \in Sentinels : Failover(q, s) \/ PreStop(q, s)
           \/ \E s \in Sentinels : SentinelLearns(s) \/ SentinelRestarts(s)
    PROVE  IInv'
<1> USE DEF podVars, sentinelVars, statusVars, memVars
<1>1. ASSUME NEW p \in Pods, PodStarts(p) PROVE IInv'
  <2>0. gen \in [Pods -> Nat] /\ gen' = [gen EXCEPT ![p] = gen[p] + 1]
    BY <1>1 DEF IInv, TypeOK, PodStarts
  <2>1. gen' \in [Pods -> Nat] BY <2>0
  <2> QED BY <1>1, <2>1 DEF IInv, TypeOK, MemTyped, PodStarts
<1>2. ASSUME NEW p \in Pods, PodDies(p) PROVE IInv'
  <2>1. label' \in [Pods -> Labels] BY <1>2 DEF IInv, TypeOK, PodDies, Labels
  <2> QED BY <1>2, <2>1 DEF IInv, TypeOK, MemTyped, PodDies, Labels
<1>3. ASSUME NEW p \in Pods, CacheSyncs(p) PROVE IInv'
  <2>1. gen[p] \in Nat /\ label[p] \in Labels BY DEF IInv, TypeOK, Labels
  <2>2. [up |-> p \in up, gen |-> gen[p], label |-> label[p]]
          \in [up : BOOLEAN, gen : Nat, label : Labels] BY <2>1
  <2>3. seen \in [Pods -> [up : BOOLEAN, gen : Nat, label : Labels]]
    BY DEF IInv, TypeOK, Labels
  <2>4. seen' \in [Pods -> [up : BOOLEAN, gen : Nat, label : Labels]]
    BY <1>3, <2>2, <2>3 DEF CacheSyncs
  <2>5. UNCHANGED <<created, podVars, sentinelVars, statusVars, memVars>>
    BY <1>3 DEF CacheSyncs
  <2> QED BY <2>4, <2>5 DEF IInv, TypeOK, MemTyped, Labels
<1>4. ASSUME NEW q \in Pods, NEW s \in Sentinels, Failover(q, s) \/ PreStop(q, s) PROVE IInv'
  <2>1. elected' \in Addresses /\ view' \in [Sentinels -> Addresses]
    <3>1. Address(q) \in Addresses BY AddressTyped DEF IInv
    <3>2. view \in [Sentinels -> Addresses] BY DEF IInv, TypeOK, Addresses
    <3> QED BY <1>4, <3>1, <3>2 DEF Failover, PreStop, Elect
  <2>2. UNCHANGED <<created, podVars, seen, statusVars, memVars>>
    BY <1>4 DEF Failover, PreStop
  <2> QED BY <2>1, <2>2 DEF IInv, TypeOK, MemTyped, Addresses
<1>5. ASSUME NEW s \in Sentinels, SentinelLearns(s) \/ SentinelRestarts(s) PROVE IInv'
  <2>1. view' \in [Sentinels -> Addresses]
    <3>1. Address(0) \in Addresses BY AddressTyped, PodZero DEF IInv
    <3>2. view \in [Sentinels -> Addresses] /\ elected \in Addresses
      BY DEF IInv, TypeOK, Addresses
    <3> QED BY <1>5, <3>1, <3>2 DEF SentinelLearns, SentinelRestarts
  <2>2. UNCHANGED <<created, podVars, seen, elected, statusVars, memVars>>
    BY <1>5 DEF SentinelLearns, SentinelRestarts
  <2> QED BY <2>1, <2>2 DEF IInv, TypeOK, MemTyped, Addresses
<1> QED BY <1>1, <1>2, <1>3, <1>4, <1>5

\* doReconcile and the crash of the operator.
LEMMA ReconcileTyped ==
    ASSUME IInv, Reconcile \/ OperatorCrashes
    PROVE  IInv'
<1> USE DEF podVars, sentinelVars, statusVars
<1>1. CASE ReconcileChildren
  <2>1. created' \in BOOLEAN BY <1>1, Zenon DEF IInv, TypeOK, ReconcileChildren
  <2>2. phase' \in Phases /\ pc' \in {"idle", "query"}
    BY <1>1 DEF IInv, TypeOK, ReconcileChildren
  <2>3. MemTyped'
    <3>1. PICK f \in Phases : mem' = [phase |-> f, master |-> masterNode]
      BY <1>1 DEF IInv, TypeOK, ReconcileChildren
    <3>2. masterNode \in Pods \cup {NoPod} BY DEF IInv, TypeOK
    <3> QED BY <3>1, <3>2 DEF MemTyped
  <2>4. UNCHANGED <<podVars, seen, sentinelVars, masterNode, target, listed, todo>>
    BY <1>1 DEF ReconcileChildren
  <2> QED BY <2>1, <2>2, <2>3, <2>4 DEF IInv, TypeOK
<1>2. CASE DiscoverMaster
  <2>1. target' \in Pods
    <3>1. \A s \in Sentinels : Resolve(view[s]) \in Pods
      BY ResolveTyped DEF IInv, TypeOK, Addresses
    <3> QED BY <1>2, <3>1, PodZero DEF DiscoverMaster
  <2> QED BY <1>2, <2>1 DEF IInv, TypeOK, MemTyped, DiscoverMaster
<1>3. CASE ListPods
  <2>0. \A p \in Pods : seen[p].label \in Labels
    BY DEF IInv, TypeOK, Labels
  <2>1. todo' \subseteq Pods BY <1>3 DEF IInv, TypeOK, ListPods
  <2>2. listed' \in [Pods -> Labels]
    <3>1. listed \in [Pods -> Labels] BY DEF IInv, TypeOK, Labels
    <3> QED BY <1>3, <2>0, <3>1 DEF ListPods
  <2> QED BY <1>3, <2>1, <2>2 DEF IInv, TypeOK, MemTyped, ListPods, Labels
<1>4. ASSUME NEW p \in Pods, PatchPod(p) PROVE IInv'
  <2>1. label' \in [Pods -> Labels] BY <1>4 DEF IInv, TypeOK, PatchPod, Role, Labels
  <2>2. todo' \subseteq Pods BY <1>4 DEF IInv, TypeOK, PatchPod
  <2> QED BY <1>4, <2>1, <2>2 DEF IInv, TypeOK, MemTyped, PatchPod, Labels
<1>5. CASE RecordMaster
  <2>1. MemTyped' BY <1>5 DEF IInv, TypeOK, MemTyped, RecordMaster
  <2> QED BY <1>5, <2>1 DEF IInv, TypeOK, RecordMaster
<1>6. CASE UpdateStatus
  <2>1. phase' \in Phases /\ masterNode' \in Pods \cup {NoPod}
    BY <1>6 DEF IInv, TypeOK, MemTyped, UpdateStatus
  <2> QED BY <1>6, <2>1 DEF IInv, TypeOK, MemTyped, UpdateStatus
<1>7. CASE OperatorCrashes BY <1>7 DEF IInv, TypeOK, MemTyped, OperatorCrashes
<1> QED BY <1>1, <1>2, <1>3, <1>4, <1>5, <1>6, <1>7 DEF Reconcile

\* The types hold in every reachable state: the labelled pod and
\* status.masterNode are pods of the StatefulSet whatever a Sentinel answered.
THEOREM SentinelTypeCorrect == Spec => []TypeOK
<1>1. Init => IInv BY InitTyped
<1>2. ASSUME IInv, [Next]_vars PROVE IInv'
  <2>1. CASE Next BY <1>2, <2>1, EnvironmentTyped, ReconcileTyped DEF Next
  <2>2. CASE UNCHANGED vars
    BY <1>2, <2>2
    DEF vars, IInv, TypeOK, MemTyped, podVars, sentinelVars, statusVars, memVars
  <2> QED BY <1>2, <2>1, <2>2
<1>3. IInv => TypeOK BY DEF IInv
<1> QED BY <1>1, <1>2, <1>3, PTL DEF Spec
=============================================================================
