----------------------- MODULE ClusterFormationProofs -----------------------
(***************************************************************************)
(* The proofs about ClusterFormation, for every number of operators, every *)
(* set of values of spec.masters, every number of slots and replicas and   *)
(* every set of faults.                                                    *)
(*                                                                         *)
(* None of the three properties is inductive.  That a second operator is   *)
(* refused at master 0 rests on the plan whose slots master 0 holds; that  *)
(* a late ADDSLOTS does no harm rests on the plan it was computed from;    *)
(* that every master gets its replicas rests on which nodes CLUSTER NODES  *)
(* could list when their number was compared.  IInv states these facts.    *)
(***************************************************************************)
EXTENDS ClusterFormation, FiniteSetTheorems, TLAPS

\* The slots follow plan k up to master last.  An operator past master 0 runs
\* that plan and stands behind last; a late ADDSLOTS for another master than 0
\* is the next one of the plan, and then its operator has given up.
PlanHolds(k, last) ==
    /\ \A m \in Masters : claims[m] = IF m < k /\ m <= last THEN EvenSlots(m, k) ELSE {}
    /\ \A o \in Operators : PastTheFirstMaster(o) =>
           /\ n[o] = k
           /\ pc[o] = "assign" => i[o] = last + 1
           /\ pc[o] # "assign" => last = k - 1
    /\ \A c \in inflight : c[1] # 0 =>
           c = <<last + 1, k>> /\ \A o \in Operators : ~PastTheFirstMaster(o)

OnePlan == \E k \in MastersRange : \E last \in -1 .. k - 1 : PlanHolds(k, last)

\* A run of FormCluster has its number of masters, and a late ADDSLOTS is one of
\* the commands of some plan.
RunsHaveMasters ==
    /\ \A o \in Operators : pc[o] # "idle" => n[o] \in MastersRange
    /\ \A o \in Operators : pc[o] \in {"idle", "meet", "waitKnown"} => i[o] = 0
    /\ \A o \in Operators : pc[o] \in {"meetReplicas", "waitReplicas", "resolve"} => PerMaster > 0
    /\ \A c \in inflight : c[1] < c[2]

\* Every operator has its own list of master IDs.
OneListEach == ids = [o \in Operators |-> ids[o]]

\* Master 0 has heard of slots only from masters whose handshake is over, and
\* an operator past WaitForClusterReady has seen it know an owner of each slot.
SeenIsClaimed ==
    /\ \A s \in seen : \E m \in joined : s \in claims[m]
    /\ \A o \in Operators :
           pc[o] \in {"meetReplicas", "waitReplicas", "resolve", "replicate", "formed"} =>
               SlotsAssigned = Slots

\* The masterIDs are those of the k masters, each of them once.
IDsAreMasters(f, k) ==
    /\ \A a \in 0 .. k - 1 : f[a].master \in 0 .. k - 1
    /\ \A a, b \in 0 .. k - 1 : f[a].master = f[b].master => a = b
    /\ \A m \in 0 .. k - 1 : \E a \in 0 .. k - 1 : f[a].master = m

\* No replica is attached before the loop over replicaAddrs; in it the first
\* i[o] replicas follow the masters in turn.
ReplicasInTurn ==
    /\ claims[0] = {} => \A r \in Replicas : replicates[r] = NoMaster
    /\ \A o \in Operators :
           PastTheFirstMaster(o) /\ pc[o] \notin {"replicate", "formed"} =>
               \A r \in Replicas : replicates[r] = NoMaster
    /\ \A o \in Operators :
           pc[o] = "replicate" \/ (pc[o] = "formed" /\ PerMaster > 0) =>
               /\ IDsAreMasters(ids[o], n[o])
               /\ pc[o] = "formed" => i[o] = n[o] * PerMaster
               /\ \A r \in Replicas :
                      replicates[r] = IF r < i[o] THEN ids[o][r % n[o]].master ELSE NoMaster

IInv == /\ TypeOK /\ OneFormer /\ OnePlan /\ RunsHaveMasters /\ OneListEach
        /\ SeenIsClaimed /\ ReplicasInTurn

(***************************************************************************)
(* The operators of the plan.                                              *)
(***************************************************************************)

\* The nodes of a run are among the nodes of the model, and masters are numbers.
LEMMA RunNodes ==
  ASSUME NEW k \in MastersRange
  PROVE  /\ k \in Nat /\ k >= 3 /\ k <= NumSlots /\ NumSlots \in Nat /\ PerMaster \in Nat
         /\ 0 \in Masters /\ Masters \subseteq Nat /\ Replicas \subseteq Nat
         /\ 0 .. k - 1 \subseteq Masters /\ 0 .. k * PerMaster - 1 \subseteq Replicas
<1>1. k \in Nat /\ k >= 3 /\ k <= NumSlots /\ NumSlots \in Nat /\ PerMaster \in Nat
  BY ConstantsAssumption
<1>2. 0 .. k - 1 \subseteq Masters /\ 0 .. k * PerMaster - 1 \subseteq Replicas
  BY DEF Masters, Replicas
<1>3. 0 \in Masters
  BY <1>1, <1>2
<1>4. Masters \subseteq Nat /\ Replicas \subseteq Nat
  BY ConstantsAssumption DEF Masters, Replicas
<1>. QED
  BY <1>1, <1>2, <1>3, <1>4

\* Each ADDSLOTS of a plan names slots of the cluster, and at least one.
LEMMA EvenSlotsRange ==
  ASSUME NEW k \in MastersRange, NEW m \in 0 .. k - 1
  PROVE  EvenSlots(m, k) \subseteq Slots /\ m * (NumSlots \div k) \in EvenSlots(m, k)
<1>. DEFINE q == NumSlots \div k
<1>1. k \in Nat \ {0} /\ k <= NumSlots /\ NumSlots \in Nat /\ m \in Nat
  BY RunNodes
<1>2. q \in Nat /\ q >= 1 /\ k * q <= NumSlots
  BY <1>1
<1>3. m * q \in Nat /\ (m + 1) * q \in Nat /\ (m + 1) * q = m * q + q
  BY <1>1, <1>2
<1>4. (m + 1) * q <= k * q
  BY <1>1, <1>2
<1>. DEFINE lo == m * q
            hi == IF m = k - 1 THEN NumSlots - 1 ELSE (m + 1) * q - 1
<1>5. EvenSlots(m, k) = lo .. hi
  BY DEF EvenSlots
<1>6. lo \in Nat /\ hi \in Int /\ hi <= NumSlots - 1 /\ lo <= hi
  <2>1. (m + 1) * q <= NumSlots
    BY <1>1, <1>2, <1>3, <1>4
  <2>. HIDE DEF q
  <2>. QED
    BY <1>1, <1>2, <1>3, <2>1
<1>. HIDE DEF lo, hi
<1>7. lo .. hi \subseteq 0 .. NumSlots - 1 /\ lo \in lo .. hi
  BY <1>1, <1>6
<1>. QED
  BY <1>5, <1>7 DEF Slots, lo

\* No two ADDSLOTS of one plan name the same slot.
LEMMA EvenSlotsDisjoint ==
  ASSUME NEW k \in MastersRange, NEW l \in 0 .. k - 1, NEW m \in 0 .. k - 1, l # m
  PROVE  EvenSlots(l, k) \cap EvenSlots(m, k) = {}
<1>. DEFINE q == NumSlots \div k
<1>1. k \in Nat \ {0} /\ k <= NumSlots /\ NumSlots \in Nat
  BY RunNodes
<1>2. q \in Nat
  BY <1>1
<1>3. ASSUME NEW a \in 0 .. k - 1, NEW b \in 0 .. k - 1, a < b
      PROVE  EvenSlots(a, k) \cap EvenSlots(b, k) = {}
  <2>1. a \in Nat /\ b \in Nat /\ a # k - 1
    BY <1>1, <1>3
  <2>2. (a + 1) * q <= b * q /\ (a + 1) * q \in Nat /\ b * q \in Nat /\ a * q \in Nat
    BY <2>1, <1>2, <1>3
  <2>3. \A s \in EvenSlots(a, k) : s \in Int /\ s < (a + 1) * q
    BY <2>1, <2>2 DEF EvenSlots
  <2>4. \A s \in EvenSlots(b, k) : s \in Int /\ s >= b * q
    BY <2>1, <2>2, <1>1, <1>2 DEF EvenSlots
  <2>. HIDE DEF q
  <2>. QED
    BY <2>2, <2>3, <2>4
<1>4. l < m \/ m < l
  BY <1>1
<1>. QED
  BY <1>3, <1>4

\* Slot 0 is in the first ADDSLOTS of every plan: master 0 gets it first.
LEMMA FirstSlot == \A k \in MastersRange : 0 \in EvenSlots(0, k)
<1>. SUFFICES ASSUME NEW k \in MastersRange PROVE 0 \in EvenSlots(0, k)
  OBVIOUS
<1>1. 0 \in 0 .. k - 1 /\ k \in Nat /\ NumSlots \in Nat /\ k >= 3
  BY RunNodes
<1>2. 0 * (NumSlots \div k) = 0
  BY <1>1
<1>. QED
  BY <1>1, <1>2, EvenSlotsRange

(***************************************************************************)
(* Type correctness.                                                       *)
(***************************************************************************)

\* The part of TypeOK that is about the operators' runs of FormCluster.
RunTypeOK ==
    /\ pc \in [Operators -> {"idle", "meet", "waitKnown", "assign", "waitReady", "meetReplicas",
                             "waitReplicas", "resolve", "replicate", "formed"}]
    /\ n \in [Operators -> MastersRange \cup {0}] /\ i \in [Operators -> Nat]
    /\ \A o \in Operators : /\ pc[o] = "assign" => i[o] < n[o]
                            /\ pc[o] = "replicate" => i[o] < n[o] * PerMaster

\* The part that is about the Redis nodes.
SlotTypeOK ==
    /\ known \subseteq Masters /\ joined \subseteq known
    /\ claims \in [Masters -> SUBSET Slots] /\ seen \subseteq Slots
    /\ inflight \subseteq Masters \X MastersRange
ReplTypeOK ==
    /\ met \subseteq Replicas /\ metJoined \subseteq met /\ informed \subseteq met
    /\ replicates \in [Replicas -> Masters \cup {NoMaster}]
FaultsTypeOK == faults \in 0 .. MaxFaults

\* TypeOK, taken apart.
LEMMA TypeParts == TypeOK <=> RunTypeOK /\ SlotTypeOK /\ ReplTypeOK /\ FaultsTypeOK
  BY DEF TypeOK, RunTypeOK, SlotTypeOK, ReplTypeOK, FaultsTypeOK

\* Returning an error leaves a run that has not begun.
LEMMA ReturnErrorType ==
  ASSUME RunTypeOK, NEW o \in Operators, ReturnError(o)
  PROVE  RunTypeOK'
  BY DEF RunTypeOK, ReturnError

\* A failure is counted, up to the bound.
LEMMA FaultsType ==
  ASSUME FaultsTypeOK, NEW f, Works \/ Fails(f)
  PROVE  FaultsTypeOK'
  BY ConstantsAssumption DEF FaultsTypeOK, Works, Fails

\* No operator runs at first and no node is met.
LEMMA InitTypeOK == Init => TypeOK
  BY ConstantsAssumption DEF Init, TypeOK

\* An ADDSLOTS of a plan, in time or late, keeps the types of the slots.
LEMMA TakeSlotsType ==
  ASSUME claims \in [Masters -> SUBSET Slots], NEW k \in MastersRange, NEW m \in 0 .. k - 1,
         TakeSlots(m, EvenSlots(m, k))
  PROVE  claims' \in [Masters -> SUBSET Slots]
<1>1. m \in Masters
  BY RunNodes
<1>. QED
  BY <1>1, EvenSlotsRange DEF TakeSlots

\* What the cluster bus and the late commands do keeps the types.
LEMMA RedisTypeOK ==
  ASSUME TypeOK, RunsHaveMasters, Redis
  PROVE  TypeOK'
<1>. USE DEF RunTypeOK, SlotTypeOK, ReplTypeOK, FaultsTypeOK
<1>0. RunTypeOK /\ SlotTypeOK /\ ReplTypeOK /\ FaultsTypeOK
  BY TypeParts
<1>. SUFFICES RunTypeOK' /\ SlotTypeOK' /\ ReplTypeOK' /\ FaultsTypeOK'
  BY DEF TypeOK, RunTypeOK, SlotTypeOK, ReplTypeOK, FaultsTypeOK
<1>1. CASE \E m \in Masters : HandshakeEnds(m) \/ GossipArrives(m)
  BY <1>0, <1>1 DEF HandshakeEnds, GossipArrives, opVars, replVars
<1>2. CASE \E r \in Replicas : ReplicaJoins(r) \/ ReplicaLearns(r)
  BY <1>0, <1>2 DEF ReplicaJoins, ReplicaLearns, opVars, slotVars
<1>3. ASSUME NEW c \in inflight, LateAddSlots(c)
      PROVE  RunTypeOK' /\ SlotTypeOK' /\ ReplTypeOK' /\ FaultsTypeOK'
  <2>1. c[2] \in MastersRange /\ c[1] \in 0 .. c[2] - 1
    BY <1>0, RunNodes DEF RunsHaveMasters
  <2>2. claims' \in [Masters -> SUBSET Slots]
    BY <1>0, <1>3, <2>1, TakeSlotsType DEF LateAddSlots
  <2>. QED
    BY <1>0, <1>3, <2>2 DEF LateAddSlots, opVars, replVars
<1>. QED
  BY <1>1, <1>2, <1>3 DEF Redis

\* Every step of FormCluster keeps the types: the loop over the masters stops at
\* the last of them, and so does the loop over the replicas.
LEMMA FormClusterTypeOK ==
  ASSUME TypeOK, RunsHaveMasters, ReplicasInTurn, NEW o \in Operators,
         FormCluster(o) \/ OperatorCrashes(o)
  PROVE  TypeOK'
<1>. USE DEF GoTo
<1>0. RunTypeOK /\ SlotTypeOK /\ ReplTypeOK /\ FaultsTypeOK
  BY TypeParts
<1>. SUFFICES RunTypeOK' /\ SlotTypeOK' /\ ReplTypeOK' /\ FaultsTypeOK'
  BY DEF TypeOK, RunTypeOK, SlotTypeOK, ReplTypeOK, FaultsTypeOK
<1>k. pc[o] # "idle" =>
        /\ n[o] \in MastersRange /\ n[o] \in Nat /\ n[o] >= 3 /\ PerMaster \in Nat
        /\ 0 .. n[o] - 1 \subseteq Masters /\ 0 .. n[o] * PerMaster - 1 \subseteq Replicas
  BY RunNodes DEF RunsHaveMasters
<1>1. CASE Probe(o)
  BY <1>0, <1>1 DEF Probe, Works, slotVars, replVars, RunTypeOK, SlotTypeOK, ReplTypeOK, FaultsTypeOK
<1>2. CASE MeetMasters(o)
  <2>1. FaultsTypeOK' /\ RunTypeOK'
    BY <1>0, <1>2, FaultsType, ReturnErrorType DEF MeetMasters, RunTypeOK
  <2>2. \A k \in 0 .. n[o] - 1 : 1 .. k \subseteq 0 .. n[o] - 1
    BY <1>2, <1>k DEF MeetMasters
  <2>3. known' \subseteq Masters /\ known \subseteq known'
    BY <1>0, <1>2, <1>k, <2>2 DEF MeetMasters, SlotTypeOK
  <2>. QED
    BY <1>0, <1>2, <2>1, <2>3 DEF MeetMasters, SlotTypeOK, ReplTypeOK, replVars
<1>3. CASE WaitForMasters(o)
  <2>1. FaultsTypeOK'
    BY <1>0, <1>3, FaultsType DEF WaitForMasters
  <2>2. i[o] = 0
    BY <1>3 DEF WaitForMasters, RunsHaveMasters
  <2>3. RunTypeOK'
    BY <1>0, <1>3, <1>k, <2>2, ReturnErrorType DEF WaitForMasters, RunTypeOK
  <2>. QED
    BY <1>0, <1>3, <2>1, <2>3 DEF WaitForMasters, SlotTypeOK, ReplTypeOK, slotVars, replVars
<1>4. CASE AddSlots(o)
  <2>. DEFINE m == i[o]
  <2>1. n[o] \in MastersRange /\ m \in 0 .. n[o] - 1 /\ m \in Masters
    BY <1>0, <1>4, <1>k DEF AddSlots, RunTypeOK
  <2>2. FaultsTypeOK'
    BY <1>0, <1>4, FaultsType DEF AddSlots
  <2>3. RunTypeOK'
    <3>1. CASE ReturnError(o)
      BY <1>0, <3>1, ReturnErrorType
    <3>2. CASE /\ i' = [i EXCEPT ![o] = @ + 1] /\ UNCHANGED n
               /\ pc' = [pc EXCEPT ![o] = IF m = n[o] - 1 THEN "waitReady" ELSE "assign"]
      <4>1. m + 1 \in Nat /\ (m # n[o] - 1 => m + 1 < n[o])
        BY <2>1, RunNodes
      <4>. HIDE DEF m
      <4>. QED
        BY <1>0, <3>2, <4>1 DEF RunTypeOK, m
    <3>. QED
      BY <1>4, <3>1, <3>2 DEF AddSlots
  <2>4. claims' \in [Masters -> SUBSET Slots]
    BY <1>0, <1>4, <2>1, TakeSlotsType DEF AddSlots, SlotTypeOK
  <2>5. inflight' \subseteq Masters \X MastersRange
    BY <1>0, <1>4, <2>1 DEF AddSlots, SlotTypeOK
  <2>. QED
    BY <1>0, <1>4, <2>2, <2>3, <2>4, <2>5 DEF AddSlots, SlotTypeOK, ReplTypeOK, replVars
<1>5. CASE WaitForReady(o)
  <2>1. FaultsTypeOK' /\ RunTypeOK'
    BY <1>0, <1>5, FaultsType, ReturnErrorType DEF WaitForReady, RunTypeOK
  <2>. QED
    BY <1>0, <1>5, <2>1 DEF WaitForReady, SlotTypeOK, ReplTypeOK, slotVars, replVars
<1>6. CASE MeetReplicas(o)
  <2>1. FaultsTypeOK' /\ RunTypeOK'
    BY <1>0, <1>6, FaultsType, ReturnErrorType DEF MeetReplicas, RunTypeOK
  <2>2. \A k \in 0 .. n[o] * PerMaster - 1 : 0 .. k - 1 \subseteq 0 .. n[o] * PerMaster - 1
    BY <1>6, <1>k DEF MeetReplicas
  <2>3. met' \subseteq Replicas /\ met \subseteq met'
    BY <1>0, <1>6, <1>k, <2>2 DEF MeetReplicas, ReplTypeOK
  <2>. QED
    BY <1>0, <1>6, <2>1, <2>3 DEF MeetReplicas, SlotTypeOK, ReplTypeOK, slotVars
<1>7. CASE WaitForReplicas(o)
  <2>1. FaultsTypeOK' /\ RunTypeOK'
    BY <1>0, <1>7, FaultsType, ReturnErrorType DEF WaitForReplicas, RunTypeOK
  <2>. QED
    BY <1>0, <1>7, <2>1 DEF WaitForReplicas, SlotTypeOK, ReplTypeOK, slotVars, replVars
<1>8. CASE ResolveMasters(o)
  <2>1. FaultsTypeOK'
    BY <1>0, <1>8, FaultsType DEF ResolveMasters
  <2>2. 0 < n[o] * PerMaster
    BY <1>8, <1>k DEF ResolveMasters, RunsHaveMasters
  <2>3. RunTypeOK'
    BY <1>0, <1>8, <2>2, ReturnErrorType DEF ResolveMasters, RunTypeOK
  <2>. QED
    BY <1>0, <1>8, <2>1, <2>3 DEF ResolveMasters, SlotTypeOK, ReplTypeOK, slotVars, replVars
<1>9. CASE Replicate(o)
  <2>. DEFINE r == i[o]
  <2>1. FaultsTypeOK'
    BY <1>0, <1>9, FaultsType DEF Replicate
  <2>2. r \in Nat /\ r < n[o] * PerMaster /\ n[o] \in Nat \ {0} /\ n[o] * PerMaster \in Nat
    BY <1>0, <1>9, <1>k DEF Replicate, RunTypeOK
  <2>3. RunTypeOK'
    <3>1. CASE ReturnError(o)
      BY <1>0, <3>1, ReturnErrorType
    <3>2. CASE /\ i' = [i EXCEPT ![o] = @ + 1] /\ UNCHANGED n
               /\ pc' = [pc EXCEPT ![o] = IF r = n[o] * PerMaster - 1 THEN "formed" ELSE "replicate"]
      <4>1. r + 1 \in Nat /\ (r # n[o] * PerMaster - 1 => r + 1 < n[o] * PerMaster)
        BY <2>2
      <4>. HIDE DEF r
      <4>. QED
        BY <1>0, <3>2, <4>1 DEF RunTypeOK, r
    <3>. QED
      BY <1>9, <3>1, <3>2 DEF Replicate
  <2>4. ids[o][r % n[o]].master \in Masters
    <3>1. r % n[o] \in 0 .. n[o] - 1
      BY <2>2
    <3>. QED
      BY <1>9, <1>k, <3>1 DEF Replicate, ReplicasInTurn, IDsAreMasters
  <2>5. replicates' \in [Replicas -> Masters \cup {NoMaster}]
    BY <1>0, <1>9, <2>4 DEF Replicate, ReplTypeOK
  <2>. QED
    BY <1>0, <1>9, <2>1, <2>3, <2>5 DEF Replicate, SlotTypeOK, ReplTypeOK, slotVars
<1>10. CASE OperatorCrashes(o)
  <2>1. FaultsTypeOK' /\ RunTypeOK'
    BY <1>0, <1>10, FaultsType, ReturnErrorType DEF OperatorCrashes
  <2>. QED
    BY <1>0, <1>10, <2>1 DEF OperatorCrashes, SlotTypeOK, ReplTypeOK, slotVars, replVars
<1>. QED
  BY <1>1, <1>2, <1>3, <1>4, <1>5, <1>6, <1>7, <1>8, <1>9, <1>10 DEF FormCluster

(***************************************************************************)
(* The runs and their masters.                                             *)
(***************************************************************************)

\* A run keeps the number of masters it began with, the loop index starts at 0,
\* the replicas are met only if there are some, and a late command is of a plan.
LEMMA RunsStep ==
  ASSUME TypeOK, RunsHaveMasters, [Next]_vars
  PROVE  RunsHaveMasters'
<1>. USE DEF RunsHaveMasters
<1>0. RunTypeOK
  BY TypeParts
<1>1. CASE Redis \/ UNCHANGED vars
  <2>1. UNCHANGED opVars /\ inflight' \subseteq inflight
    BY <1>1 DEF Redis, HandshakeEnds, GossipArrives, ReplicaJoins, ReplicaLearns, LateAddSlots,
                vars, slotVars
  <2>. QED
    BY <2>1 DEF opVars
<1>2. ASSUME NEW o \in Operators, ReturnError(o), inflight' = inflight
      PROVE  RunsHaveMasters'
  BY <1>0, <1>2 DEF ReturnError, RunTypeOK
<1>3. ASSUME NEW o \in Operators, FormCluster(o) \/ OperatorCrashes(o)
      PROVE  RunsHaveMasters'
  <2>. USE DEF RunTypeOK, GoTo
  <2>1. CASE Probe(o)
    BY <1>0, <2>1 DEF Probe, slotVars
  <2>2. CASE MeetMasters(o)
    BY <1>0, <1>2, <2>2 DEF MeetMasters
  <2>3. CASE WaitForMasters(o)
    BY <1>0, <1>2, <2>3 DEF WaitForMasters, slotVars
  <2>4. CASE AddSlots(o)
    <3>1. CASE /\ i' = [i EXCEPT ![o] = @ + 1] /\ UNCHANGED <<n, ids, inflight>>
               /\ pc' = [pc EXCEPT ![o] = IF i[o] = n[o] - 1 THEN "waitReady" ELSE "assign"]
      BY <1>0, <2>4, <3>1 DEF AddSlots
    <3>2. CASE ReturnError(o) /\ inflight' = inflight \cup {<<i[o], n[o]>>}
      <4>1. i[o] < n[o]
        BY <1>0, <2>4 DEF AddSlots
      <4>. QED
        BY <1>0, <3>2, <4>1 DEF ReturnError
    <3>. QED
      BY <1>2, <2>4, <3>1, <3>2 DEF AddSlots
  <2>5. CASE WaitForReady(o)
    <3>1. PerMaster \in Nat
      BY ConstantsAssumption
    <3>. QED
      BY <1>0, <1>2, <2>5, <3>1 DEF WaitForReady, slotVars
  <2>6. CASE MeetReplicas(o)
    BY <1>0, <1>2, <2>6 DEF MeetReplicas, slotVars
  <2>7. CASE WaitForReplicas(o)
    BY <1>0, <1>2, <2>7 DEF WaitForReplicas, slotVars
  <2>8. CASE ResolveMasters(o)
    BY <1>0, <1>2, <2>8 DEF ResolveMasters, slotVars
  <2>9. CASE Replicate(o)
    BY <1>0, <1>2, <2>9 DEF Replicate, slotVars
  <2>10. CASE OperatorCrashes(o)
    BY <1>2, <2>10 DEF OperatorCrashes, slotVars
  <2>. QED
    BY <1>3, <2>1, <2>2, <2>3, <2>4, <2>5, <2>6, <2>7, <2>8, <2>9, <2>10 DEF FormCluster
<1>. QED
  BY <1>1, <1>3 DEF Next

(***************************************************************************)
(* One plan.                                                               *)
(***************************************************************************)

\* A step that moves no slot and lets nobody past master 0 keeps the plan.
LEMMA KeepPlan ==
  ASSUME OneFormer, OnePlan, claims' = claims, inflight' \subseteq inflight,
         \A p \in Operators : PastTheFirstMaster(p)' =>
             /\ PastTheFirstMaster(p) /\ n'[p] = n[p]
             /\ pc'[p] = "assign" <=> pc[p] = "assign"
             /\ pc'[p] = "assign" => i'[p] = i[p]
  PROVE  OneFormer' /\ OnePlan'
<1>1. OneFormer'
  BY DEF OneFormer
<1>2. PICK k \in MastersRange : \E last \in -1 .. k - 1 : PlanHolds(k, last)
  BY DEF OnePlan
<1>3. PICK last \in -1 .. k - 1 : PlanHolds(k, last)
  BY <1>2
<1>4. PlanHolds(k, last)'
  BY <1>3 DEF PlanHolds
<1>. QED
  BY <1>1, <1>4 DEF OnePlan

\* Returning an error only takes an operator out of the ones past master 0.
LEMMA ReturnErrorPlan ==
  ASSUME RunTypeOK, NEW o \in Operators, ReturnError(o)
  PROVE  \A p \in Operators : PastTheFirstMaster(p)' =>
             /\ p # o /\ PastTheFirstMaster(p) /\ n'[p] = n[p]
             /\ pc'[p] = "assign" <=> pc[p] = "assign"
             /\ pc'[p] = "assign" => i'[p] = i[p]
  BY DEF ReturnError, PastTheFirstMaster, RunTypeOK

\* If master 0 may take the first slots of some plan then nobody has any slot,
\* nobody is past master 0 and every late ADDSLOTS is for master 0.
LEMMA NothingTaken ==
  ASSUME TypeOK, RunsHaveMasters, OnePlan, NEW k \in MastersRange, ~MustRefuse(0, EvenSlots(0, k))
  PROVE  /\ \A m \in Masters : claims[m] = {}
         /\ \A o \in Operators : ~PastTheFirstMaster(o)
         /\ \A c \in inflight : c[1] = 0
<1>1. PICK j \in MastersRange : \E last \in -1 .. j - 1 : PlanHolds(j, last)
  BY DEF OnePlan
<1>2. PICK last \in -1 .. j - 1 : PlanHolds(j, last)
  BY <1>1
<1>3. j \in Nat /\ j >= 3 /\ 0 \in Masters /\ Masters \subseteq Nat
  BY RunNodes
<1>4. last = -1
  <2>1. 0 \notin claims[0]
    BY FirstSlot DEF MustRefuse
  <2>2. ~(0 <= last)
    BY <1>2, <1>3, <2>1, FirstSlot DEF PlanHolds
  <2>. QED
    BY <1>2, <1>3, <2>2
<1>5. \A m \in Masters : claims[m] = {}
  BY <1>2, <1>3, <1>4 DEF PlanHolds
<1>6. \A o \in Operators : i[o] \in Nat
  BY DEF TypeOK
<1>7. \A o \in Operators : ~PastTheFirstMaster(o)
  BY <1>2, <1>3, <1>4, <1>6 DEF PlanHolds, PastTheFirstMaster
<1>8. \A c \in inflight : c[1] = 0
  BY <1>2, <1>4 DEF PlanHolds
<1>. QED
  BY <1>5, <1>7, <1>8

\* Taking the first slots of a plan begins it.
LEMMA PlanBegins ==
  ASSUME claims \in [Masters -> SUBSET Slots], \A m \in Masters : claims[m] = {},
         NEW k \in MastersRange, TakeSlots(0, EvenSlots(0, k))
  PROVE  \A m \in Masters : claims'[m] = IF m < k /\ m <= 0 THEN EvenSlots(m, k) ELSE {}
<1>1. k \in Nat /\ k >= 3 /\ 0 \in Masters /\ Masters \subseteq Nat
  BY RunNodes
<1>2. claims'[0] = EvenSlots(0, k)
  BY <1>1 DEF TakeSlots
<1>3. \A m \in Masters : m # 0 => claims'[m] = {}
  BY <1>1 DEF TakeSlots
<1>. QED
  BY <1>1, <1>2, <1>3

\* Taking the next slots of the plan continues it.
LEMMA PlanGoesOn ==
  ASSUME claims \in [Masters -> SUBSET Slots], NEW k \in MastersRange, NEW last \in -1 .. k - 2,
         PlanHolds(k, last), TakeSlots(last + 1, EvenSlots(last + 1, k))
  PROVE  \A m \in Masters :
             claims'[m] = IF m < k /\ m <= last + 1 THEN EvenSlots(m, k) ELSE {}
<1>. DEFINE next == last + 1
<1>1. k \in Nat /\ Masters \subseteq Nat /\ 0 .. k - 1 \subseteq Masters
  BY RunNodes
<1>2. next \in Masters /\ next < k /\ next \in Nat /\ ~(next <= last)
  BY <1>1
<1>3. claims[next] = {}
  BY <1>2 DEF PlanHolds
<1>4. claims'[next] = EvenSlots(next, k)
  BY <1>2, <1>3 DEF TakeSlots
<1>5. \A m \in Masters : m # next => claims'[m] = claims[m]
  BY <1>2 DEF TakeSlots
<1>6. \A m \in Masters : m # next => (m <= next <=> m <= last)
  BY <1>1, <1>2
<1>. HIDE DEF next
<1>7. \A m \in Masters : claims'[m] = IF m < k /\ m <= next THEN EvenSlots(m, k) ELSE {}
  <2>. TAKE m \in Masters
  <2>1. CASE m = next
    BY <1>2, <1>4, <2>1
  <2>2. CASE m # next
    BY <1>5, <1>6, <2>2 DEF PlanHolds
  <2>. QED
    BY <2>1, <2>2
<1>. QED
  BY <1>7 DEF next

\* ADDSLOTS by a running operator: the first one of a plan is refused unless
\* nothing is taken; a later one comes from the only operator past master 0.
LEMMA AddSlotsPlan ==
  ASSUME TypeOK, OneFormer, OnePlan, RunsHaveMasters, NEW o \in Operators, AddSlots(o)
  PROVE  OneFormer' /\ OnePlan'
<1>. DEFINE m == i[o]
<1>0. RunTypeOK /\ claims \in [Masters -> SUBSET Slots] /\ m \in Nat
  BY TypeParts DEF TypeOK
<1>1. /\ n[o] \in MastersRange /\ n[o] \in Nat /\ n[o] >= 3 /\ m < n[o]
      /\ m \in Masters /\ 0 \in Masters /\ Masters \subseteq Nat
  BY <1>0, RunNodes DEF AddSlots, RunsHaveMasters, RunTypeOK
<1>2. ASSUME ~MustRefuse(m, EvenSlots(m, n[o])), TakeSlots(m, EvenSlots(m, n[o])),
             i' = [i EXCEPT ![o] = @ + 1], UNCHANGED <<n, inflight>>,
             pc' = [pc EXCEPT ![o] = IF m = n[o] - 1 THEN "waitReady" ELSE "assign"]
      PROVE  OneFormer' /\ OnePlan'
  <2>0. /\ pc'[o] = IF m = n[o] - 1 THEN "waitReady" ELSE "assign"
        /\ i'[o] = m + 1 /\ n' = n /\ inflight' = inflight
        /\ \A p \in Operators : p # o => (PastTheFirstMaster(p)' <=> PastTheFirstMaster(p))
    BY <1>0, <1>2 DEF RunTypeOK, PastTheFirstMaster
  <2>1. CASE m = 0
    <3>1. /\ \A a \in Masters : claims[a] = {}
          /\ \A p \in Operators : ~PastTheFirstMaster(p)
          /\ \A c \in inflight : c[1] = 0
      BY <1>1, <1>2, <2>1, NothingTaken
    <3>2. \A a \in Masters : claims'[a] = IF a < n[o] /\ a <= 0 THEN EvenSlots(a, n[o]) ELSE {}
      BY <1>0, <1>1, <1>2, <2>1, <3>1, PlanBegins
    <3>3. \A p \in Operators : PastTheFirstMaster(p)' => p = o
      BY <2>0, <3>1
    <3>4. pc'[o] = "assign" /\ i'[o] = 0 + 1
      BY <1>1, <2>0, <2>1
    <3>5. PlanHolds(n[o], 0)'
      BY <2>0, <3>1, <3>2, <3>3, <3>4 DEF PlanHolds
    <3>6. n[o]' = n[o] /\ 0 \in -1 .. n[o] - 1
      BY <1>1, <2>0
    <3>. QED
      BY <1>1, <3>3, <3>5, <3>6 DEF OneFormer, OnePlan
  <2>2. CASE m # 0
    <3>1. PastTheFirstMaster(o) /\ pc[o] = "assign"
      BY <1>0, <2>2 DEF AddSlots, PastTheFirstMaster
    <3>2. PICK k \in MastersRange : \E last \in -1 .. k - 1 : PlanHolds(k, last)
      BY DEF OnePlan
    <3>3. PICK last \in -1 .. k - 1 : PlanHolds(k, last)
      BY <3>2
    <3>4. n[o] = k /\ m = last + 1 /\ last \in -1 .. k - 2 /\ last + 1 \in 0 .. k - 1
      BY <1>0, <1>1, <3>1, <3>3 DEF PlanHolds
    <3>5. \A a \in Masters : claims'[a] = IF a < k /\ a <= last + 1 THEN EvenSlots(a, k) ELSE {}
      BY <1>0, <1>2, <3>3, <3>4, PlanGoesOn
    <3>6. \A p \in Operators : PastTheFirstMaster(p)' => p = o
      BY <2>0, <3>1 DEF OneFormer
    <3>7. /\ pc'[o] = "assign" => i'[o] = (last + 1) + 1
          /\ pc'[o] # "assign" => last + 1 = k - 1
      BY <2>0, <3>4
    <3>8. \A c \in inflight : c[1] = 0
      BY <3>1, <3>3 DEF PlanHolds
    <3>9. PlanHolds(k, last + 1)'
      BY <2>0, <3>4, <3>5, <3>6, <3>7, <3>8 DEF PlanHolds
    <3>10. last + 1 \in -1 .. k - 1
      BY <1>1, <3>4
    <3>. QED
      BY <3>6, <3>9, <3>10 DEF OneFormer, OnePlan
  <2>. QED
    BY <2>1, <2>2
<1>3. ASSUME ReturnError(o), UNCHANGED <<claims, inflight>>
      PROVE  OneFormer' /\ OnePlan'
  BY <1>0, <1>3, ReturnErrorPlan, KeepPlan
<1>4. ASSUME ReturnError(o), UNCHANGED claims, inflight' = inflight \cup {<<m, n[o]>>}
      PROVE  OneFormer' /\ OnePlan'
  <2>1. \A p \in Operators : PastTheFirstMaster(p)' =>
             /\ p # o /\ PastTheFirstMaster(p) /\ n'[p] = n[p]
             /\ pc'[p] = "assign" <=> pc[p] = "assign"
             /\ pc'[p] = "assign" => i'[p] = i[p]
    BY <1>0, <1>4, ReturnErrorPlan
  <2>2. PICK k \in MastersRange : \E last \in -1 .. k - 1 : PlanHolds(k, last)
    BY DEF OnePlan
  <2>3. PICK last \in -1 .. k - 1 : PlanHolds(k, last)
    BY <2>2
  <2>4. m # 0 => /\ PastTheFirstMaster(o) /\ n[o] = k /\ m = last + 1
                 /\ \A p \in Operators : ~PastTheFirstMaster(p)'
    BY <1>0, <2>1, <2>3 DEF AddSlots, PastTheFirstMaster, OneFormer, PlanHolds
  <2>5. \A c \in inflight' : c[1] # 0 =>
            c = <<last + 1, k>> /\ \A p \in Operators : ~PastTheFirstMaster(p)'
    BY <1>4, <2>1, <2>3, <2>4 DEF PlanHolds
  <2>6. PlanHolds(k, last)'
    BY <1>4, <2>1, <2>3, <2>5 DEF PlanHolds
  <2>. QED
    BY <2>1, <2>6 DEF OneFormer, OnePlan
<1>. QED
  BY <1>2, <1>3, <1>4 DEF AddSlots

\* A late ADDSLOTS: for master 0 it begins a plan or is refused, for another
\* master it is the next one of the plan that is there.
LEMMA LateAddSlotsPlan ==
  ASSUME TypeOK, OneFormer, OnePlan, RunsHaveMasters, NEW c \in inflight, LateAddSlots(c)
  PROVE  OneFormer' /\ OnePlan'
<1>0. /\ claims \in [Masters -> SUBSET Slots] /\ inflight' \subseteq inflight /\ UNCHANGED opVars
      /\ inflight' = inflight \ {c}
  BY DEF TypeOK, LateAddSlots
<1>1. c = <<c[1], c[2]>> /\ c[2] \in MastersRange /\ c[1] \in 0 .. c[2] - 1
  BY RunNodes DEF RunsHaveMasters, TypeOK
<1>2. \A p \in Operators : /\ PastTheFirstMaster(p)' <=> PastTheFirstMaster(p)
                           /\ n'[p] = n[p] /\ pc'[p] = pc[p] /\ i'[p] = i[p]
  BY <1>0 DEF PastTheFirstMaster, opVars
<1>3. CASE claims' = claims
  BY <1>0, <1>2, <1>3, KeepPlan
<1>4. ASSUME ~MustRefuse(c[1], EvenSlots(c[1], c[2])), TakeSlots(c[1], EvenSlots(c[1], c[2]))
      PROVE  OneFormer' /\ OnePlan'
  <2>1. CASE c[1] = 0
    <3>1. /\ \A a \in Masters : claims[a] = {}
          /\ \A p \in Operators : ~PastTheFirstMaster(p)
          /\ \A d \in inflight : d[1] = 0
      BY <1>1, <1>4, <2>1, NothingTaken
    <3>2. \A a \in Masters : claims'[a] = IF a < c[2] /\ a <= 0 THEN EvenSlots(a, c[2]) ELSE {}
      BY <1>0, <1>1, <1>4, <2>1, <3>1, PlanBegins
    <3>3. PlanHolds(c[2], 0)'
      BY <1>0, <1>2, <3>1, <3>2 DEF PlanHolds
    <3>4. 0 \in -1 .. c[2] - 1
      BY <1>1, RunNodes
    <3>. QED
      BY <1>1, <1>2, <3>1, <3>3, <3>4 DEF OneFormer, OnePlan
  <2>2. CASE c[1] # 0
    <3>2. PICK k \in MastersRange : \E last \in -1 .. k - 1 : PlanHolds(k, last)
      BY DEF OnePlan
    <3>3. PICK last \in -1 .. k - 1 : PlanHolds(k, last)
      BY <3>2
    <3>4. c = <<last + 1, k>> /\ \A p \in Operators : ~PastTheFirstMaster(p)
      BY <2>2, <3>3 DEF PlanHolds
    <3>5. c[1] = last + 1 /\ c[2] = k /\ k \in Nat
      BY <3>4, RunNodes
    <3>6. last \in -1 .. k - 2 /\ last + 1 \in -1 .. k - 1
      BY <1>1, <3>5
    <3>7. \A a \in Masters : claims'[a] = IF a < k /\ a <= last + 1 THEN EvenSlots(a, k) ELSE {}
      BY <1>0, <1>4, <3>3, <3>5, <3>6, PlanGoesOn
    <3>8. \A d \in inflight' : d[1] = 0
      BY <1>0, <3>3, <3>4 DEF PlanHolds
    <3>9. PlanHolds(k, last + 1)'
      BY <1>2, <3>4, <3>7, <3>8 DEF PlanHolds
    <3>. QED
      BY <1>2, <3>4, <3>6, <3>9 DEF OneFormer, OnePlan
  <2>. QED
    BY <2>1, <2>2
<1>. QED
  BY <1>3, <1>4 DEF LateAddSlots

\* Every step keeps one operator past master 0 and one plan of the slots.
LEMMA PlanStep ==
  ASSUME TypeOK, OneFormer, OnePlan, RunsHaveMasters, [Next]_vars
  PROVE  OneFormer' /\ OnePlan'
<1>0. RunTypeOK
  BY TypeParts
<1>1. CASE UNCHANGED vars
  <2>1. UNCHANGED <<pc, n, i, claims, inflight>>
    BY <1>1 DEF vars, opVars, slotVars
  <2>. QED
    BY <2>1, KeepPlan DEF PastTheFirstMaster
<1>2. CASE \/ \E m \in Masters : HandshakeEnds(m) \/ GossipArrives(m)
           \/ \E r \in Replicas : ReplicaJoins(r) \/ ReplicaLearns(r)
  <2>1. UNCHANGED <<pc, n, i, claims, inflight>>
    BY <1>2 DEF HandshakeEnds, GossipArrives, ReplicaJoins, ReplicaLearns, opVars, slotVars
  <2>. QED
    BY <2>1, KeepPlan DEF PastTheFirstMaster
<1>3. ASSUME NEW o \in Operators, ReturnError(o), UNCHANGED <<claims, inflight>>
      PROVE  OneFormer' /\ OnePlan'
  BY <1>0, <1>3, ReturnErrorPlan, KeepPlan
<1>4. ASSUME NEW o \in Operators, FormCluster(o) \/ OperatorCrashes(o), ~AddSlots(o)
      PROVE  OneFormer' /\ OnePlan'
  <2>1. UNCHANGED <<claims, inflight>>
    BY <1>4 DEF FormCluster, Probe, MeetMasters, WaitForMasters, WaitForReady, MeetReplicas,
                WaitForReplicas, ResolveMasters, Replicate, OperatorCrashes, slotVars
  <2>2. CASE ReturnError(o)
    BY <1>3, <2>1, <2>2
  <2>3. CASE ~ReturnError(o)
    <3>1. /\ \A p \in Operators : p # o => pc'[p] = pc[p] /\ i'[p] = i[p] /\ n'[p] = n[p]
          /\ \/ ~PastTheFirstMaster(o)'
             \/ /\ PastTheFirstMaster(o) /\ pc[o] # "assign" /\ pc'[o] # "assign" /\ n'[o] = n[o]
      <4>. USE DEF RunTypeOK, PastTheFirstMaster, GoTo
      <4>1. CASE Probe(o)
        BY <1>0, <4>1 DEF Probe
      <4>2. CASE MeetMasters(o)
        BY <1>0, <2>3, <4>2 DEF MeetMasters
      <4>3. CASE WaitForMasters(o)
        BY <1>0, <2>3, <4>3 DEF WaitForMasters, RunsHaveMasters
      <4>4. CASE WaitForReady(o)
        BY <1>0, <2>3, <4>4 DEF WaitForReady
      <4>5. CASE MeetReplicas(o)
        BY <1>0, <2>3, <4>5 DEF MeetReplicas
      <4>6. CASE WaitForReplicas(o)
        BY <1>0, <2>3, <4>6 DEF WaitForReplicas
      <4>7. CASE ResolveMasters(o)
        BY <1>0, <2>3, <4>7 DEF ResolveMasters
      <4>8. CASE Replicate(o)
        BY <1>0, <2>3, <4>8 DEF Replicate
      <4>9. CASE OperatorCrashes(o)
        BY <2>3, <4>9 DEF OperatorCrashes
      <4>. QED
        BY <1>4, <4>1, <4>2, <4>3, <4>4, <4>5, <4>6, <4>7, <4>8, <4>9 DEF FormCluster
    <3>2. \A p \in Operators : PastTheFirstMaster(p)' =>
             /\ PastTheFirstMaster(p) /\ n'[p] = n[p]
             /\ pc'[p] = "assign" <=> pc[p] = "assign"
             /\ pc'[p] = "assign" => i'[p] = i[p]
      BY <3>1 DEF PastTheFirstMaster
    <3>. QED
      BY <2>1, <3>2, KeepPlan
  <2>. QED
    BY <2>2, <2>3
<1>. QED
  BY <1>1, <1>2, <1>4, AddSlotsPlan, LateAddSlotsPlan DEF Next, Redis, FormCluster

\* An operator past master 0 has the plan that the slots follow; master 0 has
\* slots, and past the loop every master of the plan has its own.
LEMMA FormersPlan ==
  ASSUME TypeOK, OnePlan, NEW o \in Operators, PastTheFirstMaster(o)
  PROVE  /\ n[o] \in MastersRange /\ claims[0] # {}
         /\ pc[o] # "assign" =>
                \A m \in Masters : claims[m] = IF m < n[o] THEN EvenSlots(m, n[o]) ELSE {}
<1>1. PICK k \in MastersRange : \E last \in -1 .. k - 1 : PlanHolds(k, last)
  BY DEF OnePlan
<1>2. PICK last \in -1 .. k - 1 : PlanHolds(k, last)
  BY <1>1
<1>3. k \in Nat /\ k >= 3 /\ 0 \in Masters /\ Masters \subseteq Nat /\ i[o] \in Nat
  BY RunNodes DEF TypeOK
<1>4. n[o] = k /\ last >= 0
  BY <1>2, <1>3 DEF PlanHolds, PastTheFirstMaster
<1>5. claims[0] # {}
  BY <1>2, <1>3, <1>4, FirstSlot DEF PlanHolds
<1>6. ASSUME pc[o] # "assign", NEW m \in Masters
      PROVE  claims[m] = IF m < k THEN EvenSlots(m, k) ELSE {}
  <2>1. last = k - 1
    BY <1>2, <1>6 DEF PlanHolds
  <2>2. m < k <=> m < k /\ m <= last
    BY <1>3, <2>1
  <2>. QED
    BY <1>2, <2>2 DEF PlanHolds
<1>. QED
  BY <1>4, <1>5, <1>6

\* Slots are only ever taken, so what master 0 knows of them only grows.
LEMMA SlotsGrow ==
  ASSUME TypeOK, [Next]_vars
  PROVE  /\ \A m \in Masters : claims[m] \subseteq claims'[m]
         /\ seen \subseteq seen' /\ joined \subseteq joined'
<1>1. claims' = claims \/ \E m, slots : TakeSlots(m, slots)
  BY DEF Next, Redis, FormCluster, HandshakeEnds, GossipArrives, ReplicaJoins, ReplicaLearns,
         LateAddSlots, Probe, MeetMasters, WaitForMasters, AddSlots, WaitForReady, MeetReplicas,
         WaitForReplicas, ResolveMasters, Replicate, OperatorCrashes, vars, slotVars
<1>2. \A m \in Masters : claims[m] \subseteq claims'[m]
  BY <1>1 DEF TakeSlots, TypeOK
<1>3. seen \subseteq seen' /\ joined \subseteq joined'
  BY DEF Next, Redis, FormCluster, HandshakeEnds, GossipArrives, ReplicaJoins, ReplicaLearns,
         LateAddSlots, Probe, MeetMasters, WaitForMasters, AddSlots, WaitForReady, MeetReplicas,
         WaitForReplicas, ResolveMasters, Replicate, OperatorCrashes, vars, slotVars
<1>. QED
  BY <1>2, <1>3

(***************************************************************************)
(* What master 0 has heard of.                                             *)
(***************************************************************************)

\* Gossip only brings slots of joined masters, and WaitForClusterReady is the
\* only way to the replicas.
LEMMA SeenStep ==
  ASSUME TypeOK, RunsHaveMasters, SeenIsClaimed, [Next]_vars, TypeOK'
  PROVE  SeenIsClaimed'
<1>0. /\ \A m \in Masters : claims[m] \subseteq claims'[m]
      /\ seen \subseteq seen' /\ joined \subseteq joined' /\ joined \subseteq Masters
      /\ 0 \in Masters
  BY SlotsGrow, RunNodes, ConstantsAssumption DEF TypeOK
<1>1. \A s \in seen' : \E m \in joined' : s \in claims'[m]
  <2>1. CASE seen' = seen
    BY <1>0, <2>1 DEF SeenIsClaimed
  <2>2. ASSUME NEW m \in Masters, GossipArrives(m)
        PROVE  \A s \in seen' : \E l \in joined' : s \in claims'[l]
    BY <1>0, <2>2 DEF SeenIsClaimed, GossipArrives
  <2>. QED
    BY <2>1, <2>2 DEF Next, Redis, FormCluster, HandshakeEnds, ReplicaJoins, ReplicaLearns,
         LateAddSlots, Probe, MeetMasters, WaitForMasters, AddSlots, WaitForReady, MeetReplicas,
         WaitForReplicas, ResolveMasters, Replicate, OperatorCrashes, vars, slotVars
<1>2. SlotsAssigned = Slots => SlotsAssigned' = Slots
  BY <1>0 DEF SlotsAssigned, TypeOK
<1>. DEFINE After == {"meetReplicas", "waitReplicas", "resolve", "replicate", "formed"}
<1>3. ASSUME NEW p \in Operators, pc'[p] \in After PROVE pc[p] \in After \/ SlotsAssigned = Slots
  <2>0. RunTypeOK
    BY TypeParts
  <2>1. CASE pc'[p] = pc[p]
    BY <1>3, <2>1
  <2>2. CASE ReturnError(p)
    BY <1>3, <2>0, <2>2 DEF ReturnError, RunTypeOK
  <2>3. ASSUME FormCluster(p) \/ OperatorCrashes(p), ~ReturnError(p)
        PROVE  pc[p] \in After \/ SlotsAssigned = Slots
    BY <1>3, <2>0, <2>3 DEF FormCluster, Probe, MeetMasters, WaitForMasters, AddSlots,
         WaitForReady, MeetReplicas, WaitForReplicas, ResolveMasters, Replicate,
         OperatorCrashes, GoTo, RunTypeOK
  <2>4. CASE Redis \/ UNCHANGED vars
    BY <2>1, <2>4 DEF Redis, HandshakeEnds, GossipArrives, ReplicaJoins, ReplicaLearns,
         LateAddSlots, vars, opVars
  <2>5. ASSUME NEW o \in Operators, o # p, FormCluster(o) \/ OperatorCrashes(o)
        PROVE  pc'[p] = pc[p]
    BY <2>0, <2>5 DEF FormCluster, Probe, MeetMasters, WaitForMasters, AddSlots,
         WaitForReady, MeetReplicas, WaitForReplicas, ResolveMasters, Replicate,
         OperatorCrashes, GoTo, ReturnError, RunTypeOK
  <2>. QED
    BY <2>1, <2>2, <2>3, <2>4, <2>5 DEF Next
<1>. QED
  BY <1>1, <1>2, <1>3 DEF SeenIsClaimed

(***************************************************************************)
(* The IDs of the masters.                                                 *)
(***************************************************************************)

\* The entry of CLUSTER NODES of master m.
MasterID(m) == [master |-> m, replica |-> NoMaster]

\* There are finitely many nodes.
LEMMA FiniteNodes ==
  /\ \A S \in SUBSET Masters : IsFiniteSet(S)
  /\ \A S \in SUBSET Replicas : IsFiniteSet(S)
<1>1. PICK k \in MastersRange : TRUE
  BY ConstantsAssumption
<1>2. NumSlots \in Nat /\ PerMaster \in Nat /\ NumSlots * PerMaster \in Nat
  BY <1>1, RunNodes
<1>3. \A a \in MastersRange : a \in Nat /\ a <= NumSlots /\ a * PerMaster <= NumSlots * PerMaster
  BY <1>2, RunNodes
<1>4. Masters \subseteq 0 .. NumSlots /\ Replicas \subseteq 0 .. NumSlots * PerMaster
  BY <1>2, <1>3 DEF Masters, Replicas
<1>5. IsFiniteSet(0 .. NumSlots) /\ IsFiniteSet(0 .. NumSlots * PerMaster)
  BY <1>2, FS_Interval
<1>. QED
  BY <1>4, <1>5, FS_Subset

\* What CLUSTER NODES lists at master 0 is finite.
LEMMA FiniteMasterNodeIDs ==
  ASSUME TypeOK
  PROVE  IsFiniteSet(MasterNodeIDs)
<1>. DEFINE A == [master : {0} \cup joined, replica : {NoMaster}]
            B == [master : {NoMaster}, replica : metJoined]
<1>1. IsFiniteSet({0} \cup joined) /\ IsFiniteSet(metJoined)
  <2>1. joined \in SUBSET Masters /\ metJoined \in SUBSET Replicas /\ 0 \in Masters
    BY RunNodes, ConstantsAssumption DEF TypeOK
  <2>. QED
    BY <2>1, FiniteNodes
<1>2. IsFiniteSet(A)
  <2>. DEFINE S == {0} \cup joined
              f == [m \in S |-> MasterID(m)]
  <2>. HIDE DEF S
  <2>1. f \in Surjection(S, [master : S, replica : {NoMaster}])
    BY DEF Surjection, MasterID
  <2>. QED
    BY <1>1, <2>1, FS_Surjection DEF S
<1>3. IsFiniteSet(B)
  <2>. DEFINE f == [r \in metJoined |-> [master |-> NoMaster, replica |-> r]]
  <2>1. f \in Surjection(metJoined, B)
    BY DEF Surjection
  <2>. QED
    BY <1>1, <2>1, FS_Surjection
<1>. QED
  BY <1>2, <1>3, FS_Union DEF MasterNodeIDs

\* Once master 0 knows an owner of every slot, all masters of the plan joined.
LEMMA AllMastersJoined ==
  ASSUME TypeOK, OnePlan, SeenIsClaimed, NEW o \in Operators, pc[o] = "resolve"
  PROVE  1 .. n[o] - 1 \subseteq joined
<1>. DEFINE k == n[o]
<1>1. /\ k \in MastersRange
      /\ \A m \in Masters : claims[m] = IF m < k THEN EvenSlots(m, k) ELSE {}
  BY FormersPlan DEF PastTheFirstMaster
<1>2. /\ k \in Nat /\ k >= 3 /\ 0 .. k - 1 \subseteq Masters /\ Masters \subseteq Nat
      /\ 0 \in Masters
  BY <1>1, RunNodes
<1>3. claims[0] \cup seen = Slots /\ joined \subseteq Masters
  BY DEF SeenIsClaimed, SlotsAssigned, TypeOK
<1>. HIDE DEF k
<1>4. ASSUME NEW m \in 1 .. k - 1 PROVE m \in joined
  <2>1. m \in 0 .. k - 1 /\ 0 \in 0 .. k - 1 /\ m # 0
    BY <1>2
  <2>2. PICK s \in EvenSlots(m, k) : s \in Slots
    BY <1>1, <2>1, EvenSlotsRange
  <2>3. s \notin claims[0]
    BY <1>1, <1>2, <2>1, EvenSlotsDisjoint
  <2>4. PICK l \in joined : s \in claims[l]
    BY <1>3, <2>2, <2>3 DEF SeenIsClaimed
  <2>5. l \in 0 .. k - 1 /\ s \in EvenSlots(l, k)
    BY <1>1, <1>2, <1>3, <2>4
  <2>6. l = m
    BY <1>1, <2>1, <2>5, EvenSlotsDisjoint
  <2>. QED
    BY <2>4, <2>6
<1>. QED
  BY <1>4 DEF k

\* If the number of IDs is that of the masters then they are those of the
\* masters: no replica, listed as a master without slots, is among them.
LEMMA ListedMasters ==
  ASSUME TypeOK, OnePlan, SeenIsClaimed, NEW o \in Operators, pc[o] = "resolve",
         Cardinality(MasterNodeIDs) = n[o]
  PROVE  IDsAreMasters(Listed(n[o]), n[o])
<1>. DEFINE k == n[o]
            D == {MasterID(m) : m \in 0 .. k - 1}
            g == [a \in 0 .. k - 1 |-> MasterID(a)]
<1>1. k \in MastersRange /\ k \in Nat /\ k >= 3
  BY FormersPlan, RunNodes DEF PastTheFirstMaster
<1>2. D \subseteq MasterNodeIDs
  BY <1>1, AllMastersJoined DEF MasterNodeIDs, MasterID
<1>3. IsFiniteSet(0 .. k - 1) /\ Cardinality(0 .. k - 1) = k
  <2>1. 0 \in Int /\ k - 1 \in Int /\ ~(0 > k - 1) /\ (k - 1) - 0 + 1 = k
    BY <1>1
  <2>. HIDE DEF k
  <2>. QED
    BY <2>1, FS_Interval
<1>4. \A a, b : MasterID(a) = MasterID(b) => a = b
  BY DEF MasterID
<1>5. g \in Bijection(0 .. k - 1, D)
  BY <1>4 DEF Bijection, Injection, Surjection, IsInjective
<1>6. Cardinality(D) = k
  BY <1>3, <1>5, FS_Bijection DEF ExistsBijection
<1>7. MasterNodeIDs = D
  BY <1>2, <1>6, FiniteMasterNodeIDs, FS_Subset
<1>. DEFINE f == Listed(k)
<1>8. f \in [0 .. k - 1 -> D] /\ \A a, b \in 0 .. k - 1 : f[a] = f[b] => a = b
  <2>1. g \in [0 .. k - 1 -> MasterNodeIDs] /\ \A a, b \in 0 .. k - 1 : g[a] = g[b] => a = b
    BY <1>4, <1>7
  <2>. HIDE DEF g, D, k
  <2>. QED
    BY <1>7, <2>1 DEF Listed
<1>. HIDE DEF f
<1>9. f \in Injection(0 .. k - 1, D)
  BY <1>8 DEF Injection, IsInjective
<1>10. f \in Surjection(0 .. k - 1, D)
  <2>1. IsFiniteSet(D)
    BY <1>3, <1>5, FS_Bijection DEF ExistsBijection
  <2>. HIDE DEF D
  <2>. QED
    BY <1>3, <1>6, <1>9, <2>1, FS_Injection
<1>11. \A x \in D : x.master \in 0 .. k - 1 /\ x = MasterID(x.master)
  BY DEF MasterID
<1>12. \A a \in 0 .. k - 1 : f[a] \in D
  BY <1>8
<1>13. \A m \in 0 .. k - 1 : \E a \in 0 .. k - 1 : f[a] = MasterID(m)
  BY <1>10 DEF Surjection
<1>14. \A m : MasterID(m).master = m
  BY DEF MasterID
<1>. HIDE DEF D, k
<1>15. IDsAreMasters(f, k)
  BY <1>8, <1>11, <1>12, <1>13, <1>14 DEF IDsAreMasters
<1>. QED
  BY <1>15 DEF f, k

(***************************************************************************)
(* The replicas.                                                           *)
(***************************************************************************)

\* A step of operator o that attaches no replica keeps ReplicasInTurn if it takes
\* o out, or leaves o before the loop over the replicas with none attached.
LEMMA KeepReplicas ==
  ASSUME ReplicasInTurn, PerMaster \in Nat, replicates' = replicates,
         claims'[0] = {} => claims[0] = {},
         NEW o \in Operators,
         \A p \in Operators : p # o =>
             pc'[p] = pc[p] /\ n'[p] = n[p] /\ i'[p] = i[p] /\ ids'[p] = ids[p],
         \/ ~PastTheFirstMaster(o)'
         \/ pc'[o] \notin {"replicate", "formed"} /\ \A r \in Replicas : replicates[r] = NoMaster
         \/ pc'[o] = "formed" /\ PerMaster = 0
  PROVE  ReplicasInTurn'
<1>1. \A p \in Operators : p # o => (PastTheFirstMaster(p)' <=> PastTheFirstMaster(p))
  BY DEF PastTheFirstMaster
<1>2. claims[0]' = {} => \A r \in Replicas : replicates'[r] = NoMaster
  BY DEF ReplicasInTurn
<1>3. ASSUME NEW p \in Operators, PastTheFirstMaster(p)', pc'[p] \notin {"replicate", "formed"}
      PROVE  \A r \in Replicas : replicates'[r] = NoMaster
  BY <1>1, <1>3 DEF ReplicasInTurn
<1>4. ASSUME NEW p \in Operators,
             pc'[p] = "replicate" \/ (pc'[p] = "formed" /\ PerMaster > 0)
      PROVE  /\ p # o /\ (pc[p] = "replicate" \/ (pc[p] = "formed" /\ PerMaster > 0))
             /\ pc'[p] = pc[p] /\ n'[p] = n[p] /\ i'[p] = i[p] /\ ids'[p] = ids[p]
  BY <1>4 DEF PastTheFirstMaster
<1>5. ASSUME NEW p \in Operators,
             pc'[p] = "replicate" \/ (pc'[p] = "formed" /\ PerMaster > 0)
      PROVE  /\ IDsAreMasters(ids'[p], n'[p])
             /\ pc'[p] = "formed" => i'[p] = n'[p] * PerMaster
             /\ \A r \in Replicas :
                    replicates'[r] = IF r < i'[p] THEN ids'[p][r % n'[p]].master ELSE NoMaster
  BY <1>4, <1>5 DEF ReplicasInTurn
<1>6. \A p \in Operators : IDsAreMasters(ids'[p], n'[p]) => IDsAreMasters(ids[p], n[p])'
  BY DEF IDsAreMasters
<1>. QED
  BY <1>2, <1>3, <1>5, <1>6 DEF ReplicasInTurn

\* A successful CLUSTER REPLICATE attaches replica i[o] to the next master in
\* turn; no other operator is past master 0.
LEMMA ReplicateStep ==
  ASSUME TypeOK, OneFormer, OnePlan, RunsHaveMasters, ReplicasInTurn, NEW o \in Operators,
         pc[o] = "replicate", claims' = claims, UNCHANGED <<n, ids>>,
         replicates' = [replicates EXCEPT ![i[o]] = ids[o][i[o] % n[o]].master],
         i' = [i EXCEPT ![o] = @ + 1],
         pc' = [pc EXCEPT ![o] = IF i[o] = n[o] * PerMaster - 1 THEN "formed" ELSE "replicate"]
  PROVE  ReplicasInTurn'
<1>. DEFINE r == i[o]
            last == n[o] * PerMaster - 1
<1>0. /\ RunTypeOK /\ replicates \in [Replicas -> Masters \cup {NoMaster}]
      /\ Replicas \subseteq Nat /\ n[o] \in Nat /\ PerMaster \in Nat
  BY TypeParts, RunNodes DEF TypeOK, RunsHaveMasters
<1>1. PastTheFirstMaster(o) /\ \A p \in Operators : p # o => ~PastTheFirstMaster(p)
  BY DEF PastTheFirstMaster, OneFormer
<1>2. claims[0] # {}
  BY <1>1, FormersPlan
<1>3. r \in Nat /\ i'[o] = r + 1 /\ last \in Int /\ (r = last => r + 1 = n[o] * PerMaster)
  BY <1>0 DEF RunTypeOK
<1>4. /\ \A p \in Operators : p # o => ~PastTheFirstMaster(p)'
      /\ pc'[o] = IF r = last THEN "formed" ELSE "replicate"
  BY <1>0, <1>1 DEF PastTheFirstMaster, RunTypeOK
<1>5. \A q \in Replicas :
          replicates[q] = IF q < r THEN ids[o][q % n[o]].master ELSE NoMaster
  BY DEF ReplicasInTurn
<1>6. \A q \in Replicas :
          replicates'[q] = IF q < r + 1 THEN ids[o][q % n[o]].master ELSE NoMaster
  <2>1. \A q \in Replicas : /\ q = r => replicates'[q] = ids[o][q % n[o]].master
                            /\ q # r => replicates'[q] = replicates[q]
    BY <1>0
  <2>2. \A q \in Replicas : q # r => (q < r + 1 <=> q < r)
    BY <1>0, <1>3
  <2>. HIDE DEF r
  <2>. QED
    BY <1>3, <1>5, <2>1, <2>2
<1>7. IDsAreMasters(ids[o], n[o])'
  <2>1. IDsAreMasters(ids[o], n[o])
    BY DEF ReplicasInTurn
  <2>. QED
    BY <2>1 DEF IDsAreMasters
<1>8. \A p \in Operators : pc'[p] \in {"replicate", "formed"} => p = o
  BY <1>4 DEF PastTheFirstMaster
<1>9. /\ i'[o] = r + 1 /\ n'[o] = n[o] /\ ids'[o] = ids[o]
      /\ pc'[o] = "formed" => i'[o] = n'[o] * PerMaster
  BY <1>3, <1>4
<1>. HIDE DEF r, last
<1>10. \A p \in Operators : PastTheFirstMaster(p)' => pc'[p] \in {"replicate", "formed"}
  BY <1>4
<1>. QED
  BY <1>2, <1>6, <1>7, <1>8, <1>9, <1>10 DEF ReplicasInTurn

\* Every step attaches the replicas in turn or not at all.
LEMMA ReplicasStep ==
  ASSUME IInv, [Next]_vars
  PROVE  ReplicasInTurn'
<1>0. /\ RunTypeOK /\ ReplicasInTurn /\ PerMaster \in Nat
      /\ TypeOK /\ OneFormer /\ OnePlan /\ RunsHaveMasters /\ SeenIsClaimed /\ OneListEach
  BY TypeParts, ConstantsAssumption DEF IInv
<1>1. claims'[0] = {} => claims[0] = {}
  BY <1>0, SlotsGrow, RunNodes, ConstantsAssumption
<1>2. CASE Redis \/ UNCHANGED vars
  <2>1. UNCHANGED <<pc, n, i, ids, replicates>>
    BY <1>2 DEF Redis, HandshakeEnds, GossipArrives, ReplicaJoins, ReplicaLearns, LateAddSlots,
                vars, opVars, replVars
  <2>2. \A p \in Operators : PastTheFirstMaster(p)' <=> PastTheFirstMaster(p)
    BY <2>1 DEF PastTheFirstMaster
  <2>3. \A p \in Operators : IDsAreMasters(ids[p], n[p]) => IDsAreMasters(ids[p], n[p])'
    BY <2>1 DEF IDsAreMasters
  <2>. QED
    BY <1>0, <1>1, <2>1, <2>2, <2>3 DEF ReplicasInTurn
<1>3. ASSUME NEW o \in Operators, FormCluster(o) \/ OperatorCrashes(o)
      PROVE  ReplicasInTurn'
  <2>0. \A p \in Operators : p # o =>
            pc'[p] = pc[p] /\ n'[p] = n[p] /\ i'[p] = i[p] /\ ids'[p] = ids[p]
    BY <1>0, <1>3 DEF FormCluster, Probe, MeetMasters, WaitForMasters, AddSlots,
         WaitForReady, MeetReplicas, WaitForReplicas, ResolveMasters, Replicate,
         OperatorCrashes, GoTo, ReturnError, RunTypeOK, OneListEach
  <2>1. ASSUME replicates' = replicates, ~PastTheFirstMaster(o)' PROVE ReplicasInTurn'
    BY <1>0, <1>1, <2>0, <2>1, KeepReplicas
  <2>2. ASSUME replicates' = replicates, PastTheFirstMaster(o),
               pc[o] \notin {"replicate", "formed"},
               pc'[o] \notin {"replicate", "formed"} \/ (pc'[o] = "formed" /\ PerMaster = 0)
        PROVE  ReplicasInTurn'
    <3>1. \A r \in Replicas : replicates[r] = NoMaster
      BY <1>0, <2>2 DEF ReplicasInTurn
    <3>. QED
      BY <1>0, <1>1, <2>0, <2>2, <3>1, KeepReplicas
  <2>3. ASSUME ReturnError(o), replicates' = replicates PROVE ReplicasInTurn'
    <3>1. ~PastTheFirstMaster(o)'
      BY <1>0, <2>3 DEF ReturnError, PastTheFirstMaster, RunTypeOK
    <3>. QED
      BY <2>1, <2>3, <3>1
  <2>. USE DEF GoTo, PastTheFirstMaster
  <2>4. CASE Probe(o)
    BY <1>0, <2>1, <2>4 DEF Probe, RunTypeOK, replVars
  <2>5. CASE MeetMasters(o)
    BY <1>0, <2>1, <2>3, <2>5 DEF MeetMasters, RunTypeOK, replVars
  <2>6. CASE WaitForMasters(o)
    BY <1>0, <2>1, <2>3, <2>6 DEF WaitForMasters, RunTypeOK, RunsHaveMasters, replVars
  <2>7. CASE AddSlots(o)
    <3>1. replicates' = replicates
      BY <2>7 DEF AddSlots, replVars
    <3>2. CASE ReturnError(o)
      BY <2>3, <3>1, <3>2
    <3>3. ASSUME ~MustRefuse(i[o], EvenSlots(i[o], n[o])),
                 pc' = [pc EXCEPT ![o] = IF i[o] = n[o] - 1 THEN "waitReady" ELSE "assign"]
          PROVE  ReplicasInTurn'
      <4>1. pc[o] = "assign" /\ pc'[o] \notin {"replicate", "formed"} /\ i[o] \in Nat
        BY <1>0, <2>7, <3>3 DEF AddSlots, RunTypeOK
      <4>2. CASE i[o] = 0
        <5>1. n[o] \in MastersRange /\ 0 \in Masters
          BY <1>0, <4>1, RunNodes DEF RunsHaveMasters
        <5>2. claims[0] = {}
          BY <1>0, <3>3, <4>2, <5>1, NothingTaken
        <5>3. \A r \in Replicas : replicates[r] = NoMaster
          BY <1>0, <5>2 DEF ReplicasInTurn
        <5>. QED
          BY <1>0, <1>1, <2>0, <3>1, <4>1, <5>3, KeepReplicas
      <4>3. CASE i[o] # 0
        BY <2>2, <3>1, <4>1, <4>3
      <4>. QED
        BY <4>2, <4>3
    <3>. QED
      BY <2>7, <3>2, <3>3 DEF AddSlots
  <2>8. CASE WaitForReady(o)
    BY <1>0, <2>2, <2>3, <2>8 DEF WaitForReady, RunTypeOK, replVars
  <2>9. CASE MeetReplicas(o)
    BY <1>0, <2>2, <2>3, <2>9 DEF MeetReplicas, RunTypeOK
  <2>10. CASE WaitForReplicas(o)
    BY <1>0, <2>2, <2>3, <2>10 DEF WaitForReplicas, RunTypeOK, replVars
  <2>11. CASE ResolveMasters(o)
    <3>1. replicates' = replicates /\ pc[o] = "resolve"
      BY <2>11 DEF ResolveMasters, replVars
    <3>2. CASE ReturnError(o)
      BY <2>3, <3>1, <3>2
    <3>3. ASSUME Cardinality(MasterNodeIDs) = n[o], ids' = [ids EXCEPT ![o] = Listed(n[o])],
                 pc' = [pc EXCEPT ![o] = "replicate"], i' = [i EXCEPT ![o] = 0], UNCHANGED n
          PROVE  ReplicasInTurn'
      <4>1. IDsAreMasters(Listed(n[o]), n[o])
        BY <1>0, <3>1, <3>3, ListedMasters
      <4>2. ids'[o] = Listed(n[o]) /\ n'[o] = n[o] /\ i'[o] = 0 /\ pc'[o] = "replicate"
        BY <1>0, <3>3 DEF OneListEach, RunTypeOK
      <4>3. IDsAreMasters(ids[o], n[o])'
        BY <4>1, <4>2 DEF IDsAreMasters
      <4>4. \A r \in Replicas : replicates[r] = NoMaster /\ ~(r < 0)
        <5>1. n[o] \in MastersRange
          BY <1>0, <3>1 DEF RunsHaveMasters
        <5>2. Replicas \subseteq Nat
          BY <5>1, RunNodes
        <5>. QED
          BY <1>0, <3>1, <5>2 DEF ReplicasInTurn
      <4>5. \A p \in Operators : PastTheFirstMaster(p)' => p = o
        BY <1>0, <2>0, <3>1 DEF OneFormer
      <4>6. \A p \in Operators : pc'[p] \in {"replicate", "formed"} => p = o
        BY <4>5
      <4>. QED
        BY <3>1, <4>2, <4>3, <4>4, <4>5, <4>6 DEF ReplicasInTurn
    <3>. QED
      BY <2>11, <3>2, <3>3 DEF ResolveMasters
  <2>12. CASE Replicate(o)
    <3>1. CASE replicates' = replicates /\ ReturnError(o)
      BY <2>3, <3>1
    <3>2. CASE replicates' # replicates \/ ~ReturnError(o)
      BY <1>0, <2>12, <3>2, ReplicateStep DEF Replicate, slotVars
    <3>. QED
      BY <3>1, <3>2
  <2>13. CASE OperatorCrashes(o)
    BY <2>3, <2>13 DEF OperatorCrashes, replVars
  <2>. QED
    BY <1>3, <2>4, <2>5, <2>6, <2>7, <2>8, <2>9, <2>10, <2>11, <2>12, <2>13 DEF FormCluster
<1>. QED
  BY <1>2, <1>3 DEF Next

\* The lists stay per operator.
LEMMA ListsStep ==
  ASSUME OneListEach, [Next]_vars
  PROVE  OneListEach'
<1>1. UNCHANGED ids \/ \E o \in Operators : \E l : ids' = [ids EXCEPT ![o] = l]
  BY DEF Next, Redis, FormCluster, HandshakeEnds, GossipArrives, ReplicaJoins, ReplicaLearns,
         LateAddSlots, Probe, MeetMasters, WaitForMasters, AddSlots, WaitForReady, MeetReplicas,
         WaitForReplicas, ResolveMasters, Replicate, OperatorCrashes, GoTo, ReturnError,
         vars, opVars
<1>. QED
  BY <1>1 DEF OneListEach

(***************************************************************************)
(* The theorems.                                                           *)
(***************************************************************************)

\* The inductive invariant holds before any operator has run.
LEMMA InitIInv == Init => IInv
<1>. SUFFICES ASSUME Init PROVE IInv
  OBVIOUS
<1>. USE DEF Init
<1>1. PICK k \in MastersRange : TRUE
  BY ConstantsAssumption
<1>2. k \in Nat /\ k >= 3 /\ -1 \in -1 .. k - 1 /\ Masters \subseteq Nat
  BY RunNodes
<1>3. \A o \in Operators : ~PastTheFirstMaster(o)
  BY DEF PastTheFirstMaster
<1>4. PlanHolds(k, -1)
  BY <1>2, <1>3 DEF PlanHolds
<1>5. RunsHaveMasters /\ OneListEach
  BY DEF RunsHaveMasters, OneListEach
<1>6. SeenIsClaimed /\ ReplicasInTurn
  BY <1>3 DEF SeenIsClaimed, ReplicasInTurn
<1>7. OneFormer /\ OnePlan
  BY <1>2, <1>3, <1>4 DEF OneFormer, OnePlan
<1>. QED
  BY <1>5, <1>6, <1>7, InitTypeOK DEF IInv

\* Formation keeps its invariant whatever the operators, their values of
\* spec.masters, their failures and the commands Redis executes late.
THEOREM Invariance == Spec => []IInv
<1>1. IInv /\ [Next]_vars => IInv'
  <2>. SUFFICES ASSUME IInv, [Next]_vars PROVE IInv'
    OBVIOUS
  <2>0. TypeOK /\ OneFormer /\ OnePlan /\ RunsHaveMasters /\ OneListEach /\ SeenIsClaimed /\ ReplicasInTurn
    BY DEF IInv
  <2>1. TypeOK'
    <3>1. CASE UNCHANGED vars
      BY <2>0, <3>1 DEF TypeOK, vars, opVars, slotVars, replVars
    <3>. QED
      BY <2>0, <3>1, RedisTypeOK, FormClusterTypeOK DEF Next
  <2>2. OneFormer' /\ OnePlan'
    BY <2>0, PlanStep
  <2>3. RunsHaveMasters' /\ OneListEach'
    BY <2>0, RunsStep, ListsStep
  <2>4. SeenIsClaimed'
    BY <2>0, <2>1, SeenStep
  <2>5. ReplicasInTurn'
    BY ReplicasStep
  <2>. QED
    BY <2>1, <2>2, <2>3, <2>4, <2>5 DEF IInv
<1>. QED
  BY <1>1, InitIInv, PTL DEF Spec

\* Every variable keeps its type: the loop over the masters never passes the
\* last master, nor the loop over the replicas the last replica, and a replica
\* is only ever made to follow one of the masters.
THEOREM FormationTypeCorrect == Spec => []TypeOK
<1>1. IInv => TypeOK
  BY DEF IInv
<1>. QED
  BY <1>1, Invariance, PTL

\* However many operators run without leader election, at most one gets past
\* ADDSLOTS at master 0.
THEOREM OneOperatorForms == Spec => []OneFormer
<1>1. IInv => OneFormer
  BY DEF IInv
<1>. QED
  BY <1>1, Invariance, PTL

\* The slots always are those of one even partition, given to the first masters
\* in order, whatever the values of spec.masters in the operators' caches.
THEOREM OnePartition == Spec => []SlotsOfOnePlan
<1>1. IInv => SlotsOfOnePlan
  <2>. SUFFICES ASSUME IInv PROVE SlotsOfOnePlan
    OBVIOUS
  <2>1. PICK k \in MastersRange : \E last \in -1 .. k - 1 : PlanHolds(k, last)
    BY DEF IInv, OnePlan
  <2>2. PICK last \in -1 .. k - 1 : PlanHolds(k, last)
    BY <2>1
  <2>3. last \in {NoMaster} \cup Masters
    BY RunNodes DEF NoMaster
  <2>. QED
    BY <2>2, <2>3 DEF SlotsOfOnePlan, PlanHolds
<1>. QED
  BY <1>1, Invariance, PTL

\* Of k * p replicas dealt in turn to k masters, each master gets p.
LEMMA DealtInTurn ==
  ASSUME NEW k \in Nat \ {0}, NEW p \in Nat, NEW a \in 0 .. k - 1
  PROVE  Cardinality({r \in 0 .. k * p - 1 : r % k = a}) = p
<1>. DEFINE S == {r \in 0 .. k * p - 1 : r % k = a}
            f == [q \in 0 .. p - 1 |-> q * k + a]
<1>1. IsFiniteSet(0 .. p - 1) /\ Cardinality(0 .. p - 1) = p
  <2>1. 0 \in Int /\ p - 1 \in Int /\ (IF 0 > p - 1 THEN 0 ELSE p - 1 - 0 + 1) = p
    OBVIOUS
  <2>. QED
    BY <2>1, FS_Interval
<1>2. \A q \in 0 .. p - 1 : q * k + a \in S
  <2>. TAKE q \in 0 .. p - 1
  <2>1. q \in Nat /\ q * k \in Nat /\ q * k + a \in Nat /\ (q * k + a) % k = a
    OBVIOUS
  <2>2. q + 1 <= p /\ (q + 1) * k <= p * k /\ (q + 1) * k = q * k + k /\ p * k = k * p
    OBVIOUS
  <2>. QED
    BY <2>1, <2>2
<1>3. \A q, s \in 0 .. p - 1 : q * k + a = s * k + a => q = s
  <2>. SUFFICES ASSUME NEW q \in 0 .. p - 1, NEW s \in 0 .. p - 1, q * k + a = s * k + a
                PROVE  q = s
    OBVIOUS
  <2>1. (q * k + a) \div k = q /\ (s * k + a) \div k = s
    OBVIOUS
  <2>. QED
    BY <2>1
<1>4. \A r \in S : \E q \in 0 .. p - 1 : q * k + a = r
  <2>. SUFFICES ASSUME NEW r \in S PROVE \E q \in 0 .. p - 1 : q * k + a = r
    OBVIOUS
  <2>. DEFINE q == r \div k
  <2>1. r \in Nat /\ r % k = a /\ r < k * p
    OBVIOUS
  <2>2. q \in Nat /\ r = q * k + a
    BY <2>1
  <2>3. q < p
    <3>1. p <= q => p * k <= q * k
      BY <2>2
    <3>. QED
      BY <2>1, <2>2, <3>1
  <2>. QED
    BY <2>2, <2>3
<1>. HIDE DEF S
<1>5. f \in Bijection(0 .. p - 1, S)
  BY <1>2, <1>3, <1>4 DEF Bijection, Injection, Surjection, IsInjective
<1>. QED
  BY <1>1, <1>5, FS_Bijection DEF ExistsBijection, S

\* FormCluster returns nil only when every slot has an owner and every master
\* has its own slots and PerMaster replicas: although WaitForMasters counts
\* handshakes and CLUSTER NODES may list replicas as masters.
THEOREM FormedWhenNil == Spec => []NilMeansFormed
<1>1. IInv => NilMeansFormed
  <2>. SUFFICES ASSUME IInv, NEW o \in Operators, pc[o] = "formed"
                PROVE  /\ UNION {claims[m] : m \in Masters} = Slots
                       /\ \A m \in 0 .. n[o] - 1 :
                              /\ claims[m] # {}
                              /\ Cardinality({r \in Replicas : replicates[r] = m}) = PerMaster
    BY DEF NilMeansFormed
  <2>. DEFINE k == n[o]
  <2>0. TypeOK /\ OnePlan /\ SeenIsClaimed /\ ReplicasInTurn
    BY DEF IInv
  <2>1. /\ k \in MastersRange
        /\ \A m \in Masters : claims[m] = IF m < k THEN EvenSlots(m, k) ELSE {}
    BY <2>0, FormersPlan DEF PastTheFirstMaster
  <2>2. /\ k \in Nat \ {0} /\ PerMaster \in Nat /\ 0 \in Masters /\ 0 .. k - 1 \subseteq Masters
        /\ Replicas \subseteq Nat /\ 0 .. k * PerMaster - 1 \subseteq Replicas
    BY <2>1, RunNodes
  <2>3. UNION {claims[m] : m \in Masters} = Slots
    <3>1. claims[0] \cup seen = Slots /\ joined \subseteq Masters /\ claims \in [Masters -> SUBSET Slots]
      BY <2>0 DEF SeenIsClaimed, SlotsAssigned, TypeOK
    <3>2. \A s \in Slots : \E m \in Masters : s \in claims[m]
      BY <2>0, <2>2, <3>1 DEF SeenIsClaimed
    <3>. QED
      BY <3>1, <3>2
  <2>4. ASSUME NEW m \in 0 .. k - 1 PROVE claims[m] # {}
    BY <2>1, <2>2, EvenSlotsRange
  <2>5. ASSUME NEW m \in 0 .. k - 1
        PROVE  Cardinality({r \in Replicas : replicates[r] = m}) = PerMaster
    <3>1. CASE PerMaster = 0
      <4>1. Replicas = {}
        BY <3>1, ConstantsAssumption DEF Replicas
      <4>. QED
        BY <3>1, <4>1, FS_EmptySet
    <3>2. CASE PerMaster > 0
      <4>1. /\ IDsAreMasters(ids[o], k)
            /\ \A r \in Replicas :
                   replicates[r] = IF r < k * PerMaster THEN ids[o][r % k].master ELSE NoMaster
        BY <2>0, <3>2 DEF ReplicasInTurn
      <4>2. PICK a \in 0 .. k - 1 : ids[o][a].master = m
        BY <4>1 DEF IDsAreMasters
      <4>. HIDE DEF k
      <4>3. ASSUME NEW r \in Replicas
            PROVE  replicates[r] = m <=> r \in 0 .. k * PerMaster - 1 /\ r % k = a
        <5>1. r % k \in 0 .. k - 1 /\ r \in Nat /\ k * PerMaster \in Nat /\ m # NoMaster
          BY <2>2 DEF NoMaster
        <5>2. ids[o][r % k].master = m <=> r % k = a
          BY <4>1, <4>2, <5>1 DEF IDsAreMasters
        <5>3. r < k * PerMaster <=> r \in 0 .. k * PerMaster - 1
          BY <5>1
        <5>. QED
          BY <4>1, <5>1, <5>2, <5>3
      <4>4. {r \in Replicas : replicates[r] = m} = {r \in 0 .. k * PerMaster - 1 : r % k = a}
        BY <2>2, <4>3
      <4>5. Cardinality({r \in 0 .. k * PerMaster - 1 : r % k = a}) = PerMaster
        BY <2>2, DealtInTurn
      <4>. QED
        BY <4>4, <4>5
    <3>. QED
      BY <2>2, <3>1, <3>2
  <2>. QED
    BY <2>3, <2>4, <2>5
<1>. QED
  BY <1>1, Invariance, PTL
=============================================================================
