--------------------------- MODULE ClusterFormation ---------------------------
(***************************************************************************)
(* FormCluster and AssignSlotsEvenly of internal/redis/cluster.go, called  *)
(* by the first branch of reconcileClusterLifecycle when master 0 reports  *)
(* no assigned slots.                                                      *)
(*                                                                         *)
(* Leader election is off by default (cmd/main.go), so several operators   *)
(* may form the same cluster, each with the spec.masters of its own cache. *)
(* Nodes are named by their index in the code: master m is masterAddrs[m], *)
(* replica r is replicaAddrs[r].  Only master 0's view of the cluster is   *)
(* kept, because every question of the code is asked there.                *)
(***************************************************************************)
EXTENDS Integers, FiniteSets

CONSTANTS
    Operators,     \* operator processes without leader election
    MastersRange,  \* the values of spec.masters that their caches may hold
    PerMaster,     \* spec.replicasPerMaster
    NumSlots,      \* totalHashSlots, 16384 in the code
    Faults,        \* which failures the environment may inject
    MaxFaults      \* bound on the injected failures

AllFaults == {"meet", "timeout", "error", "late", "crash"}

\* The CRD asks for at least three masters, as FormCluster does.
ASSUME ConstantsAssumption ==
    /\ IsFiniteSet(Operators)
    /\ IsFiniteSet(MastersRange) /\ MastersRange # {} /\ MastersRange \subseteq Nat \ (0 .. 2)
    /\ PerMaster \in Nat /\ NumSlots \in Nat
    /\ \A n \in MastersRange : n <= NumSlots
    /\ Faults \subseteq AllFaults /\ MaxFaults \in Nat

Slots    == 0 .. NumSlots - 1
Masters  == UNION {0 .. n - 1 : n \in MastersRange}
Replicas == UNION {0 .. n * PerMaster - 1 : n \in MastersRange}
NoMaster == -1

VARIABLES
    pc,         \* pc[o]: where FormCluster of operator o is
    n,          \* n[o]: len(masterAddrs) of its run
    i,          \* i[o]: its loop index
    ids,        \* ids[o]: masterIDs, in the order CLUSTER NODES listed them
    known,      \* masters that master 0 lists, those in handshake included
    joined,     \* the ones whose handshake is over
    claims,     \* claims[m]: the slots master m says it owns
    seen,       \* slots of other masters that master 0 has heard of
    inflight,   \* ADDSLOTS <<m, n>> given up by the client, not yet by the server
    met,        \* replicas that master 0 lists
    metJoined,  \* the ones whose handshake is over
    informed,   \* replicas that know the node IDs of the masters
    replicates, \* replicates[r]: the master that replica r follows
    faults

opVars    == <<pc, n, i, ids>>
slotVars  == <<known, joined, claims, seen, inflight>>
replVars  == <<met, metJoined, informed, replicates>>
vars      == <<opVars, slotVars, replVars, faults>>

Init ==
    /\ pc = [o \in Operators |-> "idle"]
    /\ n = [o \in Operators |-> 0] /\ i = [o \in Operators |-> 0]
    /\ ids = [o \in Operators |-> <<>>]
    /\ known = {} /\ joined = {} /\ seen = {} /\ inflight = {}
    /\ claims = [m \in Masters |-> {}]
    /\ met = {} /\ metJoined = {} /\ informed = {}
    /\ replicates = [r \in Replicas |-> NoMaster]
    /\ faults = 0

Works    == UNCHANGED faults
Fails(f) == f \in Faults /\ faults < MaxFaults /\ faults' = faults + 1

\* Control of operator o: go on, or return an error: setClusterFailedStatus and
\* a requeue after 30 seconds, with new locals.
GoTo(o, label) == pc' = [pc EXCEPT ![o] = label] /\ UNCHANGED <<n, i, ids>>
ReturnError(o) == /\ pc' = [pc EXCEPT ![o] = "idle"] /\ n' = [n EXCEPT ![o] = 0]
                  /\ i' = [i EXCEPT ![o] = 0] /\ ids' = [ids EXCEPT ![o] = <<>>]

\* Mutant: the last master gets as many slots as the others.
EvenSlotsWithoutRemainder(m, k) ==
    m * (NumSlots \div k) .. (m + 1) * (NumSlots \div k) - 1

\* The arguments of the i-th ADDSLOTS: the last master gets the remainder.
EvenSlots(m, k) ==
    LET slotsPerMaster == NumSlots \div k
    IN  IF m = k - 1 THEN m * slotsPerMaster .. NumSlots - 1
        ELSE m * slotsPerMaster .. (m + 1) * slotsPerMaster - 1

SlotsAssigned == claims[0] \cup seen

(***************************************************************************)
(* Redis (external).                                                       *)
(***************************************************************************)

\* ADDSLOTS takes all the slots or none.  A node always knows its own slots;
\* those of the others only if gossip has brought them.
MustRefuse(m, slots) == claims[m] \cap slots # {}
MayRefuse(m, slots)  == \E other \in Masters : claims[other] \cap slots # {}

TakeSlots(m, slots) == claims' = [claims EXCEPT ![m] = @ \cup slots]

HandshakeEnds(m) ==
    /\ m \in known \ joined /\ joined' = joined \cup {m}
    /\ UNCHANGED <<opVars, known, claims, seen, inflight, replVars, faults>>

GossipArrives(m) ==
    /\ m \in joined /\ ~(claims[m] \subseteq seen) /\ seen' = seen \cup claims[m]
    /\ UNCHANGED <<opVars, known, joined, claims, inflight, replVars, faults>>

\* The two ends of a handshake finish independently: master 0 then lists the
\* replica, still a master without slots, and the replica learns the node IDs.
ReplicaJoins(r) ==
    /\ r \in met \ metJoined /\ metJoined' = metJoined \cup {r}
    /\ UNCHANGED <<opVars, slotVars, met, informed, replicates, faults>>

ReplicaLearns(r) ==
    /\ r \in met \ informed /\ informed' = informed \cup {r}
    /\ UNCHANGED <<opVars, slotVars, met, metJoined, replicates, faults>>

\* A command whose client timed out is executed, or refused, all the same.
LateAddSlots(c) ==
    LET slots == EvenSlots(c[1], c[2])
    IN  /\ c \in inflight /\ inflight' = inflight \ {c}
        /\ \/ ~MustRefuse(c[1], slots) /\ TakeSlots(c[1], slots)
           \/ MayRefuse(c[1], slots) /\ UNCHANGED claims
        /\ UNCHANGED <<opVars, known, joined, seen, replVars, faults>>

(***************************************************************************)
(* FormCluster.                                                            *)
(***************************************************************************)

\* GetClusterState at master 0, all pods being ready.
Probe(o) ==
    /\ pc[o] = "idle" /\ SlotsAssigned = {}
    /\ pc' = [pc EXCEPT ![o] = "meet"]
    /\ \E k \in MastersRange : n' = [n EXCEPT ![o] = k]
    /\ UNCHANGED <<i, ids, slotVars, replVars>> /\ Works

\* MEET every pair of masters: at master 0 it leaves entries in handshake.
MeetMasters(o) ==
    /\ pc[o] = "meet"
    /\ \/ known' = known \cup 1 .. n[o] - 1 /\ GoTo(o, "waitKnown") /\ Works
       \/ /\ \E k \in 0 .. n[o] - 1 : known' = known \cup 1 .. k
          /\ ReturnError(o) /\ Fails("meet")
    /\ UNCHANGED <<joined, claims, seen, inflight, replVars>>

\* waitForKnownNodes: cluster_known_nodes counts entries in handshake as well.  The
\* deadline of a wait is the fault "timeout", bounded as the others are: the next
\* attempt starts over, and no wait may need its deadline in order to end.
WaitForMasters(o) ==
    /\ pc[o] = "waitKnown"
    /\ \/ Cardinality(known) + 1 >= n[o] /\ GoTo(o, "assign") /\ Works
       \/ ReturnError(o) /\ Fails("timeout")
    /\ UNCHANGED <<slotVars, replVars>>

\* Mutant: the loop takes one step too many.
AddSlotsPastTheEnd(o) ==
    /\ pc[o] = "assign" /\ Works
    /\ ~MustRefuse(i[o], EvenSlots(i[o], n[o])) /\ TakeSlots(i[o], EvenSlots(i[o], n[o]))
    /\ i' = [i EXCEPT ![o] = @ + 1]
    /\ pc' = [pc EXCEPT ![o] = IF i[o] = n[o] THEN "waitReady" ELSE "assign"]
    /\ UNCHANGED <<n, ids, known, joined, seen, inflight, replVars>>

\* Mutant: the masters are served from the last to the first.
AddSlotsFromTheLast(o) ==
    LET m == n[o] - 1 - i[o]  slots == EvenSlots(m, n[o])
    IN  /\ pc[o] = "assign"
        /\ \/ /\ ~MustRefuse(m, slots) /\ TakeSlots(m, slots)
              /\ i' = [i EXCEPT ![o] = @ + 1]
              /\ pc' = [pc EXCEPT ![o] = IF m = 0 THEN "waitReady" ELSE "assign"]
              /\ UNCHANGED <<n, ids>> /\ Works
           \/ MayRefuse(m, slots) /\ UNCHANGED claims /\ ReturnError(o) /\ Works
        /\ UNCHANGED <<known, joined, seen, inflight, replVars>>

\* Mutant: a master that refuses its slots is passed over.
AddSlotsIgnoringErrors(o) ==
    LET m == i[o]  slots == EvenSlots(m, n[o])
    IN  /\ pc[o] = "assign" /\ Works
        /\ \/ ~MustRefuse(m, slots) /\ TakeSlots(m, slots)
           \/ MayRefuse(m, slots) /\ UNCHANGED claims
        /\ i' = [i EXCEPT ![o] = @ + 1]
        /\ pc' = [pc EXCEPT ![o] = IF m = n[o] - 1 THEN "waitReady" ELSE "assign"]
        /\ UNCHANGED <<n, ids, known, joined, seen, inflight, replVars>>

\* AssignSlotsEvenly, one ADDSLOTS.  The first one, at master 0, is what keeps
\* a second operator out.
AddSlots(o) ==
    LET m == i[o]  slots == EvenSlots(m, n[o])
    IN  /\ pc[o] = "assign"
        /\ \/ /\ ~MustRefuse(m, slots) /\ TakeSlots(m, slots)
              /\ i' = [i EXCEPT ![o] = @ + 1]
              /\ pc' = [pc EXCEPT ![o] = IF m = n[o] - 1 THEN "waitReady" ELSE "assign"]
              /\ UNCHANGED <<n, ids, inflight>> /\ Works
           \/ /\ MayRefuse(m, slots) /\ UNCHANGED <<claims, inflight>>
              /\ ReturnError(o) /\ Works
           \/ UNCHANGED <<claims, inflight>> /\ ReturnError(o) /\ Fails("error")
           \/ /\ inflight' = inflight \cup {<<m, n[o]>>} /\ UNCHANGED claims
              /\ ReturnError(o) /\ Fails("late")
        /\ UNCHANGED <<known, joined, seen, replVars>>

\* WaitForClusterReady: cluster_state is ok when master 0 knows an owner of
\* every slot.
WaitForReady(o) ==
    /\ pc[o] = "waitReady"
    /\ \/ SlotsAssigned = Slots /\ GoTo(o, IF PerMaster = 0 THEN "formed" ELSE "meetReplicas") /\ Works
       \/ ReturnError(o) /\ Fails("timeout")
    /\ UNCHANGED <<slotVars, replVars>>

MeetReplicas(o) ==
    /\ pc[o] = "meetReplicas"
    /\ \/ met' = met \cup 0 .. n[o] * PerMaster - 1 /\ GoTo(o, "waitReplicas") /\ Works
       \/ /\ \E k \in 0 .. n[o] * PerMaster - 1 : met' = met \cup 0 .. k - 1
          /\ ReturnError(o) /\ Fails("meet")
    /\ UNCHANGED <<slotVars, metJoined, informed, replicates>>

WaitForReplicas(o) ==
    /\ pc[o] = "waitReplicas"
    /\ \/ Cardinality(known) + 1 + Cardinality(met) >= n[o] + n[o] * PerMaster
          /\ GoTo(o, "resolve") /\ Works
       \/ ReturnError(o) /\ Fails("timeout")
    /\ UNCHANGED <<slotVars, replVars>>

\* What master 0 lists with the flag master: itself, the masters and the
\* replicas whose handshake is over, as nothing made them replicas yet.
MasterNodeIDs == [master : {0} \cup joined, replica : {NoMaster}]
                 \cup [master : {NoMaster}, replica : metJoined]

\* The first k of them in the order of the answer: some order, and as nothing
\* tells the masters apart here, any one stands for all.
Listed(k) == CHOOSE f \in [0 .. k - 1 -> MasterNodeIDs] :
                 \A a, b \in 0 .. k - 1 : f[a] = f[b] => a = b

\* Mutant: the number of master IDs is not compared with the masters.
ResolveAny(o) ==
    /\ pc[o] = "resolve"
    /\ ids' = [ids EXCEPT ![o] = Listed(n[o])]
    /\ pc' = [pc EXCEPT ![o] = "replicate"] /\ i' = [i EXCEPT ![o] = 0] /\ UNCHANGED n
    /\ UNCHANGED <<slotVars, replVars>> /\ Works

\* ClusterNodes at master 0, then the comparison of the number of masters.
ResolveMasters(o) ==
    /\ pc[o] = "resolve"
    /\ \/ /\ Cardinality(MasterNodeIDs) = n[o] /\ Works
          /\ ids' = [ids EXCEPT ![o] = Listed(n[o])]
          /\ pc' = [pc EXCEPT ![o] = "replicate"] /\ i' = [i EXCEPT ![o] = 0] /\ UNCHANGED n
       \/ Cardinality(MasterNodeIDs) # n[o] /\ ReturnError(o) /\ Works
       \/ ReturnError(o) /\ Fails("error")
    /\ UNCHANGED <<slotVars, replVars>>

\* CLUSTER REPLICATE, sent to replica r: refused while r does not know the ID.
Replicate(o) ==
    LET r == i[o]
    IN  /\ pc[o] = "replicate"
        /\ \/ /\ r \in informed /\ Works
              /\ replicates' = [replicates EXCEPT ![r] = ids[o][r % n[o]].master]
              /\ i' = [i EXCEPT ![o] = @ + 1]
              /\ pc' = [pc EXCEPT ![o] = IF r = n[o] * PerMaster - 1 THEN "formed" ELSE "replicate"]
              /\ UNCHANGED <<n, ids>>
           \/ r \notin informed /\ ReturnError(o) /\ UNCHANGED replicates /\ Works
           \/ ReturnError(o) /\ UNCHANGED replicates /\ Fails("error")
        /\ UNCHANGED <<slotVars, met, metJoined, informed>>

OperatorCrashes(o) ==
    /\ pc[o] \notin {"idle", "formed"} /\ ReturnError(o) /\ Fails("crash")
    /\ UNCHANGED <<slotVars, replVars>>

FormCluster(o) ==
    \/ Probe(o) \/ MeetMasters(o) \/ WaitForMasters(o) \/ AddSlots(o) \/ WaitForReady(o)
    \/ MeetReplicas(o) \/ WaitForReplicas(o) \/ ResolveMasters(o) \/ Replicate(o)

Redis ==
    \/ \E m \in Masters : HandshakeEnds(m) \/ GossipArrives(m)
    \/ \E r \in Replicas : ReplicaJoins(r) \/ ReplicaLearns(r)
    \/ \E c \in inflight : LateAddSlots(c)

Next == Redis \/ \E o \in Operators : FormCluster(o) \/ OperatorCrashes(o)

Spec == Init /\ [][Next]_vars

\* The controller requeues after every return, and the cluster bus delivers.
Fairness == /\ \A o \in Operators : WF_vars(FormCluster(o))
            /\ \A m \in Masters : WF_vars(HandshakeEnds(m)) /\ WF_vars(GossipArrives(m))
            /\ \A r \in Replicas : WF_vars(ReplicaJoins(r)) /\ WF_vars(ReplicaLearns(r))

FairSpec == Spec /\ Fairness

(***************************************************************************)
(* Properties.                                                             *)
(***************************************************************************)

\* The type of every variable; a loop index never passes the nodes of its run.
TypeOK ==
    /\ pc \in [Operators -> {"idle", "meet", "waitKnown", "assign", "waitReady", "meetReplicas",
                             "waitReplicas", "resolve", "replicate", "formed"}]
    /\ n \in [Operators -> MastersRange \cup {0}] /\ i \in [Operators -> Nat]
    /\ known \subseteq Masters /\ joined \subseteq known
    /\ claims \in [Masters -> SUBSET Slots] /\ seen \subseteq Slots
    /\ inflight \subseteq Masters \X MastersRange
    /\ met \subseteq Replicas /\ metJoined \subseteq met /\ informed \subseteq met
    /\ replicates \in [Replicas -> Masters \cup {NoMaster}]
    /\ faults \in 0 .. MaxFaults
    /\ \A o \in Operators : /\ pc[o] = "assign" => i[o] < n[o]
                            /\ pc[o] = "replicate" => i[o] < n[o] * PerMaster

PastTheFirstMaster(o) ==
    \/ pc[o] = "assign" /\ i[o] > 0
    \/ pc[o] \in {"waitReady", "meetReplicas", "waitReplicas", "resolve", "replicate", "formed"}

\* Without leader election at most one operator gets past ADDSLOTS at master 0,
\* so no two of them assign slots or attach replicas at the same time.
OneFormer == \A o, p \in Operators : PastTheFirstMaster(o) /\ PastTheFirstMaster(p) => o = p

\* Whatever the operators, their values of spec.masters, their crashes and the
\* commands executed late: the slots are those of one even partition, given to
\* the first masters in order.  No slot gets two owners.
SlotsOfOnePlan ==
    \E k \in MastersRange, last \in {NoMaster} \cup Masters :
        \A m \in Masters :
            claims[m] = IF m < k /\ m <= last THEN EvenSlots(m, k) ELSE {}

\* FormCluster returns nil only when every slot has an owner, every replica
\* follows a master that owns slots and every master has PerMaster of them.
NilMeansFormed ==
    \A o \in Operators : pc[o] = "formed" =>
        /\ UNION {claims[m] : m \in Masters} = Slots
        /\ \A m \in 0 .. n[o] - 1 :
               /\ claims[m] # {}
               /\ Cardinality({r \in Replicas : replicates[r] = m}) = PerMaster

\* However often it fails, formation gets hold of master 0, every attempt ends,
\* and none is started again.
FormationSettles ==
    <>[](claims[0] # {} /\ \A o \in Operators : pc[o] \in {"idle", "formed"})

\* "3. MEETs replica nodes and assigns them to masters": a cluster that owns
\* all its slots gets its replicas.
ReplicasAttached ==
    UNION {claims[m] : m \in Masters} = Slots
        ~> \A r \in Replicas : replicates[r] # NoMaster
=============================================================================
