--------------------------- MODULE ClusterScaling ---------------------------
(***************************************************************************)
(* How a change of spec.masters reaches the slots: the reconciler updates  *)
(* the master StatefulSet, probes the cluster from master 0, and runs      *)
(* reconcileScaleOut or reconcileScaleIn, which call AddMaster,            *)
(* RebalanceSlots and RemoveMaster of internal/redis/cluster.go.           *)
(*                                                                         *)
(* A master is its StatefulSet ordinal, as in clusterMasterAddr.  One call *)
(* of MigrateSlot is one step here: it moves the slot or fails and leaves  *)
(* it (module SlotMigration has the steps inside).  Pods start and stop    *)
(* and CLUSTER MEET spreads while the reconciler runs.                     *)
(***************************************************************************)
EXTENDS Integers, FiniteSets

CONSTANTS
    NumSlots,       \* totalHashSlots
    InitMasters,    \* masters of the formed cluster the model starts from
    MaxMasters,     \* ordinals are 0 .. MaxMasters - 1
    Wanted,         \* the values users give spec.masters
    MaxEdits,       \* bound on the users' edits
    MaxFaults,      \* bound on failed commands and operator crashes
    MaxPodCrashes,  \* bound on crashes of master pods
    AddrsAnnounced  \* nodes announce the addresses the operator uses; FALSE as
                    \* built: they announce pod IPs and it compares DNS names

Slots   == 0 .. NumSlots - 1
Masters == 0 .. MaxMasters - 1
NoOne   == -1

ASSUME SizesAssumption ==
    /\ NumSlots \in Nat \ {0} /\ MaxMasters \in Nat \ {0}
    /\ InitMasters \in 1 .. MaxMasters /\ Wanted \subseteq 1 .. MaxMasters
    /\ MaxEdits \in Nat /\ MaxFaults \in Nat /\ MaxPodCrashes \in Nat
    /\ AddrsAnnounced \in BOOLEAN

VARIABLES
    spec,     \* spec.masters
    sts,      \* replicas of the master StatefulSet
    pods,     \* ordinals of the Ready master pods
    members,  \* masters of the Redis cluster, as master 0 lists them
    fresh,    \* members that only master 0 and they themselves know of yet
    owner,    \* owner of each slot
    pc,       \* where the reconciler is, "idle" between reconciles
    want,     \* spec.masters in the object this reconcile read
    cur,      \* currentMasters of this reconcile
    idx,      \* loop variable of the AddMaster and RemoveMaster loops
    counts,   \* slotCounts of the running RebalanceSlots
    pending,  \* donors RebalanceSlots has not come to yet
    donor,    \* the donor it is at
    snap,     \* that donor's slots in donorNodes
    excess,   \* how many the donor should still give away
    recv,     \* index of the receiver in masterAddrs
    queue,    \* slotsToDonate still to be moved to the receiver
    result,   \* how the last reconcile left the lifecycle: "none", "wait", "err", "out", "in"
    edits, faults, podCrashes

envVars   == <<spec, pods, fresh, edits, podCrashes>>
redisVars == <<members, owner>>
loopVars  == <<counts, pending, donor, snap, excess, recv, queue>>
vars == <<envVars, sts, redisVars, pc, want, cur, idx, loopVars, result, faults>>

SlotsOf(i)  == {s \in Slots : owner[s] = i}
Size        == Cardinality({i \in Masters : SlotsOf(i) # {}})
\* cluster_state: a slot without a reachable owner fails the whole cluster.
ClusterFail == \E s \in Slots : owner[s] \notin pods

\* AssignSlotsEvenly over n masters: equal ranges, the last takes the rest.
AssignSlotsEvenly(n) ==
    LET slotsPerMaster == NumSlots \div n
    IN  [s \in Slots |-> IF s < (n - 1) * slotsPerMaster THEN s \div slotsPerMaster ELSE n - 1]

Init ==
    /\ spec = InitMasters /\ sts = InitMasters
    /\ pods = 0 .. InitMasters - 1 /\ members = pods /\ fresh = {}
    /\ owner = AssignSlotsEvenly(InitMasters)
    /\ pc = "idle" /\ want = InitMasters /\ cur = InitMasters /\ idx = 0
    /\ counts = [i \in Masters |-> 0] /\ pending = {}
    /\ donor = 0 /\ snap = {} /\ excess = 0 /\ recv = 0 /\ queue = {}
    /\ result = "none" /\ edits = 0 /\ faults = 0 /\ podCrashes = 0

(***************************************************************************)
(* The environment.                                                        *)
(***************************************************************************)

\* ValidateUpdate lets spec.masters shrink by one at a time.
UserScales(n) ==
    /\ edits < MaxEdits /\ n # spec /\ spec - n <= 1
    /\ spec' = n /\ edits' = edits + 1
    /\ UNCHANGED <<sts, pods, fresh, podCrashes, redisVars, pc, want, cur, idx, loopVars, result, faults>>

\* The StatefulSet controller (external).
PodStarts(i) ==
    /\ i < sts /\ i \notin pods
    /\ pods' = pods \cup {i}
    /\ UNCHANGED <<spec, sts, fresh, edits, podCrashes, redisVars, pc, want, cur, idx, loopVars, result, faults>>

PodStops(i) ==
    /\ i >= sts /\ i \in pods
    /\ pods' = pods \ {i}
    /\ UNCHANGED <<spec, sts, fresh, edits, podCrashes, redisVars, pc, want, cur, idx, loopVars, result, faults>>

\* A master pod dies; the StatefulSet starts it again with its nodes.conf.
PodCrashes(i) ==
    /\ podCrashes < MaxPodCrashes /\ i < sts /\ i \in pods
    /\ pods' = pods \ {i} /\ podCrashes' = podCrashes + 1
    /\ UNCHANGED <<spec, sts, fresh, edits, redisVars, pc, want, cur, idx, loopVars, result, faults>>

\* Gossip makes a newly met master known to every node (external).
MeetSpreads(i) ==
    /\ i \in fresh /\ fresh' = fresh \ {i}
    /\ UNCHANGED <<spec, sts, pods, edits, podCrashes, redisVars, pc, want, cur, idx, loopVars, result, faults>>

(***************************************************************************)
(* The reconciler.                                                         *)
(***************************************************************************)

Done(r) == pc' = "idle" /\ result' = r
Goto(label) == pc' = label /\ UNCHANGED result

\* doReconcile up to the lifecycle: the StatefulSet gets the new replica count.
StartReconcile ==
    /\ pc = "idle"
    /\ want' = spec /\ sts' = spec
    /\ Goto("lifecycle")
    /\ UNCHANGED <<envVars, redisVars, cur, idx, loopVars, faults>>

\* reconcileClusterLifecycle: probe master 0 and compare cluster_size.
Lifecycle ==
    /\ pc = "lifecycle"
    /\ cur' = Size
    /\ \/ /\ 0 \notin pods \/ ClusterFail
          /\ Done("wait") /\ UNCHANGED idx
       \/ /\ 0 \in pods /\ ~ClusterFail
          /\ \/ Size = want /\ Done("none") /\ UNCHANGED idx
             \/ Size < want /\ Cardinality(pods) < want /\ Done("wait") /\ UNCHANGED idx
             \/ Size < want /\ Cardinality(pods) >= want /\ Goto("meet") /\ idx' = Size
             \/ Size > want /\ Goto("count") /\ idx' = Size - 1
    /\ UNCHANGED <<envVars, sts, redisVars, want, loopVars, faults>>

\* Mutant: the MEET loop runs to spec.masters inclusive.
AddMasterOneMore ==
    /\ pc = "meet" /\ idx <= want /\ 0 \in pods
    /\ members' = members \cup ({idx} \cap pods)
    /\ fresh' = fresh \cup (({idx} \cap pods) \ members)
    /\ idx' = idx + 1
    /\ Goto(IF idx = want THEN "count" ELSE "meet")
    /\ UNCHANGED <<spec, sts, pods, edits, podCrashes, owner, want, cur, loopVars, faults>>

\* AddMaster: CLUSTER MEET sent to master 0.
AddMaster ==
    /\ pc = "meet" /\ idx < want /\ 0 \in pods
    /\ members' = members \cup ({idx} \cap pods)
    /\ fresh' = fresh \cup (({idx} \cap pods) \ members)
    /\ idx' = idx + 1
    /\ Goto(IF idx + 1 = want THEN "count" ELSE "meet")
    /\ UNCHANGED <<spec, sts, pods, edits, podCrashes, owner, want, cur, loopVars, faults>>

Target == NumSlots \div want

\* RebalanceSlots(masterAddrs 0 .. want-1): one CLUSTER NODES from master 0.
CountSlots ==
    /\ pc = "count" /\ 0 \in pods
    /\ counts' = [i \in Masters |-> IF i \in members THEN Cardinality(SlotsOf(i)) ELSE 0]
    /\ pending' = {i \in members : Cardinality(SlotsOf(i)) > Target}
    /\ Goto("donors")
    /\ UNCHANGED <<envVars, sts, redisVars, want, cur, idx, donor, snap, excess, recv, queue, faults>>

\* The map of slotCounts is walked in any order; each donor lists its own slots.
PickDonor(d) ==
    /\ pc = "donors" /\ d \in pending
    /\ pending' = pending \ {d}
    /\ IF d \in pods
       THEN /\ donor' = d /\ snap' = SlotsOf(d) /\ excess' = counts[d] - Target /\ recv' = 0
            /\ Goto("receivers")
       ELSE Done("err") /\ UNCHANGED <<donor, snap, excess, recv>>
    /\ UNCHANGED <<envVars, sts, redisVars, want, cur, idx, counts, queue, faults>>

\* collectSlots: the first n slots of the donor's list.
CollectSlots(S, n) == {s \in S : Cardinality({t \in S : t < s}) < n}

\* nodeIDForAddr(donorNodes, receiverAddr) finds the receiver.
Resolves(d, i) == AddrsAnnounced /\ i \in members /\ (i \in fresh => d = 0)

\* Mutant: "needed" is not limited by what the donor should give away.
PickReceiverUnlimited ==
    /\ pc = "receivers"
    /\ LET skips == \/ recv = donor \/ excess <= 0 \/ ~Resolves(donor, recv)
                    \/ counts[recv] >= Target
       IN  \/ /\ recv < want /\ ~skips
              /\ queue' = CollectSlots(snap, Target - counts[recv])
              /\ excess' = excess - (Target - counts[recv])
              /\ Goto("moving") /\ UNCHANGED recv
           \/ recv < want /\ skips /\ recv' = recv + 1 /\ Goto("receivers") /\ UNCHANGED <<queue, excess>>
           \/ recv = want /\ Goto("donors") /\ UNCHANGED <<queue, excess, recv>>
    /\ UNCHANGED <<envVars, sts, redisVars, want, cur, idx, counts, pending, donor, snap, faults>>

\* Mutant: the receiver loop leaves out the last master.
PickReceiverButLast ==
    /\ pc = "receivers"
    /\ LET skips == \/ recv = donor \/ excess <= 0 \/ ~Resolves(donor, recv)
                    \/ counts[recv] >= Target
           room   == Target - counts[recv]
           needed == IF room > excess THEN excess ELSE room
       IN  \/ /\ recv < want - 1 /\ ~skips
              /\ queue' = CollectSlots(snap, needed) /\ excess' = excess - needed
              /\ Goto("moving") /\ UNCHANGED recv
           \/ recv < want - 1 /\ skips /\ recv' = recv + 1 /\ Goto("receivers") /\ UNCHANGED <<queue, excess>>
           \/ recv >= want - 1 /\ Goto("donors") /\ UNCHANGED <<queue, excess, recv>>
    /\ UNCHANGED <<envVars, sts, redisVars, want, cur, idx, counts, pending, donor, snap, faults>>

PickReceiver ==
    /\ pc = "receivers"
    /\ LET skips  == \/ recv = donor \/ excess <= 0 \/ ~Resolves(donor, recv)
                     \/ counts[recv] >= Target
           room   == Target - counts[recv]
           needed == IF room > excess THEN excess ELSE room
       IN  \/ /\ recv < want /\ ~skips
              /\ queue' = CollectSlots(snap, needed) /\ excess' = excess - needed
              /\ Goto("moving") /\ UNCHANGED recv
           \/ /\ recv < want /\ skips
              /\ recv' = recv + 1
              /\ Goto("receivers") /\ UNCHANGED <<queue, excess>>
           \/ /\ recv = want
              /\ Goto("donors") /\ UNCHANGED <<queue, excess, recv>>
    /\ UNCHANGED <<envVars, sts, redisVars, want, cur, idx, counts, pending, donor, snap, faults>>

\* MigrateSlot(donor, receiver, the next slot); SETSLOT MIGRATING is refused by
\* a donor that does not own the slot any more.
MoveSlot ==
    /\ pc = "moving"
    /\ \/ /\ queue = {}
          /\ recv' = recv + 1 /\ Goto("receivers") /\ UNCHANGED <<queue, owner>>
       \/ \E s \in queue :
             /\ \A t \in queue : s <= t
             /\ IF owner[s] = donor /\ {donor, recv} \subseteq pods
                THEN /\ owner' = [owner EXCEPT ![s] = recv]
                     /\ queue' = queue \ {s} /\ Goto("moving")
                ELSE queue' = {} /\ Done("err") /\ UNCHANGED owner
             /\ UNCHANGED recv
    /\ UNCHANGED <<envVars, sts, members, want, cur, idx, counts, pending, donor, snap,
                   excess, faults>>

\* RebalanceSlots returned nil: scale-out is over, scale-in removes masters.
Rebalanced ==
    /\ pc = "donors" /\ pending = {}
    /\ IF cur < want THEN Done("out") ELSE Goto("remove")
    /\ UNCHANGED <<envVars, sts, redisVars, want, cur, idx, loopVars, faults>>

\* RemoveMaster(idx): CLUSTER RESET SOFT on it, FORGET on the others.  Redis
\* refuses to reset a master that holds keys, which one with slots may.
RemoveMaster ==
    /\ pc = "remove"
    /\ \/ /\ idx >= want /\ AddrsAnnounced /\ {0, idx} \subseteq pods /\ idx \in members
          /\ members' = members \ {idx}
          /\ owner' = [s \in Slots |-> IF owner[s] = idx THEN NoOne ELSE owner[s]]
          /\ idx' = idx - 1 /\ Goto("remove")
       \/ /\ idx >= want
          /\ ~AddrsAnnounced \/ ~({0, idx} \subseteq pods) \/ idx \notin members \/ SlotsOf(idx) # {}
          /\ Done("err") /\ UNCHANGED <<redisVars, idx>>
       \/ idx < want /\ Done("in") /\ UNCHANGED <<redisVars, idx>>
    /\ UNCHANGED <<envVars, sts, want, cur, loopVars, faults>>

\* AddMaster or RebalanceSlots cannot reach master 0 and the handler returns.
Master0Gone ==
    /\ pc \in {"meet", "count"} /\ 0 \notin pods
    /\ Done("err")
    /\ UNCHANGED <<envVars, sts, redisVars, want, cur, idx, loopVars, faults>>

\* Any other command fails and the handler returns, or the operator crashes.
Abort ==
    /\ pc \notin {"idle", "lifecycle"} /\ faults < MaxFaults
    /\ faults' = faults + 1
    /\ Done("err")
    /\ UNCHANGED <<envVars, sts, redisVars, want, cur, idx, loopVars>>

Reconcile ==
    \/ StartReconcile \/ Lifecycle \/ AddMaster \/ CountSlots
    \/ (\E d \in Masters : PickDonor(d)) \/ PickReceiver \/ MoveSlot \/ Rebalanced \/ RemoveMaster
    \/ Master0Gone

Next ==
    \/ Reconcile \/ Abort
    \/ \E n \in Wanted : UserScales(n)
    \/ \E i \in Masters : PodStarts(i) \/ PodStops(i) \/ PodCrashes(i) \/ MeetSpreads(i)

Spec == Init /\ [][Next]_vars

\* The work queue requeues every reconcile, pods that can start do, and gossip
\* spreads.
Fairness ==
    /\ WF_vars(Reconcile)
    /\ \A i \in Masters : WF_vars(PodStarts(i)) /\ WF_vars(MeetSpreads(i))

FairSpec == Spec /\ Fairness

(***************************************************************************)
(* Properties.                                                             *)
(***************************************************************************)

\* The type of every variable; the loop variables of reconcileScaleOut, -In and
\* RebalanceSlots stay within the masters there can be.
TypeOK ==
    /\ spec \in 1 .. MaxMasters /\ sts \in 1 .. MaxMasters /\ want \in 1 .. MaxMasters
    /\ pods \subseteq Masters /\ members \subseteq Masters /\ fresh \subseteq Masters
    /\ owner \in [Slots -> Masters \cup {NoOne}]
    /\ pc \in {"idle", "lifecycle", "meet", "count", "donors", "receivers", "moving", "remove"}
    /\ cur \in 0 .. MaxMasters /\ idx \in -1 .. MaxMasters
    /\ counts \in [Masters -> 0 .. NumSlots] /\ pending \subseteq Masters
    /\ donor \in Masters /\ recv \in 0 .. MaxMasters
    /\ snap \subseteq Slots /\ queue \subseteq Slots /\ excess \in Int
    /\ result \in {"none", "wait", "err", "out", "in"}
    /\ edits \in 0 .. MaxEdits /\ faults \in 0 .. MaxFaults
    /\ podCrashes \in 0 .. MaxPodCrashes

\* RebalanceSlots works from counts it read once and a slot list it never
\* refreshes; still no master that stays is drained below the even share it is
\* to keep.  (Excess masters are to be drained whole; the code does not do it.)
DonorKeepsTarget ==
    [][pc = "moving" /\ owner' # owner /\ donor < want
           => Cardinality(SlotsOf(donor)') >= Target]_vars

\* A slot nobody owns: RemoveMaster reset a master that still had it.
SlotsLost == \E s \in Slots : owner[s] = NoOne

\* A cluster that was scaled out ends with as many slot-owning masters as the
\* spec asks for, although single rebalances fail, are interrupted, or return
\* nil with a master left empty; unless an earlier scale-in lost slots, after
\* which cluster_state is fail and no lifecycle scales again.
ScaleOutCompletes == Size < spec ~> Size >= spec \/ SlotsLost
=============================================================================
