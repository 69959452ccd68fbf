------------------------ MODULE SlotMigrationProofs ------------------------
(***************************************************************************)
(* The proofs about SlotMigration, for every set of nodes and keys, every  *)
(* number of calls and every set of faults.                                *)
(*                                                                         *)
(* TypeOK is inductive as it stands.  NoKeyLost is not: that gossip deletes*)
(* no acknowledged key rests on what the operator established several      *)
(* commands earlier.  IInv adds those facts: while a call runs there is    *)
(* one claim to the slot (the caller started in a settled cluster), the    *)
(* source keeps answering ASK from MIGRATING to its commit, and only the   *)
(* destination, with the highest epoch, may become a second claimant.      *)
(***************************************************************************)
EXTENDS SlotMigration, FiniteSetTheorems, TLAPS

\* No two nodes have the same config epoch, and none is above currentEpoch.
EpochsDistinct ==
    /\ \A n \in Nodes : epoch[n] <= currentEpoch
    /\ \A m, n \in Nodes : m # n => epoch[m] # epoch[n]

\* The owner refuses IMPORTING, and taking the slot over ends IMPORTING.
ClaimantNotImporting == \A n \in Nodes : Claims(n) => importing[n] = None

\* Until the commit loop there is one claim; in the loop the only claimants are
\* the source and, after its own commit, the destination.
CallClaims ==
    /\ pc \notin {"idle", "commit"} =>
          \A m, n \in Nodes : Claims(m) /\ Claims(n) => m = n
    /\ pc \in {"migrating", "stableDst0", "getKeys", "migrateKeys", "stableSrc",
               "stableDst", "allNodes"} => ~Claims(dst)
    /\ pc \in {"migrating", "getKeys", "migrateKeys", "allNodes"} => importing[dst] # None
    /\ pc \in {"getKeys", "migrateKeys", "stableSrc", "allNodes"} =>
          Claims(src) /\ migrating[src] = dst
    /\ pc = "commit" =>
          /\ \A n \in Nodes : Claims(n) => n \in {src, dst}
          /\ dst \in todo => ~Claims(dst) /\ importing[dst] # None

IInv == /\ TypeOK /\ NoKeyLost /\ SourceStaysDrained /\ OneLiveClaim
        /\ EpochsDistinct /\ ClaimantNotImporting /\ CallClaims

(***************************************************************************)
(* Type correctness.                                                       *)
(***************************************************************************)

\* The initial state has the types of TypeOK.
LEMMA InitTypeOK == Init => TypeOK
<1>1. Cardinality(Nodes) \in Nat
  BY NodesAssumption, FS_CardinalityType
<1>. QED
  BY <1>1, CallsAssumption DEF Init, TypeOK, PCs

\* The part of TypeOK that is about the Redis nodes' view of the slot.
ClusterTypeOK ==
    /\ owner \in [Nodes -> Nodes]
    /\ migrating \in [Nodes -> Nodes \cup {None}]
    /\ importing \in [Nodes -> Nodes \cup {None}]
    /\ epoch \in [Nodes -> Nat] /\ currentEpoch \in Nat

\* What SETSLOT STABLE and SETSLOT NODE do keeps the types of the cluster state.
LEMMA SetSlotType ==
  ASSUME TypeOK, NEW n \in Nodes, NEW d \in Nodes,
         SetSlotStable(n) \/ SetSlotNode(n, d) \/ UNCHANGED clusterVars
  PROVE  ClusterTypeOK'
<1>1. CASE SetSlotStable(n)
  BY <1>1 DEF SetSlotStable, TypeOK, ClusterTypeOK
<1>2. CASE SetSlotNode(n, d)
  BY <1>2 DEF SetSlotNode, TypeOK, ClusterTypeOK
<1>3. CASE UNCHANGED clusterVars
  BY <1>3 DEF clusterVars, TypeOK, ClusterTypeOK
<1>. QED
  BY <1>1, <1>2, <1>3

\* Every step of the operator, of a client and of gossip keeps the types.
LEMMA NextTypeOK == TypeOK /\ [Next]_vars => TypeOK'
<1>. SUFFICES ASSUME TypeOK, [Next]_vars PROVE TypeOK'
  OBVIOUS
<1>. USE DEF TypeOK, PCs
<1>1. CASE SnapshotDonors
  BY <1>1 DEF SnapshotDonors, clusterVars, dataVars
<1>2. ASSUME NEW s \in Nodes, NEW d \in Nodes, CallMigrateSlot(s, d) PROVE TypeOK'
  BY <1>2, CallsAssumption DEF CallMigrateSlot, clusterVars, dataVars
<1>3. CASE FetchNodeIDs
  BY <1>3 DEF FetchNodeIDs, Goto, ReturnErr, clusterVars, dataVars
<1>4. CASE SetImporting
  BY <1>4 DEF SetImporting, Goto, ReturnErr, dataVars
<1>5. CASE SetMigrating
  BY <1>5 DEF SetMigrating, Goto, dataVars
<1>6. CASE RollbackImporting
  <2>1. dst \in Nodes /\ (SetSlotStable(dst) \/ UNCHANGED clusterVars)
    BY <1>6 DEF RollbackImporting, Stable
  <2>2. ClusterTypeOK'
    BY <2>1, SetSlotType
  <2>. QED
    BY <1>6, <2>2 DEF ClusterTypeOK, RollbackImporting, ReturnErr, dataVars
<1>7. CASE GetKeysInSlot
  BY <1>7 DEF GetKeysInSlot, Batches, Goto, clusterVars, dataVars
<1>8. ASSUME NEW k \in Keys, MigrateKey(k) PROVE TypeOK'
  BY <1>8 DEF MigrateKey, Goto, clusterVars
<1>9. CASE RollbackSource
  <2>1. src \in Nodes /\ (SetSlotStable(src) \/ UNCHANGED clusterVars)
    BY <1>9 DEF RollbackSource, Stable
  <2>2. ClusterTypeOK'
    BY <2>1, SetSlotType
  <2>. QED
    BY <1>9, <2>2 DEF ClusterTypeOK, RollbackSource, Goto, dataVars
<1>10. CASE RollbackDest
  <2>1. dst \in Nodes /\ (SetSlotStable(dst) \/ UNCHANGED clusterVars)
    BY <1>10 DEF RollbackDest, Stable
  <2>2. ClusterTypeOK'
    BY <2>1, SetSlotType
  <2>. QED
    BY <1>10, <2>2 DEF ClusterTypeOK, RollbackDest, ReturnErr, dataVars
<1>11. CASE FetchAllNodes
  BY <1>11 DEF FetchAllNodes, Goto, ReturnErr, clusterVars, dataVars
<1>12. ASSUME NEW n \in Nodes, CommitOn(n) PROVE TypeOK'
  <2>1. dst \in Nodes /\ (SetSlotNode(n, dst) \/ UNCHANGED clusterVars)
    BY <1>12 DEF CommitOn
  <2>2. ClusterTypeOK'
    BY <2>1, SetSlotType
  <2>. QED
    BY <1>12, <2>2 DEF ClusterTypeOK, CommitOn, Goto, ReturnNil, dataVars
<1>13. CASE Crash
  BY <1>13 DEF Crash, ReturnErr, clusterVars, dataVars
<1>14. ASSUME NEW k \in Keys, ClientSet(k) \/ ClientDel(k) PROVE TypeOK'
  BY <1>14 DEF ClientSet, ClientDel, operatorVars, clusterVars
<1>15. ASSUME NEW s \in Nodes, NEW n \in Nodes, Gossip(s, n) PROVE TypeOK'
  BY <1>15 DEF Gossip, operatorVars
<1>16. CASE UNCHANGED vars
  BY <1>16 DEF vars, operatorVars, clusterVars, dataVars
<1>. QED
  BY <1>1, <1>2, <1>3, <1>4, <1>5, <1>6, <1>7, <1>8, <1>9, <1>10, <1>11, <1>12,
     <1>13, <1>14, <1>15, <1>16 DEF Next, MigrateSlotStep

\* Every variable of MigrateSlot, of the cluster and of the clients keeps its
\* type, for all constants: the two ends of a running call are distinct nodes.
THEOREM TypeCorrect == Spec => []TypeOK
  BY InitTypeOK, NextTypeOK, PTL DEF Spec

(***************************************************************************)
(* No acknowledged key is lost.                                            *)
(***************************************************************************)

\* The initial cluster has one owner and every acknowledged key is there.
LEMMA InitIInv == Init => IInv
<1>. SUFFICES ASSUME Init PROVE IInv
  OBVIOUS
<1>1. Cardinality(Nodes) \in Nat
  BY NodesAssumption, FS_CardinalityType
<1>2. TypeOK
  BY InitTypeOK
<1>3. NoKeyLost /\ SourceStaysDrained /\ CallClaims
  BY DEF Init, NoKeyLost, SourceStaysDrained, CallClaims
<1>4. OneLiveClaim /\ ClaimantNotImporting
  BY DEF Init, OneLiveClaim, ClaimantNotImporting, Claims
<1>5. EpochsDistinct
  BY <1>1 DEF Init, EpochsDistinct
<1>. QED
  BY <1>2, <1>3, <1>4, <1>5 DEF IInv

\* In a settled cluster at most one node claims the slot: of two claimants the
\* one with the lower epoch would have heard of the other.
LEMMA SettledOneClaim ==
  ASSUME TypeOK, OneLiveClaim, ClaimantNotImporting, Settled,
         NEW m \in Nodes, NEW n \in Nodes, Claims(m), Claims(n)
  PROVE  m = n
<1>. SUFFICES ASSUME m # n PROVE FALSE
  OBVIOUS
<1>1. epoch[m] # epoch[n] /\ epoch[m] \in Nat /\ epoch[n] \in Nat
  BY DEF OneLiveClaim, TypeOK
<1>2. CASE epoch[m] < epoch[n]
  BY <1>2 DEF Settled, HasNews, Claims, ClaimantNotImporting
<1>3. CASE epoch[n] < epoch[m]
  BY <1>3 DEF Settled, HasNews, Claims, ClaimantNotImporting
<1>. QED
  BY <1>1, <1>2, <1>3

\* At most one node claims the slot.
OneClaim == \A m, n \in Nodes : Claims(m) /\ Claims(n) => m = n

\* Starting a call while there is one claim makes the call run under one claim.
LEMMA CallIInv ==
  ASSUME OneClaim, IInv, TypeOK', NEW s \in Nodes, NEW d \in Nodes, CallMigrateSlot(s, d)
  PROVE  IInv'
<1>1. NoKeyLost' /\ OneLiveClaim' /\ EpochsDistinct' /\ ClaimantNotImporting'
  BY DEF IInv, CallMigrateSlot, clusterVars, dataVars, NoKeyLost, OneLiveClaim,
         EpochsDistinct, ClaimantNotImporting, Claims
<1>2. SourceStaysDrained'
  BY DEF CallMigrateSlot, SourceStaysDrained
<1>3. CallClaims'
  BY DEF OneClaim, CallMigrateSlot, CallClaims, clusterVars, Claims
<1>. QED
  BY <1>1, <1>2, <1>3 DEF IInv

\* The steps that only move the operator's control keep the invariant.
LEMMA ControlIInv ==
  ASSUME IInv, TypeOK', SnapshotDonors \/ FetchNodeIDs \/ FetchAllNodes \/ Crash
  PROVE  IInv'
<1>1. UNCHANGED <<clusterVars, dataVars>>
  BY DEF SnapshotDonors, FetchNodeIDs, FetchAllNodes, Crash
<1>2. NoKeyLost' /\ OneLiveClaim' /\ EpochsDistinct' /\ ClaimantNotImporting'
  BY <1>1 DEF IInv, clusterVars, dataVars, NoKeyLost, OneLiveClaim,
              EpochsDistinct, ClaimantNotImporting, Claims
<1>3. SourceStaysDrained' /\ CallClaims'
  BY <1>1 DEF IInv, TypeOK, SnapshotDonors, FetchNodeIDs, FetchAllNodes, Crash, Goto, ReturnErr,
              clusterVars, dataVars, SourceStaysDrained, CallClaims, Claims
<1>. QED
  BY <1>2, <1>3 DEF IInv

\* IMPORTING is accepted by a node without a claim, and so marks no claimant.
LEMMA ImportingIInv ==
  ASSUME IInv, TypeOK', SetImporting
  PROVE  IInv'
<1>1. NoKeyLost' /\ OneLiveClaim' /\ EpochsDistinct'
  BY DEF IInv, SetImporting, dataVars, NoKeyLost, OneLiveClaim, EpochsDistinct, Claims
<1>2. ClaimantNotImporting'
  BY DEF IInv, TypeOK, SetImporting, AcceptsImporting, ClaimantNotImporting, Claims
<1>3. SourceStaysDrained' /\ CallClaims'
  BY NoneAssumption DEF IInv, TypeOK, SetImporting, AcceptsImporting, Goto, ReturnErr,
         SourceStaysDrained, CallClaims, Claims
<1>. QED
  BY <1>1, <1>2, <1>3 DEF IInv

\* MIGRATING is accepted by the claimant only, and never clears a mark.
LEMMA MigratingIInv ==
  ASSUME IInv, TypeOK', SetMigrating
  PROVE  IInv'
<1>1. NoKeyLost' /\ EpochsDistinct' /\ ClaimantNotImporting'
  BY DEF IInv, SetMigrating, dataVars, NoKeyLost, EpochsDistinct, ClaimantNotImporting, Claims
<1>2. OneLiveClaim'
  BY NoneAssumption DEF IInv, TypeOK, SetMigrating, dataVars, OneLiveClaim, Claims
<1>3. SourceStaysDrained' /\ CallClaims'
  BY DEF IInv, TypeOK, SetMigrating, AcceptsMigrating, Goto, SourceStaysDrained, CallClaims, Claims
<1>. QED
  BY <1>1, <1>2, <1>3 DEF IInv

\* The rollback reopens the source for writes while it is the one claimant.
LEMMA RollbackIInv ==
  ASSUME IInv, TypeOK', RollbackImporting \/ RollbackSource \/ RollbackDest
  PROVE  IInv'
<1>. DEFINE end == IF pc = "stableSrc" THEN src ELSE dst
<1>1. /\ pc \in {"stableDst0", "stableSrc", "stableDst"} /\ end \in Nodes
      /\ SetSlotStable(end) \/ UNCHANGED clusterVars
      /\ UNCHANGED <<src, dst, todo, dataVars>>
  BY DEF IInv, TypeOK, RollbackImporting, RollbackSource, RollbackDest, Stable
<1>2. NoKeyLost' /\ EpochsDistinct' /\ ClaimantNotImporting'
  BY <1>1 DEF IInv, TypeOK, SetSlotStable, clusterVars, dataVars, NoKeyLost, EpochsDistinct,
              ClaimantNotImporting, Claims
<1>3. OneLiveClaim'
  BY <1>1 DEF IInv, SetSlotStable, clusterVars, dataVars, OneLiveClaim, CallClaims, Claims
<1>4. pc' \in {"idle", "stableDst"}
  BY DEF RollbackImporting, RollbackSource, RollbackDest, ReturnErr, Goto
<1>5. SourceStaysDrained' /\ CallClaims'
  BY <1>1, <1>4 DEF IInv, SetSlotStable, clusterVars, SourceStaysDrained, CallClaims, Claims
<1>. QED
  BY <1>2, <1>3, <1>5 DEF IInv

\* migrateKeys: a key leaves the source only for the destination, and the
\* source is drained when GETKEYSINSLOT answers with no key.
LEMMA KeysIInv ==
  ASSUME IInv, TypeOK', GetKeysInSlot \/ \E k \in Keys : MigrateKey(k)
  PROVE  IInv'
<1>1. CASE GetKeysInSlot
  <2>1. NoKeyLost' /\ OneLiveClaim' /\ EpochsDistinct' /\ ClaimantNotImporting'
    BY <1>1 DEF IInv, GetKeysInSlot, clusterVars, dataVars, NoKeyLost, OneLiveClaim,
                EpochsDistinct, ClaimantNotImporting, Claims
  <2>2. SourceStaysDrained' /\ CallClaims'
    BY <1>1 DEF IInv, GetKeysInSlot, Goto, clusterVars, dataVars, SourceStaysDrained,
                CallClaims, Claims
  <2>. QED
    BY <2>1, <2>2 DEF IInv
<1>2. ASSUME NEW k \in Keys, MigrateKey(k) PROVE IInv'
  <2>1. /\ pc = "migrateKeys" /\ pc' \in {"getKeys", "migrateKeys", "stableSrc"}
        /\ UNCHANGED <<src, dst, todo, clusterVars, acked>>
    BY <1>2 DEF MigrateKey, Goto
  <2>2. /\ src \in Nodes /\ dst \in Nodes /\ src # dst
        /\ keys' \in {keys, [keys EXCEPT ![src] = @ \ {k}, ![dst] = @ \cup {k}],
                      [keys EXCEPT ![dst] = @ \cup {k}]}
    BY <1>2 DEF MigrateKey, IInv, TypeOK
  <2>3. NoKeyLost'
    BY <2>1, <2>2 DEF IInv, TypeOK, NoKeyLost
  <2>4. EpochsDistinct' /\ ClaimantNotImporting' /\ SourceStaysDrained'
    BY <2>1 DEF IInv, clusterVars, EpochsDistinct, ClaimantNotImporting, SourceStaysDrained, Claims
  <2>5. OneLiveClaim' /\ CallClaims'
    BY <2>1 DEF IInv, clusterVars, OneLiveClaim, CallClaims, Claims
  <2>. QED
    BY <2>3, <2>4, <2>5 DEF IInv
<1>. QED
  BY <1>1, <1>2

\* The commit loop: the destination takes over with the highest epoch, and any
\* claim the source still has is an empty one.
LEMMA CommitIInv ==
  ASSUME IInv, TypeOK', NEW c \in Nodes, CommitOn(c)
  PROVE  IInv'
<1>1. /\ pc = "commit" /\ pc' \in {"commit", "idle"} /\ todo' = todo \ {c} /\ c \in todo
      /\ UNCHANGED <<src, dst, dataVars>>
      /\ src \in Nodes /\ dst \in Nodes /\ src # dst
  BY DEF CommitOn, ReturnNil, Goto, IInv, TypeOK
<1>2. CASE UNCHANGED clusterVars
  <2>1. NoKeyLost' /\ OneLiveClaim' /\ EpochsDistinct' /\ ClaimantNotImporting'
    BY <1>1, <1>2 DEF IInv, clusterVars, dataVars, NoKeyLost, OneLiveClaim,
                      EpochsDistinct, ClaimantNotImporting, Claims
  <2>2. SourceStaysDrained' /\ CallClaims'
    BY <1>1, <1>2 DEF IInv, clusterVars, dataVars, SourceStaysDrained, CallClaims, Claims
  <2>. QED
    BY <2>1, <2>2 DEF IInv
<1>3. CASE SetSlotNode(c, dst)
  <2>1. /\ owner' = [owner EXCEPT ![c] = dst]
        /\ \A n \in Nodes : n # c => /\ migrating'[n] = migrating[n]
                                     /\ importing'[n] = importing[n]
                                     /\ epoch'[n] = epoch[n]
    BY <1>3 DEF SetSlotNode, IInv, TypeOK
  <2>2. NoKeyLost'
    BY <1>1 DEF IInv, dataVars, NoKeyLost
  <2>3. EpochsDistinct'
    BY <1>3 DEF SetSlotNode, IInv, TypeOK, EpochsDistinct
  <2>4. \A n \in Nodes : Claims(n)' => (n = dst /\ c = dst) \/ (n # c /\ Claims(n))
    BY <1>1, <2>1 DEF Claims, IInv, TypeOK
  <2>5. c = dst => importing'[dst] = None /\ \A n \in Nodes \ {dst} : epoch'[n] < epoch'[dst]
    <3>. HAVE c = dst
    <3>1. ~Claims(dst) /\ importing[dst] # None
      BY <1>1 DEF IInv, CallClaims
    <3>2. importing'[dst] = None
      BY <1>1, <1>3, <3>1 DEF SetSlotNode, IInv, TypeOK
    <3>3. \A n \in Nodes \ {dst} : epoch'[n] < epoch'[dst]
      BY <1>1, <1>3, <3>1 DEF SetSlotNode, IInv, TypeOK, EpochsDistinct
    <3>. QED
      BY <3>2, <3>3
  <2>6. ClaimantNotImporting'
    BY <1>1, <2>1, <2>4, <2>5 DEF IInv, ClaimantNotImporting
  <2>7. SourceStaysDrained'
    BY <1>1, <2>1, <2>4 DEF IInv, dataVars, SourceStaysDrained
  <2>8. CallClaims'
    BY <1>1, <2>1, <2>4 DEF IInv, CallClaims
  <2>9. OneLiveClaim'
    <3>. SUFFICES ASSUME NEW m \in Nodes, NEW n \in Nodes, m # n, Claims(m)', Claims(n)'
                  PROVE  /\ epoch'[m] # epoch'[n]
                         /\ epoch'[m] < epoch'[n] => keys'[m] = {} /\ migrating'[m] # None
      BY DEF OneLiveClaim
    <3>1. epoch'[m] # epoch'[n]
      BY <2>3 DEF EpochsDistinct
    <3>2. CASE c = dst /\ n = dst
      <4>1. m # c /\ Claims(m) /\ m = src
        BY <1>1, <2>4, <3>2 DEF IInv, CallClaims
      <4>2. keys[m] = {} /\ migrating[m] = dst
        BY <1>1, <4>1 DEF IInv, SourceStaysDrained
      <4>. QED
        BY <1>1, <2>1, <3>1, <4>1, <4>2, NoneAssumption DEF dataVars
    <3>3. CASE c = dst /\ m = dst
      <4>1. epoch'[n] < epoch'[m] /\ epoch'[m] \in Nat /\ epoch'[n] \in Nat
        BY <1>1, <2>5, <3>3 DEF TypeOK
      <4>. QED
        BY <3>1, <4>1
    <3>4. CASE ~(c = dst /\ (m = dst \/ n = dst))
      <4>1. m # c /\ n # c /\ Claims(m) /\ Claims(n)
        BY <2>4, <3>4
      <4>. QED
        BY <1>1, <2>1, <3>1, <4>1 DEF IInv, OneLiveClaim, dataVars
    <3>. QED
      BY <3>2, <3>3, <3>4
  <2>. QED
    BY <2>2, <2>3, <2>6, <2>7, <2>8, <2>9 DEF IInv
<1>. QED
  BY <1>2, <1>3 DEF CommitOn

\* A client's write never lands at a claimant that is about to lose the slot,
\* because that node answers ASK for the keys it does not have.
LEMMA ClientIInv ==
  ASSUME IInv, TypeOK', NEW k \in Keys, ClientSet(k) \/ ClientDel(k)
  PROVE  IInv'
<1>1. PICK n \in Nodes :
        /\ Serves(n, k)
        /\ \/ keys' = [keys EXCEPT ![n] = @ \cup {k}] /\ acked' = acked \cup {k}
           \/ keys' = [keys EXCEPT ![n] = @ \ {k}] /\ acked' = acked \ {k}
  BY DEF ClientSet, ClientDel
<1>2. UNCHANGED <<operatorVars, clusterVars>>
  BY DEF ClientSet, ClientDel
<1>3. NoKeyLost'
  BY <1>1 DEF IInv, TypeOK, NoKeyLost
<1>4. EpochsDistinct' /\ ClaimantNotImporting' /\ CallClaims'
  BY <1>2 DEF IInv, operatorVars, clusterVars, EpochsDistinct, ClaimantNotImporting,
              CallClaims, Claims
<1>5. \A m \in Nodes : Claims(m) /\ keys[m] = {} /\ migrating[m] # None => keys'[m] = {}
  BY <1>1 DEF Serves, IInv, TypeOK
<1>6. SourceStaysDrained' /\ OneLiveClaim'
  BY <1>2, <1>5, NoneAssumption DEF IInv, TypeOK, operatorVars, clusterVars, SourceStaysDrained,
     OneLiveClaim, Claims
<1>. QED
  BY <1>3, <1>4, <1>6 DEF IInv

\* The claimant that gossip deposes, and whose keys it deletes, has none.
LEMMA GossipIInv ==
  ASSUME IInv, TypeOK', NEW s \in Nodes, NEW n \in Nodes, Gossip(s, n)
  PROVE  IInv'
<1>1. Claims(s) /\ n # s /\ UNCHANGED <<operatorVars, migrating, importing, epoch, currentEpoch, acked>>
  BY DEF Gossip, HasNews, Claims
<1>2. Claims(n) => keys[n] = {}
  BY <1>1 DEF IInv, OneLiveClaim, Gossip, HasNews, Claims
<1>3. keys' = keys
  BY <1>2 DEF Gossip, IInv, TypeOK
<1>4. \A m \in Nodes : Claims(m)' => Claims(m) /\ m # n
  BY <1>1 DEF Gossip, Claims, IInv, TypeOK
<1>5. NoKeyLost' /\ EpochsDistinct' /\ ClaimantNotImporting'
  BY <1>1, <1>3, <1>4 DEF IInv, NoKeyLost, EpochsDistinct, ClaimantNotImporting
<1>6. OneLiveClaim' /\ SourceStaysDrained'
  BY <1>1, <1>3, <1>4 DEF IInv, TypeOK, operatorVars, OneLiveClaim, SourceStaysDrained
<1>7. CallClaims'
  <2>1. pc \in {"getKeys", "migrateKeys", "stableSrc", "allNodes"} => Claims(src)'
    <3>. HAVE pc \in {"getKeys", "migrateKeys", "stableSrc", "allNodes"}
    <3>1. src = s
      BY <1>1 DEF IInv, TypeOK, CallClaims
    <3>. QED
      BY <1>1, <3>1 DEF Gossip, operatorVars, Claims, IInv, TypeOK
  <2>. QED
    BY <1>1, <1>4, <2>1 DEF IInv, TypeOK, operatorVars, CallClaims
<1>. QED
  BY <1>5, <1>6, <1>7 DEF IInv

\* Every step keeps the invariant, when calls start while there is one claim.
LEMMA StepIInv ==
  ASSUME IInv, [Next]_vars,
         \A s, d \in Nodes : CallMigrateSlot(s, d) => OneClaim
  PROVE  IInv'
<1>1. TypeOK'
  BY NextTypeOK DEF IInv
<1>2. ASSUME NEW s \in Nodes, NEW d \in Nodes, CallMigrateSlot(s, d) PROVE IInv'
  BY <1>1, <1>2, CallIInv
<1>3. CASE SnapshotDonors \/ FetchNodeIDs \/ FetchAllNodes \/ Crash
  BY <1>1, <1>3, ControlIInv
<1>4. CASE SetImporting \/ SetMigrating
  BY <1>1, <1>4, ImportingIInv, MigratingIInv
<1>5. CASE RollbackImporting \/ RollbackSource \/ RollbackDest
  BY <1>1, <1>5, RollbackIInv
<1>6. CASE GetKeysInSlot \/ \E k \in Keys : MigrateKey(k)
  BY <1>1, <1>6, KeysIInv
<1>7. ASSUME NEW n \in Nodes, CommitOn(n) PROVE IInv'
  BY <1>1, <1>7, CommitIInv
<1>8. ASSUME NEW k \in Keys, ClientSet(k) \/ ClientDel(k) PROVE IInv'
  BY <1>1, <1>8, ClientIInv
<1>9. ASSUME NEW s \in Nodes, NEW n \in Nodes, Gossip(s, n) PROVE IInv'
  BY <1>1, <1>9, GossipIInv
<1>10. CASE UNCHANGED vars
  BY <1>1, <1>10 DEF IInv, vars, operatorVars, clusterVars, dataVars, NoKeyLost, SourceStaysDrained,
     OneLiveClaim, EpochsDistinct, ClaimantNotImporting, CallClaims, Claims
<1>. QED
  BY <1>2, <1>3, <1>4, <1>5, <1>6, <1>7, <1>8, <1>9, <1>10 DEF Next, MigrateSlotStep

\* When gossip settles between calls, there is one claim when a call starts.
LEMMA NextIInv == PromptGossip /\ IInv /\ [Next]_vars => IInv'
<1>. SUFFICES ASSUME PromptGossip, IInv, [Next]_vars PROVE IInv'
  OBVIOUS
<1>1. ASSUME NEW s \in Nodes, NEW d \in Nodes, CallMigrateSlot(s, d) PROVE OneClaim
  BY <1>1, SettledOneClaim DEF IInv, CallMigrateSlot, OneClaim
<1>. QED
  BY <1>1, StepIInv

\* When gossip settles between calls of MigrateSlot, no fault of a command, no
\* dropped SETSLOT error and no crash of the operator loses an acknowledged key.
THEOREM NoKeyIsLost == ASSUME PromptGossip PROVE Spec => []NoKeyLost
<1>1. IInv /\ [Next]_vars => IInv'
  BY NextIInv
<1>2. IInv => NoKeyLost
  BY DEF IInv
<1>. QED
  BY InitIInv, <1>1, <1>2, PTL DEF Spec

\* Under the same assumption clients never write to two owners: a second
\* claimant is empty, answers ASK, and loses to the first by its epoch.
THEOREM ClaimsAreExclusive == ASSUME PromptGossip PROVE Spec => []OneLiveClaim
<1>1. IInv /\ [Next]_vars => IInv'
  BY NextIInv
<1>2. IInv => OneLiveClaim
  BY DEF IInv
<1>. QED
  BY InitIInv, <1>1, <1>2, PTL DEF Spec

\* Under the same assumption the emptiness migrateKeys reported still holds in
\* the commit loop, although clients kept writing to the slot.
THEOREM DrainedSource == ASSUME PromptGossip PROVE Spec => []SourceStaysDrained
<1>1. IInv /\ [Next]_vars => IInv'
  BY NextIInv
<1>2. IInv => SourceStaysDrained
  BY DEF IInv
<1>. QED
  BY InitIInv, <1>1, <1>2, PTL DEF Spec
=============================================================================
