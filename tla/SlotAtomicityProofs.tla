------------------------- MODULE SlotAtomicityProofs -------------------------
(***************************************************************************)
(* What clients see of a slot while MigrateSlot moves it, proved from the  *)
(* invariant of SlotMigrationProofs: where the keys are after the first    *)
(* call, and that the slot implements AtomicSlot.                          *)
(*                                                                         *)
(* The argument is about places.  A claimant that does not answer ASK has  *)
(* every key; one that does, and the node it redirects to, have them all   *)
(* between them; of two claimants the one that loses points to the other.  *)
(* So whichever node serves a command has the key exactly when it exists.  *)
(***************************************************************************)
EXTENDS SlotMigrationProofs

(***************************************************************************)
(* The first call, whatever fails.                                         *)
(***************************************************************************)

\* Before it one node owns the slot and has every key, and is the only donor.
BeforeFirstCall ==
    calls = 0 =>
        /\ pc = "idle" /\ result = "none"
        /\ \A m, n \in Nodes : owner[m] = owner[n]
        /\ \A n \in Nodes : ~Claims(n) => keys[n] = {} /\ n \notin donors
        /\ \A n \in Nodes : migrating[n] = None /\ importing[n] = None

\* migrateKeys found no more keys, and the call did not fail since.
Drained == pc \in {"allNodes", "commit"} \/ (pc = "idle" /\ result = "nil")

\* In it, and until the second, only its two ends have marks, claims and keys.
InFirstCall ==
    calls = 1 =>
        /\ src \in Nodes /\ dst \in Nodes /\ src # dst
        /\ \A n \in Nodes : Claims(n) => n \in {src, dst}
        /\ \A n \in Nodes : n # dst => importing[n] = None
        /\ \A n \in Nodes : n # src => migrating[n] = None
        /\ migrating[src] \in {None, dst}
        /\ \A n \in Nodes : n \notin {src, dst} => keys[n] = {}
        /\ Drained => keys[src] = {} /\ (Claims(src) => migrating[src] = dst)
        /\ pc \in {"nodeIDs", "importing", "migrating"} => Claims(src) /\ migrating[src] = None

FirstCall == BeforeFirstCall /\ InFirstCall

\* The initial cluster is in one place.
LEMMA InitFirstCall == Init => FirstCall
  BY DEF Init, FirstCall, BeforeFirstCall, InFirstCall, Claims

\* The call starts at the one donor there is.
LEMMA StartFirstCall ==
  ASSUME TypeOK, FirstCall, NEW s \in Nodes, NEW d \in Nodes, CallMigrateSlot(s, d)
  PROVE  FirstCall'
<1>1. /\ calls' = calls + 1 /\ calls \in Nat /\ src' = s /\ dst' = d /\ d # s /\ s \in donors
      /\ pc' = "nodeIDs" /\ UNCHANGED <<owner, migrating, importing, keys>>
  BY CallsAssumption DEF CallMigrateSlot, clusterVars, dataVars, TypeOK
<1>2. BeforeFirstCall'
  BY <1>1 DEF BeforeFirstCall
<1>3. InFirstCall'
  <2>. SUFFICES ASSUME calls' = 1 PROVE InFirstCall'
    BY DEF InFirstCall
  <2>1. calls = 0
    BY <1>1
  <2>2. Claims(s) /\ \A n \in Nodes : Claims(n) => n = s
    BY <1>1, <2>1 DEF FirstCall, BeforeFirstCall, Claims
  <2>3. \A n \in Nodes : n # s => keys[n] = {}
    BY <2>1, <2>2 DEF FirstCall, BeforeFirstCall
  <2>4. Claims(s)' /\ \A n \in Nodes : Claims(n)' => n = s
    BY <1>1, <2>2 DEF Claims
  <2>5. ~Drained'
    BY <1>1 DEF Drained
  <2>. QED
    BY <1>1, <2>1, <2>3, <2>4, <2>5 DEF FirstCall, BeforeFirstCall, InFirstCall
<1>. QED
  BY <1>2, <1>3 DEF FirstCall

\* The other steps of the operator do nothing before the first call.
LEMMA NoStepBeforeFirstCall ==
  ASSUME FirstCall, MigrateSlotStep \/ Crash
  PROVE  calls # 0 /\ calls' = calls
<1>1. pc # "idle" /\ calls' = calls
  BY DEF MigrateSlotStep, FetchNodeIDs, SetImporting, SetMigrating, RollbackImporting,
         GetKeysInSlot, MigrateKey, RollbackSource, RollbackDest, FetchAllNodes, CommitOn, Crash
<1>. QED
  BY <1>1 DEF FirstCall, BeforeFirstCall

\* The steps that only read keep the first call's invariant.
LEMMA ControlFirstCall ==
  ASSUME TypeOK, FirstCall, SnapshotDonors \/ FetchNodeIDs \/ FetchAllNodes \/ Crash
  PROVE  FirstCall'
<1>1. UNCHANGED <<src, dst, calls, owner, migrating, importing, keys>>
  BY DEF SnapshotDonors, FetchNodeIDs, FetchAllNodes, Crash, clusterVars, dataVars
<1>2. CASE SnapshotDonors
  BY <1>1, <1>2 DEF SnapshotDonors, FirstCall, BeforeFirstCall, InFirstCall, Drained, Claims
<1>3. CASE FetchNodeIDs \/ FetchAllNodes \/ Crash
  <2>1. calls' # 0
    BY <1>1, <1>3, NoStepBeforeFirstCall DEF MigrateSlotStep
  <2>2. Drained' => Drained
    BY <1>3 DEF FetchNodeIDs, FetchAllNodes, Crash, Goto, ReturnErr, Drained
  <2>3. pc' \in {"nodeIDs", "importing", "migrating"} => pc \in {"nodeIDs", "importing", "migrating"}
    BY <1>3 DEF FetchNodeIDs, FetchAllNodes, Crash, Goto, ReturnErr
  <2>. QED
    BY <1>1, <2>1, <2>2, <2>3 DEF FirstCall, BeforeFirstCall, InFirstCall, Claims
<1>. QED
  BY <1>2, <1>3

\* IMPORTING, MIGRATING and STABLE touch the marks of the two ends only.
LEMMA MarksFirstCall ==
  ASSUME IInv, FirstCall,
         SetImporting \/ SetMigrating \/ RollbackImporting \/ RollbackSource \/ RollbackDest
  PROVE  FirstCall'
<1>1. calls # 0 /\ calls' = calls
  BY NoStepBeforeFirstCall DEF MigrateSlotStep
<1>2. BeforeFirstCall'
  BY <1>1 DEF BeforeFirstCall
<1>. SUFFICES ASSUME calls = 1 PROVE InFirstCall'
  BY <1>1, <1>2 DEF FirstCall, InFirstCall
<1>. USE DEF IInv, TypeOK
<1>3. UNCHANGED <<src, dst, owner, keys>> /\ ~Drained'
  BY DEF SetImporting, SetMigrating, RollbackImporting, RollbackSource, RollbackDest, Stable,
         SetSlotStable, clusterVars, dataVars, Goto, ReturnErr, Drained
<1>4. CASE SetImporting
  BY <1>1, <1>3, <1>4 DEF SetImporting, Goto, ReturnErr, FirstCall, InFirstCall, Claims
<1>5. CASE SetMigrating
  BY <1>1, <1>3, <1>5 DEF SetMigrating, Goto, FirstCall, InFirstCall, Claims
<1>6. CASE RollbackImporting \/ RollbackSource \/ RollbackDest
  <2>1. pc' \notin {"nodeIDs", "importing", "migrating"}
    BY <1>6 DEF RollbackImporting, RollbackSource, RollbackDest, Goto, ReturnErr
  <2>2. \/ UNCHANGED <<migrating, importing>>
        \/ \E n \in {src, dst} : /\ migrating' = [migrating EXCEPT ![n] = None]
                                 /\ importing' = [importing EXCEPT ![n] = None]
    BY <1>6 DEF RollbackImporting, RollbackSource, RollbackDest, Stable, SetSlotStable, clusterVars
  <2>. QED
    BY <1>1, <1>3, <2>1, <2>2 DEF FirstCall, InFirstCall, Claims
<1>. QED
  BY <1>4, <1>5, <1>6

\* migrateKeys moves keys between the two ends, and finds none at the source
\* while that answers ASK.
LEMMA KeysFirstCall ==
  ASSUME IInv, FirstCall, GetKeysInSlot \/ \E k \in Keys : MigrateKey(k)
  PROVE  FirstCall'
<1>1. calls # 0 /\ calls' = calls
  BY NoStepBeforeFirstCall DEF MigrateSlotStep
<1>2. BeforeFirstCall'
  BY <1>1 DEF BeforeFirstCall
<1>. SUFFICES ASSUME calls = 1 PROVE InFirstCall'
  BY <1>1, <1>2 DEF FirstCall, InFirstCall
<1>3. UNCHANGED <<src, dst, owner, migrating, importing>>
      /\ pc' \notin {"nodeIDs", "importing", "migrating"}
  BY DEF GetKeysInSlot, MigrateKey, Goto, clusterVars
<1>4. CASE GetKeysInSlot
  <2>1. keys' = keys /\ (Drained' => keys[src] = {} /\ migrating[src] = dst)
    BY <1>4 DEF GetKeysInSlot, Goto, Drained, dataVars, IInv, CallClaims
  <2>. QED
    BY <1>1, <1>3, <2>1 DEF FirstCall, InFirstCall, Claims
<1>5. ASSUME NEW k \in Keys, MigrateKey(k) PROVE InFirstCall'
  <2>1. ~Drained'
    BY <1>5 DEF MigrateKey, Goto, Drained
  <2>2. \A n \in Nodes : n \notin {src, dst} => keys'[n] = keys[n]
    BY <1>5 DEF MigrateKey, IInv, TypeOK
  <2>. QED
    BY <1>1, <1>3, <2>1, <2>2 DEF FirstCall, InFirstCall, Claims
<1>. QED
  BY <1>4, <1>5

\* The commit loop makes the destination a claimant; a source that missed its
\* commit keeps answering ASK.
LEMMA CommitFirstCall ==
  ASSUME IInv, FirstCall, NEW c \in Nodes, CommitOn(c)
  PROVE  FirstCall'
<1>1. calls # 0 /\ calls' = calls
  BY NoStepBeforeFirstCall DEF MigrateSlotStep
<1>2. BeforeFirstCall'
  BY <1>1 DEF BeforeFirstCall
<1>. SUFFICES ASSUME calls = 1 PROVE InFirstCall'
  BY <1>1, <1>2 DEF FirstCall, InFirstCall
<1>3. /\ UNCHANGED <<src, dst, keys>> /\ pc = "commit" /\ Drained
      /\ pc' \notin {"nodeIDs", "importing", "migrating"}
  BY DEF CommitOn, ReturnNil, Goto, dataVars, Drained
<1>4. CASE UNCHANGED clusterVars
  BY <1>1, <1>3, <1>4 DEF clusterVars, FirstCall, InFirstCall, Claims
<1>5. CASE SetSlotNode(c, dst)
  <2>1. /\ owner' = [owner EXCEPT ![c] = dst]
        /\ \A n \in Nodes : /\ migrating'[n] \in {migrating[n], None}
                            /\ importing'[n] \in {importing[n], None}
                            /\ n # c => migrating'[n] = migrating[n]
    BY <1>5 DEF SetSlotNode, IInv, TypeOK
  <2>2. \A n \in Nodes : Claims(n)' => n = dst \/ (n # c /\ Claims(n))
    BY <2>1 DEF Claims, IInv, TypeOK
  <2>. QED
    BY <1>1, <1>3, <2>1, <2>2 DEF FirstCall, InFirstCall
<1>. QED
  BY <1>4, <1>5 DEF CommitOn

\* Clients' commands are served by the two ends; a drained source that claims
\* the slot serves none.
LEMMA ClientFirstCall ==
  ASSUME IInv, FirstCall, NEW k \in Keys, ClientSet(k) \/ ClientDel(k)
  PROVE  FirstCall'
<1>1. PICK n \in Nodes :
        /\ Serves(n, k)
        /\ \/ keys' = [keys EXCEPT ![n] = @ \cup {k}]
           \/ keys' = [keys EXCEPT ![n] = @ \ {k}]
  BY DEF ClientSet, ClientDel
<1>2. UNCHANGED <<pc, src, dst, result, donors, calls, owner, migrating, importing>>
  BY DEF ClientSet, ClientDel, operatorVars, clusterVars
<1>3. \A m \in Nodes : m # n => keys'[m] = keys[m]
  BY <1>1 DEF IInv, TypeOK
<1>4. BeforeFirstCall'
  <2>1. calls = 0 => Claims(n)
    BY <1>1 DEF Serves, FirstCall, BeforeFirstCall
  <2>. QED
    BY <1>2, <1>3, <2>1 DEF FirstCall, BeforeFirstCall, Claims
<1>5. InFirstCall'
  <2>. SUFFICES ASSUME calls = 1 PROVE InFirstCall'
    BY <1>2 DEF InFirstCall
  <2>1. n \in {src, dst}
    BY <1>1 DEF Serves, FirstCall, InFirstCall
  <2>2. Drained => n # src
    BY <1>1, NoneAssumption DEF Serves, FirstCall, InFirstCall
  <2>. QED
    BY <1>2, <1>3, <2>1, <2>2 DEF FirstCall, InFirstCall, Drained, Claims
<1>. QED
  BY <1>4, <1>5 DEF FirstCall

\* Gossip takes claims away and adds none.
LEMMA GossipFirstCall ==
  ASSUME IInv, FirstCall, NEW s \in Nodes, NEW n \in Nodes, Gossip(s, n)
  PROVE  FirstCall'
<1>1. /\ UNCHANGED <<pc, src, dst, result, donors, calls, migrating, importing>>
      /\ Claims(s) /\ owner[n] # s /\ epoch[owner[n]] < epoch[s]
  BY DEF Gossip, HasNews, operatorVars
<1>2. \A m \in Nodes : Claims(m)' => Claims(m)
  BY <1>1 DEF Gossip, Claims, IInv, TypeOK
<1>3. \A m \in Nodes : keys'[m] \subseteq keys[m]
  BY DEF Gossip, IInv, TypeOK
<1>4. BeforeFirstCall'
  BY <1>1 DEF FirstCall, BeforeFirstCall, Claims
<1>5. InFirstCall'
  <2>. SUFFICES ASSUME calls = 1 PROVE InFirstCall'
    BY <1>1 DEF InFirstCall
  <2>1. pc \in {"nodeIDs", "importing", "migrating"} => s = src /\ n # src /\ Claims(src)'
    <3>. HAVE pc \in {"nodeIDs", "importing", "migrating"}
    <3>1. s = src
      BY <1>1 DEF IInv, CallClaims, FirstCall, InFirstCall
    <3>. QED
      BY <1>1, <3>1 DEF Gossip, Claims, IInv, TypeOK
  <2>. QED
    BY <1>1, <1>2, <1>3, <2>1 DEF FirstCall, InFirstCall, Drained
<1>. QED
  BY <1>4, <1>5 DEF FirstCall

\* Every step keeps it.
LEMMA NextFirstCall == IInv /\ FirstCall /\ [Next]_vars => FirstCall'
<1>. SUFFICES ASSUME IInv, FirstCall, [Next]_vars PROVE FirstCall'
  OBVIOUS
<1>. TypeOK
  BY DEF IInv
<1>1. CASE SnapshotDonors \/ Crash
  BY <1>1, ControlFirstCall
<1>2. ASSUME NEW s \in Nodes, NEW d \in Nodes, CallMigrateSlot(s, d) PROVE FirstCall'
  BY <1>2, StartFirstCall
<1>3. CASE MigrateSlotStep
  BY <1>3, ControlFirstCall, MarksFirstCall, KeysFirstCall, CommitFirstCall DEF MigrateSlotStep
<1>4. ASSUME NEW k \in Keys, ClientSet(k) \/ ClientDel(k) PROVE FirstCall'
  BY <1>4, ClientFirstCall
<1>5. ASSUME NEW s \in Nodes, NEW n \in Nodes, Gossip(s, n) PROVE FirstCall'
  BY <1>5, GossipFirstCall
<1>6. CASE UNCHANGED vars
  BY <1>6 DEF vars, operatorVars, clusterVars, dataVars, FirstCall, BeforeFirstCall,
              InFirstCall, Drained, Claims
<1>. QED
  BY <1>1, <1>2, <1>3, <1>4, <1>5, <1>6 DEF Next

\* Whatever fails in the call and whichever node misses the commit, when the
\* first call returns nil and its destination took the slot over, every
\* acknowledged key is at the destination and is served there.
THEOREM NilMeansReachable == ASSUME PromptGossip PROVE Spec => []ReachableAfterNil
<1>1. IInv /\ [Next]_vars => IInv'
  BY NextIInv
<1>2. IInv /\ FirstCall => ReachableAfterNil
  <2>. SUFFICES ASSUME IInv, FirstCall, pc = "idle", result = "nil", calls = 1, Claims(dst),
                       NEW k \in acked
                PROVE  \E n \in Nodes : k \in keys[n] /\ Serves(n, k)
    BY DEF ReachableAfterNil
  <2>1. PICK n \in Nodes : k \in keys[n]
    BY DEF IInv, NoKeyLost
  <2>2. n = dst
    BY <2>1 DEF FirstCall, InFirstCall, Drained
  <2>. QED
    BY <2>1, <2>2 DEF Serves
<1>. QED
  BY InitIInv, InitFirstCall, <1>1, <1>2, NextFirstCall, PTL DEF Spec

(***************************************************************************)
(* Where the keys are when SETSLOT NODE is all that fails.                 *)
(***************************************************************************)

\* Every key that exists is at one node, and no other key is stored.
KeysInOnePlace ==
    /\ \A k \in Keys : k \in acked <=> \E n \in Nodes : k \in keys[n]
    /\ \A m, n \in Nodes : m # n => keys[m] \cap keys[n] = {}

\* A claimant that does not answer ASK has them all; one that does, and the node
\* it sends clients to, have them together; after migrateKeys the destination.
ServersHaveKeys ==
    /\ \A n \in Nodes : Claims(n) /\ migrating[n] = None => \A m \in Nodes \ {n} : keys[m] = {}
    /\ \A s, n \in Nodes :
          Claims(s) /\ migrating[s] = n /\ importing[n] # None /\ ~Claims(n) =>
              \A m \in Nodes \ {s, n} : keys[m] = {}
    /\ pc \in {"allNodes", "commit"} => \A m \in Nodes \ {dst} : keys[m] = {}

\* A call that begins finds no mark that leads nowhere, and none is rolled back
\* after keys have moved.
MarksLead ==
    /\ pc \in {"nodeIDs", "importing", "migrating"} =>
          \A s \in Nodes : Claims(s) /\ migrating[s] # None => importing[migrating[s]] # None
    /\ pc \notin {"stableSrc", "stableDst"}

\* Of two claimants the one that will lose answers ASK for the other.
LoserPointsToWinner ==
    \A m, n \in Nodes : Claims(m) /\ Claims(n) /\ epoch[m] < epoch[n] => migrating[m] = n

PlaceInv == KeysInOnePlace /\ ServersHaveKeys /\ MarksLead /\ LoserPointsToWinner

\* SETSLOT NODE is all that fails.
OnlyCommitFails == Faults \subseteq {"commit"}

\* Then every other command is answered.
LEMMA AllElseAnswered ==
  ASSUME OnlyCommitFails
  PROVE  Replies = {"ok"} /\ "error" \notin Faults /\ "timeout" \notin Faults /\ "crash" \notin Faults
  BY DEF OnlyCommitFails, Replies

\* An abandoned node stays abandoned while the call goes on.
LEMMA AbandonedStays ==
  ASSUME IInv, [Next]_vars, Abandoned, \A s, d \in Nodes : ~CallMigrateSlot(s, d)
  PROVE  Abandoned'
<1>. USE DEF IInv, TypeOK
<1>1. PICK a \in Nodes \ {dst} : importing[a] # None
  BY DEF Abandoned
<1>2. dst' = dst /\ importing'[a] = importing[a]
  <2>1. CASE SnapshotDonors \/ FetchNodeIDs \/ FetchAllNodes \/ Crash \/ GetKeysInSlot
    BY <2>1 DEF SnapshotDonors, FetchNodeIDs, FetchAllNodes, Crash, GetKeysInSlot, clusterVars
  <2>2. CASE SetImporting \/ SetMigrating
    BY <1>1, <2>2 DEF SetImporting, SetMigrating
  <2>3. CASE RollbackImporting \/ RollbackDest
    BY <1>1, <2>3 DEF RollbackImporting, RollbackDest, Stable, SetSlotStable, clusterVars
  <2>4. CASE RollbackSource
    <3>1. a # src
      BY <1>1, <2>4 DEF RollbackSource, CallClaims, ClaimantNotImporting
    <3>. QED
      BY <1>1, <2>4, <3>1 DEF RollbackSource, Stable, SetSlotStable, clusterVars
  <2>5. ASSUME NEW k \in Keys, MigrateKey(k) \/ ClientSet(k) \/ ClientDel(k)
        PROVE  dst' = dst /\ importing'[a] = importing[a]
    BY <2>5 DEF MigrateKey, ClientSet, ClientDel, operatorVars, clusterVars
  <2>6. ASSUME NEW n \in Nodes, CommitOn(n) PROVE dst' = dst /\ importing'[a] = importing[a]
    BY <1>1, <2>6 DEF CommitOn, SetSlotNode, clusterVars
  <2>7. ASSUME NEW s \in Nodes, NEW n \in Nodes, Gossip(s, n)
        PROVE  dst' = dst /\ importing'[a] = importing[a]
    BY <2>7 DEF Gossip, operatorVars
  <2>8. CASE UNCHANGED vars
    BY <2>8 DEF vars, operatorVars, clusterVars
  <2>. QED
    BY <2>1, <2>2, <2>3, <2>4, <2>5, <2>6, <2>7, <2>8 DEF Next, MigrateSlotStep
<1>. QED
  BY <1>1, <1>2 DEF Abandoned

\* A node that serves a key has it exactly when it exists.
LEMMA ServedRight ==
  ASSUME IInv, KeysInOnePlace, ServersHaveKeys, NEW n \in Nodes, NEW k \in Keys, Serves(n, k)
  PROVE  k \in keys[n] <=> k \in acked
<1>. SUFFICES ASSUME k \in acked, k \notin keys[n] PROVE FALSE
  BY DEF KeysInOnePlace
<1>1. PICK m \in Nodes : k \in keys[m]
  BY DEF KeysInOnePlace
<1>2. CASE Claims(n) /\ migrating[n] = None
  BY <1>1, <1>2 DEF ServersHaveKeys
<1>3. CASE importing[n] # None /\ ~Claims(n)
  BY <1>1, <1>3 DEF Serves, ServersHaveKeys
<1>. QED
  BY <1>2, <1>3 DEF Serves

\* The steps that only read.
LEMMA ControlPlace ==
  ASSUME OnlyCommitFails, PlaceInv, SnapshotDonors \/ FetchNodeIDs \/ FetchAllNodes \/ Crash
  PROVE  PlaceInv'
<1>1. UNCHANGED <<dst, owner, migrating, importing, epoch, keys, acked>>
  BY DEF SnapshotDonors, FetchNodeIDs, FetchAllNodes, Crash, clusterVars, dataVars
<1>2. \/ pc' = pc
      \/ pc = "nodeIDs" /\ pc' = "importing"
      \/ pc = "allNodes" /\ pc' = "commit"
  BY AllElseAnswered DEF SnapshotDonors, FetchNodeIDs, FetchAllNodes, Crash, Goto
<1>. QED
  BY <1>1, <1>2 DEF PlaceInv, KeysInOnePlace, ServersHaveKeys, MarksLead, LoserPointsToWinner, Claims

\* IMPORTING opens no way that a claimant's mark does not already point to.
LEMMA ImportingPlace ==
  ASSUME OnlyCommitFails, IInv, ~Abandoned, PlaceInv, SetImporting
  PROVE  PlaceInv'
<1>1. /\ UNCHANGED <<dst, owner, migrating, epoch, keys, acked>> /\ pc = "importing"
      /\ dst \in Nodes /\ src \in Nodes
  BY DEF SetImporting, dataVars, IInv, TypeOK
<1>2. \/ pc' = "migrating" /\ importing' = [importing EXCEPT ![dst] = src]
      \/ pc' = "idle" /\ importing' = importing
  BY AllElseAnswered DEF SetImporting, Goto, ReturnErr
<1>3. \A s \in Nodes : Claims(s) /\ migrating[s] # None => importing[migrating[s]] # None
  BY <1>1 DEF PlaceInv, MarksLead
<1>4. KeysInOnePlace' /\ LoserPointsToWinner'
  BY <1>1 DEF PlaceInv, KeysInOnePlace, LoserPointsToWinner, Claims
<1>5. ServersHaveKeys'
  BY <1>1, <1>2, <1>3, NoneAssumption DEF PlaceInv, ServersHaveKeys, Claims, IInv, TypeOK
<1>6. MarksLead'
  BY <1>1, <1>2, <1>3, NoneAssumption DEF MarksLead, Claims, IInv, TypeOK
<1>. QED
  BY <1>4, <1>5, <1>6 DEF PlaceInv

\* MIGRATING makes the claimant answer ASK for a node that is open, and the two
\* have every key.
LEMMA MigratingPlace ==
  ASSUME OnlyCommitFails, IInv, ~Abandoned, PlaceInv, SetMigrating
  PROVE  PlaceInv'
<1>1. /\ UNCHANGED <<dst, owner, importing, epoch, keys, acked>> /\ pc = "migrating"
      /\ dst \in Nodes /\ src \in Nodes /\ src # dst /\ pc' \in {"getKeys", "stableDst0"}
  BY DEF SetMigrating, Goto, dataVars, IInv, TypeOK
<1>2. \/ Claims(src) /\ migrating' = [migrating EXCEPT ![src] = dst]
      \/ migrating' = migrating
  BY DEF SetMigrating, AcceptsMigrating
<1>3. KeysInOnePlace' /\ MarksLead'
  BY <1>1 DEF PlaceInv, KeysInOnePlace, MarksLead
<1>4. OneClaim
  BY <1>1 DEF IInv, CallClaims, OneClaim
<1>5. LoserPointsToWinner'
  BY <1>1, <1>4 DEF LoserPointsToWinner, OneClaim, Claims, IInv, TypeOK
<1>6. Claims(src) => \A m \in Nodes \ {src, dst} : keys[m] = {}
  <2>. SUFFICES ASSUME Claims(src) PROVE \A m \in Nodes \ {src, dst} : keys[m] = {}
    OBVIOUS
  <2>1. CASE migrating[src] = None
    BY <1>1, <2>1 DEF PlaceInv, ServersHaveKeys
  <2>2. CASE migrating[src] # None
    <3>1. importing[migrating[src]] # None /\ migrating[src] \in Nodes
      BY <1>1, <2>2 DEF PlaceInv, MarksLead, IInv, TypeOK
    <3>2. migrating[src] = dst
      BY <3>1 DEF Abandoned
    <3>3. ~Claims(dst)
      BY <1>1 DEF IInv, CallClaims
    <3>. QED
      BY <1>1, <3>1, <3>2, <3>3 DEF PlaceInv, ServersHaveKeys
  <2>. QED
    BY <2>1, <2>2
<1>7. ServersHaveKeys'
  BY <1>1, <1>2, <1>6, NoneAssumption DEF PlaceInv, ServersHaveKeys, Claims, IInv, TypeOK
<1>. QED
  BY <1>3, <1>5, <1>7 DEF PlaceInv

\* STABLE after a refused MIGRATING closes a node that claims nothing; no other
\* STABLE is sent.
LEMMA StablePlace ==
  ASSUME IInv, PlaceInv, RollbackImporting \/ RollbackSource \/ RollbackDest
  PROVE  PlaceInv'
<1>1. RollbackImporting
  BY DEF PlaceInv, MarksLead, RollbackSource, RollbackDest
<1>2. /\ UNCHANGED <<dst, owner, epoch, keys, acked>> /\ pc = "stableDst0" /\ pc' = "idle"
      /\ dst \in Nodes
      /\ \/ UNCHANGED <<migrating, importing>>
         \/ /\ migrating' = [migrating EXCEPT ![dst] = None]
            /\ importing' = [importing EXCEPT ![dst] = None]
  BY <1>1 DEF RollbackImporting, Stable, SetSlotStable, ReturnErr, clusterVars, dataVars, IInv, TypeOK
<1>3. OneClaim /\ ~Claims(dst)
  BY <1>2 DEF IInv, CallClaims, OneClaim
<1>4. KeysInOnePlace' /\ MarksLead'
  BY <1>2 DEF PlaceInv, KeysInOnePlace, MarksLead
<1>5. LoserPointsToWinner'
  BY <1>2, <1>3 DEF LoserPointsToWinner, OneClaim, Claims, IInv, TypeOK
<1>6. ServersHaveKeys'
  BY <1>2, <1>3 DEF PlaceInv, ServersHaveKeys, Claims, IInv, TypeOK
<1>. QED
  BY <1>4, <1>5, <1>6 DEF PlaceInv

\* migrateKeys: no MIGRATE is refused, since the destination is open and has none
\* of the source's keys.
LEMMA KeysPlace ==
  ASSUME OnlyCommitFails, IInv, PlaceInv, GetKeysInSlot \/ \E k \in Keys : MigrateKey(k)
  PROVE  PlaceInv'
<1>1. /\ UNCHANGED <<dst, owner, migrating, importing, epoch, acked>>
      /\ pc \in {"getKeys", "migrateKeys"} /\ src \in Nodes /\ dst \in Nodes /\ src # dst
  BY DEF GetKeysInSlot, MigrateKey, clusterVars, dataVars, IInv, TypeOK
<1>2. /\ Claims(src) /\ migrating[src] = dst /\ ~Claims(dst) /\ importing[dst] # None
      /\ OneClaim
  BY <1>1 DEF IInv, CallClaims, OneClaim
<1>3. \A m \in Nodes \ {src, dst} : keys[m] = {}
  BY <1>1, <1>2 DEF PlaceInv, ServersHaveKeys
<1>4. LoserPointsToWinner'
  BY <1>1 DEF PlaceInv, LoserPointsToWinner, Claims
<1>5. CASE GetKeysInSlot
  <2>1. /\ keys' = keys
        /\ \/ pc' = "allNodes" /\ keys[src] = {}
           \/ pc' = "migrateKeys"
    BY <1>5, AllElseAnswered DEF GetKeysInSlot, Goto, dataVars
  <2>2. KeysInOnePlace' /\ MarksLead'
    BY <1>1, <2>1 DEF PlaceInv, KeysInOnePlace, MarksLead
  <2>3. ServersHaveKeys'
    BY <1>1, <1>3, <2>1 DEF PlaceInv, ServersHaveKeys, Claims
  <2>. QED
    BY <1>4, <2>2, <2>3 DEF PlaceInv
<1>6. ASSUME NEW k \in Keys, MigrateKey(k) PROVE PlaceInv'
  <2>1. k \in keys[src] => k \notin keys[dst]
    BY <1>1 DEF PlaceInv, KeysInOnePlace
  <2>2. /\ pc' \in {"getKeys", "migrateKeys"}
        /\ \/ keys' = keys
           \/ k \in keys[src] /\ keys' = [keys EXCEPT ![src] = @ \ {k}, ![dst] = @ \cup {k}]
    BY <1>2, <1>6, <2>1, AllElseAnswered DEF MigrateKey, Goto
  <2>3. KeysInOnePlace'
    BY <1>1, <2>2 DEF PlaceInv, KeysInOnePlace, IInv, TypeOK
  <2>4. MarksLead'
    BY <2>2 DEF MarksLead
  <2>5. \A m \in Nodes \ {src, dst} : keys'[m] = {}
    BY <1>1, <1>3, <2>2 DEF IInv, TypeOK
  <2>6. ServersHaveKeys'
    BY <1>1, <1>2, <2>2, <2>5, NoneAssumption DEF ServersHaveKeys, OneClaim, Claims
  <2>. QED
    BY <1>4, <2>3, <2>4, <2>6 DEF PlaceInv
<1>. QED
  BY <1>5, <1>6

\* The commit loop: whoever claims the slot in it, the keys are at the
\* destination.
LEMMA CommitPlace ==
  ASSUME IInv, IInv', PlaceInv, NEW c \in Nodes, CommitOn(c)
  PROVE  PlaceInv'
<1>1. /\ UNCHANGED <<src, dst, keys, acked>> /\ pc = "commit" /\ pc' \in {"commit", "idle"}
      /\ src \in Nodes /\ dst \in Nodes /\ src # dst /\ c \in todo
  BY DEF CommitOn, ReturnNil, Goto, dataVars, IInv, TypeOK
<1>2. KeysInOnePlace' /\ MarksLead'
  BY <1>1 DEF PlaceInv, KeysInOnePlace, MarksLead
<1>3. \A m \in Nodes \ {dst} : keys[m] = {}
  BY <1>1 DEF PlaceInv, ServersHaveKeys
<1>4. CASE UNCHANGED clusterVars
  BY <1>1, <1>2, <1>3, <1>4 DEF clusterVars, PlaceInv, ServersHaveKeys, LoserPointsToWinner, Claims
<1>5. CASE SetSlotNode(c, dst)
  <2>1. /\ owner' = [owner EXCEPT ![c] = dst]
        /\ \A n \in Nodes : n # c => migrating'[n] = migrating[n] /\ epoch'[n] = epoch[n]
        /\ \A n \in Nodes : importing'[n] \in {importing[n], None}
    BY <1>5 DEF SetSlotNode, IInv, TypeOK
  <2>2. \A n \in Nodes : Claims(n)' => (n = dst /\ c = dst) \/ (n # c /\ Claims(n))
    BY <1>1, <2>1 DEF Claims, IInv, TypeOK
  <2>3. \A n \in Nodes : Claims(n) => n \in {src, dst}
    BY <1>1 DEF IInv, CallClaims
  <2>4. ServersHaveKeys'
    <3>1. \A n \in Nodes : Claims(n)' /\ migrating'[n] = None => n = dst
      <4>1. ASSUME NEW n \in Nodes, Claims(n)', n # dst PROVE migrating'[n] # None
        <5>1. n = src /\ n # c /\ Claims(src)
          BY <2>2, <2>3, <4>1
        <5>. QED
          BY <1>1, <2>1, <5>1, NoneAssumption DEF IInv, SourceStaysDrained
      <4>. QED
        BY <4>1
    <3>2. \A s, n \in Nodes : Claims(s)' /\ migrating'[s] = n => n = dst \/ s = dst
      <4>1. ASSUME NEW s \in Nodes, Claims(s)', s # dst PROVE migrating'[s] = dst
        <5>1. s = src /\ s # c /\ Claims(src)
          BY <2>2, <2>3, <4>1
        <5>. QED
          BY <1>1, <2>1, <5>1 DEF IInv, SourceStaysDrained
      <4>. QED
        BY <4>1
    <3>. QED
      BY <1>1, <1>3, <3>1, <3>2 DEF ServersHaveKeys
  <2>5. LoserPointsToWinner'
    <3>. SUFFICES ASSUME NEW m \in Nodes, NEW n \in Nodes, Claims(m)', Claims(n)',
                         epoch'[m] < epoch'[n]
                  PROVE  migrating'[m] = n
      BY DEF LoserPointsToWinner
    <3>1. epoch'[m] \in Nat /\ epoch'[n] \in Nat
      BY DEF IInv, TypeOK
    <3>2. m # n
      BY <3>1
    <3>3. CASE c # dst
      BY <2>1, <2>2, <3>3 DEF PlaceInv, LoserPointsToWinner
    <3>4. CASE c = dst /\ n = dst
      <4>1. m = src /\ m # c /\ Claims(src)
        BY <2>2, <2>3, <3>2, <3>4
      <4>. QED
        BY <1>1, <2>1, <3>4, <4>1 DEF IInv, SourceStaysDrained
    <3>5. CASE c = dst /\ n # dst
      <4>1. n = src /\ n # c /\ Claims(src) /\ m = dst
        BY <2>2, <2>3, <3>2, <3>5
      <4>2. ~Claims(dst) /\ importing[dst] # None
        BY <1>1, <3>5 DEF IInv, CallClaims
      <4>3. epoch'[src] < epoch'[dst]
        BY <1>1, <1>5, <3>5, <4>1, <4>2 DEF SetSlotNode, IInv, TypeOK, EpochsDistinct
      <4>. QED
        BY <3>1, <4>1, <4>3
    <3>. QED
      BY <3>3, <3>4, <3>5
  <2>. QED
    BY <1>2, <2>4, <2>5 DEF PlaceInv
<1>. QED
  BY <1>4, <1>5 DEF CommitOn

\* Of two claimants one points to the other, and the one that serves a command
\* is not the one that points.
LEMMA TwoClaims ==
  ASSUME IInv, LoserPointsToWinner, NEW m \in Nodes, NEW n \in Nodes, m # n, Claims(m), Claims(n)
  PROVE  /\ migrating[m] = n \/ migrating[n] = m
         /\ \A k \in Keys : Serves(n, k) => migrating[m] = n
<1>1. epoch[m] # epoch[n] /\ epoch[m] \in Nat /\ epoch[n] \in Nat
  BY DEF IInv, OneLiveClaim, TypeOK
<1>2. CASE epoch[m] < epoch[n]
  BY <1>2 DEF LoserPointsToWinner
<1>3. CASE epoch[n] < epoch[m]
  <2>1. migrating[n] = m /\ keys[n] = {} /\ migrating[n] # None
    BY <1>3 DEF LoserPointsToWinner, IInv, OneLiveClaim
  <2>2. \A k \in Keys : ~Serves(n, k)
    BY <2>1 DEF Serves
  <2>. QED
    BY <2>1, <2>2
<1>. QED
  BY <1>1, <1>2, <1>3

\* A client's command goes to a node that has all the keys, or shares them with
\* the claimant that sent the client there.
LEMMA ClientPlace ==
  ASSUME IInv, ~Abandoned, PlaceInv, NEW k \in Keys, ClientSet(k) \/ ClientDel(k)
  PROVE  PlaceInv'
<1>1. PICK n \in Nodes :
        /\ Serves(n, k)
        /\ \/ keys' = [keys EXCEPT ![n] = @ \cup {k}] /\ acked' = acked \cup {k}
           \/ keys' = [keys EXCEPT ![n] = @ \ {k}] /\ acked' = acked \ {k}
  BY DEF ClientSet, ClientDel
<1>2. UNCHANGED <<pc, src, dst, owner, migrating, importing, epoch>>
  BY DEF ClientSet, ClientDel, operatorVars, clusterVars
<1>3. MarksLead' /\ LoserPointsToWinner'
  BY <1>2 DEF PlaceInv, MarksLead, LoserPointsToWinner, Claims
<1>4. k \in keys[n] <=> k \in acked
  BY <1>1, ServedRight DEF PlaceInv
<1>5. KeysInOnePlace'
  BY <1>1, <1>4 DEF PlaceInv, KeysInOnePlace, IInv, TypeOK
<1>6. \A m \in Nodes : m # n => keys'[m] = keys[m]
  BY <1>1 DEF IInv, TypeOK
<1>7. \/ Claims(n)
      \/ importing[n] # None /\ ~Claims(n) /\ \E s \in Nodes : Claims(s) /\ migrating[s] = n
  BY <1>1 DEF Serves
<1>8. ServersHaveKeys'
  <2>1. ASSUME NEW c \in Nodes, Claims(c), migrating[c] = None PROVE n = c
    <3>1. CASE Claims(n)
      BY <1>1, <2>1, <3>1, TwoClaims, NoneAssumption DEF PlaceInv
    <3>2. ASSUME ~Claims(n), NEW s \in Nodes, Claims(s), migrating[s] = n PROVE FALSE
      <4>1. s # c
        BY <2>1, <3>2, NoneAssumption
      <4>2. migrating[s] = c \/ migrating[c] = s
        BY <2>1, <3>2, <4>1, TwoClaims DEF PlaceInv
      <4>. QED
        BY <2>1, <3>2, <4>2, NoneAssumption
    <3>. QED
      BY <1>7, <3>1, <3>2
  <2>2. ASSUME NEW s \in Nodes, NEW x \in Nodes, Claims(s), migrating[s] = x,
               importing[x] # None, ~Claims(x)
        PROVE  n \in {s, x}
    <3>1. CASE Claims(n)
      BY <1>1, <2>2, <3>1, TwoClaims DEF PlaceInv
    <3>2. ASSUME ~Claims(n), NEW t \in Nodes, Claims(t), migrating[t] = n PROVE n = x
      <4>1. t # s => migrating[t] = s \/ migrating[s] = t
        BY <2>2, <3>2, TwoClaims DEF PlaceInv
      <4>. QED
        BY <2>2, <3>2, <4>1
    <3>. QED
      BY <1>7, <3>1, <3>2
  <2>3. pc \in {"allNodes", "commit"} => n = dst
    <3>. SUFFICES ASSUME pc \in {"allNodes", "commit"}, n # dst PROVE FALSE
      OBVIOUS
    <3>1. Claims(n)
      BY <1>7 DEF Abandoned
    <3>2. n = src
      BY <3>1 DEF IInv, CallClaims, TypeOK
    <3>3. keys[n] = {} /\ migrating[n] # None
      BY <3>1, <3>2, NoneAssumption DEF IInv, SourceStaysDrained, TypeOK
    <3>. QED
      BY <1>1, <3>1, <3>3 DEF Serves
  <2>. QED
    BY <1>2, <1>6, <2>1, <2>2, <2>3 DEF PlaceInv, ServersHaveKeys, Claims
<1>. QED
  BY <1>3, <1>5, <1>8 DEF PlaceInv

\* Gossip takes the claim of a node that has no key, and opens no way to one.
LEMMA GossipPlace ==
  ASSUME IInv, PlaceInv, NEW s \in Nodes, NEW n \in Nodes, Gossip(s, n)
  PROVE  PlaceInv'
<1>1. /\ Claims(s) /\ n # s
      /\ UNCHANGED <<pc, dst, migrating, importing, epoch, acked>>
  BY DEF Gossip, HasNews, Claims, operatorVars
<1>2. Claims(n) => keys[n] = {}
  BY <1>1 DEF IInv, OneLiveClaim, Gossip, HasNews, Claims
<1>3. keys' = keys
  BY <1>2 DEF Gossip, IInv, TypeOK
<1>4. \A m \in Nodes : Claims(m)' <=> Claims(m) /\ m # n
  BY <1>1 DEF Gossip, Claims, IInv, TypeOK
<1>5. KeysInOnePlace' /\ MarksLead' /\ LoserPointsToWinner'
  BY <1>1, <1>3, <1>4 DEF PlaceInv, KeysInOnePlace, MarksLead, LoserPointsToWinner
<1>6. ServersHaveKeys'
  BY <1>1, <1>3, <1>4 DEF PlaceInv, ServersHaveKeys, IInv, ClaimantNotImporting
<1>. QED
  BY <1>5, <1>6 DEF PlaceInv

\* What a call must find: no node abandoned, and no claimant's mark that leads
\* nowhere.
MayCall ==
    /\ ~Abandoned
    /\ \A s \in Nodes : Claims(s) /\ migrating[s] # None => importing[migrating[s]] # None

\* Starting a call moves nothing.
LEMMA CallPlace ==
  ASSUME MayCall, PlaceInv, NEW s \in Nodes, NEW d \in Nodes, CallMigrateSlot(s, d)
  PROVE  PlaceInv'
  BY DEF MayCall, CallMigrateSlot, clusterVars, dataVars, PlaceInv, KeysInOnePlace,
         ServersHaveKeys, MarksLead, LoserPointsToWinner, Claims

\* Every step keeps the places, until a call abandons a node.
LEMMA NextPlace ==
  ASSUME OnlyCommitFails, IInv, IInv', ~Abandoned => PlaceInv, [Next]_vars, ~Abandoned',
         \A s, d \in Nodes : CallMigrateSlot(s, d) => MayCall
  PROVE  PlaceInv'
<1>1. ASSUME NEW s \in Nodes, NEW d \in Nodes, CallMigrateSlot(s, d) PROVE PlaceInv'
  BY <1>1, CallPlace DEF MayCall
<1>. SUFFICES ASSUME \A s, d \in Nodes : ~CallMigrateSlot(s, d) PROVE PlaceInv'
  BY <1>1
<1>2. ~Abandoned /\ PlaceInv
  BY AbandonedStays
<1>3. CASE SnapshotDonors \/ Crash
  BY <1>2, <1>3, ControlPlace
<1>4. CASE MigrateSlotStep
  BY <1>2, <1>4, ControlPlace, ImportingPlace, MigratingPlace, StablePlace, KeysPlace, CommitPlace
     DEF MigrateSlotStep
<1>5. ASSUME NEW k \in Keys, ClientSet(k) \/ ClientDel(k) PROVE PlaceInv'
  BY <1>2, <1>5, ClientPlace
<1>6. ASSUME NEW s \in Nodes, NEW n \in Nodes, Gossip(s, n) PROVE PlaceInv'
  BY <1>2, <1>6, GossipPlace
<1>7. CASE UNCHANGED vars
  BY <1>2, <1>7 DEF vars, operatorVars, clusterVars, dataVars, PlaceInv, KeysInOnePlace,
     ServersHaveKeys, MarksLead, LoserPointsToWinner, Claims
<1>. QED
  BY <1>3, <1>4, <1>5, <1>6, <1>7 DEF Next

\* The initial owner has every key.
LEMMA InitPlace == Init => PlaceInv
  BY DEF Init, PlaceInv, KeysInOnePlace, ServersHaveKeys, MarksLead, LoserPointsToWinner, Claims

(***************************************************************************)
(* The refinement of AtomicSlot.                                           *)
(***************************************************************************)

\* What clients may be answered, as the refinement mapping has it.
Answers == [k \in Keys |-> {IF k \in keys[n] THEN "exists" ELSE "missing" :
                               n \in {m \in Nodes : Serves(m, k) /\ ~Abandoned}}]

\* Every answer is right.
LEMMA AnswersRight ==
  ASSUME IInv, ~Abandoned => PlaceInv
  PROVE  Answers \in Slot!Right(acked)
<1>1. Answers \in [Keys -> SUBSET {"exists", "missing"}]
  BY DEF Answers
<1>2. ASSUME NEW k \in Keys, NEW a \in Answers[k]
      PROVE  a = IF k \in acked THEN "exists" ELSE "missing"
  <2>1. PICK n \in Nodes : /\ Serves(n, k) /\ ~Abandoned
                           /\ a = IF k \in keys[n] THEN "exists" ELSE "missing"
    BY <1>2 DEF Answers
  <2>2. k \in keys[n] <=> k \in acked
    BY <2>1, ServedRight DEF PlaceInv
  <2>. QED
    BY <2>1, <2>2
<1>. QED
  BY <1>1, <1>2 DEF Slot!Right

\* Only clients change the keys that exist.
LEMMA AckedSteps ==
  ASSUME [Next]_vars
  PROVE  acked' = acked \/ \E k \in Keys : acked' \in {acked \cup {k}, acked \ {k}}
<1>1. ASSUME NEW k \in Keys, ClientSet(k) \/ ClientDel(k)
      PROVE  acked' \in {acked \cup {k}, acked \ {k}}
  BY <1>1 DEF ClientSet, ClientDel
<1>2. ASSUME NEW k \in Keys, MigrateKey(k) PROVE acked' = acked
  BY <1>2 DEF MigrateKey
<1>3. ASSUME NEW s \in Nodes, NEW n \in Nodes, CallMigrateSlot(s, n) \/ Gossip(s, n) \/ CommitOn(n)
      PROVE  acked' = acked
  BY <1>3 DEF CallMigrateSlot, Gossip, CommitOn, dataVars
<1>4. CASE \/ SnapshotDonors \/ Crash \/ FetchNodeIDs \/ SetImporting \/ SetMigrating
           \/ RollbackImporting \/ GetKeysInSlot \/ RollbackSource \/ RollbackDest
           \/ FetchAllNodes \/ UNCHANGED vars
  BY <1>4 DEF SnapshotDonors, Crash, FetchNodeIDs, SetImporting, SetMigrating, RollbackImporting,
              GetKeysInSlot, RollbackSource, RollbackDest, FetchAllNodes, vars, dataVars
<1>. QED
  BY <1>1, <1>2, <1>3, <1>4 DEF Next, MigrateSlotStep

\* A state with right answers is a state of AtomicSlot.
LEMMA SlotInit ==
  ASSUME acked \subseteq Keys, Answers \in Slot!Right(acked)
  PROVE  Slot!Init
  BY DEF Slot!Init, Answers

\* A step from right answers to right answers is a step of AtomicSlot.
LEMMA SlotSteps ==
  ASSUME [Next]_vars, Answers' \in Slot!Right(acked')
  PROVE  [Slot!Next]_(Slot!vars)
<1>1. CASE acked' = acked
  BY <1>1 DEF Slot!Next, Slot!Move, Answers, Slot!Right
<1>2. ASSUME NEW k \in Keys, acked' \in {acked \cup {k}, acked \ {k}} PROVE Slot!Write(k)
  BY <1>2 DEF Slot!Write, Answers
<1>. QED
  BY <1>1, <1>2, AckedSteps DEF Slot!Next

(***************************************************************************)
(* Two calls, when SETSLOT NODE may fail and gossip settles in between: a  *)
(* slot that the first call left half-moved is taken up or abandoned by    *)
(* the second.                                                             *)
(***************************************************************************)

\* The first call rolls nothing back, and a source that still claims the slot
\* points to a destination that is open or has taken over.
MarkKept ==
    calls = 1 =>
        /\ pc \notin {"stableDst0", "stableSrc", "stableDst"}
        /\ Claims(src) /\ migrating[src] # None => importing[dst] # None \/ Claims(dst)

\* The first call abandons no node.
LEMMA FirstAbandonsNone == ASSUME FirstCall, TypeOK, calls <= 1 PROVE ~Abandoned
  BY CallsAssumption DEF FirstCall, BeforeFirstCall, InFirstCall, Abandoned, TypeOK

\* The operator's steps keep it: IMPORTING is not taken back before the
\* destination took over.
LEMMA OperatorMarkKept ==
  ASSUME OnlyCommitFails, IInv, FirstCall, PlaceInv, MarkKept, calls = 1, calls' = calls,
         MigrateSlotStep \/ Crash
  PROVE  MarkKept'
<1>. USE DEF IInv, TypeOK
<1>. src \in Nodes /\ dst \in Nodes /\ src # dst
  BY DEF FirstCall, InFirstCall
<1>1. CASE FetchNodeIDs \/ FetchAllNodes \/ GetKeysInSlot \/ Crash
  <2>1. UNCHANGED <<src, dst, owner, migrating, importing>>
    BY <1>1 DEF FetchNodeIDs, FetchAllNodes, GetKeysInSlot, Crash, clusterVars
  <2>2. pc' \notin {"stableDst0", "stableSrc", "stableDst"}
    BY <1>1, AllElseAnswered DEF FetchNodeIDs, FetchAllNodes, GetKeysInSlot, Crash, Goto, ReturnErr
  <2>. QED
    BY <2>1, <2>2 DEF MarkKept, Claims
<1>2. CASE SetImporting
  <2>1. UNCHANGED <<src, dst, owner, migrating>> /\ importing'[dst] \in {importing[dst], src}
    BY <1>2 DEF SetImporting
  <2>2. pc' \notin {"stableDst0", "stableSrc", "stableDst"}
    BY <1>2 DEF SetImporting, Goto, ReturnErr
  <2>. QED
    BY <2>1, <2>2, NoneAssumption DEF MarkKept, Claims
<1>3. CASE SetMigrating
  <2>1. UNCHANGED <<src, dst, owner, importing>> /\ importing[dst] # None
    BY <1>3 DEF SetMigrating, CallClaims
  <2>2. Claims(src)
    BY <1>3 DEF SetMigrating, FirstCall, InFirstCall
  <2>3. pc' = "getKeys"
    BY <1>3, <2>2, AllElseAnswered DEF SetMigrating, AcceptsMigrating, Goto
  <2>. QED
    BY <2>1, <2>3 DEF MarkKept
<1>4. CASE RollbackImporting \/ RollbackSource \/ RollbackDest
  BY <1>4 DEF MarkKept, RollbackImporting, RollbackSource, RollbackDest
<1>5. ASSUME NEW k \in Keys, MigrateKey(k) PROVE MarkKept'
  <2>1. UNCHANGED <<src, dst, owner, migrating, importing>> /\ pc = "migrateKeys"
    BY <1>5 DEF MigrateKey, clusterVars
  <2>2. importing[dst] # None
    BY <2>1 DEF CallClaims
  <2>3. k \in keys[src] => k \notin keys[dst]
    BY DEF PlaceInv, KeysInOnePlace
  <2>4. pc' \in {"getKeys", "migrateKeys"}
    BY <1>5, <2>2, <2>3, AllElseAnswered DEF MigrateKey, Goto
  <2>. QED
    BY <2>1, <2>2, <2>4 DEF MarkKept
<1>6. ASSUME NEW c \in Nodes, CommitOn(c) PROVE MarkKept'
  <2>1. src' = src /\ dst' = dst /\ pc' \in {"idle", "commit"}
    BY <1>6 DEF CommitOn, ReturnNil, Goto
  <2>2. CASE UNCHANGED clusterVars
    BY <2>1, <2>2 DEF clusterVars, MarkKept, Claims
  <2>3. CASE SetSlotNode(c, dst)
    <3>1. c = dst => Claims(dst)'
      BY <2>1, <2>3 DEF SetSlotNode, Claims
    <3>2. /\ c # dst => importing'[dst] = importing[dst] /\ owner'[dst] = owner[dst]
          /\ c = src => ~Claims(src)'
          /\ c # src => migrating'[src] = migrating[src] /\ owner'[src] = owner[src]
      BY <2>1, <2>3 DEF SetSlotNode, Claims
    <3>. QED
      BY <2>1, <3>1, <3>2 DEF MarkKept, Claims
  <2>. QED
    BY <1>6, <2>2, <2>3 DEF CommitOn
<1>. QED
  BY <1>1, <1>2, <1>3, <1>4, <1>5, <1>6 DEF MigrateSlotStep

\* So do the others: gossip does not depose a destination that took over.
LEMMA NextMarkKept ==
  ASSUME OnlyCommitFails, IInv, FirstCall, ~Abandoned => PlaceInv, MarkKept, [Next]_vars
  PROVE  MarkKept'
<1>. TypeOK
  BY DEF IInv
<1>1. ASSUME NEW s \in Nodes, NEW d \in Nodes, CallMigrateSlot(s, d) PROVE MarkKept'
  <2>1. calls' = calls + 1 /\ calls \in Nat /\ pc' = "nodeIDs" /\ src' = s /\ migrating' = migrating
    BY <1>1, CallsAssumption DEF CallMigrateSlot, clusterVars, TypeOK
  <2>2. calls' = 1 => calls = 0
    BY <2>1
  <2>. QED
    BY <2>1, <2>2 DEF MarkKept, FirstCall, BeforeFirstCall
<1>2. CASE MigrateSlotStep \/ Crash
  <2>1. calls' = calls
    BY <1>2, NoStepBeforeFirstCall
  <2>2. CASE calls = 1
    BY <1>2, <2>1, <2>2, FirstAbandonsNone, OperatorMarkKept
  <2>. QED
    BY <2>1, <2>2 DEF MarkKept
<1>3. ASSUME NEW s \in Nodes, NEW n \in Nodes, Gossip(s, n) PROVE MarkKept'
  <2>1. UNCHANGED <<pc, src, dst, calls, migrating, importing>> /\ Claims(s) /\ n # s
    BY <1>3 DEF Gossip, HasNews, Claims, operatorVars
  <2>. SUFFICES ASSUME calls = 1 PROVE MarkKept'
    BY <2>1 DEF MarkKept
  <2>2. \A m \in Nodes : Claims(m)' <=> Claims(m) /\ m # n
    BY <1>3, <2>1 DEF Gossip, Claims, TypeOK
  <2>3. ~(n = dst /\ Claims(dst))
    <3>. SUFFICES ASSUME n = dst, Claims(dst) PROVE FALSE
      OBVIOUS
    <3>1. migrating[dst] = None
      BY DEF FirstCall, InFirstCall
    <3>2. epoch[dst] < epoch[s]
      BY <1>3 DEF Gossip, HasNews, Claims
    <3>. QED
      BY <2>1, <3>1, <3>2 DEF IInv, OneLiveClaim
  <2>. QED
    BY <2>1, <2>2, <2>3 DEF MarkKept, FirstCall, InFirstCall
<1>4. ASSUME NEW k \in Keys, ClientSet(k) \/ ClientDel(k) PROVE MarkKept'
  BY <1>4 DEF ClientSet, ClientDel, operatorVars, clusterVars, MarkKept, Claims
<1>5. CASE SnapshotDonors
  BY <1>5 DEF SnapshotDonors, clusterVars, MarkKept, Claims
<1>6. CASE UNCHANGED vars
  BY <1>6 DEF vars, operatorVars, clusterVars, MarkKept, Claims
<1>. QED
  BY <1>1, <1>2, <1>3, <1>4, <1>5, <1>6 DEF Next

\* So the second call finds the slot as it must.
LEMMA SecondCallMay ==
  ASSUME PromptGossip, MaxCalls <= 2, IInv, FirstCall, MarkKept,
         NEW s \in Nodes, NEW d \in Nodes, CallMigrateSlot(s, d)
  PROVE  MayCall
<1>. TypeOK
  BY DEF IInv
<1>1. calls \in Nat /\ calls < MaxCalls /\ Settled
  BY CallsAssumption DEF CallMigrateSlot, TypeOK
<1>2. calls = 0 \/ calls = 1
  BY <1>1, CallsAssumption
<1>3. ~Abandoned
  BY <1>2, FirstAbandonsNone
<1>4. CASE calls = 0
  BY <1>3, <1>4 DEF MayCall, FirstCall, BeforeFirstCall
<1>5. CASE calls = 1
  <2>. SUFFICES ASSUME NEW c \in Nodes, Claims(c), migrating[c] # None
                PROVE  importing[migrating[c]] # None
    BY <1>3 DEF MayCall
  <2>1. c = src /\ migrating[c] = dst /\ dst \in Nodes /\ src # dst
    BY <1>5 DEF FirstCall, InFirstCall
  <2>2. ~Claims(dst)
    BY <1>1, <2>1, SettledOneClaim DEF IInv
  <2>. QED
    BY <1>5, <2>1, <2>2 DEF MarkKept
<1>. QED
  BY <1>2, <1>4, <1>5

\* When SETSLOT NODE is all that fails and gossip settles before the next call,
\* clients of two calls of MigrateSlot see one atomic slot: no node that serves a
\* key gives a wrong answer, at no step of the commands or of gossip, whether the
\* second call retries the first or moves the slot on; for every set of nodes and
\* keys.
THEOREM RetriedMoveIsAtomic ==
  ASSUME PromptGossip, OnlyCommitFails, MaxCalls <= 2
  PROVE  Spec => ImplementsAtomicSlot
<1>. DEFINE Inv == IInv /\ FirstCall /\ MarkKept /\ (~Abandoned => PlaceInv)
<1>1. Init => Inv
  BY InitIInv, InitFirstCall, InitPlace, CallsAssumption DEF Init, MarkKept
<1>2. Inv /\ [Next]_vars => Inv'
  <2>. SUFFICES ASSUME Inv, [Next]_vars PROVE Inv'
    OBVIOUS
  <2>1. IInv' /\ FirstCall' /\ MarkKept'
    BY NextIInv, NextFirstCall, NextMarkKept
  <2>2. \A s, d \in Nodes : CallMigrateSlot(s, d) => MayCall
    BY SecondCallMay
  <2>3. ~Abandoned' => PlaceInv'
    BY <2>1, <2>2, NextPlace
  <2>. QED
    BY <2>1, <2>3
<1>3. Inv => Answers \in Slot!Right(acked)
  BY AnswersRight
<1>4. Init => Slot!Init
  BY <1>1, <1>3, SlotInit DEF IInv, TypeOK
<1>5. Inv' => (Answers \in Slot!Right(acked))'
  BY <1>3, PTL
<1>6. Inv' /\ [Next]_vars => [Slot!Next]_(Slot!vars)
  BY <1>5, SlotSteps
<1>. HIDE DEF Inv
<1>. QED
  BY <1>1, <1>2, <1>4, <1>6, PTL DEF Spec, ImplementsAtomicSlot, Slot!Spec

(***************************************************************************)
(* Any number of calls, when no command fails: then no mark outlives its   *)
(* call, and gossip need not settle.                                       *)
(***************************************************************************)

\* Outside the commit loop there is one claim; in it both ends bind the slot to
\* the destination when their turn is over.  Only the two ends have marks, from
\* the command that sets them to their commit.
NoMarkLeft ==
    /\ pc # "commit" => OneClaim
    /\ pc = "commit" => \A n \in {src, dst} : n \notin todo => owner[n] = dst
    /\ \A n \in Nodes : importing[n] # None =>
          /\ n = dst /\ (pc = "commit" => n \in todo)
          /\ pc \in {"migrating", "stableDst0", "getKeys", "migrateKeys", "allNodes", "commit"}
    /\ \A n \in Nodes : migrating[n] # None =>
          /\ n = src /\ (pc = "commit" => n \in todo)
          /\ pc \in {"getKeys", "migrateKeys", "allNodes", "commit"}

\* The initial cluster has one owner and no mark.
LEMMA InitNoMark == Init => NoMarkLeft
  BY DEF Init, NoMarkLeft, OneClaim, Claims

\* No node is ever abandoned.
LEMMA NoMarkNoneAbandoned == NoMarkLeft => ~Abandoned
  BY DEF NoMarkLeft, Abandoned

\* So a call may begin at any time between calls.
LEMMA NoMarkMayCall ==
  ASSUME NoMarkLeft, pc = "idle"
  PROVE  MayCall /\ OneClaim
  BY NoMarkNoneAbandoned DEF NoMarkLeft, MayCall

\* Every command of the commit loop is accepted, and clears the mark of its node.
LEMMA CommitNoMark ==
  ASSUME Faults = {}, IInv, PlaceInv, NoMarkLeft, NEW c \in Nodes, CommitOn(c)
  PROVE  NoMarkLeft'
<1>. USE DEF IInv, TypeOK
<1>1. /\ UNCHANGED <<src, dst, keys>> /\ pc = "commit" /\ todo' = todo \ {c} /\ c \in todo
      /\ pc' = IF todo = {c} THEN "idle" ELSE "commit"
      /\ src \in Nodes /\ dst \in Nodes /\ src # dst
  BY DEF CommitOn, ReturnNil, Goto, dataVars
<1>2. \A m \in Nodes \ {dst} : keys[m] = {}
  BY <1>1 DEF PlaceInv, ServersHaveKeys
<1>3. SetSlotNode(c, dst)
  BY <1>2 DEF CommitOn, AcceptsNode
<1>4. /\ owner' = [owner EXCEPT ![c] = dst]
      /\ \A n \in Nodes : importing'[n] # None => importing[n] # None /\ ~(n = c /\ n = dst)
      /\ \A n \in Nodes : migrating'[n] # None => migrating[n] # None /\ ~(n = c /\ n # dst)
  BY <1>2, <1>3 DEF SetSlotNode
<1>5. \A n \in {src, dst} : n \notin todo' => owner'[n] = dst
  BY <1>1, <1>4 DEF NoMarkLeft
<1>6. \A n \in Nodes : importing'[n] # None => n = dst /\ n \in todo'
  BY <1>1, <1>4 DEF NoMarkLeft
<1>7. \A n \in Nodes : migrating'[n] # None => n = src /\ n \in todo'
  BY <1>1, <1>4 DEF NoMarkLeft
<1>8. pc' = "idle" => OneClaim'
  <2>. SUFFICES ASSUME pc' = "idle" PROVE OneClaim'
    OBVIOUS
  <2>1. owner'[src] = dst
    BY <1>1, <1>5
  <2>2. \A n \in Nodes : Claims(n)' => n \in {src, dst}
    BY <1>1, <1>4 DEF CallClaims, Claims
  <2>. QED
    BY <1>1, <2>1, <2>2 DEF OneClaim, Claims
<1>. QED
  BY <1>1, <1>5, <1>6, <1>7, <1>8 DEF NoMarkLeft

\* In the commit loop gossip gives the slot back to neither end.
LEMMA GossipNoMark ==
  ASSUME IInv, NoMarkLeft, NEW s \in Nodes, NEW n \in Nodes, Gossip(s, n)
  PROVE  NoMarkLeft'
<1>1. /\ UNCHANGED <<pc, src, dst, todo, migrating, importing>> /\ Claims(s) /\ n # s
      /\ owner' = [owner EXCEPT ![n] = s] /\ owner[n] # s /\ epoch[owner[n]] < epoch[s]
  BY DEF Gossip, HasNews, Claims, operatorVars
<1>2. \A m \in Nodes : Claims(m)' => Claims(m)
  BY <1>1 DEF Claims, IInv, TypeOK
<1>3. OneClaim => OneClaim'
  BY <1>2 DEF OneClaim
<1>4. ASSUME pc = "commit", n \in {src, dst}, n \notin todo PROVE FALSE
  <2>1. owner[n] = dst
    BY <1>4 DEF NoMarkLeft
  <2>2. s = src /\ n = dst
    BY <1>1, <1>4, <2>1 DEF IInv, CallClaims, TypeOK
  <2>3. Claims(dst) /\ epoch[dst] < epoch[src] /\ src # dst
    BY <1>1, <2>1, <2>2 DEF Claims
  <2>4. migrating[dst] # None
    BY <1>1, <2>2, <2>3 DEF IInv, OneLiveClaim
  <2>. QED
    BY <2>3, <2>4, <1>1, <2>2 DEF NoMarkLeft
<1>. QED
  BY <1>1, <1>3, <1>4 DEF NoMarkLeft, IInv, TypeOK

\* Every step keeps it.
LEMMA NextNoMark ==
  ASSUME Faults = {}, IInv, PlaceInv, NoMarkLeft, [Next]_vars
  PROVE  NoMarkLeft'
<1>. USE DEF IInv, TypeOK
<1>0. Replies = {"ok"} /\ "crash" \notin Faults /\ "error" \notin Faults /\ "timeout" \notin Faults
      /\ "stable" \notin Faults
  BY DEF Replies
<1>1. CASE SnapshotDonors \/ FetchNodeIDs \/ FetchAllNodes \/ Crash
  <2>1. UNCHANGED <<src, dst, owner, migrating, importing>>
    BY <1>1 DEF SnapshotDonors, FetchNodeIDs, FetchAllNodes, Crash, clusterVars
  <2>2. \/ pc' = pc /\ todo' = todo
        \/ pc = "nodeIDs" /\ pc' = "importing"
        \/ pc = "allNodes" /\ pc' = "commit" /\ todo' = Nodes
    BY <1>0, <1>1 DEF SnapshotDonors, FetchNodeIDs, FetchAllNodes, Crash, Goto
  <2>3. pc = "allNodes" => src \in Nodes /\ dst \in Nodes
    OBVIOUS
  <2>. QED
    BY <2>1, <2>2, <2>3 DEF NoMarkLeft, OneClaim, Claims
<1>2. ASSUME NEW s \in Nodes, NEW d \in Nodes, CallMigrateSlot(s, d) PROVE NoMarkLeft'
  BY <1>2 DEF CallMigrateSlot, clusterVars, NoMarkLeft, OneClaim, Claims
<1>3. CASE SetImporting
  BY <1>0, <1>3 DEF SetImporting, AcceptsImporting, Goto, ReturnErr, NoMarkLeft, OneClaim, Claims
<1>4. CASE SetMigrating
  BY <1>0, <1>4 DEF SetMigrating, AcceptsMigrating, Goto, NoMarkLeft, OneClaim, Claims
<1>5. CASE RollbackImporting
  <2>1. SetSlotStable(dst) /\ pc = "stableDst0" /\ pc' = "idle"
    BY <1>0, <1>5 DEF RollbackImporting, Stable, ReturnErr
  <2>. QED
    BY <1>5, <2>1 DEF RollbackImporting, SetSlotStable, NoMarkLeft, OneClaim, Claims
<1>6. CASE RollbackSource \/ RollbackDest
  BY <1>6 DEF RollbackSource, RollbackDest, PlaceInv, MarksLead
<1>7. CASE GetKeysInSlot
  BY <1>0, <1>7 DEF GetKeysInSlot, Goto, clusterVars, NoMarkLeft, OneClaim, Claims
<1>8. ASSUME NEW k \in Keys, MigrateKey(k) PROVE NoMarkLeft'
  <2>1. UNCHANGED <<src, dst, owner, migrating, importing>> /\ pc = "migrateKeys"
    BY <1>8 DEF MigrateKey, clusterVars
  <2>2. importing[dst] # None /\ (k \in keys[src] => k \notin keys[dst])
    BY <2>1 DEF CallClaims, PlaceInv, KeysInOnePlace
  <2>3. pc' \in {"getKeys", "migrateKeys"}
    BY <1>0, <1>8, <2>2 DEF MigrateKey, Goto
  <2>. QED
    BY <2>1, <2>3 DEF NoMarkLeft, OneClaim, Claims
<1>9. ASSUME NEW c \in Nodes, CommitOn(c) PROVE NoMarkLeft'
  BY <1>9, CommitNoMark
<1>10. ASSUME NEW s \in Nodes, NEW n \in Nodes, Gossip(s, n) PROVE NoMarkLeft'
  BY <1>10, GossipNoMark
<1>11. ASSUME NEW k \in Keys, ClientSet(k) \/ ClientDel(k) PROVE NoMarkLeft'
  BY <1>11 DEF ClientSet, ClientDel, operatorVars, clusterVars, NoMarkLeft, OneClaim, Claims
<1>12. CASE UNCHANGED vars
  BY <1>12 DEF vars, operatorVars, clusterVars, NoMarkLeft, OneClaim, Claims
<1>. QED
  BY <1>1, <1>2, <1>3, <1>4, <1>5, <1>6, <1>7, <1>8, <1>9, <1>10, <1>11, <1>12
     DEF Next, MigrateSlotStep

\* When no command fails, clients see one atomic slot through any number of
\* calls of MigrateSlot, although gossip is never waited for and calls are made
\* from a stale list of donors: for every set of nodes and keys.
THEOREM MovesAreAtomic == ASSUME Faults = {} PROVE Spec => ImplementsAtomicSlot
<1>. DEFINE Inv == IInv /\ PlaceInv /\ NoMarkLeft
<1>1. Init => Inv
  BY InitIInv, InitPlace, InitNoMark
<1>2. Inv /\ [Next]_vars => Inv'
  <2>. SUFFICES ASSUME Inv, [Next]_vars PROVE Inv'
    OBVIOUS
  <2>1. ASSUME NEW s \in Nodes, NEW d \in Nodes, CallMigrateSlot(s, d) PROVE MayCall /\ OneClaim
    BY <2>1, NoMarkMayCall DEF CallMigrateSlot
  <2>2. IInv'
    BY <2>1, StepIInv
  <2>3. NoMarkLeft'
    BY NextNoMark
  <2>4. ~Abandoned'
    BY <2>3 DEF NoMarkLeft, Abandoned
  <2>5. OnlyCommitFails
    BY DEF OnlyCommitFails
  <2>6. PlaceInv'
    BY <2>1, <2>2, <2>4, <2>5, NextPlace
  <2>. QED
    BY <2>2, <2>3, <2>6
<1>3. Inv => Answers \in Slot!Right(acked)
  BY AnswersRight
<1>4. Init => Slot!Init
  BY <1>1, <1>3, SlotInit DEF IInv, TypeOK
<1>5. Inv' => (Answers \in Slot!Right(acked))'
  BY <1>3, PTL
<1>6. Inv' /\ [Next]_vars => [Slot!Next]_(Slot!vars)
  BY <1>5, SlotSteps
<1>. HIDE DEF Inv
<1>. QED
  BY <1>1, <1>2, <1>4, <1>6, PTL DEF Spec, ImplementsAtomicSlot, Slot!Spec
=============================================================================
