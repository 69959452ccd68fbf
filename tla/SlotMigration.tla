--------------------------- MODULE SlotMigration ---------------------------
(***************************************************************************)
(* MigrateSlot and migrateKeys of internal/redis/cluster.go: the operator  *)
(* moves ONE hash slot between two masters while clients read and write    *)
(* the slot's keys and the Redis nodes gossip about who owns it.           *)
(*                                                                         *)
(* Each Redis command the operator sends is one step: between two commands *)
(* anything may happen, and every command may be refused, time out after   *)
(* it took effect, or be the last one before the operator crashes.         *)
(*                                                                         *)
(* The Redis server itself (CLUSTER SETSLOT, MIGRATE, ASK/MOVED redirects, *)
(* config epochs) is external: it is modelled from how the code uses it.   *)
(***************************************************************************)
EXTENDS Naturals, FiniteSets

CONSTANTS
    Nodes,        \* the masters of the cluster, by node ID
    Keys,         \* the keys that hash to the slot
    None,         \* "no node" in a migrating or importing mark
    BatchSize,    \* migrateBatch: keys asked for by one GETKEYSINSLOT
    MaxCalls,     \* bound on the calls of MigrateSlot in a behaviour
    Faults,       \* which faults the environment may inject
    PromptGossip  \* TRUE: gossip settles before the next call of MigrateSlot

\* "error" and "timeout": a command whose error MigrateSlot returns; "stable" and
\* "commit": the SETSLOT STABLE and SETSLOT NODE whose errors it drops.
AllFaults == {"error", "timeout", "stable", "commit", "crash"}

ASSUME NoneAssumption   == None \notin Nodes
ASSUME NodesAssumption  == IsFiniteSet(Nodes)
ASSUME BatchAssumption  == BatchSize \in Nat \ {0}
ASSUME CallsAssumption  == MaxCalls \in Nat
ASSUME FaultsAssumption == Faults \subseteq AllFaults /\ PromptGossip \in BOOLEAN

VARIABLES
    pc,           \* where the operator is in MigrateSlot, "idle" outside it
    src, dst,     \* sourceAddr and destAddr of the call in progress
    batch,        \* keys of the current GETKEYSINSLOT answer not yet moved
    todo,         \* nodes SETSLOT NODE has not been sent to yet
    result,       \* what the last call returned: "none", "nil", "err"
    donors,       \* nodes that claimed the slot in the caller's snapshot
    calls,        \* calls of MigrateSlot so far
    owner,        \* owner[n]: who owns the slot, in n's own view
    migrating,    \* migrating[n]: where n is sending the slot, or None
    importing,    \* importing[n]: from where n is receiving it, or None
    epoch,        \* config epoch of each node
    currentEpoch, \* the highest epoch in the cluster
    keys,         \* keys[n]: the keys of the slot stored at n
    acked         \* the keys a client was told exist

operatorVars == <<pc, src, dst, batch, todo, result, donors, calls>>
clusterVars  == <<owner, migrating, importing, epoch, currentEpoch>>
dataVars     == <<keys, acked>>
vars         == <<operatorVars, clusterVars, dataVars>>

PCs == {"idle", "nodeIDs", "importing", "migrating", "stableDst0",
        "getKeys", "migrateKeys", "stableSrc", "stableDst", "allNodes", "commit"}

Init ==
    /\ pc = "idle" /\ result = "none" /\ calls = 0
    /\ src = None /\ dst = None
    /\ batch = {} /\ todo = {} /\ donors = {}
    /\ \E o \in Nodes, K \in SUBSET Keys :
          /\ owner = [n \in Nodes |-> o]
          /\ keys  = [n \in Nodes |-> IF n = o THEN K ELSE {}]
          /\ acked = K
    /\ migrating = [n \in Nodes |-> None]
    /\ importing = [n \in Nodes |-> None]
    /\ currentEpoch = Cardinality(Nodes)
    /\ epoch \in [Nodes -> 0 .. Cardinality(Nodes)]
    /\ \A m, n \in Nodes : m # n => epoch[m] # epoch[n]

(***************************************************************************)
(* The Redis cluster (external).                                           *)
(***************************************************************************)

\* How the operator sees a command end.  "error": refused or never arrived.
\* "timeout": executed, but the reply was lost.
Replies == {"ok"} \cup (Faults \cap {"error", "timeout"})

\* A node's own claim to the slot, what CLUSTER NODES lists on its own line.
Claims(n) == owner[n] = n

\* SETSLOT IMPORTING is refused by the owner, MIGRATING by everyone else, and
\* NODE by an owner that would give the slot away while it still has keys.
AcceptsImporting(n) == ~Claims(n)
AcceptsMigrating(n) == Claims(n)
AcceptsNode(n, d)   == (Claims(n) /\ n # d) => keys[n] = {}

\* What CLUSTER SETSLOT <slot> STABLE and NODE <d> do to node n.
SetSlotStable(n) ==
    /\ migrating' = [migrating EXCEPT ![n] = None]
    /\ importing' = [importing EXCEPT ![n] = None]
    /\ UNCHANGED <<owner, epoch, currentEpoch>>

SetSlotNode(n, d) ==
    LET takesOver == n = d /\ importing[n] # None
        bumps     == takesOver /\ \E m \in Nodes \ {n} : epoch[m] >= epoch[n]
    IN  /\ owner' = [owner EXCEPT ![n] = d]
        /\ migrating' = [migrating EXCEPT ![n] = IF keys[n] = {} THEN None ELSE @]
        /\ importing' = [importing EXCEPT ![n] = IF takesOver THEN None ELSE @]
        /\ epoch' = [epoch EXCEPT ![n] = IF bumps THEN currentEpoch + 1 ELSE @]
        /\ currentEpoch' = IF bumps THEN currentEpoch + 1 ELSE currentEpoch

\* A client's command on key k ends up at node n: n owns the slot and does not
\* redirect, or the owner answers ASK because the slot is migrating to n.
Serves(n, k) ==
    \/ Claims(n) /\ (migrating[n] = None \/ k \in keys[n])
    \/ /\ importing[n] # None /\ ~Claims(n)
       /\ \E s \in Nodes : Claims(s) /\ migrating[s] = n /\ k \notin keys[s]

ClientSet(k) ==
    /\ \E n \in Nodes :
          /\ Serves(n, k)
          /\ keys' = [keys EXCEPT ![n] = @ \cup {k}]
    /\ acked' = acked \cup {k}
    /\ UNCHANGED <<operatorVars, clusterVars>>

ClientDel(k) ==
    /\ \E n \in Nodes :
          /\ Serves(n, k)
          /\ keys' = [keys EXCEPT ![n] = @ \ {k}]
    /\ acked' = acked \ {k}
    /\ UNCHANGED <<operatorVars, clusterVars>>

\* A ping from s, which claims the slot, makes n rebind the slot to s when s
\* has the higher epoch and n is not importing; an owner that loses the slot
\* this way deletes the keys it still has in it.
HasNews(s, n) ==
    /\ Claims(s) /\ owner[n] # s /\ importing[n] = None
    /\ epoch[owner[n]] < epoch[s]

Gossip(s, n) ==
    /\ HasNews(s, n)
    /\ owner' = [owner EXCEPT ![n] = s]
    /\ keys' = [keys EXCEPT ![n] = IF Claims(n) THEN {} ELSE @]
    /\ UNCHANGED <<operatorVars, migrating, importing, epoch, currentEpoch, acked>>

Settled == \A s, n \in Nodes : ~HasNews(s, n)

(***************************************************************************)
(* The operator.                                                           *)
(***************************************************************************)

Goto(label) == pc' = label /\ UNCHANGED <<result, donors>>

\* return err: the caller returns as well and its snapshot is gone.
ReturnErr == pc' = "idle" /\ result' = "err" /\ donors' = {}

\* return nil: the caller keeps its snapshot and goes on to its next slot.
ReturnNil == pc' = "idle" /\ result' = "nil" /\ UNCHANGED donors

\* RebalanceSlots reads CLUSTER NODES from a donor and collects its slots.
SnapshotDonors ==
    /\ pc = "idle" /\ calls < MaxCalls
    /\ donors' = {n \in Nodes : Claims(n)}
    /\ UNCHANGED <<pc, src, dst, batch, todo, result, calls, clusterVars, dataVars>>

\* Mutant: the donor is not left out of the receivers.
CallMigrateSlotAnywhere(s, d) ==
    /\ pc = "idle" /\ calls < MaxCalls /\ s \in donors
    /\ PromptGossip => Settled
    /\ pc' = "nodeIDs" /\ result' = "none"
    /\ src' = s /\ dst' = d /\ calls' = calls + 1
    /\ UNCHANGED <<batch, todo, donors, clusterVars, dataVars>>

CallMigrateSlot(s, d) ==
    /\ pc = "idle" /\ calls < MaxCalls
    /\ s \in donors /\ d # s
    /\ PromptGossip => Settled
    /\ pc' = "nodeIDs" /\ result' = "none"
    /\ src' = s /\ dst' = d /\ calls' = calls + 1
    /\ UNCHANGED <<batch, todo, donors, clusterVars, dataVars>>

\* CLUSTER NODES on dest, then on source: neither changes anything.
FetchNodeIDs ==
    /\ pc = "nodeIDs"
    /\ \E r \in Replies : IF r = "ok" THEN Goto("importing") ELSE ReturnErr
    /\ UNCHANGED <<src, dst, batch, todo, calls, clusterVars, dataVars>>

\* Mutant: SETSLOT IMPORTING is not sent.
SetImportingSkipped ==
    /\ pc = "importing" /\ Goto("migrating")
    /\ UNCHANGED <<src, dst, batch, todo, calls, clusterVars, dataVars>>

SetImporting ==
    /\ pc = "importing"
    /\ \E r \in Replies :
          /\ importing' = IF AcceptsImporting(dst) /\ r # "error"
                          THEN [importing EXCEPT ![dst] = src] ELSE importing
          /\ IF AcceptsImporting(dst) /\ r = "ok" THEN Goto("migrating") ELSE ReturnErr
    /\ UNCHANGED <<src, dst, batch, todo, calls, owner, migrating, epoch,
                   currentEpoch, dataVars>>

\* Mutants: SETSLOT MIGRATING is not sent; its error is dropped.
SetMigratingSkipped ==
    /\ pc = "migrating" /\ Goto("getKeys")
    /\ UNCHANGED <<src, dst, batch, todo, calls, clusterVars, dataVars>>

SetMigratingIgnoresError ==
    /\ pc = "migrating" /\ Goto("getKeys")
    /\ \E r \in Replies :
          migrating' = IF AcceptsMigrating(src) /\ r # "error"
                       THEN [migrating EXCEPT ![src] = dst] ELSE migrating
    /\ UNCHANGED <<src, dst, batch, todo, calls, owner, importing, epoch,
                   currentEpoch, dataVars>>

SetMigrating ==
    /\ pc = "migrating"
    /\ \E r \in Replies :
          /\ migrating' = IF AcceptsMigrating(src) /\ r # "error"
                          THEN [migrating EXCEPT ![src] = dst] ELSE migrating
          /\ Goto(IF AcceptsMigrating(src) /\ r = "ok" THEN "getKeys" ELSE "stableDst0")
    /\ UNCHANGED <<src, dst, batch, todo, calls, owner, importing, epoch,
                   currentEpoch, dataVars>>

\* The best-effort SETSLOT STABLE of an error path: its own error is dropped.
Stable(n) ==
    \/ SetSlotStable(n)
    \/ "stable" \in Faults /\ UNCHANGED clusterVars

RollbackImporting ==
    /\ pc = "stableDst0"
    /\ Stable(dst) /\ ReturnErr
    /\ UNCHANGED <<src, dst, batch, todo, calls, dataVars>>

\* GETKEYSINSLOT answers BatchSize keys, or all of them when there are fewer.
Batches(K) == {b \in SUBSET K : /\ b # {}
                                /\ \/ b = K /\ Cardinality(K) <= BatchSize
                                   \/ Cardinality(b) = BatchSize}

\* Mutant: an error of GETKEYSINSLOT is taken for "no more keys".
GetKeysInSlotErrorIsEmpty ==
    /\ pc = "getKeys"
    /\ \/ /\ keys[src] = {} \/ Replies # {"ok"}
          /\ batch' = {} /\ Goto("allNodes")
       \/ keys[src] # {} /\ batch' \in Batches(keys[src]) /\ Goto("migrateKeys")
    /\ UNCHANGED <<src, dst, todo, calls, clusterVars, dataVars>>

\* Mutant: an empty batch does not end migrateKeys.
GetKeysInSlotForever ==
    /\ pc = "getKeys"
    /\ \/ keys[src] = {} /\ batch' = {} /\ Goto("getKeys")
       \/ keys[src] # {} /\ batch' \in Batches(keys[src]) /\ Goto("migrateKeys")
       \/ Replies # {"ok"} /\ batch' = {} /\ Goto("stableSrc")
    /\ UNCHANGED <<src, dst, todo, calls, clusterVars, dataVars>>

GetKeysInSlot ==
    /\ pc = "getKeys"
    /\ \/ /\ keys[src] = {} /\ batch' = {} /\ Goto("allNodes")
       \/ /\ keys[src] # {} /\ batch' \in Batches(keys[src]) /\ Goto("migrateKeys")
       \/ /\ Replies # {"ok"} /\ batch' = {} /\ Goto("stableSrc")
    /\ UNCHANGED <<src, dst, todo, calls, clusterVars, dataVars>>

\* Mutant: migrateKeys stops after its first batch.
MigrateKeyOneBatch(k) ==
    /\ pc = "migrateKeys" /\ k \in batch /\ k \in keys[src] /\ k \notin keys[dst]
    /\ keys' = [keys EXCEPT ![src] = @ \ {k}, ![dst] = @ \cup {k}]
    /\ batch' = batch \ {k}
    /\ Goto(IF batch = {k} THEN "allNodes" ELSE "migrateKeys")
    /\ UNCHANGED <<src, dst, todo, calls, clusterVars, acked>>

\* MIGRATE of one key, without REPLACE: it is refused (BUSYKEY) when the
\* destination already has the key, does nothing when the key is gone (NOKEY),
\* and after an I/O error the key may be at either node or at both.
MigrateKey(k) ==
    /\ pc = "migrateKeys" /\ k \in batch
    /\ LET here  == k \in keys[src]
           free  == k \notin keys[dst] /\ (importing[dst] # None \/ Claims(dst))
           moved == [keys EXCEPT ![src] = @ \ {k}, ![dst] = @ \cup {k}]
           both  == [keys EXCEPT ![dst] = @ \cup {k}]
       IN  \/ /\ here /\ free
              /\ keys' = moved
              /\ batch' = batch \ {k}
              /\ Goto(IF batch = {k} THEN "getKeys" ELSE "migrateKeys")
           \/ /\ ~here
              /\ batch' = batch \ {k}
              /\ Goto(IF batch = {k} THEN "getKeys" ELSE "migrateKeys")
              /\ UNCHANGED keys
           \/ /\ (here /\ ~free) \/ "error" \in Faults
              /\ batch' = {} /\ Goto("stableSrc")
              /\ UNCHANGED keys
           \/ /\ here /\ free /\ "timeout" \in Faults
              /\ keys' \in {moved, both}
              /\ batch' = {} /\ Goto("stableSrc")
    /\ UNCHANGED <<src, dst, todo, calls, clusterVars, acked>>

RollbackSource ==
    /\ pc = "stableSrc"
    /\ Stable(src) /\ Goto("stableDst")
    /\ UNCHANGED <<src, dst, batch, todo, calls, dataVars>>

RollbackDest ==
    /\ pc = "stableDst"
    /\ Stable(dst) /\ ReturnErr
    /\ UNCHANGED <<src, dst, batch, todo, calls, dataVars>>

\* CLUSTER NODES on source; an error here returns without any SETSLOT STABLE.
FetchAllNodes ==
    /\ pc = "allNodes"
    /\ \E r \in Replies :
          IF r = "ok" THEN todo' = Nodes /\ Goto("commit")
                      ELSE todo' = {} /\ ReturnErr
    /\ UNCHANGED <<src, dst, batch, calls, clusterVars, dataVars>>

\* SETSLOT NODE on the nodes in the order the source lists them, which is the
\* order of a hash table; an error is dropped and the loop goes on.
CommitOn(n) ==
    /\ pc = "commit" /\ n \in todo
    /\ todo' = todo \ {n}
    /\ IF todo = {n} THEN ReturnNil ELSE Goto("commit")
    /\ \/ AcceptsNode(n, dst) /\ SetSlotNode(n, dst)
       \/ (~AcceptsNode(n, dst) \/ "commit" \in Faults) /\ UNCHANGED clusterVars
    /\ UNCHANGED <<src, dst, batch, calls, dataVars>>

\* The operator process dies, or its context is cancelled, between commands.
Crash ==
    /\ "crash" \in Faults /\ pc # "idle"
    /\ ReturnErr
    /\ batch' = {} /\ todo' = {}
    /\ UNCHANGED <<src, dst, calls, clusterVars, dataVars>>

MigrateSlotStep ==
    \/ FetchNodeIDs \/ SetImporting \/ SetMigrating \/ RollbackImporting
    \/ GetKeysInSlot \/ (\E k \in Keys : MigrateKey(k))
    \/ RollbackSource \/ RollbackDest
    \/ FetchAllNodes \/ (\E n \in Nodes : CommitOn(n))

Next ==
    \/ SnapshotDonors
    \/ \E s, d \in Nodes : CallMigrateSlot(s, d)
    \/ MigrateSlotStep
    \/ Crash
    \/ \E k \in Keys : ClientSet(k) \/ ClientDel(k)
    \/ \E s, n \in Nodes : Gossip(s, n)

Spec == Init /\ [][Next]_vars

\* The reconcile goroutine keeps running a call it started, and Redis nodes
\* keep pinging each other.
Fairness ==
    /\ WF_vars(MigrateSlotStep)
    /\ \A s, n \in Nodes : WF_vars(Gossip(s, n))

FairSpec == Spec /\ Fairness

(***************************************************************************)
(* Properties.                                                             *)
(***************************************************************************)

\* The type of every variable; a call in progress has two different ends.
TypeOK ==
    /\ pc \in PCs /\ result \in {"none", "nil", "err"} /\ calls \in 0 .. MaxCalls
    /\ src \in Nodes \cup {None} /\ dst \in Nodes \cup {None}
    /\ pc # "idle" => src \in Nodes /\ dst \in Nodes /\ src # dst
    /\ batch \subseteq Keys /\ todo \subseteq Nodes /\ donors \subseteq Nodes
    /\ owner \in [Nodes -> Nodes]
    /\ migrating \in [Nodes -> Nodes \cup {None}]
    /\ importing \in [Nodes -> Nodes \cup {None}]
    /\ epoch \in [Nodes -> Nat] /\ currentEpoch \in Nat
    /\ keys \in [Nodes -> SUBSET Keys] /\ acked \subseteq Keys

\* Whatever fails, and wherever the operator stops in MigrateSlot, a key a
\* client was told exists is stored at some node: no interleaving of MIGRATE,
\* the rollback, the swallowed SETSLOT NODE errors and gossip deletes it.
NoKeyLost == \A k \in acked : \E n \in Nodes : k \in keys[n]

\* When the commit loop runs, a source that still takes client commands has no
\* key left and cannot get one: it redirects with ASK.  migrateKeys' "no more
\* keys" answer stays true after it was read.
SourceStaysDrained ==
    pc \in {"allNodes", "commit"} /\ Claims(src) => keys[src] = {} /\ migrating[src] = dst

\* Two nodes may claim the slot for a while, but only when one is empty and
\* loses to the other by its config epoch: clients never write to both.
OneLiveClaim ==
    \A m, n \in Nodes : m # n /\ Claims(m) /\ Claims(n) =>
        /\ epoch[m] # epoch[n]
        /\ epoch[m] < epoch[n] => keys[m] = {} /\ migrating[m] # None

\* When the first call returned nil and the destination got its SETSLOT NODE,
\* every acknowledged key can be reached at once, whatever clients did meanwhile
\* and whichever other node missed the commit.
ReachableAfterNil ==
    pc = "idle" /\ result = "nil" /\ calls = 1 /\ Claims(dst) =>
        \A k \in acked : \E n \in Nodes : k \in keys[n] /\ Serves(n, k)

\* An earlier call left another node IMPORTING: its SETSLOT NODE failed, the
\* error was dropped, and this call moves the slot somewhere else.
Abandoned == \E n \in Nodes \ {dst} : importing[n] # None

\* While SETSLOT NODE is all that fails, clients see one slot in one place: at no
\* step of MigrateSlot or of gossip does a node that serves a key give a wrong
\* answer for it, whoever writes meanwhile.  Nothing is promised for a slot whose
\* keys an earlier call abandoned at another node.  A third call may come back to
\* that node, so with lost commits this is a property of a call and its retry.
Slot == INSTANCE AtomicSlot WITH
    data    <- acked,
    answers <- [k \in Keys |-> {IF k \in keys[n] THEN "exists" ELSE "missing" :
                                   n \in {m \in Nodes : Serves(m, k) /\ ~Abandoned}}]

ImplementsAtomicSlot == Slot!Spec

\* migrateKeys loops until a batch is empty; although clients keep writing to
\* the slot, a call of MigrateSlot returns.
CallReturns == pc # "idle" ~> pc = "idle"

\* When the destination got its SETSLOT NODE, a node that missed its own learns
\* the new owner by gossip, unless an earlier call left it IMPORTING the slot
\* ("other nodes will receive this via gossip").
GossipHealsMissedCommit ==
    (pc = "idle" /\ result = "nil" /\ Claims(dst))
        ~> (pc # "idle" \/ \A n \in Nodes : importing[n] = None => owner[n] = dst)
=============================================================================
