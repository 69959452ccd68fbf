# Verification of the Redis operator

TLA+ models of the operator's core, checked by TLC on small instances and, for the
properties that matter most, proved with TLAPS for all instances. `PROJECT.json`
maps every definition to the lines of `src/` it models and lists runs, mutants,
findings, hazards and theorems.

## 1. Inventory

| Component | State | Operations | Interacts with |
|---|---|---|---|
| Slot migration (`internal/redis/cluster.go`: `MigrateSlot`, `migrateKeys`) | none of its own; MIGRATING/IMPORTING marks, owners, epochs and keys in the Redis nodes | SETSLOT IMPORTING, MIGRATING, STABLE, NODE; GETKEYSINSLOT; MIGRATE | Redis nodes, their gossip, clients |
| Scaling (`RebalanceSlots`, `AddMaster`, `RemoveMaster`; `reconcileScaleOut`, `reconcileScaleIn`) | `slotCounts`, `donorNodes`, loop indices | count, pick donor, pick receiver, move, remove | slot migration, StatefulSet controller |
| RedisCluster reconciler (`rediscluster_controller.go`) | a copy of the object; the phase in its status | get, finalize, children, lifecycle, failover, status | API server, informer, webhook, cluster manager |
| Cluster formation (`FormCluster`, `AssignSlotsEvenly`) | slots, known nodes, replicas in Redis; loop indices | MEET, wait, ADDSLOTS, wait, REPLICATE | called by the lifecycle, by each operator that runs |
| Admission webhook (`rediscluster_webhook.go`) | none | validate create, update, delete | API server; sees the operator's own writes too |
| RedisSentinel reconciler (`redissentinel_controller.go`) | role labels of pods, `status.masterNode`, phase | children, discover master, label pods, status | Sentinel, informer, Services |
| Redis (standalone) reconciler (`redis_controller.go`, `redis_webhook.go`) | a copy of the object; phase, ConfigMap, pod template with the config hash, the claim | get, delete the claim, finalize, ConfigMap, workload, hot reload, status | API server, informer, workload controllers, pods, garbage collector |
| Resource builders, metrics, client parsing, health checks, `sentinel.go`, `main.go` | none that the reconcilers decide on | | |

What is hard here: every reconcile works from a copy that may be stale, and is a
sequence of writes that may stop anywhere; Redis moves on between two commands
(clients write, gossip spreads, nodes fail over); errors are dropped in several
places as "best-effort"; progress is inferred from `cluster_size` and the stored
phase instead of being recorded. Correct means: no acknowledged key is lost, a slot
has one live owner, a scale operation ends with the wanted masters, a phase says the
truth and is left again, a deleted object goes away with its volumes and a living one
keeps them, a pod runs the config the user wrote, and the master Service points at the
master.

## 2. Modules

`SlotMigration` - one call of `MigrateSlot` after another for one slot, one step per
Redis command (`pc` is the place in the function). `owner`, `migrating`, `importing`,
`epoch` are each node's own view. A command ends "ok", "error" (not executed) or
"timeout" (executed, reply lost); the two dropped errors (STABLE, NODE) are faults of
their own. `ClientSet`/`ClientDel` follow MOVED and ASK; `Gossip` rebinds a slot to the
claimant with the higher epoch, and an owner that loses the slot deletes its keys, as
Redis does. `donors` is the caller's snapshot, which `RebalanceSlots` reuses for all
receivers. `PromptGossip` says that gossip about one call has settled before the next.

`ClusterScaling` - a change of `spec.masters` down to the slots. Masters are
StatefulSet ordinals as in `clusterMasterAddr`. The loop variables of
`RebalanceSlots` (`counts`, `snap`, `excess`, `recv`, `queue`) are state, because they
go stale while pods and edits move on. One `MigrateSlot` is one step that works or
fails. The webhook's lower limit of 3 masters is kept by the instances. `fresh` holds
masters that only master 0 knows of yet. `AddrsAnnounced` says that nodes announce the
addresses the operator compares with; the StatefulSet of this repository makes them
announce pod IPs instead. Run `scaling_asbuilt` sets it FALSE and shows that no slot
moves then; run `scaling` sets it TRUE to check the algorithm behind that defect, and
shows nothing for the deployment as built until it is fixed.
Replicas are left out: their errors are dropped by the handlers and change no guard.

`ClusterFormation` - `FormCluster` command by command, by one or more operators
(`Operators`: leader election is off by default), each with the `spec.masters` of its
own cache. Master 0 is the only node the code asks, so only its view is kept: `known`
and `joined` masters (a node in handshake counts as known), `seen` slots, `met`
replicas. A replica that was met is listed as a master until it gets its REPLICATE.
`inflight` holds ADDSLOTS whose client gave up and which Redis executes later.
Redis is taken to accept the host names the operator gives CLUSTER MEET. The deadlines
of the waits (`cluster.go:415`, `:441`) are the fault "timeout", bounded like the other
failures: a deadline only ends the attempt, the next one starts over, and
`FormationSettles` shows that no wait needs its deadline to end.

`ClusterReconciler` - `doReconcile` against an API server. `obj` is stored, `cache` the
informer's copy, `mem` the object in the handler; `cacheFresh` and `memFresh` stand for
the resourceVersion. Status and finalizer writes need a current copy; the merge patch
of `recordLastConfigHash` does not, and replaces `mem` by the server's answer.
`FormCluster` and `Scale` are single steps that may stop half-way, with the outcomes
`ClusterFormation` and `ClusterScaling` have: with replicas a formation may end Failed
without any failing command, and a scale-in may remove a master with its slots on it
and still set Ready. `slots` is then "lost", which is kept apart from the "some" of a
formation that stopped: neither is ever repaired, and cluster_state is fail in both
(nothing in `configmap.go` turns `cluster-require-full-coverage` off). Storage with `keepAfterDeletion: false` is taken as
configured; the StatefulSet controller makes the claims after the template is written
(`ClaimsAreCreated`), in time unless the fault "lateclaim" is on. Master and replica
pods share one readiness flag; the probe may succeed without it.

`RedisReconciler` - the standalone resource. The object model is that of
`ClusterReconciler`; in addition users delete and recreate the object under the same
name, so children of the earlier object are `garbage` until they are collected, and
the owner reference makes `CreateOrUpdate` fail until then. A config has a `hot` part,
which CONFIG SET can change in a running pod, and a `cold` one. The ConfigMap, the
template with its hash, and what the pod read when it booted are three variables:
they are written at different times. `claim` is the object's own or `left` by its
predecessor. `Reverts` lets users return to a config they had replaced; `HasClient`
is as in `SentinelReconciler` (`main.go` gives none).

`SentinelReconciler` - `doReconcile` and `reconcileRoleLabels`, with pods that die and
return under another IP and without a role label, Sentinels that lag or start again
from their ConfigMap, the pre-stop failover, and an informer with one stale record per
pod. An IP is the pod and its generation. `HasClient` says that the
reconciler was given a RedisClient; `main.go` gives it none. Run `sentinel_asbuilt`
sets it FALSE and shows that the master label then stays at pod 0; `sentinel_routing`,
which sets it TRUE, is about the handler once a client is wired.
Sentinel pods count as ready; the finalizer and deletion are left out here.

`FinalizerProtocol` - abstract: what the finalizer promises of a resource and its
volumes, in four stages, with the liveness that a deleted resource is let go.
`ClusterReconciler` implements it: `stage` is read off `exists`, `deleting` and
`finalizer` of the stored object, `volumes` is `pvcs` (`ImplementsFinalizer`). The
standalone resource does not: users may change `keepAfterDeletion` during the deletion
and recreate the object, so it has properties of its own.

`AtomicSlot` - abstract: a slot as clients see it, one set of keys changed only by their
commands, with only true answers. `SlotMigration` implements it (`ImplementsAtomicSlot`):
`data` is what clients were acknowledged, `answers` what the nodes that serve a key now
would say. The mapping shows no answers while an earlier call's destination is still
IMPORTING (`Abandoned`), which is where the code breaks the promise (section 4). With
lost commits that covers a call and its retry; section 5 says what a third call adds.

`MC*` modules instantiate these for TLC (`MCSlotMigration` adds symmetry for the
safety runs). Each model has its proofs in a module `<Model>Proofs`;
`SlotAtomicityProofs` continues `SlotMigrationProofs` with the refinement of `AtomicSlot`.
Definitions marked "Mutant" are faulty variants of the definition after them; no
specification uses them, they exist to show that each property can fail.

## 3. Runs

Passing runs:

| Run | Instance | Shows |
|---|---|---|
| `migrate_faults` | 3 nodes, 2 keys, batches of 1, 2 calls, all faults | types, `NoKeyLost`, `SourceStaysDrained`, `OneLiveClaim` |
| `migrate_heal` | the same with lost commits only, under fairness | `ReachableAfterNil`, `ImplementsAtomicSlot`, `CallReturns`, `GossipHealsMissedCommit` |
| `scaling` | 13 slots, 3 or 4 masters, 3 edits, 2 failures, 1 pod crash, `AddrsAnnounced` TRUE | types, `DonorKeepsTarget`, `ScaleOutCompletes` |
| `formation` | 2 operators, 3 or 4 masters, 1 replica each, 7 slots, 1 failure | types, `OneFormer`, `SlotsOfOnePlan`, `NilMeansFormed`, `FormationSettles` |
| `reconcile` | 3 or 4 masters, 2 configs, 2 edits, 1 failure | types, `TerminatingNeverScaling`, `GoneMeansClean`, `ReadyMeansFormed`, `TemplateUnderFinalizer`, `ImplementsFinalizer`, `LeavesInitializing` |
| `sentinel_routing` | 2 pods, 2 Sentinels, 1 death, 1 restart, 1 failure, `HasClient` TRUE | types, `RoutingConverges`, `HealthyLeavesFailed` |
| `redis` | 2 configs, 3 kinds of storage, 3 edits, deletes or recreations, 1 failure | types, `OneWorkload`, `LeftOnlyIfKept`, `LiveClaimStays`, `DeletionCompletes`, `ConfigConverges`, `StatusConverges` |

Why the bounds are enough: three nodes are source, destination and a bystander, which
is also the second receiver of a stale snapshot; two keys with batches of one make
`migrateKeys` loop; two calls let one find what the other left. Thirteen
slots leave a remainder for 3 and for 4 masters, and three edits go out, in and out
again, so that a scale-out meets what a scale-in left; seven slots leave a remainder for
3 and 4, in different ranges, so two plans of formation can be told apart. Two operators
are the race; a third only repeats it. Three edits of a standalone object are enough to
change it, delete it and create it again. Two master counts and two
configs let a reconcile meet an object that was edited since it was read. One or two
injected failures per behaviour reach every error path; the proofs have no such bound.

`scaling` scales by one master at a time: by two, a scale-out may pass a master by
(section 4). `ScaleOutCompletes` names one exception, slots that an earlier scale-in
lost (`SlotsLost`), after which cluster_state is fail for good.

`reconcile` and `redis` leave out errors of listing or reading claims and claims made
after the deletion: the code then leaks volumes, see section 4. `redis` runs with
webhooks, without which `OneWorkload` does not hold, and without `Reverts`, with which
`ConfigConverges` does not. It sets `HasClient` TRUE so that hot reload runs as well; as
built there is none, and its properties do not depend on it: the run passes with FALSE too.

Violation runs (each a finding in `PROJECT.json`, with the quoted line):

| Run | What the code does |
|---|---|
| `migrate_staledonor` | the same slot moved twice from one snapshot loses keys |
| `scaling_asbuilt` | with nodes that announce pod IPs, as the StatefulSet makes them, no receiver is found and a scale-out never moves a slot |
| `sentinel_asbuilt` | without a RedisClient, as `main.go` builds the reconciler, the master label stays at pod 0 after a failover |
| `reconcile_scaling` | the phase Scaling can stay for ever |
| `formation_replicas` | replicas that were just met count as masters or know no master yet: FormCluster fails and is never run again |

Deadlock is checked except in the `SlotMigration` and `ClusterFormation` runs, where
everything may come to rest: calls are bounded, and a formed cluster is not formed again.

Fairness: the work queue runs a reconcile again after every return (every path
requeues, or is followed by an event), so `Reconcile` is weakly fair; the informer
catches up; Deployments and StatefulSets start missing pods, and pods boot; the garbage
collector removes what lost its owner; handshakes between Redis nodes end; Redis nodes keep pinging each other and
Sentinels exchange hellos and fail over from a dead master. Users, crashes, late
commands, claims and injected failures have no fairness. In `SlotMigration` a call that started goes on
unless the operator crashes; nothing makes a next call happen.

## 4. Further observations

Behaviours the models have that differ from what the repository says. No run states
them; each is a short behaviour of the module named.

| Code | Behaviour | What the repository says |
|---|---|---|
| `cluster.go:214` (`SlotMigration`) | the error of SETSLOT NODE is dropped for the destination too, which then never claims the slot; nil is returned | `cluster.go:215` "Non-fatal: other nodes will receive this via gossip." |
| `cluster.go:210` (`SlotMigration`) | an error before the commit loop leaves the slot MIGRATING and IMPORTING | `architecture.md:175` rollback to STABLE on failure |
| `cluster.go:203` (`SlotMigration`) | STABLE strands the keys already moved at a node that does not own the slot; a key written again at the source blocks every retry (no REPLACE) | `cluster.go:161` "so the cluster can recover cleanly" |
| `cluster.go:214` (`SlotMigration`, without `Abandoned`) | when source and destination both miss the commit, the next call moves the slot from the same donor to a third node, and the keys at the first destination are reported missing | `cluster.go:215`, as above |
| `cluster.go:290` (`ClusterScaling`) | a receiver the donor does not know yet is skipped and nil is returned with it empty | `cluster.go:250` "each master holds approximately 16384/N slots" |
| `rediscluster_controller.go:388` (`ClusterScaling`) | by two or more masters: a new pod that is down while it is met is passed by `cluster_size` when a higher ordinal gets slots, and is never met again | `:387` "Meet each new master with the existing cluster." |
| `rediscluster_controller.go:95` (`ClusterScaling`) | the StatefulSet is shrunk before the lifecycle step, so a scale-in stops the excess pod with its slots still on it; once it is gone cluster_state is fail and no reconcile scales | `:423` "reconcileScaleIn migrates slots away from excess masters, then removes them." |
| `cluster.go:275` (`ClusterScaling`) | excess masters are not drained: only masters above the target of the remaining ones give slots away, and after an even spread none is (4 to 3 masters: shares of 16384/4 under a target of 16384/3), so an excess master keeps its whole share. What is moved, is moved from masters that an interrupted scale-out left above the target | `rediscluster_controller.go:435` "Rebalance slots so excess masters are drained."; `architecture.md:337` RebalanceSlots empties them first |
| `cluster.go:331` (`ClusterScaling`, `SlotsLost`) | RemoveMaster does not look at the slots: a master without keys is reset and forgotten with its share on it, and those slots have no owner any more; with keys on it Redis refuses the reset and the scale-in fails for ever | `cluster.go:321` "its slots must already be migrated away" |
| `rediscluster_controller.go:463` (`ClusterReconciler`, `slots` "lost") | after that the phase Ready is stored; the next reconcile finds cluster_state fail and stores Recovering, for ever | `common_types.go:38` "PhaseReady indicates the resource is fully operational." |
| `rediscluster_controller.go:442` (`ClusterScaling`) | an excess master without slots is not counted in cluster_size and not removed | `:441` "Remove excess masters" |
| `rediscluster_controller.go:327` (`ClusterReconciler`) | a FormCluster that stops after its first ADDSLOTS is never resumed | `architecture.md:565` reconcile is idempotent, safe when retried |
| `rediscluster_controller.go:169` (`ClusterReconciler`, faults "list" and "lateclaim") | a failed list, or claims made after the list was read, leave volumes behind; so do `redis_controller.go:159` and "claimget" | `architecture.md:106`, `common_types.go:13` "KeepAfterDeletion prevents PVC deletion": without it they are deleted |
| `rediscluster_controller.go:550` (`ClusterReconciler`) | a phase Failed stays although the cluster is healthy again | `common_types.go:40` "PhaseFailed indicates an unrecoverable error." |
| `rediscluster_controller.go:171` (`ClusterReconciler`) | a claim that cannot be deleted keeps the object terminating | `architecture.md:387` best-effort, the finalizer is removed even on failure |
| `rediscluster_webhook.go:86` (`ClusterReconciler`) | edits are admitted while slots move, because Scaling is stored at the end of the reconcile | `:87` "cannot modify cluster while it is in %s phase" |
| `rediscluster_controller.go:141` (`ClusterReconciler`) | the StatefulSet gets the new template before CLUSTER FAILOVER is sent | `:662` "By initiating failovers before the StatefulSet rolling update restarts master pods" |
| `redissentinel_controller.go:332` (`SentinelReconciler`) | one failed query moves the master label back to pod 0 until the next reconcile | `labels.go:22` "routing stays correct even after a Sentinel failover" |
| `redissentinel_controller.go:361` (`SentinelReconciler`) | a stale pod list leaves two pods with the master label between two reconciles | `architecture.md:302` role=replica on all the other pods |
| `redis_controller.go:106` (`RedisReconciler`, `Reverts` TRUE) | a pod with the old hash boots while the ConfigMap has the new config, and the config is changed back before the workload controller acts: the pod runs the other config for ever | `src/README.md:86` "Any change to `spec.redisConfig` therefore causes a rolling restart" |
| `redis_controller.go:189` (`RedisReconciler`) | the hash covers the hot parameters too, so they restart the pod as well | `architecture.md:287`, `:378` hot reload without restart |
| `main.go:83` (`RedisReconciler`, `HasClient` FALSE) | no RedisClient is given, hot reload never runs; with one, the password read from the secret is not used | `architecture.md:434` |
| `redis_controller.go:235` | a larger `storage.size` is admitted and never applied | `redis_webhook.go:90` refuses only a smaller one |
| `redis_controller.go:118` (`RedisReconciler`) | an object recreated with the other kind of storage gets its workload while the old one's is still garbage: nothing waits for the collection, and both pods match the Service for that long | `redis_webhook.go:66` "Prevent adding storage", which sees updates only |
| `main.go:54` (`RedisReconciler`, `WebhookOn` FALSE) | adding storage to a running object leaves Deployment and StatefulSet, two Redis servers behind one Service | `redis_webhook.go:66` "Prevent adding storage" |

## 5. Theorems

All hold for every value of the constants that satisfies the named `ASSUME`s of the
modules (which every run evaluates): any nodes, keys, slots, masters, operators,
configs, and any bounds on calls, edits, failures and crashes. Where the code keeps a
promise only under a condition, the theorem names it in its own ASSUME, and the
condition is one the runs meet and whose failure a run or section 4 shows.

| Theorem | States | Assumes |
|---|---|---|
| `SlotMigrationProofs`: `TypeCorrect` | `TypeOK` | |
| `NoKeyIsLost`, `ClaimsAreExclusive`, `DrainedSource` | `NoKeyLost`, `OneLiveClaim`, `SourceStaysDrained` | `PromptGossip` |
| `SlotAtomicityProofs`: `NilMeansReachable` | `ReachableAfterNil` | `PromptGossip` |
| `MovesAreAtomic` | `ImplementsAtomicSlot` | no faults |
| `RetriedMoveIsAtomic` | `ImplementsAtomicSlot` | `PromptGossip`, only SETSLOT NODE fails, at most two calls |
| `ClusterScalingProofs`: `ScalingTypeCorrect`, `DonorsKeepTheirShare` | `TypeOK`, `DonorKeepsTarget` | |
| `ClusterFormationProofs`: `FormationTypeCorrect`, `OneOperatorForms`, `OnePartition`, `FormedWhenNil` | `TypeOK`, `OneFormer`, `SlotsOfOnePlan`, `NilMeansFormed` | |
| `ClusterReconcilerProofs`: `ClusterTypeCorrect`, `TemplateIsUnderFinalizer`, `ReadyIsFormed` | `TypeOK`, `TemplateUnderFinalizer`, `ReadyMeansFormed` | |
| `TerminatingIsNeverScaling` | `TerminatingNeverScaling` | `WebhookOn` |
| `GoneIsClean`, `KeepsFinalizerPromise` | `GoneMeansClean`, the safety part of `ImplementsFinalizer` | `ClaimsInTime` |
| `RedisReconcilerProofs`: `RedisTypeCorrect` | `TypeOK` | |
| `NeverTwoWorkloads` | `OneWorkload` | `WebhookOn` |
| `LiveClaimIsSafe` | `LiveClaimStays` | `ClaimsInTime` |
| `NothingLeftBehind` | `LeftOnlyIfKept` | `WebhookOn`, `ClaimsInTime` |
| `SentinelReconcilerProofs`: `SentinelTypeCorrect` | `TypeOK` | |

`PromptGossip` is the gossip of one call settling before the next (without it
`migrate_staledonor` loses keys). `ClaimsInTime` is the absence of the faults in which
a claim is made after the deletion looked for it, or looking for it fails (the code
then leaks the volume). `WebhookOn` is the deployment with webhooks.

The inductive invariants, and why they are needed:

- Slot migration. Besides a client, only gossip deletes a key, so a node that loses the
  slot has to be empty. `IInv` adds to the types: epochs are distinct; a claimant is not
  importing; until the commit loop there is one claim, and within it only source and
  destination claim; the source answers ASK from MIGRATING on, so nothing is written to
  it after its last empty batch.
- Atomicity. `PlaceInv` says where the keys are: each key is at one node, a node that
  serves has the keys it answers for, marks lead from a claimant to the node that has
  the rest, and of two claimants the loser redirects to the winner. Without faults it
  is inductive together with "no mark is left when no call runs", for any number of
  calls and without assuming prompt gossip. With lost commits marks stay behind; then
  `FirstCall` says that all marks, claims and keys are at the two ends of the first
  call, and the second call starts from that. There the theorem ends, and it has to:
  after two calls the keys may be stranded at a node the first one abandoned (section 4),
  and a third call that comes back to that node makes it the current destination, for
  which `Abandoned` is FALSE, while the owner still reports the keys missing.
- Scaling. The code never compares what a donor has with what it gives. `DonorCovered`
  is the missing account: while a receiver is served, the slots of the donor cover its
  share, the rest of its excess and the queue (it holds of excess masters too, which is
  the defect of section 4; the property is about those that stay); `PendingKept`: a donor not yet visited
  owns no less than when it was counted, because only masters counted below the share
  receive and only the current donor gives. It needs that `collectSlots(S, n)` returns
  at most n slots, proved by an injection into `0 .. n-1` (position in the list).
- Formation. `OnePlan` has a witness, the plan whose slots master 0 holds and the last
  master served. It follows the one operator that got past master 0, and a late
  ADDSLOTS is the next command of that plan whose operator has given up.
  `ReplicasInTurn` and `SeenIsClaimed` carry the masters' list to the REPLICATE loop.
- Cluster reconciler. What a copy still tells about the stored object: a current copy
  agrees on the deletion, one that shows the deletion stays right, and one that shows a
  finalizer and no deletion proves that the finalizer is there, however old it is. For
  `ReadyIsFormed` a second invariant: once all slots were assigned a scale-in may lose
  some, but no step returns to a half-formed cluster, and every copy whose phase is
  Ready was made after that. `KeepsFinalizerPromise` maps each step to a
  step or a stutter of `FinalizerProtocol` from both and from "a finalizer is only added
  to an object without deletion".
- Redis reconciler. The same with one more difficulty: the copy may be of an earlier
  object of that name. `CopiesOfThisObject` says which copies can only be of the present
  one, `KindIsKept` that they agree on the kind of workload, `DropIsDone` that a copy
  which asks to drop the claim of a gone object comes too late to do harm.
- Sentinel reconciler. The types, with that of the handler's copy of the status.

Only model-checked: liveness (`CallReturns`, `GossipHealsMissedCommit`,
`ScaleOutCompletes`, `FormationSettles`, `LeavesInitializing`, `RoutingConverges`,
`HealthyLeavesFailed`, `DeletionCompletes`, `ConfigConverges`, `StatusConverges`, and the
liveness part of `ImplementsFinalizer`): fairness and ENABLED are out of the prover's reach.

## 6. Not modelled

- Finalizer and deletion of a RedisSentinel: the code is the cluster reconciler's with a
  best-effort SENTINEL RESET in front; added to `SentinelReconciler` it multiplies its
  states beyond what TLC checks in reasonable time and meets no other state of it.
- The RedisSentinel webhook, and storage and arithmetic rules of the cluster webhook:
  comparisons of one object with its predecessor that no reconciler relies on.
  `rediscluster_webhook.go:136` computes in int32.
- AddReplica and RemoveReplica during scaling, hot reload of a cluster (CONFIG SET): every
  error is dropped and nothing is decided by their outcome.
- Two operators in one slot migration or scale operation.
- Metrics, layout of Kubernetes objects, parsing of replies, TLS and passwords: no state
  that a property is about. `sentinel.go` and `health.go` are not used by any reconciler.

## 7. Plan

Done: the six models, the abstract `AtomicSlot` and `FinalizerProtocol` with their
refinements, and a theorem for every safety property of the passing runs.

Next, in this order:

1. A safety property of `SentinelReconciler` beyond its types: what a reconcile that
   read a current pod list leaves on the pods that did not restart meanwhile.
2. Safety facts that the liveness of `ClusterScaling` rests on: a rebalance without
   failures gives every resolved receiver a slot; members and slot owners agree.
3. Two operators at once in `SlotMigration`.
