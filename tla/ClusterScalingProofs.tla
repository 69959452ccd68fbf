------------------------ MODULE ClusterScalingProofs ------------------------
(***************************************************************************)
(* Proofs about ClusterScaling, for any number of slots, masters, edits,   *)
(* failed commands and pod crashes.                                        *)
(*                                                                         *)
(* RebalanceSlots reads every master's slot count once and each donor's    *)
(* slot list once, and moves slots while both go stale.  That no donor     *)
(* which stays is drained below its even share rests on an account the     *)
(* code never writes down, and which holds of excess masters as well: what *)
(* the donor owns covers its share, what it has still to give to later     *)
(* receivers (excess) and what is queued for this one; and a donor not yet *)
(* visited owns no less than when it was counted.                          *)
(***************************************************************************)
EXTENDS ClusterScaling, FiniteSetTheorems, FunctionTheorems, TLAPS

USE SizesAssumption DEF SizesAssumption, Slots, Masters

-----------------------------------------------------------------------------
(* The inductive invariant.                                                *)

\* The receiver being served is one of masterAddrs.
ReceiverInRange == pc = "moving" => recv < want

\* A donor RebalanceSlots has not come to owns at least what was counted.
PendingKept ==
    pc \in {"donors", "receivers", "moving"} =>
        \A d \in pending : counts[d] > Target /\ Cardinality(SlotsOf(d)) >= counts[d]

\* The donor being served is not visited twice and gives no more than its excess.
DonorTaken == pc \in {"receivers", "moving"} => donor \notin pending /\ excess >= 0

\* Its slots cover its share, its excess, and what is queued for the receiver.
DonorCovered ==
    /\ pc = "receivers" => Cardinality(SlotsOf(donor)) >= Target + excess
    /\ pc = "moving" => Cardinality(SlotsOf(donor)) >= Target + excess + Cardinality(queue)

IInv == TypeOK /\ ReceiverInRange /\ PendingKept /\ DonorTaken /\ DonorCovered

-----------------------------------------------------------------------------
(* The operators the rebalance is built from.                              *)

\* Slot sets are finite, and a master owns at most all of them.
LEMMA SlotSets ==
    ASSUME NEW S, S \subseteq Slots
    PROVE  IsFiniteSet(S) /\ Cardinality(S) \in 0 .. NumSlots
<1>1. IsFiniteSet(Slots) /\ Cardinality(Slots) = NumSlots
  BY FS_Interval
<1>2. S \in SUBSET Slots OBVIOUS
<1>3. IsFiniteSet(S) /\ Cardinality(S) <= NumSlots
  <2> HIDE DEF Slots
  <2> QED BY <1>1, <1>2, FS_Subset
<1>4. Cardinality(S) \in Nat BY <1>3, FS_CardinalityType
<1> QED BY <1>3, <1>4

\* Their sizes are natural numbers.
LEMMA SlotCounts == \A S : S \subseteq Slots => IsFiniteSet(S) /\ Cardinality(S) \in Nat
<1> SUFFICES ASSUME NEW S, S \subseteq Slots PROVE IsFiniteSet(S) /\ Cardinality(S) \in Nat
  OBVIOUS
<1>1. IsFiniteSet(S) /\ Cardinality(S) \in 0 .. NumSlots BY SlotSets
<1> HIDE DEF Slots
<1> QED BY <1>1

\* The number of masters that own slots is at most the number of masters.
LEMMA SizeBound == Size \in 0 .. MaxMasters
<1> DEFINE S == {i \in Masters : SlotsOf(i) # {}}
<1>1. IsFiniteSet(Masters) /\ Cardinality(Masters) = MaxMasters
  BY FS_Interval
<1>2. S \subseteq Masters OBVIOUS
<1>3. IsFiniteSet(S) /\ Cardinality(S) <= MaxMasters
  BY <1>1, <1>2, FS_Subset
<1>4. Cardinality(S) \in Nat BY <1>3, FS_CardinalityType
<1> QED BY <1>3, <1>4 DEF Size

\* collectSlots returns at most the n slots it was asked for: the position of a
\* slot in the donor's list tells the collected ones apart.
LEMMA CollectAtMost ==
    ASSUME NEW S, S \subseteq Slots, NEW n \in Nat
    PROVE  /\ CollectSlots(S, n) \subseteq S
           /\ Cardinality(CollectSlots(S, n)) <= n
<1> DEFINE C == CollectSlots(S, n)
           Before(s) == {t \in S : t < s}
           Rank == [s \in C |-> Cardinality(Before(s))]
<1>1. C \subseteq S /\ S \subseteq Nat BY DEF CollectSlots
<1>2. \A s \in C : IsFiniteSet(Before(s)) /\ Cardinality(Before(s)) \in Nat
  <2> TAKE s \in C
  <2>1. Before(s) \subseteq Slots OBVIOUS
  <2> HIDE DEF Before
  <2> QED BY <2>1, SlotSets
<1>3. \A s \in C : Cardinality(Before(s)) < n BY DEF CollectSlots
<1> HIDE DEF C
<1>4. ASSUME NEW s \in C, NEW t \in C, s < t
      PROVE  Rank[s] # Rank[t]
  <2>0. \A u \in S : u < s => u < t BY <1>1, <1>4
  <2>1. Before(s) \in SUBSET Before(t) BY <2>0
  <2>2. s \in Before(t) /\ s \notin Before(s) BY <1>1, <1>4
  <2> HIDE DEF Before
  <2> QED BY <1>2, <2>1, <2>2, FS_Subset
<1> HIDE DEF Before
<1>5. \A s, t \in C : Rank[s] = Rank[t] => s = t
  <2> SUFFICES ASSUME NEW s \in C, NEW t \in C, s # t PROVE Rank[s] # Rank[t] OBVIOUS
  <2>1. s \in Nat /\ t \in Nat BY <1>1
  <2>2. s < t \/ t < s BY <2>1
  <2> QED BY <1>4, <2>2
<1>6. Rank \in [C -> 0 .. n - 1] BY <1>2, <1>3
<1>7. Rank \in Injection(C, 0 .. n - 1)
  BY <1>5, <1>6 DEF Injection, IsInjective
<1>8. IsFiniteSet(0 .. n - 1) /\ Cardinality(0 .. n - 1) = n
  BY FS_Interval
<1> QED BY <1>1, <1>7, <1>8, FS_Injection DEF C

\* An even share is a count of slots.
LEMMA TargetNat == ASSUME TypeOK PROVE Target \in Nat
<1>1. \A a \in Nat, k \in Nat \ {0} : a \div k \in Nat OBVIOUS
<1>2. want \in Nat \ {0} BY DEF TypeOK
<1> QED BY <1>1, <1>2 DEF Target

\* A quotient is below any bound whose product with the divisor is not reached.
LEMMA QuotientBound ==
    ASSUME NEW s \in Nat, NEW k \in Nat \ {0}, NEW m \in Nat, s < m * k
    PROVE  s \div k \in 0 .. m - 1
  OBVIOUS

\* AssignSlotsEvenly gives every slot to one of the n masters.
LEMMA AssignTyped ==
    ASSUME NEW n \in 1 .. MaxMasters
    PROVE  AssignSlotsEvenly(n) \in [Slots -> Masters]
<1> DEFINE k == NumSlots \div n
<1>1. k \in Nat OBVIOUS
<1>2. ASSUME NEW s \in Slots, s < (n - 1) * k
      PROVE  s \div k \in 0 .. n - 2
  <2>1. k # 0 BY <1>2
  <2> HIDE DEF k
  <2> QED BY <1>1, <1>2, <2>1, QuotientBound
<1>3. \A s \in Slots :
        (IF s < (n - 1) * k THEN s \div k ELSE n - 1) \in Masters
  <2> HIDE DEF k
  <2> QED BY <1>1, <1>2
<1> QED BY <1>3 DEF AssignSlotsEvenly


-----------------------------------------------------------------------------
(* Every step keeps the invariant.                                         *)

\* The account of the rebalance, without the types.
Account == ReceiverInRange /\ PendingKept /\ DonorTaken /\ DonorCovered

\* Steps that touch neither the slots nor the rebalance keep its account: pods,
\* users, gossip, and the reconciler's steps before and after RebalanceSlots.
LEMMA AccountKept ==
    ASSUME IInv, UNCHANGED <<owner, want, loopVars>>,
           pc' = pc \/ pc' \notin {"donors", "receivers", "moving"}
    PROVE  Account'
  BY DEF IInv, Account, ReceiverInRange, PendingKept, DonorTaken, DonorCovered, loopVars,
         SlotsOf, Target

\* Outside RebalanceSlots there is no account to keep.
LEMMA AccountClosed ==
    ASSUME pc' \notin {"donors", "receivers", "moving"}
    PROVE  Account'
  BY DEF Account, ReceiverInRange, PendingKept, DonorTaken, DonorCovered

\* The formed cluster the model starts from is well typed and at rest.
LEMMA InitIInv == Init => IInv
<1> SUFFICES ASSUME Init PROVE IInv OBVIOUS
<1>1. owner \in [Slots -> Masters] BY AssignTyped DEF Init
<1>2. TypeOK
  <2>1. [i \in Masters |-> 0] \in [Masters -> 0 .. NumSlots] OBVIOUS
  <2> QED BY <1>1, <2>1 DEF Init, TypeOK
<1> QED BY <1>2 DEF Init, IInv, ReceiverInRange, PendingKept, DonorTaken, DonorCovered

\* What users, the StatefulSet controller and gossip do.
LEMMA EnvironmentIInv ==
    ASSUME IInv,
           \/ \E n \in Wanted : UserScales(n)
           \/ \E i \in Masters : PodStarts(i) \/ PodStops(i) \/ PodCrashes(i) \/ MeetSpreads(i)
    PROVE  IInv'
<1>1. UNCHANGED <<owner, want, loopVars, pc>>
  BY DEF UserScales, PodStarts, PodStops, PodCrashes, MeetSpreads, redisVars
<1>2. Account' BY <1>1, AccountKept
<1>3. TypeOK'
  <2>1. CASE \E n \in Wanted : UserScales(n)
    BY <2>1 DEF IInv, TypeOK, UserScales, redisVars, loopVars
  <2>2. CASE \E i \in Masters : PodStarts(i) \/ PodStops(i) \/ PodCrashes(i) \/ MeetSpreads(i)
    <3> PICK i \in Masters : PodStarts(i) \/ PodStops(i) \/ PodCrashes(i) \/ MeetSpreads(i)
      BY <2>2
    <3>1. CASE PodStarts(i) BY <3>1 DEF IInv, TypeOK, PodStarts, redisVars, loopVars
    <3>2. CASE PodStops(i) BY <3>2 DEF IInv, TypeOK, PodStops, redisVars, loopVars
    <3>3. CASE PodCrashes(i) BY <3>3 DEF IInv, TypeOK, PodCrashes, redisVars, loopVars
    <3>4. CASE MeetSpreads(i) BY <3>4 DEF IInv, TypeOK, MeetSpreads, redisVars, loopVars
    <3> QED BY <3>1, <3>2, <3>3, <3>4
  <2> QED BY <2>1, <2>2
<1> QED BY <1>2, <1>3 DEF IInv, Account

\* The reconciler outside RebalanceSlots: the StatefulSet update, the probe, the
\* MEET loop, the end of the rebalance, and every early return.
LEMMA OutsideIInv ==
    ASSUME IInv,
           StartReconcile \/ Lifecycle \/ AddMaster \/ Rebalanced \/ Master0Gone \/ Abort
    PROVE  IInv'
<1> USE DEF Done, Goto, envVars, redisVars, loopVars
<1>1. pc' \notin {"donors", "receivers", "moving"}
  BY DEF StartReconcile, Lifecycle, AddMaster, Rebalanced, Master0Gone, Abort
<1>2. Account' BY <1>1, AccountClosed
<1>3. TypeOK'
  <2>1. CASE StartReconcile BY <2>1 DEF IInv, TypeOK, StartReconcile
  <2>2. CASE Lifecycle BY <2>2, SizeBound DEF IInv, TypeOK, Lifecycle
  <2>3. CASE AddMaster BY <2>3 DEF IInv, TypeOK, AddMaster
  <2>4. CASE Rebalanced BY <2>4 DEF IInv, TypeOK, Rebalanced
  <2>5. CASE Master0Gone BY <2>5 DEF IInv, TypeOK, Master0Gone
  <2>6. CASE Abort BY <2>6 DEF IInv, TypeOK, Abort
  <2> QED BY <2>1, <2>2, <2>3, <2>4, <2>5, <2>6
<1> QED BY <1>2, <1>3 DEF IInv, Account

\* RemoveMaster takes the master's slots with it; no rebalance is open then.
LEMMA RemoveIInv ==
    ASSUME IInv, RemoveMaster
    PROVE  IInv'
<1> USE DEF Done, Goto, envVars, redisVars, loopVars
<1>1. Account' BY AccountClosed DEF RemoveMaster
<1>2. TypeOK'
  <2>1. owner' \in [Slots -> Masters \cup {NoOne}] BY DEF IInv, TypeOK, RemoveMaster
  <2>2. idx' \in -1 .. MaxMasters BY DEF IInv, TypeOK, RemoveMaster
  <2> QED BY <2>1, <2>2 DEF IInv, TypeOK, RemoveMaster
<1> QED BY <1>1, <1>2 DEF IInv, Account

\* The one CLUSTER NODES of RebalanceSlots: what is counted is what is owned.
LEMMA CountIInv ==
    ASSUME IInv, CountSlots
    PROVE  IInv'
<1> USE DEF Done, Goto, envVars, redisVars, loopVars
<1>1. \A i : Cardinality(SlotsOf(i)) \in 0 .. NumSlots
  BY SlotSets DEF SlotsOf
<1>2. counts' \in [Masters -> 0 .. NumSlots] BY <1>1 DEF CountSlots
<1>3. TypeOK' BY <1>2 DEF IInv, TypeOK, CountSlots
<1>4. PendingKept'
  <2> SUFFICES ASSUME NEW d \in pending'
               PROVE  counts'[d] > Target' /\ Cardinality(SlotsOf(d)') >= counts'[d]
    BY DEF PendingKept
  <2>1. Target' = Target BY DEF Target, CountSlots
  <2>2. SlotsOf(d)' = SlotsOf(d) BY DEF SlotsOf, CountSlots
  <2>3. d \in members /\ d \in Masters /\ Cardinality(SlotsOf(d)) > Target
    BY DEF CountSlots, IInv, TypeOK
  <2>4. counts'[d] = Cardinality(SlotsOf(d)) BY <2>3 DEF CountSlots
  <2> QED BY <1>1, <2>1, <2>2, <2>3, <2>4
<1> QED BY <1>3, <1>4 DEF IInv, CountSlots, ReceiverInRange, DonorTaken, DonorCovered

\* A donor enters with the excess it was counted with, and owns at least that.
LEMMA PickDonorIInv ==
    ASSUME IInv, NEW d \in Masters, PickDonor(d)
    PROVE  IInv'
<1> USE DEF Done, Goto, envVars, redisVars, loopVars
<1>1. Target \in Nat BY TargetNat DEF IInv
<1>2. Target' = Target BY DEF Target, PickDonor
<1>3. \A i : SlotsOf(i)' = SlotsOf(i) BY DEF SlotsOf, PickDonor
<1>4. counts[d] \in Nat /\ counts[d] > Target /\ Cardinality(SlotsOf(d)) >= counts[d]
  BY DEF IInv, TypeOK, PendingKept, PickDonor
<1>5. Cardinality(SlotsOf(d)) \in Nat BY SlotSets DEF SlotsOf
<1>6. TypeOK'
  <2>1. SlotsOf(d) \subseteq Slots BY DEF SlotsOf
  <2>2. excess' \in Int BY <1>1, <1>4 DEF IInv, TypeOK, PickDonor
  <2>3. recv' \in 0 .. MaxMasters BY DEF IInv, TypeOK, PickDonor
  <2>4. snap' \subseteq Slots
    <3> HIDE DEF Slots
    <3> QED BY <2>1 DEF IInv, TypeOK, PickDonor
  <2>5. donor' \in Masters BY DEF IInv, TypeOK, PickDonor
  <2> QED BY <2>2, <2>3, <2>4, <2>5 DEF IInv, TypeOK, PickDonor
<1>7. PendingKept' BY <1>2, <1>3 DEF IInv, PendingKept, PickDonor
<1>8. DonorTaken' /\ DonorCovered' /\ ReceiverInRange'
  <2>1. CASE d \notin pods
    BY <2>1 DEF PickDonor, DonorTaken, DonorCovered, ReceiverInRange
  <2>2. CASE d \in pods
    <3>1. donor' = d /\ excess' = counts[d] - Target /\ d \notin pending' /\ pc' = "receivers"
      BY <2>2 DEF PickDonor
    <3> QED BY <1>1, <1>2, <1>3, <1>4, <1>5, <3>1 DEF DonorTaken, DonorCovered, ReceiverInRange
  <2> QED BY <2>1, <2>2
<1> QED BY <1>6, <1>7, <1>8 DEF IInv

\* A receiver takes no more than the excess, and collectSlots queues no more than
\* it takes: the queue and the rest of the excess are still covered.
LEMMA PickReceiverIInv ==
    ASSUME IInv, PickReceiver
    PROVE  IInv'
<1> USE DEF Done, Goto, envVars, redisVars, loopVars
<1> DEFINE room == Target - counts[recv]
           needed == IF room > excess THEN excess ELSE room
<1>1. Target \in Nat BY TargetNat DEF IInv
<1>2. Target' = Target BY DEF Target, PickReceiver
<1>3. \A i : SlotsOf(i)' = SlotsOf(i) BY DEF SlotsOf, PickReceiver
<1>4. PendingKept' BY <1>2, <1>3 DEF IInv, PendingKept, PickReceiver
<1>5. Cardinality(SlotsOf(donor)) \in Nat BY SlotSets DEF SlotsOf
<1>6. donor \notin pending /\ excess \in Nat /\ snap \subseteq Slots
      /\ Cardinality(SlotsOf(donor)) >= Target + excess
  BY DEF IInv, TypeOK, DonorTaken, DonorCovered, PickReceiver
<1>7. CASE /\ recv < want /\ ~(excess <= 0) /\ ~(counts[recv] >= Target)
           /\ queue' = CollectSlots(snap, needed) /\ excess' = excess - needed
           /\ pc' = "moving" /\ UNCHANGED <<recv, result>>
  <2>0. recv \in Masters BY <1>7 DEF IInv, TypeOK
  <2>1. counts[recv] \in Nat BY <2>0 DEF IInv, TypeOK
  <2>2. needed \in Nat /\ needed <= excess BY <1>1, <1>6, <1>7, <2>1
  <2> HIDE DEF needed
  <2>3. queue' \subseteq Slots /\ Cardinality(queue') <= needed
    BY <1>6, <1>7, <2>2, CollectAtMost
  <2>4. Cardinality(queue') \in Nat BY <2>3, SlotCounts
  <2>5. TypeOK'
    <3>1. excess' \in Int BY <1>6, <1>7, <2>2
    <3>2. pc' = "moving" /\ recv' = recv /\ result' = result BY <1>7
    <3> QED BY <2>3, <3>1, <3>2 DEF IInv, TypeOK, PickReceiver
  <2>6. DonorTaken' BY <1>6, <1>7, <2>2 DEF PickReceiver, DonorTaken
  <2>7. donor' = donor BY DEF PickReceiver
  <2>8. DonorCovered'
    BY <1>1, <1>2, <1>3, <1>5, <1>6, <1>7, <2>2, <2>3, <2>4, <2>7 DEF DonorCovered
  <2>9. ReceiverInRange' BY <1>7 DEF PickReceiver, ReceiverInRange
  <2> QED BY <1>4, <2>5, <2>6, <2>8, <2>9 DEF IInv
<1>8. CASE /\ recv < want /\ recv' = recv + 1 /\ pc' = "receivers"
           /\ UNCHANGED <<queue, excess, result>>
  <2>1. TypeOK' BY <1>8 DEF IInv, TypeOK, PickReceiver
  <2>2. DonorTaken' /\ DonorCovered' /\ ReceiverInRange'
    BY <1>2, <1>3, <1>6, <1>8 DEF PickReceiver, DonorTaken, DonorCovered, ReceiverInRange
  <2> QED BY <1>4, <2>1, <2>2 DEF IInv
<1>9. CASE pc' = "donors" /\ UNCHANGED <<queue, excess, recv, result>>
  <2>1. TypeOK' BY <1>9 DEF IInv, TypeOK, PickReceiver
  <2> QED BY <1>4, <1>9, <2>1 DEF IInv, DonorTaken, DonorCovered, ReceiverInRange
<1> QED BY <1>7, <1>8, <1>9 DEF PickReceiver

\* A slot that moves leaves the donor and the queue together, and takes nothing
\* from a donor still to come.
LEMMA MoveAccount ==
    ASSUME IInv, pc = "moving",
           NEW s \in queue, owner[s] = donor,
           owner' = [owner EXCEPT ![s] = recv], donor' = donor
    PROVE  /\ Cardinality(SlotsOf(donor)') >= Cardinality(SlotsOf(donor)) - 1
           /\ \A d \in Masters \ {donor} :
                 Cardinality(SlotsOf(d)') >= Cardinality(SlotsOf(d))
<1>1. s \in Slots /\ owner \in [Slots -> Masters \cup {NoOne}] BY DEF IInv, TypeOK
<1>2. \A t \in Slots : owner'[t] = IF t = s THEN recv ELSE owner[t] BY <1>1
<1> DEFINE Old(d) == {t \in Slots : owner[t] = d}
           New(d) == {t \in Slots : owner'[t] = d}
<1>3. \A d : IsFiniteSet(Old(d)) /\ Cardinality(Old(d)) \in Nat
  <2>1. \A d : Old(d) \subseteq Slots OBVIOUS
  <2> HIDE DEF Old
  <2> QED BY <2>1, SlotCounts
<1>4. \A d : IsFiniteSet(New(d)) /\ Cardinality(New(d)) \in Nat
  <2>1. \A d : New(d) \subseteq Slots OBVIOUS
  <2> HIDE DEF New
  <2> QED BY <2>1, SlotCounts
<1>5. Cardinality(New(donor)) >= Cardinality(Old(donor)) - 1
  <2>1. Old(donor) \ {s} \in SUBSET New(donor) BY <1>2
  <2>2. s \in Old(donor) BY <1>1
  <2> HIDE DEF Old, New
  <2>3. IsFiniteSet(Old(donor) \ {s})
        /\ Cardinality(Old(donor) \ {s}) = Cardinality(Old(donor)) - 1
    BY <1>3, <2>2, FS_RemoveElement
  <2>4. Cardinality(Old(donor) \ {s}) <= Cardinality(New(donor))
    BY <1>4, <2>1, FS_Subset
  <2> QED BY <2>3, <2>4
<1>6. ASSUME NEW d \in Masters \ {donor}
      PROVE  Cardinality(New(d)) >= Cardinality(Old(d))
  <2>1. Old(d) \in SUBSET New(d) BY <1>2
  <2> HIDE DEF Old, New
  <2>2. Cardinality(Old(d)) <= Cardinality(New(d)) BY <1>4, <2>1, FS_Subset
  <2> QED BY <1>3, <1>4, <2>2
<1> QED BY <1>5, <1>6 DEF SlotsOf

\* MigrateSlot, one slot at a time.
LEMMA MoveIInv ==
    ASSUME IInv, MoveSlot
    PROVE  IInv'
<1> USE DEF Done, Goto, envVars, redisVars, loopVars
<1>1. Target \in Nat BY TargetNat DEF IInv
<1>2. Target' = Target BY DEF Target, MoveSlot
<1>3. pc = "moving" /\ recv < want /\ donor \notin pending /\ excess \in Nat
      /\ queue \subseteq Slots /\ recv \in Masters
  BY DEF MoveSlot, IInv, TypeOK, ReceiverInRange, DonorTaken
<1>4. UNCHANGED <<counts, pending, donor, excess, want>> BY DEF MoveSlot
<1>5. IsFiniteSet(queue) /\ Cardinality(queue) \in Nat
  BY <1>3, SlotCounts
<1>6. \A d : Cardinality(SlotsOf(d)) \in Nat /\ Cardinality(SlotsOf(d)') \in Nat
  <2>1. \A d : SlotsOf(d) \subseteq Slots /\ SlotsOf(d)' \subseteq Slots BY DEF SlotsOf
  <2> HIDE DEF Slots
  <2> QED BY <2>1, SlotCounts
<1>7. Cardinality(SlotsOf(donor)) >= Target + excess + Cardinality(queue)
  BY <1>3 DEF IInv, DonorCovered
<1>8. CASE queue = {} /\ recv' = recv + 1 /\ Goto("receivers") /\ UNCHANGED <<queue, owner>>
  <2>1. TypeOK' BY <1>3, <1>8 DEF IInv, TypeOK, MoveSlot
  <2>2. \A d : SlotsOf(d)' = SlotsOf(d) BY <1>8 DEF SlotsOf
  <2>3. PendingKept' BY <1>2, <1>3, <1>4, <2>2 DEF IInv, PendingKept
  <2>4. Cardinality(queue) = 0 BY <1>8, FS_EmptySet
  <2>5. DonorTaken' /\ DonorCovered' /\ ReceiverInRange'
    BY <1>1, <1>2, <1>3, <1>4, <1>6, <1>7, <1>8, <2>2, <2>4
    DEF DonorTaken, DonorCovered, ReceiverInRange
  <2> QED BY <2>1, <2>3, <2>5 DEF IInv
<1>9. CASE queue' = {} /\ Done("err") /\ UNCHANGED <<owner, recv>>
  <2>1. TypeOK' BY <1>9 DEF IInv, TypeOK, MoveSlot
  <2>2. Account' BY <1>9, AccountClosed
  <2> QED BY <2>1, <2>2 DEF IInv, Account
<1>10. ASSUME NEW s \in queue, owner[s] = donor, owner' = [owner EXCEPT ![s] = recv],
              queue' = queue \ {s}, Goto("moving"), UNCHANGED recv
       PROVE  IInv'
  <2>1. TypeOK'
    <3>1. owner' \in [Slots -> Masters \cup {NoOne}] BY <1>3, <1>10 DEF IInv, TypeOK
    <3>2. queue' \subseteq Slots BY <1>3, <1>10
    <3> QED BY <1>10, <3>1, <3>2 DEF IInv, TypeOK, MoveSlot
  <2>2. /\ Cardinality(SlotsOf(donor)') >= Cardinality(SlotsOf(donor)) - 1
        /\ \A d \in Masters \ {donor} : Cardinality(SlotsOf(d)') >= Cardinality(SlotsOf(d))
    BY <1>3, <1>4, <1>10, MoveAccount
  <2>3. \A d \in pending : d \in Masters \ {donor} /\ counts[d] \in Nat
    BY <1>3 DEF IInv, TypeOK
  <2>4. \A d \in pending : counts[d] > Target /\ Cardinality(SlotsOf(d)) >= counts[d]
    BY <1>3 DEF IInv, PendingKept
  <2>5. \A d \in pending : counts[d] > Target /\ Cardinality(SlotsOf(d)') >= counts[d]
    BY <1>6, <2>2, <2>3, <2>4
  <2>6. PendingKept' BY <1>2, <1>4, <2>5 DEF PendingKept
  <2>7. Cardinality(queue') = Cardinality(queue) - 1
    BY <1>5, <1>10, FS_RemoveElement
  <2>8. Cardinality(SlotsOf(donor)') >= Target + excess + Cardinality(queue')
    BY <1>1, <1>3, <1>5, <1>6, <1>7, <2>2, <2>7
  <2>9. DonorCovered'
    <3>1. pc' = "moving" /\ donor' = donor /\ excess' = excess BY <1>4, <1>10
    <3> QED BY <1>2, <2>8, <3>1 DEF DonorCovered
  <2>10. DonorTaken' /\ ReceiverInRange'
    BY <1>3, <1>4, <1>10 DEF DonorTaken, ReceiverInRange
  <2> QED BY <2>1, <2>6, <2>9, <2>10 DEF IInv
<1> QED BY <1>8, <1>9, <1>10 DEF MoveSlot

\* Every step keeps the invariant.
LEMMA NextIInv == IInv /\ [Next]_vars => IInv'
<1> SUFFICES ASSUME IInv, [Next]_vars PROVE IInv' OBVIOUS
<1>1. CASE UNCHANGED vars
  <2>1. Account' BY <1>1, AccountKept DEF vars, redisVars
  <2>2. TypeOK' BY <1>1 DEF IInv, TypeOK, vars, envVars, redisVars, loopVars
  <2> QED BY <2>1, <2>2 DEF IInv, Account
<1>2. CASE Next
  BY <1>2, EnvironmentIInv, OutsideIInv, RemoveIInv, CountIInv, PickDonorIInv, PickReceiverIInv,
     MoveIInv DEF Next, Reconcile
<1> QED BY <1>1, <1>2

-----------------------------------------------------------------------------
(* Theorems.                                                               *)

\* The invariant, for every instance.
THEOREM Invariance == Spec => []IInv
<1>1. Init => IInv BY InitIInv
<1>2. IInv /\ [Next]_vars => IInv' BY NextIInv
<1> QED BY <1>1, <1>2, PTL DEF Spec

\* The types hold in every reachable state; in particular the loop variables of
\* reconcileScaleOut, reconcileScaleIn and RebalanceSlots never leave the range of
\* masters, so counts and masterAddrs are never indexed outside it.
THEOREM ScalingTypeCorrect == Spec => []TypeOK
<1>1. IInv => TypeOK BY DEF IInv
<1> QED BY <1>1, Invariance, PTL

\* RebalanceSlots never drains a master that stays below its even share, however
\* stale the counts and the donor's slot list have become, whichever order it walks
\* the donors in, and wherever it is interrupted, crashes or has a slot refused.
THEOREM DonorsKeepTheirShare == Spec => DonorKeepsTarget
<1>1. ASSUME IInv, [Next]_vars
      PROVE  [pc = "moving" /\ owner' # owner /\ donor < want
                  => Cardinality(SlotsOf(donor)') >= Target]_vars
  <2> SUFFICES ASSUME pc = "moving", owner' # owner
               PROVE  Cardinality(SlotsOf(donor)') >= Target
    BY <1>1 DEF vars
  <2>1. MoveSlot
    BY <1>1 DEF Next, Reconcile, vars, redisVars, StartReconcile, Lifecycle, AddMaster,
        CountSlots, PickDonor, PickReceiver, Rebalanced, RemoveMaster, Master0Gone, Abort,
        UserScales, PodStarts, PodStops, PodCrashes, MeetSpreads
  <2>2. PICK s \in queue : owner[s] = donor /\ owner' = [owner EXCEPT ![s] = recv]
                             /\ donor' = donor
    BY <2>1 DEF MoveSlot
  <2>3. Cardinality(SlotsOf(donor)') >= Cardinality(SlotsOf(donor)) - 1
    BY <1>1, <2>2, MoveAccount
  <2>4. Cardinality(SlotsOf(donor)) >= Target + excess + Cardinality(queue) /\ excess \in Nat
    BY <1>1 DEF IInv, TypeOK, DonorTaken, DonorCovered
  <2>5. Cardinality(queue) \in Nat /\ Cardinality(queue) # 0
    <3>1. queue \subseteq Slots /\ queue # {} BY <1>1, <2>2 DEF IInv, TypeOK
    <3>2. IsFiniteSet(queue) /\ Cardinality(queue) \in Nat BY <3>1, SlotCounts
    <3> QED BY <3>1, <3>2, FS_EmptySet
  <2>6. Cardinality(SlotsOf(donor)) \in Nat /\ Cardinality(SlotsOf(donor)') \in Nat
    <3>1. SlotsOf(donor) \subseteq Slots /\ SlotsOf(donor)' \subseteq Slots BY DEF SlotsOf
    <3> HIDE DEF Slots
    <3> QED BY <3>1, SlotCounts
  <2>7. Target \in Nat BY <1>1, TargetNat DEF IInv
  <2> QED BY <2>3, <2>4, <2>5, <2>6, <2>7
<1> QED BY <1>1, Invariance, PTL DEF Spec, DonorKeepsTarget
=============================================================================
