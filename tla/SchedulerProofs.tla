-------------------------- MODULE SchedulerProofs --------------------------
(***************************************************************************)
(* Proofs about Scheduler, for any sets of hosts, microVMs and capacities   *)
(* and either policy.                                                       *)
(***************************************************************************)
EXTENDS SchedulerStats, FiniteSetTheorems, TLAPS

\* SlotAccounting alone is not inductive: that used stays at most capacity when a
\* slot is taken rests on the buckets being exact, and the buckets on the types.
IInv == TypeOK /\ SlotAccounting /\ BucketsExact

-----------------------------------------------------------------------------
\* Every method indexes the bucket slice within its length.
LEMMA IndexInRange ==
  ASSUME IInv, NEW h \in Host, hostState[h] # "Absent"
  PROVE  /\ capacity[h] \in Nat /\ used[h] \in Nat
         /\ free(h) \in 0 .. maxCap
         /\ free(h) <= capacity[h] /\ capacity[h] <= maxCap
         /\ maxCap \in Nat /\ maxCap >= 2
         /\ DOMAIN buckets = 0 .. maxCap
         /\ buckets \in [0 .. maxCap -> SUBSET Host]
<1>1. capacity[h] \in Nat /\ used[h] \in Nat /\ maxCap \in Nat
  BY DEF IInv, TypeOK
<1>2. capacity[h] >= 2 /\ capacity[h] <= maxCap
  BY DEF IInv, BucketsExact, Known, MinSlotsPerHost
<1>3. used[h] <= capacity[h]
  BY DEF IInv, SlotAccounting
<1>4. DOMAIN buckets = 0 .. maxCap /\ buckets \in [0 .. maxCap -> SUBSET Host]
  BY <1>1, <1>2 DEF IInv, TypeOK
<1> QED BY <1>1, <1>2, <1>3, <1>4 DEF free

\* The bucket search answers only with ready hosts that have a free slot, and it
\* answers with the fullest ones (BestFit) or the emptiest ones (WorstFit).
LEMMA SelectHostSound ==
  ASSUME IInv, NEW h \in selectHost
  PROVE  /\ h \in Host
         /\ hostState[h] = "Ready"
         /\ free(h) \in 1 .. maxCap
         /\ \A g \in Host : hostState[g] = "Ready" /\ free(g) >= 1 =>
              IF Policy = "WorstFit" THEN free(g) <= free(h) ELSE free(h) <= free(g)
<1> DEFINE nonEmpty == {k \in 1 .. maxCap : buckets[k] # {}}
<1>1. PICK k \in nonEmpty :
        /\ h \in buckets[k]
        /\ \A j \in nonEmpty : IF Policy = "WorstFit" THEN j <= k ELSE k <= j
  BY DEF selectHost
<1>2. maxCap \in Nat /\ k \in DOMAIN buckets
  BY DEF IInv, TypeOK
<1>2a. h \in Host
  BY <1>1, <1>2 DEF IInv, TypeOK
<1>3. hostState[h] = "Ready" /\ free(h) = k
  BY <1>1, <1>2, <1>2a DEF IInv, BucketsExact
<1>4. ASSUME NEW g \in Host, hostState[g] = "Ready", free(g) >= 1
      PROVE  free(g) \in nonEmpty
  <2>1. free(g) \in 0 .. maxCap /\ DOMAIN buckets = 0 .. maxCap
    BY <1>4, IndexInRange
  <2>2. g \in buckets[free(g)]
    BY <1>4, <2>1 DEF IInv, BucketsExact
  <2> QED BY <1>2, <1>4, <2>1, <2>2
<1> QED BY <1>1, <1>2, <1>2a, <1>3, <1>4

\* A non-empty set of naturals has a least element.
LEMMA LeastElement ==
  ASSUME NEW T \in SUBSET Nat, T # {}
  PROVE  \E m \in T : \A n \in T : m <= n
<1> DEFINE Less == {ss \in Nat \X Nat : ss[1] < ss[2]}
<1>1. IsWellFoundedOn(Less, Nat)
  BY NatLessThanWellFounded DEF OpToRel
<1>2. PICK m \in T : \A n \in T : ~(<<n, m>> \in Less)
  <2> HIDE DEF Less
  <2> QED BY <1>1, WFMin
<1>3. ASSUME NEW n \in T
      PROVE  m <= n
  <2>1. ~(<<n, m>> \in Less)
    BY <1>2
  <2>2. ~(n < m)
    BY <2>1
  <2> QED BY <2>2
<1> QED BY <1>3

\* The bucket search finds a host whenever a ready host has a free slot.
LEMMA SelectHostComplete ==
  ASSUME IInv, NEW g \in Host, hostState[g] = "Ready", free(g) > 0
  PROVE  selectHost # {}
<1> DEFINE nonEmpty == {k \in 1 .. maxCap : buckets[k] # {}}
<1>1. free(g) \in 0 .. maxCap /\ DOMAIN buckets = 0 .. maxCap /\ maxCap \in Nat
  BY IndexInRange
<1>2. g \in buckets[free(g)]
  BY <1>1 DEF IInv, BucketsExact
<1>3. free(g) \in nonEmpty
  BY <1>1, <1>2
<1>4. CASE Policy # "WorstFit"
  <2>1. PICK k \in nonEmpty : \A j \in nonEmpty : k <= j
    <3>1. nonEmpty \in SUBSET Nat /\ nonEmpty # {}
      BY <1>1, <1>3
    <3> HIDE DEF nonEmpty
    <3> QED BY <3>1, LeastElement
  <2> QED BY <2>1, <1>4 DEF selectHost
<1>5. CASE Policy = "WorstFit"
  <2> DEFINE T == {maxCap - j : j \in nonEmpty}
  <2>1. PICK m \in T : \A n \in T : m <= n
    <3>1. T \in SUBSET Nat /\ T # {}
      BY <1>1, <1>3
    <3> HIDE DEF T
    <3> QED BY <3>1, LeastElement
  <2>2. PICK k \in nonEmpty : m = maxCap - k
    OBVIOUS
  <2>3. ASSUME NEW j \in nonEmpty
        PROVE  j <= k
    <3>1. m <= maxCap - j
      BY <2>1
    <3> QED BY <3>1, <2>2, <1>1
  <2> QED BY <2>3, <1>5 DEF selectHost
<1> QED BY <1>4, <1>5

-----------------------------------------------------------------------------
\* New leaves a state of the invariant.
LEMMA SchedulerInit == Init => IInv
<1> SUFFICES ASSUME Init
             PROVE  IInv
  OBVIOUS
<1>1. TypeOK
  BY SchedulerAssumption DEF Init, TypeOK
<1>2. \A h \in Host : VMsOn(h) = {}
  BY SchedulerAssumption DEF Init, VMsOn
<1>3. SlotAccounting
  BY <1>2, FS_EmptySet DEF Init, SlotAccounting
<1>4. BucketsExact
  BY DEF Init, BucketsExact, Known
<1> QED BY <1>1, <1>3, <1>4 DEF IInv

\* AddHost grows the buckets and puts the host in none: it is pending.
LEMMA AddHostPreserves ==
  ASSUME IInv, NEW h \in Host, NEW c \in Capacities, AddHost(h, c)
  PROVE  IInv'
<1>1. c \in Nat /\ c >= 2 /\ hostState[h] = "Absent" /\ maxCap \in Nat
  BY SchedulerAssumption DEF AddHost, AddHostErr, MinSlotsPerHost, IInv, TypeOK
<1>2. maxCap' \in Nat /\ maxCap' >= maxCap /\ maxCap' >= c /\ maxCap' # 0
      /\ (maxCap' = c \/ maxCap' = maxCap)
  BY <1>1 DEF AddHost, growBuckets
<1>3. DOMAIN buckets' = 0 .. maxCap'
  BY <1>1, <1>2 DEF AddHost, growBuckets, IInv, TypeOK
<1>4. \A k \in 0 .. maxCap' : buckets'[k] = IF k \in DOMAIN buckets THEN buckets[k] ELSE {}
  BY <1>3 DEF AddHost, growBuckets
<1>5. TypeOK'
  <2>1. buckets' \in [DOMAIN buckets' -> SUBSET Host]
    BY <1>3, <1>4 DEF AddHost, growBuckets, IInv, TypeOK
  <2> QED BY <2>1, <1>1, <1>2, <1>3 DEF AddHost, IInv, TypeOK, States
<1>6. SlotAccounting'
  <2>1. \A g \in Host : VMsOn(g)' = VMsOn(g)
    BY DEF AddHost, VMsOn
  <2>2. VMsOn(h) = {}
    BY <1>1, SchedulerAssumption DEF IInv, SlotAccounting, VMsOn, Known
  <2>3. \A v \in VM : assigned'[v] # NoHost => assigned'[v] \in Known'
    BY <1>1 DEF AddHost, IInv, TypeOK, SlotAccounting, Known
  <2>4. ASSUME NEW g \in Host
        PROVE  /\ IsFiniteSet(VMsOn(g)) /\ used'[g] = Cardinality(VMsOn(g))
               /\ used'[g] <= capacity'[g]
    <3>1. CASE g = h
      BY <3>1, <2>2, <1>1, FS_EmptySet DEF AddHost, IInv, TypeOK
    <3>2. CASE g # h
      BY <3>2 DEF AddHost, IInv, TypeOK, SlotAccounting
    <3> QED BY <3>1, <3>2
  <2> QED BY <2>1, <2>3, <2>4 DEF SlotAccounting
<1>7. BucketsExact'
  <2>1. ASSUME NEW k \in 0 .. maxCap', NEW g \in Host
        PROVE  g \in buckets'[k] <=> hostState'[g] = "Ready" /\ free(g)' = k
    <3>1. hostState'[g] = "Ready" <=> hostState[g] = "Ready"
      BY <1>1 DEF AddHost, IInv, TypeOK
    <3>2. hostState[g] = "Ready" => free(g)' = free(g) /\ free(g) \in DOMAIN buckets
      BY <1>1, IndexInRange DEF AddHost, IInv, TypeOK, free
    <3>3. CASE k \in DOMAIN buckets
      BY <3>1, <3>2, <3>3, <1>4 DEF IInv, BucketsExact
    <3>4. CASE k \notin DOMAIN buckets
      BY <3>1, <3>2, <3>4, <1>4
    <3> QED BY <3>3, <3>4
  <2>2. ASSUME NEW g \in Host, hostState'[g] # "Absent"
        PROVE  capacity'[g] >= 2 /\ capacity'[g] <= maxCap'
    <3>1. CASE g = h
      BY <3>1, <1>1, <1>2 DEF AddHost, IInv, TypeOK
    <3>2. CASE g # h
      <4>1. hostState[g] # "Absent" /\ capacity'[g] = capacity[g]
        BY <2>2, <3>2 DEF AddHost, IInv, TypeOK
      <4> QED BY <4>1, <1>1, <1>2 DEF IInv, TypeOK, BucketsExact, Known, MinSlotsPerHost
    <3> QED BY <3>1, <3>2
  <2> QED BY <2>1, <2>2, <1>3 DEF BucketsExact, Known, MinSlotsPerHost
<1> QED BY <1>5, <1>6, <1>7 DEF IInv

\* SetHostState moves the host into its bucket or out of it.
LEMMA SetHostStatePreserves ==
  ASSUME IInv, NEW h \in Host, NEW s \in States, SetHostState(h, s)
  PROVE  IInv'
<1>1. hostState[h] # "Absent" /\ hostState[h] # s /\ s # "Absent"
  BY DEF SetHostState, HostErr, States
<1>2. /\ free(h) \in 0 .. maxCap /\ DOMAIN buckets = 0 .. maxCap
      /\ buckets \in [0 .. maxCap -> SUBSET Host]
  BY <1>1, IndexInRange
<1>3. buckets' \in [0 .. maxCap -> SUBSET Host]
  BY <1>2 DEF SetHostState
<1>4. TypeOK'
  BY <1>1, <1>2, <1>3 DEF SetHostState, IInv, TypeOK, States
<1>5. Known' = Known
  BY <1>1 DEF SetHostState, IInv, TypeOK, Known
<1>6. SlotAccounting'
  <2>1. \A g \in Host : VMsOn(g)' = VMsOn(g)
    BY DEF SetHostState, VMsOn
  <2> QED BY <2>1, <1>5 DEF SetHostState, IInv, SlotAccounting
<1>7. BucketsExact'
  <2>1. ASSUME NEW k \in 0 .. maxCap, NEW g \in Host
        PROVE  g \in buckets'[k] <=> hostState'[g] = "Ready" /\ free(g)' = k
    <3>1. free(g)' = free(g)
      BY DEF SetHostState, free
    <3>2. g \in buckets[k] <=> hostState[g] = "Ready" /\ free(g) = k
      BY <1>2 DEF IInv, BucketsExact
    <3>3. CASE g = h
      <4>1. hostState'[g] = s
        BY <3>3 DEF SetHostState, IInv, TypeOK
      <4> QED BY <3>1, <3>2, <3>3, <4>1, <1>1, <1>2 DEF SetHostState
    <3>4. CASE g # h
      <4>1. hostState'[g] = hostState[g]
        BY <3>4 DEF SetHostState, IInv, TypeOK
      <4>2. g \in buckets'[k] <=> g \in buckets[k]
        BY <3>4, <1>2 DEF SetHostState
      <4> QED BY <3>1, <3>2, <4>1, <4>2
    <3> QED BY <3>3, <3>4
  <2> QED BY <2>1, <1>2, <1>3, <1>5 DEF SetHostState, IInv, BucketsExact
<1> QED BY <1>4, <1>6, <1>7 DEF IInv

\* RemoveHost forgets the host's microVMs with it.
LEMMA RemoveHostPreserves ==
  ASSUME IInv, NEW h \in Host, RemoveHost(h)
  PROVE  IInv'
<1>1. hostState[h] # "Absent"
  BY DEF RemoveHost, HostErr
<1>2. /\ free(h) \in 0 .. maxCap /\ DOMAIN buckets = 0 .. maxCap
      /\ buckets \in [0 .. maxCap -> SUBSET Host]
  BY <1>1, IndexInRange
<1>3. buckets' \in [0 .. maxCap -> SUBSET Host]
  BY <1>2 DEF RemoveHost
<1>4. TypeOK'
  BY <1>1, <1>2, <1>3 DEF RemoveHost, IInv, TypeOK, States
<1>5. Known' = Known \ {h}
  BY DEF RemoveHost, IInv, TypeOK, Known
<1>6. SlotAccounting'
  <2>1. VMsOn(h)' = {} /\ \A g \in Host \ {h} : VMsOn(g)' = VMsOn(g)
    BY SchedulerAssumption DEF RemoveHost, VMsOn, IInv, TypeOK
  <2>2. \A v \in VM : assigned'[v] # NoHost => assigned'[v] \in Known'
    BY <1>5 DEF RemoveHost, IInv, TypeOK, SlotAccounting
  <2>3. ASSUME NEW g \in Host
        PROVE  /\ IsFiniteSet(VMsOn(g)') /\ used'[g] = Cardinality(VMsOn(g)')
               /\ used'[g] <= capacity'[g]
    <3>1. CASE g = h
      <4>1. used'[g] = 0 /\ capacity'[g] = 0
        BY <3>1 DEF RemoveHost, IInv, TypeOK
      <4> QED BY <3>1, <4>1, <2>1, FS_EmptySet
    <3>2. CASE g # h
      BY <3>2, <2>1 DEF RemoveHost, IInv, TypeOK, SlotAccounting
    <3> QED BY <3>1, <3>2
  <2> QED BY <2>2, <2>3 DEF SlotAccounting
<1>7. BucketsExact'
  <2>1. ASSUME NEW k \in 0 .. maxCap, NEW g \in Host
        PROVE  g \in buckets'[k] <=> hostState'[g] = "Ready" /\ free(g)' = k
    <3>2. g \in buckets[k] <=> hostState[g] = "Ready" /\ free(g) = k
      BY <1>2 DEF IInv, BucketsExact
    <3>3. CASE g = h
      <4>1. hostState'[g] = "Absent"
        BY <3>3 DEF RemoveHost, IInv, TypeOK
      <4> QED BY <3>2, <3>3, <4>1, <1>2 DEF RemoveHost
    <3>4. CASE g # h
      <4>1. hostState'[g] = hostState[g] /\ free(g)' = free(g)
        BY <3>4 DEF RemoveHost, IInv, TypeOK, free
      <4>2. g \in buckets'[k] <=> g \in buckets[k]
        BY <3>4, <1>2 DEF RemoveHost
      <4> QED BY <3>2, <4>1, <4>2
    <3> QED BY <3>3, <3>4
  <2>2. \A g \in Known' : capacity'[g] >= 2 /\ capacity'[g] <= maxCap
    BY <1>5 DEF RemoveHost, IInv, TypeOK, BucketsExact, Known, MinSlotsPerHost
  <2> QED BY <2>1, <2>2, <1>2, <1>3 DEF RemoveHost, BucketsExact, MinSlotsPerHost
<1> QED BY <1>4, <1>6, <1>7 DEF IInv

\* Place moves the chosen host one bucket down.
LEMMA PlacePreserves ==
  ASSUME IInv, NEW v \in VM, NEW h \in Host, Place(v, h)
  PROVE  IInv'
<1>1. assigned[v] = NoHost /\ h \in selectHost
  BY DEF Place, PlaceErr
<1>2. hostState[h] = "Ready" /\ free(h) \in 1 .. maxCap
  BY <1>1, SelectHostSound
<1>3. /\ free(h) - 1 \in 0 .. maxCap /\ DOMAIN buckets = 0 .. maxCap
      /\ buckets \in [0 .. maxCap -> SUBSET Host]
      /\ capacity[h] \in Nat /\ used[h] \in Nat /\ maxCap \in Nat
  BY <1>2, IndexInRange
<1>4. buckets' \in [0 .. maxCap -> SUBSET Host]
  BY <1>2, <1>3 DEF Place
<1>5. used' = [used EXCEPT ![h] = used[h] + 1] /\ free(h)' = free(h) - 1
  BY <1>3 DEF Place, free, IInv, TypeOK
<1>6. TypeOK'
  BY <1>3, <1>4, <1>5 DEF Place, IInv, TypeOK
<1>7. SlotAccounting'
  <2>1. /\ VMsOn(h)' = VMsOn(h) \cup {v} /\ v \notin VMsOn(h)
        /\ \A g \in Host \ {h} : VMsOn(g)' = VMsOn(g)
    BY <1>1, SchedulerAssumption DEF Place, VMsOn, IInv, TypeOK
  <2>2. \A w \in VM : assigned'[w] # NoHost => assigned'[w] \in Known'
    BY <1>2 DEF Place, IInv, TypeOK, SlotAccounting, Known
  <2>3. ASSUME NEW g \in Host
        PROVE  /\ IsFiniteSet(VMsOn(g)') /\ used'[g] = Cardinality(VMsOn(g)')
               /\ used'[g] <= capacity'[g]
    <3>1. CASE g = h
      <4>1. IsFiniteSet(VMsOn(h)) /\ used[h] = Cardinality(VMsOn(h))
        BY DEF IInv, SlotAccounting
      <4>2. IsFiniteSet(VMsOn(h)') /\ Cardinality(VMsOn(h)') = Cardinality(VMsOn(h)) + 1
        BY <4>1, <2>1, FS_AddElement
      <4>3. used'[h] = used[h] + 1 /\ capacity'[h] = capacity[h]
        BY <1>5 DEF Place, IInv, TypeOK
      <4>4. used[h] + 1 <= capacity[h]
        BY <1>2, <1>3 DEF free
      <4> QED BY <3>1, <4>1, <4>2, <4>3, <4>4
    <3>2. CASE g # h
      BY <3>2, <2>1, <1>5 DEF Place, IInv, TypeOK, SlotAccounting
    <3> QED BY <3>1, <3>2
  <2> QED BY <2>2, <2>3 DEF SlotAccounting
<1>8. BucketsExact'
  <2>1. ASSUME NEW k \in 0 .. maxCap, NEW g \in Host
        PROVE  g \in buckets'[k] <=> hostState'[g] = "Ready" /\ free(g)' = k
    <3>1. g \in buckets[k] <=> hostState[g] = "Ready" /\ free(g) = k
      BY <1>3 DEF IInv, BucketsExact
    <3>2. CASE g = h
      BY <3>1, <3>2, <1>2, <1>3, <1>5 DEF Place
    <3>3. CASE g # h
      <4>1. free(g)' = free(g)
        BY <3>3, <1>5 DEF Place, IInv, TypeOK, free
      <4>2. g \in buckets'[k] <=> g \in buckets[k]
        BY <3>3, <1>2, <1>3 DEF Place
      <4> QED BY <3>1, <4>1, <4>2 DEF Place
    <3> QED BY <3>2, <3>3
  <2> QED BY <2>1, <1>3, <1>4 DEF Place, IInv, BucketsExact, Known
<1> QED BY <1>6, <1>7, <1>8 DEF IInv

\* Release moves the host one bucket up, if it is in one.
LEMMA ReleasePreserves ==
  ASSUME IInv, NEW v \in VM, Release(v)
  PROVE  IInv'
<1>1. PICK h \in Host : h = assigned[v] /\ hostState[h] # "Absent"
  BY DEF Release, ReleaseErr, IInv, TypeOK, SlotAccounting, Known
<1>2. /\ v \in VMsOn(h) /\ IsFiniteSet(VMsOn(h))
      /\ used[h] = Cardinality(VMsOn(h))
  BY <1>1 DEF VMsOn, IInv, SlotAccounting
<1>3. /\ capacity[h] \in Nat /\ used[h] \in Nat /\ maxCap \in Nat
      /\ capacity[h] <= maxCap
      /\ free(h) \in 0 .. maxCap /\ DOMAIN buckets = 0 .. maxCap
      /\ buckets \in [0 .. maxCap -> SUBSET Host]
  BY <1>1, IndexInRange
<1>4. used[h] # 0 /\ used[h] - 1 \in Nat
  <2>1. used[h] # 0
    BY <1>2, FS_EmptySet
  <2> QED BY <2>1, <1>3
<1>5. free(h) + 1 \in 0 .. maxCap
  BY <1>3, <1>4 DEF free
<1>6. /\ used' = [used EXCEPT ![h] = used[h] - 1]
      /\ buckets' = IF hostState[h] = "Ready"
                    THEN [buckets EXCEPT ![free(h)] = @ \ {h}, ![free(h) + 1] = @ \cup {h}]
                    ELSE buckets
      /\ assigned' = [assigned EXCEPT ![v] = NoHost]
      /\ UNCHANGED <<hostState, capacity, maxCap>>
  BY <1>1 DEF Release
<1>7. buckets' \in [0 .. maxCap -> SUBSET Host]
  BY <1>1, <1>3, <1>5, <1>6
<1>8. free(h)' = free(h) + 1 /\ used'[h] = used[h] - 1
  BY <1>1, <1>3, <1>4, <1>6 DEF free, IInv, TypeOK
<1>9. TypeOK'
  BY <1>1, <1>3, <1>4, <1>6, <1>7 DEF IInv, TypeOK
<1>10. SlotAccounting'
  <2>1. /\ VMsOn(h)' = VMsOn(h) \ {v}
        /\ \A g \in Host \ {h} : VMsOn(g)' = VMsOn(g)
    BY <1>1, <1>6, SchedulerAssumption DEF VMsOn, IInv, TypeOK
  <2>2. \A w \in VM : assigned'[w] # NoHost => assigned'[w] \in Known'
    BY <1>6 DEF IInv, TypeOK, SlotAccounting, Known
  <2>3. ASSUME NEW g \in Host
        PROVE  /\ IsFiniteSet(VMsOn(g)') /\ used'[g] = Cardinality(VMsOn(g)')
               /\ used'[g] <= capacity'[g]
    <3>1. CASE g = h
      <4>1. IsFiniteSet(VMsOn(h)') /\ Cardinality(VMsOn(h)') = Cardinality(VMsOn(h)) - 1
        BY <1>2, <2>1, FS_RemoveElement
      <4>2. used[h] <= capacity[h]
        BY <1>1 DEF IInv, SlotAccounting
      <4> QED BY <3>1, <4>1, <4>2, <1>2, <1>3, <1>6, <1>8
    <3>2. CASE g # h
      BY <3>2, <2>1, <1>6 DEF IInv, TypeOK, SlotAccounting
    <3> QED BY <3>1, <3>2
  <2> QED BY <2>2, <2>3 DEF SlotAccounting
<1>11. BucketsExact'
  <2>1. ASSUME NEW k \in 0 .. maxCap, NEW g \in Host
        PROVE  g \in buckets'[k] <=> hostState'[g] = "Ready" /\ free(g)' = k
    <3>1. g \in buckets[k] <=> hostState[g] = "Ready" /\ free(g) = k
      BY <1>3 DEF IInv, BucketsExact
    <3>2. CASE g = h
      BY <3>1, <3>2, <1>3, <1>5, <1>6, <1>8
    <3>3. CASE g # h
      <4>1. free(g)' = free(g)
        BY <3>3, <1>6 DEF IInv, TypeOK, free
      <4>2. g \in buckets'[k] <=> g \in buckets[k]
        BY <3>3, <1>3, <1>5, <1>6
      <4> QED BY <3>1, <4>1, <4>2, <1>6
    <3> QED BY <3>2, <3>3
  <2> QED BY <2>1, <1>3, <1>6, <1>7 DEF IInv, BucketsExact, Known
<1> QED BY <1>9, <1>10, <1>11 DEF IInv

\* Every method, and a stutter, keeps the invariant.
LEMMA SchedulerStep == IInv /\ [Next]_vars => IInv'
<1> SUFFICES ASSUME IInv, [Next]_vars
             PROVE  IInv'
  OBVIOUS
<1>1. CASE \E h \in Host, c \in Capacities : AddHost(h, c)
  BY <1>1, AddHostPreserves
<1>2. CASE \E h \in Host, s \in States : SetHostState(h, s)
  BY <1>2, SetHostStatePreserves
<1>3. CASE \E h \in Host : RemoveHost(h)
  BY <1>3, RemoveHostPreserves
<1>4. CASE \E v \in VM, h \in Host : Place(v, h)
  BY <1>4, PlacePreserves
<1>5. CASE \E v \in VM : Release(v)
  BY <1>5, ReleasePreserves
<1>6. CASE UNCHANGED vars
  <2>1. \A h \in Host : VMsOn(h)' = VMsOn(h) /\ free(h)' = free(h)
    BY <1>6 DEF vars, VMsOn, free
  <2> QED BY <1>6, <2>1 DEF vars, IInv, TypeOK, SlotAccounting, BucketsExact, Known
<1> QED BY <1>1, <1>2, <1>3, <1>4, <1>5, <1>6 DEF Next

-----------------------------------------------------------------------------
\* The inductive invariant holds throughout.
LEMMA SchedulerInductive == Spec => []IInv
BY SchedulerInit, SchedulerStep, PTL DEF Spec

\* The scheduler's variables keep their types; in particular the bucket slice
\* always has maxCap + 1 buckets once a host was added (growBuckets).
THEOREM TypeCorrect == Spec => []TypeOK
<1>1. IInv => TypeOK
  BY DEF IInv
<1> QED BY <1>1, SchedulerInductive, PTL

\* No host is ever oversubscribed, no used counter drifts from the assignments,
\* and no microVM points to a forgotten host, after any sequence of calls.
THEOREM SlotsAccounted == Spec => []SlotAccounting
<1>1. IInv => SlotAccounting
  BY DEF IInv
<1> QED BY <1>1, SchedulerInductive, PTL

\* The buckets Place searches list exactly the ready hosts, each under its own
\* free-slot count, and no method indexes beyond the slice.
THEOREM BucketsAreExact == Spec => []BucketsExact
<1>1. IInv => BucketsExact
  BY DEF IInv
<1> QED BY <1>1, SchedulerInductive, PTL

\* Place refuses with ErrNoCapacity exactly when every ready host is full.
THEOREM NoCapacityCorrect == Spec => []NoCapacityIsTrue
<1>1. IInv => NoCapacityIsTrue
  <2> SUFFICES ASSUME IInv
               PROVE  NoCapacityIsTrue
    OBVIOUS
  <2>1. ASSUME NEW h \in selectHost
        PROVE  \E g \in Host : hostState[g] = "Ready" /\ free(g) > 0
    BY SelectHostSound
  <2>2. ASSUME NEW g \in Host, hostState[g] = "Ready", free(g) > 0
        PROVE  selectHost # {}
    BY <2>2, SelectHostComplete
  <2> QED BY <2>1, <2>2 DEF NoCapacityIsTrue
<1> QED BY <1>1, SchedulerInductive, PTL

\* Only Place assigns, and only to a host the policy allows.
LEMMA StepFollowsPolicy ==
  ASSUME IInv, [Next]_vars, NEW v \in VM,
         assigned'[v] # assigned[v], assigned'[v] # NoHost
  PROVE  LET h == assigned'[v] IN
         /\ assigned[v] = NoHost
         /\ hostState[h] = "Ready" /\ free(h) > 0
         /\ \A g \in Host : hostState[g] = "Ready" /\ free(g) > 0 =>
              IF Policy = "WorstFit" THEN free(g) <= free(h) ELSE free(h) <= free(g)
<1>1. PICK w \in VM, h \in Host : Place(w, h)
  <2>1. CASE \E h \in Host, c \in Capacities : AddHost(h, c)
    BY <2>1 DEF AddHost
  <2>2. CASE \E h \in Host, s \in States : SetHostState(h, s)
    BY <2>2 DEF SetHostState
  <2>3. CASE \E h \in Host : RemoveHost(h)
    BY <2>3 DEF RemoveHost, IInv, TypeOK
  <2>4. CASE \E w \in VM : Release(w)
    BY <2>4 DEF Release, IInv, TypeOK
  <2>5. CASE UNCHANGED vars
    BY <2>5 DEF vars
  <2> QED BY <2>1, <2>2, <2>3, <2>4, <2>5 DEF Next
<1>2. w = v /\ assigned'[v] = h /\ assigned[v] = NoHost /\ h \in selectHost
  BY <1>1 DEF Place, PlaceErr, IInv, TypeOK
<1>3. /\ hostState[h] = "Ready" /\ free(h) \in 1 .. maxCap
      /\ \A g \in Host : hostState[g] = "Ready" /\ free(g) >= 1 =>
           IF Policy = "WorstFit" THEN free(g) <= free(h) ELSE free(h) <= free(g)
  BY <1>2, SelectHostSound
<1>4. \A g \in Host : hostState[g] = "Ready" /\ free(g) > 0 => free(g) >= 1
  BY DEF free, IInv, TypeOK
<1> QED BY <1>2, <1>3, <1>4

\* Every placement, whatever came before it, goes to an open host the policy ranks
\* first (selectHost), and no call moves a placed microVM.
THEOREM PolicyFollowed == Spec => PlacementsFollowPolicy
<1>1. IInv /\ [Next]_vars =>
        [\A v \in VM :
           assigned'[v] # assigned[v] /\ assigned'[v] # NoHost =>
             LET h == assigned'[v] IN
             /\ assigned[v] = NoHost
             /\ hostState[h] = "Ready" /\ free(h) > 0
             /\ \A g \in Host : hostState[g] = "Ready" /\ free(g) > 0 =>
                  IF Policy = "WorstFit" THEN free(g) <= free(h) ELSE free(h) <= free(g)]_vars
  BY StepFollowsPolicy
<1> QED BY <1>1, SchedulerInductive, PTL DEF Spec, PlacementsFollowPolicy

-----------------------------------------------------------------------------
\* The free slots the pool counts are the ones the scheduler stores.
LEMMA PoolFree ==
  ASSUME IInv, NEW h \in Host
  PROVE  Pool!Free(h) = free(h)
<1>1. \A S : Pool!Cardinality(S) = Cardinality(S)
  BY DEF Cardinality, Pool!Cardinality
<1> QED BY <1>1 DEF IInv, SlotAccounting, VMsOn, free, Pool!Free

\* Place takes a slot of a host the pool would also choose.
LEMMA PlaceRefines ==
  ASSUME IInv, NEW v \in VM, NEW h \in Host, Place(v, h)
  PROVE  Pool!Place(v)
<1>1. assigned[v] = NoHost /\ h \in selectHost
  BY DEF Place, PlaceErr
<1>2. /\ hostState[h] = "Ready" /\ free(h) >= 1
      /\ \A g \in Host : hostState[g] = "Ready" /\ free(g) >= 1 =>
           IF Policy = "WorstFit" THEN free(g) <= free(h) ELSE free(h) <= free(g)
  BY <1>1, SelectHostSound
<1>3. h \in Pool!Eligible
  BY <1>2, PoolFree DEF Pool!Eligible, Pool!Open
<1> QED BY <1>1, <1>3 DEF Place, Pool!Place

\* Each method is the pool's step of the same name.
LEMMA SchedulerStepRefines ==
  ASSUME IInv, [Next]_vars
  PROVE  [Pool!Next]_(Pool!vars)
<1>1. ASSUME NEW h \in Host, NEW c \in Capacities, AddHost(h, c)
      PROVE  Pool!AddHost(h)
  <2>1. c \in Nat /\ c >= 2 /\ hostState[h] = "Absent"
    BY <1>1, SchedulerAssumption DEF AddHost, AddHostErr, MinSlotsPerHost
  <2>2. capacity'[h] = c
    BY <1>1 DEF AddHost, IInv, TypeOK
  <2> QED BY <1>1, <2>1, <2>2 DEF AddHost, Pool!AddHost, MinSlotsPerHost
<1>2. ASSUME NEW h \in Host, NEW s \in States, SetHostState(h, s)
      PROVE  Pool!SetHostState(h, s)
  BY <1>2 DEF SetHostState, HostErr, Pool!SetHostState
<1>3. ASSUME NEW h \in Host, RemoveHost(h)
      PROVE  Pool!RemoveHost(h)
  BY <1>3 DEF RemoveHost, HostErr, Pool!RemoveHost
<1>4. ASSUME NEW v \in VM, Release(v)
      PROVE  Pool!Release(v)
  BY <1>4 DEF Release, ReleaseErr, Pool!Release
<1>5. ASSUME UNCHANGED vars
      PROVE  UNCHANGED Pool!vars
  BY <1>5 DEF vars, Pool!vars
<1> QED BY <1>1, <1>2, <1>3, <1>4, <1>5, PlaceRefines DEF Next, Pool!Next, States

\* The scheduler implements the slot pool: counters, buckets and maxCap only speed
\* up what counting the assignments would give.
THEOREM SchedulerImplementsSlotPool == Spec => ImplementsSlotPool
<1>1. Init => Pool!Init
  BY DEF Init, Pool!Init
<1>2. IInv /\ [Next]_vars => [Pool!Next]_(Pool!vars)
  BY SchedulerStepRefines
<1> QED BY <1>1, <1>2, SchedulerInductive, PTL DEF Spec, ImplementsSlotPool, Pool!Spec
-----------------------------------------------------------------------------
(* Sums over finite sets. *)

\* Induction over the natural numbers, for a set of them.
LEMMA NatSetInduction ==
  ASSUME NEW N \in SUBSET Nat, 0 \in N, \A n \in N : n + 1 \in N
  PROVE  \A n \in Nat : n \in N
<1> SUFFICES ASSUME Nat \ N # {} PROVE FALSE
  OBVIOUS
<1>1. PICK m \in Nat \ N : \A n \in Nat \ N : m <= n
  BY LeastElement
<1>2. m # 0 /\ m - 1 \in Nat
  OBVIOUS
<1>3. m - 1 \in N
  BY <1>1, <1>2
<1>4. m = (m - 1) + 1
  OBVIOUS
<1> QED BY <1>3, <1>4

\* The element the folds of the library take next.
pick(s) == CHOOSE x \in s : TRUE

\* Induction over the subsets of a finite set, in the order in which a fold takes its
\* elements.
LEMMA PickInduction ==
  ASSUME NEW S, IsFiniteSet(S), NEW P \in SUBSET SUBSET S, {} \in P,
         \A s \in SUBSET S : s # {} /\ s \ {pick(s)} \in P => s \in P
  PROVE  \A s \in SUBSET S : s \in P
<1> DEFINE N == {n \in Nat : \A s \in SUBSET S : Cardinality(s) = n => s \in P}
<1>1. \A s \in SUBSET S : IsFiniteSet(s) /\ Cardinality(s) \in Nat
  BY FS_Subset, FS_CardinalityType
<1>2. 0 \in N
  BY <1>1, FS_EmptySet
<1>3. ASSUME NEW n \in N PROVE n + 1 \in N
  <2>1. ASSUME NEW s \in SUBSET S, Cardinality(s) = n + 1 PROVE s \in P
    <3>1. s # {}
      BY <2>1, FS_EmptySet
    <3>2. pick(s) \in s
      BY <3>1 DEF pick
    <3>3. Cardinality(s \ {pick(s)}) = n
      BY <1>1, <2>1, <3>2, FS_RemoveElement
    <3>4. s \ {pick(s)} \in P
      BY <3>3
    <3> QED BY <3>1, <3>4
  <2> QED BY <2>1
<1>4. \A n \in Nat : n \in N
  <2>1. N \in SUBSET Nat
    OBVIOUS
  <2> HIDE DEF N
  <2> QED BY <1>2, <1>3, <2>1, NatSetInduction
<1> QED BY <1>1, <1>4

\* The sum of f over S, and what it is for g to be the library's fold.
Sum(f, S) == SumFunctionOnSet(f, S)
Folds(f, S, g) ==
  g = [s \in SUBSET S |-> IF s = {} THEN 0 ELSE f[pick(s)] + g[s \ {pick(s)}]]

\* The library's sum is the last value of such a fold.
LEMMA SumIsFold == ASSUME NEW f, NEW S PROVE Sum(f, S) = (CHOOSE g : Folds(f, S, g))[S]
BY DEF Sum, SumFunctionOnSet, FoldFunctionOnSet, MapThenFoldSet, Folds, pick

\* There is a fold: at each number of elements it is defined by what it is at one less.
LEMMA FoldExists ==
  ASSUME NEW S, IsFiniteSet(S), NEW f, \A x \in S : f[x] \in Int
  PROVE  \E g \in [SUBSET S -> Int] : Folds(f, S, g)
<1> DEFINE next(g) == [s \in SUBSET S |-> IF s = {} THEN 0 ELSE f[pick(s)] + g[s \ {pick(s)}]]
           N == {n \in Nat : \E g \in [SUBSET S -> Int] :
                               \A s \in SUBSET S : Cardinality(s) <= n => g[s] = next(g)[s]}
<1>1. \A s \in SUBSET S : IsFiniteSet(s) /\ Cardinality(s) \in Nat
  BY FS_Subset, FS_CardinalityType
<1>2. \A s \in SUBSET S : s # {} => pick(s) \in s /\ f[pick(s)] \in Int
  BY DEF pick
<1>3. \A g \in [SUBSET S -> Int] : next(g) \in [SUBSET S -> Int]
  BY <1>2
<1>4. 0 \in N
  <2> DEFINE g == [s \in SUBSET S |-> 0]
  <2>1. ASSUME NEW s \in SUBSET S, Cardinality(s) <= 0 PROVE g[s] = next(g)[s]
    <3>1. s = {}
      BY <1>1, <2>1, FS_EmptySet
    <3> QED BY <3>1
  <2>2. g \in [SUBSET S -> Int]
    OBVIOUS
  <2> HIDE DEF g
  <2> QED BY <2>1, <2>2
<1>5. ASSUME NEW n \in N PROVE n + 1 \in N
  <2>1. PICK g \in [SUBSET S -> Int] :
          \A s \in SUBSET S : Cardinality(s) <= n => g[s] = next(g)[s]
    OBVIOUS
  <2>2. ASSUME NEW s \in SUBSET S, Cardinality(s) <= n + 1 PROVE next(g)[s] = next(next(g))[s]
    <3>1. CASE s = {}
      BY <3>1
    <3>2. CASE s # {}
      <4>1. pick(s) \in s
        BY <1>2, <3>2
      <4>2. Cardinality(s \ {pick(s)}) = Cardinality(s) - 1 /\ s \ {pick(s)} \in SUBSET S
        BY <1>1, <4>1, FS_RemoveElement
      <4>3. Cardinality(s \ {pick(s)}) <= n
        BY <1>1, <2>2, <4>2
      <4>4. g[s \ {pick(s)}] = next(g)[s \ {pick(s)}]
        BY <2>1, <4>2, <4>3
      <4>5. next(g)[s] = f[pick(s)] + g[s \ {pick(s)}]
        BY <3>2
      <4>6. next(next(g))[s] = f[pick(s)] + next(g)[s \ {pick(s)}]
        BY <3>2
      <4> HIDE DEF next
      <4> QED BY <4>4, <4>5, <4>6
    <3> QED BY <3>1, <3>2
  <2>3. n + 1 \in Nat
    OBVIOUS
  <2>4. PICK h : h = next(g)
    OBVIOUS
  <2>5. h \in [SUBSET S -> Int]
    BY <1>3, <2>4
  <2>6. \A s \in SUBSET S : Cardinality(s) <= n + 1 => h[s] = next(h)[s]
    <3> HIDE DEF next
    <3> QED BY <2>2, <2>4
  <2> HIDE DEF next
  <2> QED BY <2>3, <2>5, <2>6
<1>6. Cardinality(S) \in N
  <2>1. N \in SUBSET Nat /\ Cardinality(S) \in Nat
    BY FS_CardinalityType
  <2> HIDE DEF N
  <2> QED BY <1>4, <1>5, <2>1, NatSetInduction
<1>7. PICK g \in [SUBSET S -> Int] :
        \A s \in SUBSET S : Cardinality(s) <= Cardinality(S) => g[s] = next(g)[s]
  BY <1>6
<1>8. \A s \in SUBSET S : g[s] = next(g)[s]
  <2> HIDE DEF next
  <2> QED BY <1>7, FS_Subset
<1>9. g = next(g)
  BY <1>3, <1>8
<1> QED BY <1>9 DEF Folds

\* There is only one, whatever larger set it is part of.
LEMMA FoldsAgree ==
  ASSUME NEW S, NEW T \in SUBSET S, IsFiniteSet(S), NEW f, NEW e, \A x \in T : f[x] = e[x],
         NEW g, NEW h, Folds(f, S, g), Folds(e, T, h)
  PROVE  g[T] = h[T]
<1> DEFINE P == {s \in SUBSET T : g[s] = h[s]}
<1>1. {} \in P
  BY DEF Folds
<1>2. ASSUME NEW s \in SUBSET T, s # {}, s \ {pick(s)} \in P PROVE s \in P
  <2>1. pick(s) \in s
    BY <1>2 DEF pick
  <2>2. g[s] = f[pick(s)] + g[s \ {pick(s)}]
    BY <1>2 DEF Folds
  <2>3. h[s] = e[pick(s)] + h[s \ {pick(s)}]
    BY <1>2 DEF Folds
  <2> QED BY <1>2, <2>1, <2>2, <2>3
<1>3. IsFiniteSet(T) /\ P \in SUBSET SUBSET T
  BY FS_Subset
<1>4. T \in P
  <2> HIDE DEF P
  <2> QED BY <1>1, <1>2, <1>3, PickInduction
<1> QED BY <1>4

\* A sum over a finite set is an integer, zero for the empty set, and otherwise what
\* one element adds to the sum over the others.
LEMMA SumFacts ==
  ASSUME NEW S, IsFiniteSet(S), NEW f, \A x \in S : f[x] \in Int
  PROVE  /\ Sum(f, S) \in Int
         /\ Sum(f, {}) = 0
         /\ S # {} => Sum(f, S) = f[pick(S)] + Sum(f, S \ {pick(S)})
<1>1. PICK g \in [SUBSET S -> Int] : Folds(f, S, g)
  BY FoldExists
<1>2. ASSUME NEW T \in SUBSET S PROVE Sum(f, T) = g[T]
  <2> DEFINE h == CHOOSE h : Folds(f, T, h)
  <2>1. IsFiniteSet(T)
    BY FS_Subset
  <2>2. \E k : Folds(f, T, k)
    BY <2>1, FoldExists
  <2>3. Folds(f, T, h)
    BY <2>2
  <2> HIDE DEF h
  <2>4. g[T] = h[T]
    BY <1>1, <2>3, FoldsAgree
  <2> QED BY <2>4, SumIsFold DEF h
<1>3. g[{}] = 0 /\ (S # {} => g[S] = f[pick(S)] + g[S \ {pick(S)}])
  BY <1>1 DEF Folds
<1> QED BY <1>2, <1>3

\* The used counters of a finite set of hosts add up to the microVMs on them.
LEMMA UsedAddsUp ==
  ASSUME TypeOK, SlotAccounting, NEW S \in SUBSET Host, IsFiniteSet(S)
  PROVE  Sum(used, S) = Cardinality({v \in VM : assigned[v] \in S})
<1> DEFINE on(s) == {v \in VM : assigned[v] \in s}
           P == {s \in SUBSET S : IsFiniteSet(on(s)) /\ Sum(used, s) = Cardinality(on(s))}
<1>1. \A s \in SUBSET S : IsFiniteSet(s) /\ \A h \in s : used[h] \in Int
  BY FS_Subset DEF TypeOK
<1>2. {} \in P
  <2>1. on({}) = {}
    OBVIOUS
  <2>2. Sum(used, {}) = 0
    BY <1>1, SumFacts
  <2> HIDE DEF on
  <2> QED BY <2>1, <2>2, FS_EmptySet
<1>3. ASSUME NEW s \in SUBSET S, s # {}, s \ {pick(s)} \in P PROVE s \in P
  <2>1. PICK h \in s : h = pick(s)
    BY <1>3 DEF pick
  <2>2. Sum(used, s) = used[h] + Sum(used, s \ {h})
    BY <1>1, <1>3, <2>1, SumFacts
  <2>3. IsFiniteSet(VMsOn(h)) /\ used[h] = Cardinality(VMsOn(h))
    BY DEF SlotAccounting
  <2>4. IsFiniteSet(on(s \ {h})) /\ Sum(used, s \ {h}) = Cardinality(on(s \ {h}))
    BY <1>3, <2>1
  <2>5. on(s) = VMsOn(h) \cup on(s \ {h}) /\ VMsOn(h) \cap on(s \ {h}) = {}
    BY DEF VMsOn
  <2>6. IsFiniteSet(on(s)) /\ Cardinality(on(s)) = Cardinality(VMsOn(h)) + Cardinality(on(s \ {h}))
    <3>1. PICK A, B : A = VMsOn(h) /\ B = on(s \ {h})
      OBVIOUS
    <3> HIDE DEF on
    <3>2. IsFiniteSet(A) /\ IsFiniteSet(B) /\ on(s) = A \cup B /\ A \cap B = {}
      BY <2>3, <2>4, <2>5, <3>1
    <3>3. Cardinality(A) \in Nat /\ Cardinality(B) \in Nat /\ Cardinality({}) = 0
      BY <3>2, FS_CardinalityType, FS_EmptySet
    <3>4. /\ IsFiniteSet(A \cup B)
          /\ Cardinality(A \cup B) = Cardinality(A) + Cardinality(B) - Cardinality({})
      BY <3>2, FS_Union
    <3> QED BY <3>1, <3>2, <3>3, <3>4
  <2> HIDE DEF on
  <2> QED BY <2>2, <2>3, <2>4, <2>6
<1>4. P \in SUBSET SUBSET S
  OBVIOUS
<1>5. S \in P
  <2> HIDE DEF P
  <2> QED BY <1>2, <1>3, <1>4, PickInduction
<1> QED BY <1>5

\* Only AddHost adds a host, and it adds one.
LEMMA KnownFinite == Spec => []IsFiniteSet(Known)
<1>1. Init => IsFiniteSet(Known)
  <2>1. Init => Known = {}
    BY DEF Init, Known
  <2> QED BY <2>1, FS_EmptySet
<1>2. IsFiniteSet(Known) /\ TypeOK /\ [Next]_vars => IsFiniteSet(Known)'
  <2> SUFFICES ASSUME IsFiniteSet(Known), TypeOK, [Next]_vars PROVE IsFiniteSet(Known')
    OBVIOUS
  <2>1. ASSUME NEW h \in Host, NEW c \in Capacities, AddHost(h, c) PROVE IsFiniteSet(Known')
    <3>1. Known' = Known \cup {h}
      BY <2>1 DEF AddHost, Known, TypeOK
    <3> QED BY <3>1, FS_AddElement
  <2>2. CASE Known' \subseteq Known
    BY <2>2, FS_Subset
  <2>3. ASSUME ~ \E h \in Host, c \in Capacities : AddHost(h, c) PROVE Known' \subseteq Known
    BY <2>3 DEF Next, SetHostState, HostErr, RemoveHost, Place, Release, vars, Known, TypeOK
  <2> QED BY <2>1, <2>2, <2>3
<1>3. IInv => TypeOK
  BY DEF IInv
<1> QED BY <1>1, <1>2, <1>3, SchedulerInductive, PTL DEF Spec

\* Stats counts occupied slots twice, over the hosts and over the assignments, and the
\* two always agree, whatever hosts were drained, or removed with microVMs on them.
THEOREM StatsAgree == Spec => []UsedIsInflight
<1>1. IInv /\ IsFiniteSet(Known) => UsedIsInflight
  <2> SUFFICES ASSUME IInv, IsFiniteSet(Known) PROVE UsedIsInflight
    OBVIOUS
  <2>1. {v \in VM : assigned[v] \in Known} = {v \in VM : assigned[v] # NoHost}
    BY SchedulerAssumption DEF IInv, SlotAccounting, Known
  <2>2. Sum(used, Known) = Cardinality({v \in VM : assigned[v] \in Known})
    BY UsedAddsUp DEF IInv, Known
  <2>3. SlotsUsed(Known) = Sum(used, Known)
    BY DEF SlotsUsed, Sum
  <2> QED BY <2>1, <2>2, <2>3 DEF UsedIsInflight, Stats
<1> QED BY <1>1, SchedulerInductive, KnownFinite, PTL
=============================================================================
