--------------------------- MODULE ScalingProofs ---------------------------
(***************************************************************************)
(* Proofs about the two halves of scaling.  Fleet, for any number of hosts  *)
(* and microVMs, any capacity and any wishes of the autoscaler: scaling     *)
(* down orphans nothing, a drain is final, and draining and starting stop   *)
(* at the desired count.  Autoscaler, for any configuration that Validate   *)
(* accepts and any observations: its slope is least squares, it provides    *)
(* for the load and for a ramp, and it does not ratchet down.               *)
(***************************************************************************)
EXTENDS Fleet, Autoscaler, FiniteSetTheorems, TLAPS

SP == INSTANCE SchedulerProofs WITH Capacities <- {slotsPerHost}, Policy <- "BestFit"

Types ==
  /\ next \in Nat /\ desired \in Nat
  /\ draining \subseteq Host /\ todo \subseteq Host /\ cur \in Host \cup {NoHost}
  /\ starting \in [Host -> {"no", "timer", "set", "done"}]

\* Hosts are numbered once, and serve or drain only after their start timer is done;
\* a host in the draining set, or about to enter it, drains or is gone.
HostInv ==
  /\ \A h \in Host : h >= next => starting[h] = "no"
  /\ \A h \in Host : hostState[h] \in {"Ready", "Draining"} => starting[h] = "done"
  /\ \A h \in draining : hostState[h] \in {"Draining", "Absent"} /\ starting[h] = "done"
  /\ cur # NoHost => hostState[cur] \in {"Draining", "Absent"} /\ starting[cur] = "done"

\* A host that the snapshot has without microVMs still has none: it drains, so none
\* came after the snapshot.
ReapInv ==
  rpc \in {"reap", "reapAgain"} =>
    /\ todo \subseteq draining
    /\ \A h \in todo : h \in DOMAIN snap => snap[h] \in Nat /\ (snap[h] = 0 => used[h] = 0)

\* The hosts reconcile counts.
Live == {h \in S!Known : hostState[h] # "Draining"}

\* The hosts drainHosts has yet to drain serve, and without them there are still as
\* many as desired.
DrainInv ==
  rpc = "drain" =>
    /\ \A h \in todo : hostState[h] = "Ready"
    /\ Cardinality(Live) >= desired + Cardinality(todo)

\* None of the three properties is inductive: what reconcile read in an earlier step
\* is still true enough when it acts on it.
IInv == Types /\ HostInv /\ ReapInv /\ DrainInv
-----------------------------------------------------------------------------
\* There are finitely many hosts, so sets of them can be counted.
LEMMA HostsFinite ==
  ASSUME NEW T \in SUBSET Host
  PROVE  IsFiniteSet(T) /\ Cardinality(T) \in Nat
<1>1. IsFiniteSet(Host)
  BY FS_Interval, FleetAssumption DEF Host
<1>2. IsFiniteSet(T)
  BY <1>1, FS_Subset
<1> QED BY <1>2, FS_CardinalityType

\* drainHosts picks ready hosts, and no more than it is told to: each has a rank below
\* n, and no two have the same.
LEMMA DrainsAtMost ==
  ASSUME used \in [Host -> Nat], NEW live \in SUBSET Host, NEW n \in Nat
  PROVE  /\ \A h \in ToDrain(live, n) : h \in live /\ hostState[h] = "Ready"
         /\ Cardinality(ToDrain(live, n)) <= n
<1> DEFINE ready == {h \in live : hostState[h] = "Ready"}
           below(h) == {g \in ready : Before(g, h)}
           T == {h \in ready : Cardinality(below(h)) < n}
           rank == [h \in T |-> Cardinality(below(h))]
<1>1. ToDrain(live, n) = T
  BY DEF ToDrain
<1>2. ASSUME NEW h \in Host PROVE IsFiniteSet(below(h)) /\ Cardinality(below(h)) \in Nat
  BY HostsFinite
<1>3. ASSUME NEW g \in T, NEW h \in T, Before(g, h)
      PROVE  Cardinality(below(g)) # Cardinality(below(h))
  <2>1. \A x \in ready : x \in Host /\ x \in Int /\ used[x] \in Nat
    BY FleetAssumption DEF Host
  <2>2. below(g) \subseteq below(h)
    BY <1>3, <2>1 DEF Before
  <2>3. g \in below(h) /\ g \notin below(g)
    BY <1>3, <2>1 DEF Before
  <2> HIDE DEF below
  <2> QED BY <1>2, <2>1, <2>2, <2>3, FS_Subset
<1>4. ASSUME NEW g \in T, NEW h \in T, g # h PROVE Before(g, h) \/ Before(h, g)
  <2>1. \A x \in T : x \in Int /\ used[x] \in Nat
    BY FleetAssumption DEF Host
  <2> QED BY <1>4, <2>1 DEF Before
<1>5. rank \in Injection(T, 0 .. n - 1)
  <2>1. ASSUME NEW h \in T PROVE Cardinality(below(h)) \in 0 .. n - 1
    <3>1. Cardinality(below(h)) \in Nat /\ Cardinality(below(h)) < n
      BY <1>2
    <3> HIDE DEF below
    <3> QED BY <3>1
  <2>2. ASSUME NEW g \in T, NEW h \in T, rank[g] = rank[h] PROVE g = h
    BY <1>3, <1>4, <2>2
  <2>3. rank \in [T -> 0 .. n - 1]
    BY <2>1
  <2> HIDE DEF rank, T
  <2> QED BY <2>2, <2>3 DEF Injection, IsInjective
<1>6. IsFiniteSet(0 .. n - 1) /\ Cardinality(0 .. n - 1) = n
  BY FS_Interval
<1>7. Cardinality(T) <= n
  <2> HIDE DEF T, rank
  <2> QED BY <1>5, <1>6, FS_Injection
<1> QED BY <1>1, <1>7
-----------------------------------------------------------------------------
\* Every step of the fleet is a method of the scheduler, or none.
LEMMA StepsAreMethods ==
  ASSUME Types, [Next]_vars
  PROVE  [S!Next]_sched
<1> USE DEF S!Next
<1>1. CASE step \/ Compare \/ drainHostsRecords \/ drainHostsReaps \/ reconcileEnds
  BY <1>1 DEF step, reconcile, Compare, drainHostsRecords, drainHostsReaps, reconcileEnds
<1>2. CASE startHosts
  <2>1. next < MaxHosts => next \in Host
    BY FleetAssumption DEF Types, Host
  <2> QED BY <1>2, <2>1 DEF startHosts
<1>3. ASSUME NEW h \in Host, reapDrained(h) \/ drainHosts(h) \/ markReadyChecks(h) \/ markReadySets(h)
      PROVE  [S!Next]_sched
  BY <1>3 DEF reapDrained, drainHosts, markReadyChecks, markReadySets, S!States
<1>4. ASSUME NEW v \in VM, Place(v) \/ Release(v) PROVE [S!Next]_sched
  BY <1>4 DEF Place, Release
<1>5. CASE UNCHANGED vars
  BY <1>5 DEF vars
<1> QED BY <1>1, <1>2, <1>3, <1>4, <1>5 DEF Next, Reconciler

\* Types, by themselves.
LEMMA TypesInvariant == Spec => []Types
<1>1. Init => Types
  BY FleetAssumption DEF Init, Types
<1>2. Types /\ [Next]_vars => Types'
  <2> SUFFICES ASSUME Types, [Next]_vars PROVE Types'
    OBVIOUS
  <2>1. CASE step
    BY <2>1, FleetAssumption DEF step, reconcile, Types
  <2>2. CASE Compare
    <3>1. \A n : \A live \in SUBSET Host : ToDrain(live, n) \subseteq Host
      BY DEF ToDrain
    <3>2. todo' \subseteq Host
      BY <2>2, <3>1 DEF Compare, Types, S!Known
    <3> QED BY <2>2, <3>2 DEF Compare, Types
  <2>3. CASE startHosts
    BY <2>3 DEF startHosts, Types
  <2>4. CASE drainHostsRecords \/ drainHostsReaps \/ reconcileEnds
    BY <2>4 DEF drainHostsRecords, drainHostsReaps, reconcileEnds, Types
  <2>5. ASSUME NEW h \in Host, reapDrained(h) \/ drainHosts(h) PROVE Types'
    BY <2>5 DEF reapDrained, drainHosts, Types
  <2>6. ASSUME NEW h \in Host, markReadyChecks(h) \/ markReadySets(h) PROVE Types'
    BY <2>6 DEF markReadyChecks, markReadySets, recon, Types
  <2>7. ASSUME NEW v \in VM, Place(v) \/ Release(v) PROVE Types'
    BY <2>7 DEF Place, Release, recon, Types
  <2>8. CASE UNCHANGED vars
    BY <2>8 DEF vars, recon, Types
  <2> QED BY <2>1, <2>2, <2>3, <2>4, <2>5, <2>6, <2>7, <2>8 DEF Next, Reconciler
<1> QED BY <1>1, <1>2, PTL DEF Spec

\* The reconciler, the start timers and the traffic use the scheduler as its
\* specification allows, however their calls interleave.
THEOREM FleetImplementsScheduler == Spec => S!Spec
<1>1. Init => S!Init
  BY DEF Init
<1>2. Types /\ [Next]_vars => [S!Next]_(S!vars)
  BY StepsAreMethods DEF sched, S!vars
<1> QED BY <1>1, <1>2, TypesInvariant, PTL DEF Spec, S!Spec

\* So what is proved of the scheduler holds of the one the fleet drives.
LEMMA SchedulerInvariant == Spec => []SP!IInv
<1>1. S!Init => SP!Init
  BY DEF S!Init, SP!Init
<1>2. [S!Next]_(S!vars) => [SP!Next]_(SP!vars)
  BY DEF S!Next, SP!Next, S!vars, SP!vars, S!AddHost, SP!AddHost, S!AddHostErr,
         SP!AddHostErr, S!MinSlotsPerHost, SP!MinSlotsPerHost, S!growBuckets, SP!growBuckets,
         S!SetHostState, SP!SetHostState, S!HostErr, SP!HostErr, S!free, SP!free,
         S!States, SP!States, S!RemoveHost, SP!RemoveHost, S!Place, SP!Place, S!PlaceErr,
         SP!PlaceErr, S!selectHost, SP!selectHost, S!Release, SP!Release, S!ReleaseErr,
         SP!ReleaseErr
<1>3. SP!SchedulerAssumption
  BY FleetAssumption DEF SP!SchedulerAssumption
<1>4. SP!Init => SP!IInv
  BY <1>3, SP!SchedulerInit
<1>5. SP!IInv /\ [SP!Next]_(SP!vars) => SP!IInv'
  BY <1>3, SP!SchedulerStep
<1> QED BY <1>1, <1>2, <1>4, <1>5, FleetImplementsScheduler, PTL DEF S!Spec
-----------------------------------------------------------------------------
(* Each action keeps the invariant; SP!IInv gives the types of the scheduler. *)

\* What is needed of the scheduler's invariant.
SchedTypes == hostState \in [Host -> {"Absent", "Pending", "Ready", "Draining"}]
              /\ used \in [Host -> Nat]

\* It gives them.
LEMMA SchedulerTypes == SP!IInv => SchedTypes
BY DEF SP!IInv, SP!TypeOK, SP!States, SchedTypes

\* Traffic takes slots of ready hosts only, and changes no host's state.
LEMMA TrafficPreserves ==
  ASSUME SP!IInv, SP!IInv', IInv, NEW v \in VM, Place(v) \/ Release(v)
  PROVE  IInv' /\ UNCHANGED <<hostState, desired>>
<1>1. SchedTypes /\ SchedTypes'
  <2>1. SP!IInv' => SchedTypes'
    BY SchedulerTypes, PTL
  <2> QED BY <2>1, SchedulerTypes
<1>2. UNCHANGED <<hostState, next, draining, starting, desired, rpc, snap, todo, cur>>
  BY DEF Place, Release, S!Place, S!Release, recon
<1>3. \A h \in Host : hostState[h] # "Ready" => used'[h] <= used[h]
  <2>1. CASE Place(v)
    <3>1. PICK g \in Host : S!Place(v, g)
      BY <2>1 DEF Place
    <3>2. hostState[g] = "Ready"
      <4>1. g \in SP!selectHost
        BY <3>1 DEF S!Place, S!selectHost, SP!selectHost
      <4> QED BY <4>1, SP!SelectHostSound, FleetAssumption DEF SP!SchedulerAssumption
    <3> QED BY <1>1, <3>1, <3>2 DEF S!Place, SchedTypes
  <2>2. CASE Release(v)
    BY <1>1, <2>2 DEF Release, S!Release, SchedTypes
  <2> QED BY <2>1, <2>2
<1>4. Types' /\ HostInv'
  BY <1>2 DEF IInv, Types, HostInv
<1>5. ReapInv'
  <2>1. ASSUME NEW h \in draining, used[h] = 0 PROVE used'[h] = 0
    BY <1>1, <1>3, <2>1 DEF SchedTypes, IInv, Types, HostInv
  <2> QED BY <1>2, <2>1 DEF IInv, ReapInv
<1>6. Live' = Live
  BY <1>2 DEF Live, S!Known
<1>7. DrainInv'
  BY <1>2, <1>6 DEF IInv, DrainInv
<1> QED BY <1>2, <1>4, <1>5, <1>7 DEF IInv

\* What the three action properties ask of a step.
OrphansNothing == \A h \in Host : h \in S!Known /\ hostState'[h] = "Absent" => used[h] = 0
StaysDrained   == \A h \in Host : hostState[h] = "Draining" => hostState'[h] # "Ready"
StopsAtDesired == Cardinality(InState("Ready")') < Cardinality(InState("Ready")) =>
                    Cardinality((InState("Ready") \cup InState("Pending"))') >= desired
Good == OrphansNothing /\ StaysDrained /\ StopsAtDesired

\* A step that drains and removes no serving host asks nothing of the counts.
LEMMA NoneLeaves ==
  ASSUME SchedTypes', InState("Ready") \subseteq InState("Ready")'
  PROVE  StopsAtDesired
<1>1. IsFiniteSet(InState("Ready")') /\ Cardinality(InState("Ready")') \in Nat
  BY HostsFinite DEF InState
<1>2. Cardinality(InState("Ready")) <= Cardinality(InState("Ready")')
      /\ Cardinality(InState("Ready")) \in Nat
  BY <1>1, FS_Subset, HostsFinite DEF InState
<1> QED BY <1>1, <1>2 DEF StopsAtDesired

\* The steps of the reconciler between its calls of the scheduler: the snapshots are
\* exact when they are taken.
LEMMA ReconcilerPreserves ==
  ASSUME SchedTypes, IInv,
         step \/ Compare \/ drainHostsRecords \/ drainHostsReaps \/ reconcileEnds
  PROVE  IInv' /\ UNCHANGED sched
<1>1. UNCHANGED <<sched, next, starting>> /\ UNCHANGED <<hostState, used>>
  BY DEF step, reconcile, Compare, drainHostsRecords, drainHostsReaps, reconcileEnds, sched
<1>2. Live' = Live /\ Live \subseteq Host
  BY <1>1 DEF Live, S!Known
<1>3. CASE step
  <2>1. /\ desired' \in Nat /\ rpc' = "reap" /\ todo' = draining
        /\ snap' = [h \in S!Known |-> used[h]] /\ UNCHANGED <<draining, cur>>
    BY <1>3, FleetAssumption DEF step, reconcile, Snapshot
  <2> QED BY <1>1, <2>1 DEF IInv, Types, HostInv, ReapInv, DrainInv, SchedTypes, S!Known
<1>4. CASE drainHostsReaps
  <2>1. /\ rpc' = "reapAgain" /\ todo' = draining
        /\ snap' = [h \in S!Known |-> used[h]] /\ UNCHANGED <<draining, cur, desired>>
    BY <1>4 DEF drainHostsReaps, Snapshot
  <2> QED BY <1>1, <2>1 DEF IInv, Types, HostInv, ReapInv, DrainInv, SchedTypes, S!Known
<1>5. CASE drainHostsRecords
  <2>1. /\ rpc = "drain" /\ draining' = draining \cup {cur} /\ cur' = NoHost /\ cur # NoHost
        /\ UNCHANGED <<desired, rpc, todo>>
    BY <1>5 DEF drainHostsRecords
  <2> QED BY <1>1, <1>2, <2>1 DEF IInv, Types, HostInv, ReapInv, DrainInv
<1>6. CASE reconcileEnds
  BY <1>1, <1>6 DEF reconcileEnds, IInv, Types, HostInv, ReapInv, DrainInv
<1>7. CASE Compare
  <2> DEFINE n == Cardinality(Live)
  <2>1. n \in Nat /\ desired \in Nat
    BY <1>2, HostsFinite DEF IInv, Types
  <2>2. UNCHANGED <<draining, cur, desired>> /\ rpc = "reap" /\ todo = {}
    BY <1>7 DEF Compare
  <2>3. CASE n > desired
    <3>1. rpc' = "drain" /\ todo' = ToDrain(Live, n - desired)
      BY <1>7, <2>1, <2>3 DEF Compare, Live
    <3>2. n - desired \in Nat /\ n = desired + (n - desired)
      BY <2>1, <2>3
    <3>3. /\ \A h \in todo' : h \in Live /\ hostState[h] = "Ready"
          /\ Cardinality(todo') <= n - desired
      BY <1>2, <3>1, <3>2, DrainsAtMost DEF SchedTypes
    <3>4. todo' \subseteq Host /\ Cardinality(todo') \in Nat
      BY <1>2, <3>3, HostsFinite
    <3>5. n >= desired + Cardinality(todo')
      <4> HIDE DEF n
      <4> QED BY <2>1, <3>3, <3>4
    <3>6. DrainInv'
      BY <1>1, <1>2, <2>2, <3>3, <3>5 DEF DrainInv
    <3> QED BY <1>1, <2>2, <3>1, <3>4, <3>6 DEF IInv, Types, HostInv, ReapInv
  <2>4. CASE ~(n > desired)
    <3>1. rpc' \in {"start", "idle"} /\ UNCHANGED todo
      BY <1>7, <2>4 DEF Compare, Live
    <3> QED BY <1>1, <2>2, <3>1 DEF IInv, Types, HostInv, ReapInv, DrainInv
  <2> QED BY <2>3, <2>4
<1> QED BY <1>1, <1>3, <1>4, <1>5, <1>6, <1>7

\* A host that starts has a number nobody had.
LEMMA StartHostsPreserves ==
  ASSUME SchedTypes, SchedTypes', IInv, startHosts
  PROVE  IInv' /\ Good
<1>1. rpc = "start" /\ rpc' \in {"start", "idle"} /\ UNCHANGED <<draining, desired, snap, todo, cur>>
  BY DEF startHosts
<1>2. CASE UNCHANGED <<sched, next, starting>>
  <2>1. UNCHANGED <<hostState, used>>
    BY <1>2 DEF sched
  <2>2. IInv'
    BY <1>1, <1>2, <2>1 DEF IInv, Types, HostInv, ReapInv, DrainInv
  <2>3. StopsAtDesired
    BY <2>1, NoneLeaves DEF InState
  <2> QED BY <2>1, <2>2, <2>3 DEF Good, OrphansNothing, StaysDrained, S!Known
<1>3. CASE ~UNCHANGED <<sched, next, starting>>
  <2>1. /\ next \in Host /\ next' = next + 1 /\ hostState[next] = "Absent"
        /\ hostState' = [hostState EXCEPT ![next] = "Pending"]
        /\ starting' = [starting EXCEPT ![next] = "timer"]
    BY <1>3, FleetAssumption DEF startHosts, S!AddHost, S!AddHostErr, IInv, Types, Host
  <2>2. starting[next] = "no"
    BY <2>1 DEF IInv, HostInv, Types
  <2>3. \A h \in Host : h \in Int
    BY FleetAssumption DEF Host
  <2>4. Types'
    BY <1>1, <2>1 DEF IInv, Types
  <2>5. HostInv'
    BY <1>1, <2>1, <2>2, <2>3 DEF IInv, HostInv, Types, SchedTypes
  <2>6. ReapInv' /\ DrainInv'
    BY <1>1 DEF ReapInv, DrainInv
  <2>7. StopsAtDesired
    BY <2>1, NoneLeaves DEF InState, SchedTypes
  <2>8. OrphansNothing /\ StaysDrained
    BY <2>1 DEF OrphansNothing, StaysDrained, S!Known, SchedTypes
  <2> QED BY <2>4, <2>5, <2>6, <2>7, <2>8 DEF IInv, Good
<1> QED BY <1>2, <1>3

\* A draining host goes only when the snapshot has it empty, and then it is empty.
LEMMA ReapDrainedPreserves ==
  ASSUME SchedTypes, SchedTypes', IInv, NEW h \in Host, reapDrained(h)
  PROVE  IInv' /\ Good
<1>1. /\ rpc \in {"reap", "reapAgain"} /\ h \in todo /\ todo' = todo \ {h}
      /\ UNCHANGED <<next, starting, desired, rpc, snap, cur>>
  BY DEF reapDrained
<1>2. h \in draining /\ hostState[h] \in {"Draining", "Absent"}
  BY <1>1 DEF IInv, ReapInv, HostInv
<1>3. CASE ~(h \in DOMAIN snap) \/ snap[h] > 0
  <2>1. /\ UNCHANGED <<hostState, used>>
        /\ draining' = draining \/ draining' = draining \ {h}
    BY <1>3 DEF reapDrained, sched
  <2>2. IInv'
    BY <1>1, <2>1 DEF IInv, Types, HostInv, ReapInv, DrainInv
  <2>3. StopsAtDesired
    BY <2>1, NoneLeaves DEF InState
  <2> QED BY <2>1, <2>2, <2>3 DEF Good, OrphansNothing, StaysDrained, S!Known
<1>4. CASE h \in DOMAIN snap /\ ~(snap[h] > 0)
  <2>1. /\ draining' = draining \ {h} /\ hostState' = [hostState EXCEPT ![h] = "Absent"]
        /\ used' = [used EXCEPT ![h] = 0]
    BY <1>4 DEF reapDrained, S!RemoveHost
  <2>2. used[h] = 0
    BY <1>1, <1>4 DEF IInv, ReapInv
  <2>3. IInv'
    BY <1>1, <2>1, <2>2 DEF IInv, Types, HostInv, ReapInv, DrainInv, SchedTypes
  <2>4. StopsAtDesired
    BY <1>2, <2>1, NoneLeaves DEF InState, SchedTypes
  <2>5. OrphansNothing /\ StaysDrained
    BY <2>1, <2>2 DEF OrphansNothing, StaysDrained, S!Known, SchedTypes
  <2> QED BY <2>3, <2>4, <2>5 DEF Good
<1> QED BY <1>3, <1>4

\* A host that drainHosts drains serves, and those left are at least as many as desired.
LEMMA DrainHostsPreserves ==
  ASSUME SchedTypes, SchedTypes', IInv, NEW h \in Host, drainHosts(h)
  PROVE  IInv' /\ Good
<1>1. /\ rpc = "drain" /\ cur = NoHost /\ h \in todo /\ todo' = todo \ {h}
      /\ UNCHANGED <<next, draining, starting, desired, rpc, snap>>
  BY DEF drainHosts
<1>2. hostState[h] = "Ready" /\ starting[h] = "done"
  BY <1>1 DEF IInv, DrainInv, HostInv
<1>3. cur' = h /\ hostState' = [hostState EXCEPT ![h] = "Draining"]
  BY <1>2 DEF drainHosts, S!HostErr, S!SetHostState
<1>4. Types' /\ HostInv' /\ ReapInv'
  BY <1>1, <1>2, <1>3 DEF IInv, Types, HostInv, ReapInv, SchedTypes
<1>5. /\ IsFiniteSet(Live) /\ Cardinality(Live) \in Nat
      /\ IsFiniteSet(todo) /\ Cardinality(todo) \in Nat
  BY HostsFinite DEF Live, S!Known, IInv, Types
<1>6. Live' = Live \ {h} /\ h \in Live
  BY <1>2, <1>3 DEF Live, S!Known, SchedTypes
<1>7. Cardinality(Live') = Cardinality(Live) - 1 /\ Cardinality(todo') = Cardinality(todo) - 1
  BY <1>1, <1>5, <1>6, FS_RemoveElement
<1>8. Cardinality(Live') >= desired + Cardinality(todo') /\ Cardinality(Live') >= desired
  <2>1. Cardinality(todo') \in Nat
    BY <1>1, HostsFinite DEF IInv, Types
  <2> QED BY <1>1, <1>5, <1>7, <2>1 DEF IInv, Types, DrainInv
<1>9. DrainInv'
  BY <1>1, <1>3, <1>8 DEF IInv, Types, DrainInv, SchedTypes
<1>10. (InState("Ready") \cup InState("Pending"))' = Live'
  BY DEF InState, Live, S!Known, SchedTypes
<1>11. StopsAtDesired
  BY <1>8, <1>10 DEF StopsAtDesired
<1>12. OrphansNothing /\ StaysDrained
  BY <1>3 DEF OrphansNothing, StaysDrained, S!Known, SchedTypes
<1> QED BY <1>4, <1>9, <1>11, <1>12 DEF IInv, Good

\* markReady finds its host as it was started, or gone: nobody drains it before.
LEMMA MarkReadyPreserves ==
  ASSUME SchedTypes, SchedTypes', IInv, NEW h \in Host,
         markReadyChecks(h) \/ markReadySets(h)
  PROVE  IInv' /\ Good
<1>1. UNCHANGED <<next, draining, desired, rpc, snap, todo, cur, used>>
  BY DEF markReadyChecks, markReadySets, recon, sched, S!SetHostState
<1>2. /\ starting[h] \in {"timer", "set"}
      /\ starting' = [starting EXCEPT ![h] = starting'[h]] /\ starting'[h] \in {"set", "done"}
  BY DEF markReadyChecks, markReadySets, IInv, Types
<1>3. hostState[h] \in {"Pending", "Absent"} /\ h \notin draining /\ ~(h >= next)
      /\ (cur # NoHost => cur # h)
  BY <1>2 DEF IInv, Types, HostInv, SchedTypes
<1>4. hostState' = hostState \/ (/\ hostState[h] = "Pending" /\ starting'[h] = "done"
                                 /\ hostState' = [hostState EXCEPT ![h] = "Ready"])
  BY <1>2, <1>3 DEF markReadyChecks, markReadySets, sched, S!SetHostState, S!HostErr, IInv, Types
<1>5. Types' /\ HostInv'
  BY <1>1, <1>2, <1>3, <1>4 DEF IInv, Types, HostInv, SchedTypes
<1>6. ReapInv'
  BY <1>1 DEF IInv, ReapInv
<1>7. Live' = Live
  BY <1>4 DEF Live, S!Known, SchedTypes
<1>8. DrainInv'
  BY <1>1, <1>4, <1>7 DEF IInv, Types, DrainInv, SchedTypes
<1>9. StopsAtDesired
  BY <1>4, NoneLeaves DEF InState, SchedTypes
<1>10. OrphansNothing /\ StaysDrained
  BY <1>4 DEF OrphansNothing, StaysDrained, S!Known, SchedTypes
<1> QED BY <1>5, <1>6, <1>8, <1>9, <1>10 DEF IInv, Good

\* Every step keeps the invariant and is as the properties ask.
LEMMA FleetStep ==
  ASSUME SP!IInv, SP!IInv', IInv, [Next]_vars
  PROVE  IInv' /\ Good
<1>1. SchedTypes /\ SchedTypes'
  <2>1. SP!IInv' => SchedTypes'
    BY SchedulerTypes, PTL
  <2> QED BY <2>1, SchedulerTypes
<1>2. ASSUME UNCHANGED hostState PROVE Good
  <2>1. StopsAtDesired
    BY <1>1, <1>2, NoneLeaves DEF InState
  <2> QED BY <1>2, <2>1 DEF Good, OrphansNothing, StaysDrained, S!Known
<1>3. CASE step \/ Compare \/ drainHostsRecords \/ drainHostsReaps \/ reconcileEnds
  BY <1>1, <1>2, <1>3, ReconcilerPreserves DEF sched
<1>4. CASE startHosts
  BY <1>1, <1>4, StartHostsPreserves
<1>5. ASSUME NEW h \in Host,
             reapDrained(h) \/ drainHosts(h) \/ markReadyChecks(h) \/ markReadySets(h)
      PROVE  IInv' /\ Good
  BY <1>1, <1>5, ReapDrainedPreserves, DrainHostsPreserves, MarkReadyPreserves
<1>6. ASSUME NEW v \in VM, Place(v) \/ Release(v) PROVE IInv' /\ Good
  BY <1>2, <1>6, TrafficPreserves
<1>7. CASE UNCHANGED vars
  <2>1. UNCHANGED <<hostState, used, next, draining, starting, desired, rpc, snap, todo, cur>>
    BY <1>7 DEF vars, sched, recon
  <2>2. Live' = Live
    BY <2>1 DEF Live, S!Known
  <2> QED BY <1>2, <2>1, <2>2 DEF IInv, Types, HostInv, ReapInv, DrainInv
<1> QED BY <1>3, <1>4, <1>5, <1>6, <1>7 DEF Next, Reconciler

\* The inductive invariant holds throughout.
LEMMA FleetInvariant == Spec => []IInv
<1>1. Init => IInv
  <2>1. Init => Types
    BY FleetAssumption DEF Init, Types
  <2> QED BY <2>1 DEF Init, S!Init, IInv, HostInv, ReapInv, DrainInv
<1>2. SP!IInv /\ SP!IInv' /\ IInv /\ [Next]_vars => IInv'
  BY FleetStep
<1> QED BY <1>1, <1>2, SchedulerInvariant, PTL DEF Spec

\* Scaling down never orphans a guest: a host the fleet removes holds no microVM in the
\* very state it is removed from, although Used was read in an earlier step.
THEOREM ScaleDownIsSafe == Spec => ScaleDownOrphansNothing
<1>1. SP!IInv /\ SP!IInv' /\ IInv /\ [Next]_vars => [OrphansNothing]_vars
  BY FleetStep DEF Good
<1> QED BY <1>1, FleetInvariant, SchedulerInvariant, PTL
        DEF Spec, ScaleDownOrphansNothing, OrphansNothing

\* markReady cannot bring a draining host back: only hosts whose start timer is done
\* are drained.
THEOREM DrainsAreFinal == Spec => DrainIsFinal
<1>1. SP!IInv /\ SP!IInv' /\ IInv /\ [Next]_vars => [StaysDrained]_vars
  BY FleetStep DEF Good
<1> QED BY <1>1, FleetInvariant, SchedulerInvariant, PTL DEF Spec, DrainIsFinal, StaysDrained

\* drainHosts stops in time: a step that takes a serving host out leaves at least the
\* desired number that serve or start.
THEOREM DrainsStopAtDesired == Spec => DrainsTowardsDesired
<1>1. SP!IInv /\ SP!IInv' /\ IInv /\ [Next]_vars => [StopsAtDesired]_vars
  BY FleetStep DEF Good
<1> QED BY <1>1, FleetInvariant, SchedulerInvariant, PTL
        DEF Spec, DrainsTowardsDesired, StopsAtDesired

\* startHosts adds exactly what was missing when reconcile counted: nobody else adds or
\* drains a host meanwhile, and a host that becomes ready was counted before.
StartInv ==
  rpc = "start" => toStart \in Nat /\ Cardinality(Live) + toStart = desired

\* What a step may add to the hosts that serve or start.
GrowsToDesired == Cardinality(Live') > Cardinality(Live) => Cardinality(Live') <= desired

\* Every step but one of startHosts leaves the hosts that count, or takes some out of
\* them while no start is under way.
LEMMA OnlyStartsGrow ==
  ASSUME SP!IInv, SP!IInv', IInv, [Next]_vars, ~startHosts
  PROVE  /\ Live' \subseteq Live
         /\ rpc = "start" => Live' = Live /\ UNCHANGED <<rpc, toStart, desired>>
         /\ rpc' = "start" /\ rpc # "start" =>
              toStart' = desired - Cardinality(Live) /\ Cardinality(Live) < desired
              /\ Live' = Live /\ desired' = desired
<1>1. SchedTypes /\ SchedTypes'
  <2>1. SP!IInv' => SchedTypes'
    BY SchedulerTypes, PTL
  <2> QED BY <2>1, SchedulerTypes
<1>2. ASSUME UNCHANGED hostState PROVE Live' = Live
  BY <1>2 DEF Live, S!Known
<1>3. CASE Compare
  <2>1. UNCHANGED hostState /\ rpc = "reap" /\ desired' = desired
    BY <1>3 DEF Compare, sched
  <2>2. rpc' = "start" => toStart' = desired - Cardinality(Live) /\ Cardinality(Live) < desired
    BY <1>3 DEF Compare, Live
  <2> QED BY <1>2, <2>1, <2>2
<1>4. CASE step \/ drainHostsRecords \/ drainHostsReaps \/ reconcileEnds
  <2>1. UNCHANGED hostState /\ rpc # "start" /\ rpc' # "start"
    BY <1>4 DEF step, reconcile, drainHostsRecords, drainHostsReaps, reconcileEnds, sched
  <2> QED BY <1>2, <2>1
<1>5. ASSUME NEW h \in Host, reapDrained(h)
      PROVE  Live' = Live /\ rpc # "start" /\ rpc' # "start"
  <2>1. rpc \in {"reap", "reapAgain"} /\ rpc' = rpc /\ hostState[h] \in {"Draining", "Absent"}
    BY <1>5 DEF reapDrained, IInv, ReapInv, HostInv
  <2>2. hostState' = hostState \/ hostState' = [hostState EXCEPT ![h] = "Absent"]
    BY <1>5 DEF reapDrained, S!RemoveHost, sched
  <2> QED BY <1>1, <2>1, <2>2 DEF Live, S!Known, SchedTypes
<1>6. ASSUME NEW h \in Host, drainHosts(h)
      PROVE  Live' \subseteq Live /\ rpc # "start" /\ rpc' # "start"
  <2>1. rpc = "drain" /\ rpc' = rpc
    BY <1>6 DEF drainHosts
  <2>2. hostState' = hostState \/ hostState' = [hostState EXCEPT ![h] = "Draining"]
    BY <1>6 DEF drainHosts, S!SetHostState, sched
  <2> QED BY <1>1, <2>1, <2>2 DEF Live, S!Known, SchedTypes
<1>7. ASSUME NEW h \in Host, markReadyChecks(h) \/ markReadySets(h)
      PROVE  Live' = Live /\ UNCHANGED <<rpc, toStart, desired>>
  <2>1. UNCHANGED <<rpc, toStart, desired>>
    BY <1>7 DEF markReadyChecks, markReadySets, recon
  <2>2. starting[h] \in {"timer", "set"}
    BY <1>7 DEF markReadyChecks, markReadySets
  <2>3. hostState[h] # "Draining"
    BY <2>2 DEF IInv, HostInv
  <2>4. \/ hostState' = hostState
        \/ hostState[h] # "Absent" /\ hostState' = [hostState EXCEPT ![h] = "Ready"]
    BY <1>7 DEF markReadyChecks, markReadySets, sched, S!SetHostState, S!HostErr
  <2> QED BY <1>1, <2>1, <2>3, <2>4 DEF Live, S!Known, SchedTypes
<1>8. ASSUME NEW v \in VM, Place(v) \/ Release(v)
      PROVE  Live' = Live /\ UNCHANGED <<rpc, toStart, desired>>
  <2>1. UNCHANGED <<hostState, rpc, toStart, desired>>
    BY <1>8 DEF Place, Release, S!Place, S!Release, recon
  <2> QED BY <1>2, <2>1
<1>9. CASE UNCHANGED vars
  <2>1. UNCHANGED <<hostState, rpc, toStart, desired>>
    BY <1>9 DEF vars, sched, recon
  <2> QED BY <1>2, <2>1
<1> QED BY <1>3, <1>4, <1>5, <1>6, <1>7, <1>8, <1>9 DEF Next, Reconciler

\* startHosts counts down what is missing by one for each host it adds.
LEMMA StartsCountDown ==
  ASSUME SP!IInv, SP!IInv', IInv, StartInv, startHosts
  PROVE  StartInv' /\ GrowsToDesired
<1>1. SchedTypes
  BY SchedulerTypes
<1>2. IsFiniteSet(Live) /\ Cardinality(Live) \in Nat /\ desired \in Nat /\ desired' = desired
  BY HostsFinite DEF startHosts, Live, S!Known, IInv, Types
<1>3. toStart \in Nat /\ Cardinality(Live) + toStart = desired /\ rpc = "start"
  BY DEF StartInv, startHosts
<1>4. CASE UNCHANGED sched
  <2>1. UNCHANGED hostState
    BY <1>4 DEF sched
  <2>2. Live' = Live
    BY <2>1 DEF Live, S!Known
  <2>3. rpc' = "idle"
    <3>1. ASSUME next < MaxHosts, S!AddHost(next, slotsPerHost) PROVE FALSE
      <4>1. next \in Host
        BY <3>1, FleetAssumption DEF Host, IInv, Types
      <4> QED BY <1>1, <2>1, <3>1, <4>1 DEF S!AddHost, S!AddHostErr, SchedTypes
    <3> QED BY <2>1, <3>1 DEF startHosts
  <2> QED BY <1>2, <2>2, <2>3 DEF StartInv, GrowsToDesired
<1>5. CASE ~UNCHANGED sched
  <2>1. /\ next \in Host /\ toStart > 0 /\ toStart' = toStart - 1 /\ rpc' = "start"
        /\ hostState[next] = "Absent" /\ hostState' = [hostState EXCEPT ![next] = "Pending"]
    BY <1>3, <1>5, FleetAssumption
       DEF startHosts, S!AddHost, S!AddHostErr, IInv, Types, Host
  <2>2. Live' = Live \cup {next} /\ next \notin Live
    BY <1>1, <2>1 DEF Live, S!Known, SchedTypes
  <2>3. Cardinality(Live') = Cardinality(Live) + 1
    BY <1>2, <2>2, FS_AddElement
  <2> QED BY <1>2, <1>3, <2>1, <2>3 DEF StartInv, GrowsToDesired
<1> QED BY <1>4, <1>5

\* Starting stops at the desired count, as draining does: a step that adds a host leaves
\* no more that serve or start than the autoscaler asks for, although reconcile counted
\* before it added the first of them and start timers fire meanwhile.
THEOREM StartsStopAtDesired == Spec => []StartInv /\ [][GrowsToDesired]_vars
<1>1. Init => StartInv
  BY DEF Init, StartInv
<1>2. SP!IInv /\ SP!IInv' /\ IInv /\ StartInv /\ [Next]_vars => StartInv' /\ GrowsToDesired
  <2> SUFFICES ASSUME SP!IInv, SP!IInv', IInv, StartInv, [Next]_vars
               PROVE  StartInv' /\ GrowsToDesired
    OBVIOUS
  <2>1. CASE startHosts
    BY <2>1, StartsCountDown
  <2>2. CASE ~startHosts
    <3>1. IsFiniteSet(Live) /\ Cardinality(Live) \in Nat /\ desired \in Nat
      BY HostsFinite DEF Live, S!Known, IInv, Types
    <3>2. /\ Live' \subseteq Live
          /\ rpc = "start" => Live' = Live /\ UNCHANGED <<rpc, toStart, desired>>
          /\ rpc' = "start" /\ rpc # "start" =>
               toStart' = desired - Cardinality(Live) /\ Cardinality(Live) < desired
               /\ Live' = Live /\ desired' = desired
      BY <2>2, OnlyStartsGrow
    <3>3. Cardinality(Live') <= Cardinality(Live) /\ Cardinality(Live') \in Nat
      BY <3>1, <3>2, FS_Subset, FS_CardinalityType
    <3>4. GrowsToDesired
      BY <3>1, <3>3 DEF GrowsToDesired
    <3>5. StartInv'
      BY <3>1, <3>2 DEF StartInv
    <3> QED BY <3>4, <3>5
  <2> QED BY <2>1, <2>2
<1> QED BY <1>1, <1>2, FleetInvariant, SchedulerInvariant, PTL DEF Spec
-----------------------------------------------------------------------------
(* The autoscaler, which decides how many hosts are desired. *)

\* What SchedulerProofs shows of a sum over a finite set of numbers.
LEMMA SumFacts ==
  ASSUME NEW D, IsFiniteSet(D), NEW f, \A x \in D : f[x] \in Int
  PROVE  /\ SP!Sum(f, D) \in Int
         /\ SP!Sum(f, {}) = 0
         /\ D # {} => SP!Sum(f, D) = f[SP!pick(D)] + SP!Sum(f, D \ {SP!pick(D)})
<1>1. SP!SchedulerAssumption
  BY FleetAssumption DEF SP!SchedulerAssumption
<1>2. SP!IsFiniteSet(D)
  BY DEF IsFiniteSet, SP!IsFiniteSet
<1> QED BY <1>1, <1>2, SP!SumFacts

\* Induction over the subsets of a finite set, likewise.
LEMMA PickInduction ==
  ASSUME NEW D, IsFiniteSet(D), NEW P \in SUBSET SUBSET D, {} \in P,
         \A s \in SUBSET D : s # {} /\ s \ {SP!pick(s)} \in P => s \in P
  PROVE  D \in P
<1>1. SP!SchedulerAssumption
  BY FleetAssumption DEF SP!SchedulerAssumption
<1>2. SP!IsFiniteSet(D)
  BY DEF IsFiniteSet, SP!IsFiniteSet
<1>3. D \in SUBSET D
  OBVIOUS
<1> QED BY <1>1, <1>2, <1>3, SP!PickInduction

\* A sum is linear in its terms.
LEMMA SumLinear ==
  ASSUME NEW D, IsFiniteSet(D), NEW e, NEW f, NEW g, NEW h,
         NEW a \in Int, NEW b \in Int, NEW c \in Int, NEW d \in Int,
         \A x \in D : e[x] \in Int /\ f[x] \in Int /\ g[x] \in Int,
         \A x \in D : h[x] = a * e[x] + b * f[x] + c * g[x] + d
  PROVE  SP!Sum(h, D) = a * SP!Sum(e, D) + b * SP!Sum(f, D) + c * SP!Sum(g, D) + d * Cardinality(D)
<1> DEFINE lin(s) == a * SP!Sum(e, s) + b * SP!Sum(f, s) + c * SP!Sum(g, s) + d * Cardinality(s)
           P == {s \in SUBSET D : SP!Sum(h, s) = lin(s)}
<1>1. \A s \in SUBSET D : IsFiniteSet(s) /\ Cardinality(s) \in Nat
  BY FS_Subset, FS_CardinalityType
<1>2. \A x \in D : h[x] \in Int
  OBVIOUS
<1>3. {} \in P
  <2>1. SP!Sum(e, {}) = 0 /\ SP!Sum(f, {}) = 0 /\ SP!Sum(g, {}) = 0 /\ SP!Sum(h, {}) = 0
    BY <1>2, SumFacts
  <2>2. Cardinality({}) = 0
    BY FS_EmptySet
  <2> QED BY <2>1, <2>2
<1>4. ASSUME NEW s \in SUBSET D, s # {}, s \ {SP!pick(s)} \in P PROVE s \in P
  <2>1. PICK x \in s : x = SP!pick(s)
    BY <1>4 DEF SP!pick
  <2>2. PICK u \in SUBSET D : u = s \ {x}
    OBVIOUS
  <2>3. Cardinality(s) = Cardinality(u) + 1 /\ Cardinality(u) \in Nat
    BY <1>1, <2>2, FS_RemoveElement
  <2>4. ASSUME NEW k, \A y \in D : k[y] \in Int
        PROVE  SP!Sum(k, s) = k[x] + SP!Sum(k, u) /\ SP!Sum(k, u) \in Int
    <3>1. \A y \in s : k[y] \in Int
      BY <2>4
    <3>2. \A y \in u : k[y] \in Int
      BY <2>4
    <3>3. SP!Sum(k, u) \in Int
      BY <1>1, <3>2, SumFacts
    <3> QED BY <1>1, <1>4, <2>1, <2>2, <3>1, <3>3, SumFacts
  <2>5. PICK E \in Int, F \in Int, G \in Int :
          E = SP!Sum(e, u) /\ F = SP!Sum(f, u) /\ G = SP!Sum(g, u)
    BY <2>4
  <2>6. /\ SP!Sum(e, s) = e[x] + E /\ SP!Sum(f, s) = f[x] + F /\ SP!Sum(g, s) = g[x] + G
        /\ SP!Sum(h, s) = h[x] + SP!Sum(h, u)
    BY <1>2, <2>4, <2>5
  <2>7. SP!Sum(h, u) = a * E + b * F + c * G + d * Cardinality(u)
    BY <1>4, <2>1, <2>2, <2>5
  <2>8. /\ a * (e[x] + E) = a * e[x] + a * E /\ b * (f[x] + F) = b * f[x] + b * F
        /\ c * (g[x] + G) = c * g[x] + c * G
        /\ d * (Cardinality(u) + 1) = d * Cardinality(u) + d
    <3>1. \A k \in Int, y \in Int, z \in Int : k * (y + z) = k * y + k * z
      OBVIOUS
    <3>2. d * 1 = d
      OBVIOUS
    <3>3. e[x] \in Int /\ f[x] \in Int /\ g[x] \in Int /\ Cardinality(u) \in Int /\ 1 \in Int
      BY <2>3
    <3>4. d * (Cardinality(u) + 1) = d * Cardinality(u) + d * 1
      BY <3>1, <3>3
    <3> QED BY <3>1, <3>2, <3>3, <3>4
  <2> QED BY <2>3, <2>6, <2>7, <2>8
<1>5. P \in SUBSET SUBSET D
  OBVIOUS
<1>6. D \in P
  <2> HIDE DEF P
  <2> QED BY <1>3, <1>4, <1>5, PickInduction
<1> QED BY <1>6

\* The same, where there is one function.
LEMMA SumAffine ==
  ASSUME NEW D, IsFiniteSet(D), NEW f, NEW h, NEW b \in Int, NEW d \in Int,
         \A x \in D : f[x] \in Int /\ h[x] = b * f[x] + d
  PROVE  SP!Sum(h, D) = b * SP!Sum(f, D) + d * Cardinality(D)
<1>1. PICK c \in Int : c = 0
  OBVIOUS
<1>2. \A x \in D : f[x] \in Int /\ f[x] \in Int /\ f[x] \in Int
  OBVIOUS
<1>3. \A x \in D : h[x] = b * f[x] + c * f[x] + c * f[x] + d
  BY <1>1
<1>4. SP!Sum(h, D) = b * SP!Sum(f, D) + c * SP!Sum(f, D) + c * SP!Sum(f, D) + d * Cardinality(D)
  BY <1>2, <1>3, SumLinear, SMTT(90)
<1>5. SP!Sum(f, D) \in Int
  BY <1>2, SumFacts
<1>6. Cardinality(D) \in Nat
  BY FS_CardinalityType
<1> QED BY <1>1, <1>4, <1>5, <1>6

\* A sum of terms that are not negative is at least each of them.
LEMMA SumOfNaturals ==
  ASSUME NEW D, IsFiniteSet(D), NEW f, \A x \in D : f[x] \in Nat
  PROVE  SP!Sum(f, D) \in Nat /\ \A x \in D : f[x] <= SP!Sum(f, D)
<1> DEFINE P == {s \in SUBSET D : SP!Sum(f, s) \in Nat /\ \A x \in s : f[x] <= SP!Sum(f, s)}
<1>1. \A s \in SUBSET D : IsFiniteSet(s) /\ \A x \in s : f[x] \in Int
  BY FS_Subset
<1>2. {} \in P
  <2>1. SP!Sum(f, {}) = 0
    BY <1>1, SumFacts
  <2> QED BY <2>1
<1>3. ASSUME NEW s \in SUBSET D, s # {}, s \ {SP!pick(s)} \in P PROVE s \in P
  <2>1. PICK x \in s : x = SP!pick(s)
    BY <1>3 DEF SP!pick
  <2>2. PICK u \in SUBSET D : u = s \ {x}
    OBVIOUS
  <2>3. SP!Sum(f, s) = f[x] + SP!Sum(f, u)
    BY <1>1, <1>3, <2>1, <2>2, SumFacts
  <2>4. SP!Sum(f, u) \in Nat /\ \A y \in u : f[y] <= SP!Sum(f, u)
    BY <1>3, <2>1, <2>2
  <2> QED BY <2>2, <2>3, <2>4
<1>4. P \in SUBSET SUBSET D
  OBVIOUS
<1>5. D \in P
  <2> HIDE DEF P
  <2> QED BY <1>2, <1>3, <1>4, PickInduction
<1> QED BY <1>5

\* The model's sums are those.
LEMMA ModelSums == ASSUME NEW f PROVE SumFunction(f) = SP!Sum(f, DOMAIN f)
BY DEF SumFunction, SumFunctionOnSet, FoldFunctionOnSet, MapThenFoldSet,
       SP!Sum, SP!SumFunctionOnSet, SP!FoldFunctionOnSet, SP!MapThenFoldSet

\* The samples, their times from the first on and their rates, and the deviations of a
\* function's values from their mean, times how many they are.
Samples == Seq([age : Nat, rate : Nat])
Times(s) == [i \in DOMAIN s |-> s[1].age - s[i].age]
RatesOf(s) == [i \in DOMAIN s |-> s[i].rate]
Centred(f, n) == [i \in DOMAIN f |-> n * f[i] - SumFunction(f)]

\* Numerator and denominator of the slope.
Num(s) ==
  Len(s) * Dot(Times(s), RatesOf(s)) - SumFunction(Times(s)) * SumFunction(RatesOf(s))
Den(s) ==
  Len(s) * Dot(Times(s), Times(s)) - SumFunction(Times(s)) * SumFunction(Times(s))

\* Sums over the indices of a sequence are integers.
LEMMA IndexSums ==
  ASSUME NEW n \in Nat, NEW f, DOMAIN f = 1 .. n, \A i \in 1 .. n : f[i] \in Int
  PROVE  SumFunction(f) \in Int /\ SumFunction(f) = SP!Sum(f, 1 .. n)
<1>1. IsFiniteSet(1 .. n)
  BY FS_Interval
<1> QED BY <1>1, ModelSums, SumFacts

\* The indices can be counted.
LEMMA Indices == ASSUME NEW n \in Nat PROVE IsFiniteSet(1 .. n) /\ Cardinality(1 .. n) = n
BY FS_Interval

\* The sum of the products of two deviations is the computational formula.
LEMMA Moments ==
  ASSUME NEW n \in Nat, NEW f, NEW g, DOMAIN f = 1 .. n, DOMAIN g = 1 .. n,
         \A i \in 1 .. n : f[i] \in Int /\ g[i] \in Int
  PROVE  /\ Dot(f, g) \in Int
         /\ Dot(Centred(f, n), Centred(g, n))
              = n * (n * Dot(f, g) - SumFunction(f) * SumFunction(g))
<1>1. IsFiniteSet(1 .. n) /\ Cardinality(1 .. n) = n
  BY Indices
<1>2. PICK F \in Int, G \in Int : F = SumFunction(f) /\ G = SumFunction(g)
  BY IndexSums
<1>3. F = SP!Sum(f, 1 .. n) /\ G = SP!Sum(g, 1 .. n)
  BY <1>2, IndexSums
<1>4. PICK p : p = [i \in 1 .. n |-> f[i] * g[i]]
  OBVIOUS
<1>5. Dot(f, g) = SumFunction(p)
  BY <1>4 DEF Dot
<1>6. PICK P \in Int : P = Dot(f, g) /\ P = SP!Sum(p, 1 .. n)
  <2>1. \A i \in 1 .. n : p[i] \in Int
    BY <1>4
  <2> QED BY <1>4, <1>5, <2>1, IndexSums
<1>7. PICK q : q = [i \in 1 .. n |-> (n * f[i] - F) * (n * g[i] - G)]
  OBVIOUS
<1>8. Dot(Centred(f, n), Centred(g, n)) = SumFunction(q)
  BY <1>2, <1>7 DEF Dot, Centred
<1>9. SumFunction(q) = SP!Sum(q, 1 .. n)
  <2>1. DOMAIN q = 1 .. n /\ \A i \in 1 .. n : q[i] \in Int
    BY <1>7
  <2> QED BY <2>1, IndexSums
<1>10. ASSUME NEW i \in 1 .. n
       PROVE  q[i] = (n * n) * p[i] + (-(n * G)) * f[i] + (-(n * F)) * g[i] + F * G
  <2>1. \A x \in Int, y \in Int :
          (n * x - F) * (n * y - G) = (n * n) * (x * y) + (-(n * G)) * x + (-(n * F)) * y + F * G
    OBVIOUS
  <2> QED BY <1>4, <1>7, <2>1
<1>11. SP!Sum(q, 1 .. n) = (n * n) * P + (-(n * G)) * F + (-(n * F)) * G + (F * G) * n
  <2>1. \A i \in 1 .. n : p[i] \in Int
    BY <1>4
  <2>2. n * n \in Int /\ -(n * G) \in Int /\ -(n * F) \in Int /\ F * G \in Int
    OBVIOUS
  <2>3. PICK a \in Int, b \in Int, c \in Int, d \in Int :
          a = n * n /\ b = -(n * G) /\ c = -(n * F) /\ d = F * G
    BY <2>2
  <2>4. \A i \in 1 .. n : q[i] = a * p[i] + b * f[i] + c * g[i] + d
    BY <1>10, <2>3
  <2>5. SP!Sum(q, 1 .. n) = a * P + b * F + c * G + d * n
    <3>1. \A i \in 1 .. n : p[i] \in Int /\ f[i] \in Int /\ g[i] \in Int
      BY <2>1
    <3>2. SP!Sum(q, 1 .. n) = a * SP!Sum(p, 1 .. n) + b * SP!Sum(f, 1 .. n)
                                + c * SP!Sum(g, 1 .. n) + d * Cardinality(1 .. n)
      <4>1. PICK D : D = 1 .. n
        OBVIOUS
      <4>2. \A i \in D : p[i] \in Int /\ f[i] \in Int /\ g[i] \in Int
        BY <3>1, <4>1
      <4>3. \A i \in D : q[i] = a * p[i] + b * f[i] + c * g[i] + d
        BY <2>4, <4>1
      <4>4. SP!Sum(q, D) = a * SP!Sum(p, D) + b * SP!Sum(f, D) + c * SP!Sum(g, D) + d * Cardinality(D)
        <5>1. IsFiniteSet(D)
          BY <1>1, <4>1
        <5> QED BY <4>2, <4>3, <5>1, SumLinear, SMTT(90)
      <4> QED BY <4>1, <4>4
    <3> QED BY <1>1, <1>3, <1>6, <3>2
  <2> QED BY <2>3, <2>5
<1>12. (n * n) * P + (-(n * G)) * F + (-(n * F)) * G + (F * G) * n = n * (n * P - F * G)
  OBVIOUS
<1> QED BY <1>2, <1>6, <1>8, <1>9, <1>11, <1>12

\* Deviations do not see where the zero is, and scale with the values.
LEMMA CentredLine ==
  ASSUME NEW n \in Nat, NEW f \in [1 .. n -> Int], NEW g \in [1 .. n -> Int],
         NEW a \in Int, NEW b \in Int, \A i \in 1 .. n : g[i] = a + b * f[i]
  PROVE  \A i \in 1 .. n : Centred(g, n)[i] = b * Centred(f, n)[i]
<1>1. IsFiniteSet(1 .. n) /\ Cardinality(1 .. n) = n
  BY Indices
<1>2. \A i \in 1 .. n : g[i] \in Int
  OBVIOUS
<1>3. PICK F \in Int : F = SumFunction(f) /\ F = SP!Sum(f, 1 .. n)
  BY IndexSums
<1>4. SumFunction(g) = SP!Sum(g, 1 .. n)
  BY <1>2, IndexSums
<1>5. SP!Sum(g, 1 .. n) = b * F + a * n
  <2>1. \A i \in 1 .. n : f[i] \in Int /\ g[i] = b * f[i] + a
    OBVIOUS
  <2>2. SP!Sum(g, 1 .. n) = b * SP!Sum(f, 1 .. n) + a * Cardinality(1 .. n)
    BY <1>1, <2>1, SumAffine
  <2> QED BY <1>1, <1>3, <2>2
<1>6. ASSUME NEW i \in 1 .. n PROVE Centred(g, n)[i] = b * Centred(f, n)[i]
  <2>1. Centred(g, n)[i] = n * (a + b * f[i]) - (b * F + a * n)
    BY <1>4, <1>5 DEF Centred
  <2>2. Centred(f, n)[i] = n * f[i] - F
    BY <1>3 DEF Centred
  <2>3. \A x \in Int : n * (a + b * x) - (b * F + a * n) = b * (n * x - F)
    OBVIOUS
  <2> QED BY <2>1, <2>2, <2>3
<1> QED BY <1>6

\* The times and the rates of a sequence of samples are functions over its indices.
LEMMA SampleFunctions ==
  ASSUME NEW s \in Samples, Len(s) >= 1
  PROVE  /\ Len(s) \in Nat /\ DOMAIN s = 1 .. Len(s)
         /\ DOMAIN Times(s) = 1 .. Len(s) /\ DOMAIN RatesOf(s) = 1 .. Len(s)
         /\ \A i \in 1 .. Len(s) : s[i].age \in Nat /\ s[i].rate \in Nat
         /\ \A i \in 1 .. Len(s) :
              Times(s)[i] = s[1].age - s[i].age /\ RatesOf(s)[i] = s[i].rate
         /\ \A i \in 1 .. Len(s) : Times(s)[i] \in Int /\ RatesOf(s)[i] \in Int
<1>1. Len(s) \in Nat /\ DOMAIN s = 1 .. Len(s) /\ 1 \in 1 .. Len(s)
  BY DEF Samples
<1>2. \A i \in 1 .. Len(s) : s[i] \in [age : Nat, rate : Nat]
  <2>1. PICK Rec : Rec = [age : Nat, rate : Nat]
    OBVIOUS
  <2>2. s \in Seq(Rec)
    BY <2>1 DEF Samples
  <2>3. \A i \in 1 .. Len(s) : s[i] \in Rec
    BY <2>2
  <2> QED BY <2>1, <2>3
<1>3. \A i \in 1 .. Len(s) : s[i].age \in Nat /\ s[i].rate \in Nat
  BY <1>2
<1>4. \A i \in 1 .. Len(s) : Times(s)[i] = s[1].age - s[i].age /\ RatesOf(s)[i] = s[i].rate
  BY <1>1 DEF Times, RatesOf
<1>5. DOMAIN Times(s) = 1 .. Len(s) /\ DOMAIN RatesOf(s) = 1 .. Len(s)
  BY <1>1 DEF Times, RatesOf
<1> QED BY <1>1, <1>3, <1>4, <1>5

\* A sum of squares is not negative, and zero only when every term is: then so is every
\* sum of products with the same factors.
LEMMA SquareSum ==
  ASSUME NEW n \in Nat, NEW f, NEW g, DOMAIN f = 1 .. n, DOMAIN g = 1 .. n,
         \A i \in 1 .. n : f[i] \in Int /\ g[i] \in Int
  PROVE  /\ Dot(f, f) \in Nat
         /\ Dot(f, f) = 0 => (\A i \in 1 .. n : f[i] = 0) /\ Dot(f, g) = 0
<1>1. IsFiniteSet(1 .. n)
  BY FS_Interval
<1>2. PICK p : p = [i \in 1 .. n |-> f[i] * f[i]]
  OBVIOUS
<1>3. DOMAIN p = 1 .. n /\ \A i \in 1 .. n : p[i] \in Nat /\ p[i] \in Int /\ (p[i] = 0 => f[i] = 0)
  <2>1. \A x \in Int : x * x \in Nat /\ (x * x = 0 => x = 0)
    OBVIOUS
  <2> QED BY <1>2, <2>1
<1>4. Dot(f, f) = SumFunction(p)
  BY <1>2 DEF Dot
<1>5. Dot(f, f) = SP!Sum(p, 1 .. n)
  BY <1>3, <1>4, IndexSums
<1>6. Dot(f, f) \in Nat /\ \A i \in 1 .. n : p[i] <= Dot(f, f)
  BY <1>1, <1>3, <1>5, SumOfNaturals
<1>7. ASSUME Dot(f, f) = 0 PROVE (\A i \in 1 .. n : f[i] = 0) /\ Dot(f, g) = 0
  <2>1. \A i \in 1 .. n : f[i] = 0
    BY <1>3, <1>6, <1>7
  <2>2. PICK q : q = [i \in 1 .. n |-> f[i] * g[i]]
    OBVIOUS
  <2>3. DOMAIN q = 1 .. n /\ \A i \in 1 .. n : q[i] = 0 /\ q[i] \in Int
    BY <2>1, <2>2
  <2>4. Dot(f, g) = SumFunction(q)
    BY <2>2 DEF Dot
  <2>5. SumFunction(q) = SP!Sum(q, 1 .. n)
    BY <2>3, IndexSums
  <2>6. PICK c \in Int : c = 0
    OBVIOUS
  <2>7. \A i \in 1 .. n : q[i] \in Int /\ q[i] = c * q[i] + c
    BY <2>3, <2>6
  <2>8. SP!Sum(q, 1 .. n) \in Int /\ Cardinality(1 .. n) \in Nat
    BY <1>1, <2>3, SumFacts, FS_CardinalityType
  <2>9. SP!Sum(q, 1 .. n) = c * SP!Sum(q, 1 .. n) + c * Cardinality(1 .. n)
    BY <1>1, <2>7, SumAffine
  <2> QED BY <2>1, <2>4, <2>5, <2>6, <2>8, <2>9
<1> QED BY <1>6, <1>7

\* What slope computes: covariance over variance, and zero when there is no variance.
LEMMA SlopeFacts ==
  ASSUME NEW s \in Samples, Len(s) >= 2,
         NEW dt, dt = Centred(Times(s), Len(s)), NEW dr, dr = Centred(RatesOf(s), Len(s))
  PROVE  /\ Num(s) \in Int /\ Den(s) \in Nat
         /\ Dot(dt, dr) = Len(s) * Num(s) /\ Dot(dt, dt) = Len(s) * Den(s)
         /\ Den(s) = 0 => (\A i \in 1 .. Len(s) : dt[i] = 0) /\ Num(s) = 0
         /\ slope(s) = IF Den(s) = 0 THEN Zero ELSE [num |-> Num(s), den |-> Den(s)]
<1>1. PICK n \in Nat : n = Len(s) /\ n >= 2
  BY SampleFunctions
<1>2. PICK t, r : t = Times(s) /\ r = RatesOf(s)
  OBVIOUS
<1>3. /\ DOMAIN t = 1 .. n /\ DOMAIN r = 1 .. n
      /\ \A i \in 1 .. n : t[i] \in Int /\ r[i] \in Int
  BY <1>1, <1>2, SampleFunctions
<1>4. PICK T \in Int, R \in Int : T = SumFunction(t) /\ R = SumFunction(r)
  BY <1>3, IndexSums
<1>5. Dot(t, r) \in Int /\ Dot(t, t) \in Int
  BY <1>3, Moments
<1>6. Num(s) = n * Dot(t, r) - T * R /\ Den(s) = n * Dot(t, t) - T * T
  BY <1>1, <1>2, <1>4 DEF Num, Den
<1>7. Num(s) \in Int /\ Den(s) \in Int
  BY <1>5, <1>6
<1>8. Dot(dt, dr) = n * Num(s) /\ Dot(dt, dt) = n * Den(s)
  <2>1. dt = Centred(t, n) /\ dr = Centred(r, n)
    BY <1>1, <1>2
  <2>2. Dot(Centred(t, n), Centred(r, n)) = n * (n * Dot(t, r) - SumFunction(t) * SumFunction(r))
    BY <1>3, Moments
  <2>3. Dot(Centred(t, n), Centred(t, n)) = n * (n * Dot(t, t) - SumFunction(t) * SumFunction(t))
    BY <1>3, Moments
  <2> QED BY <1>4, <1>6, <2>1, <2>2, <2>3
<1>9. /\ DOMAIN dt = 1 .. n /\ DOMAIN dr = 1 .. n
      /\ \A i \in 1 .. n : dt[i] \in Int /\ dr[i] \in Int
  BY <1>1, <1>2, <1>3, <1>4 DEF Centred
<1>10. /\ Dot(dt, dt) \in Nat
       /\ Dot(dt, dt) = 0 => (\A i \in 1 .. n : dt[i] = 0) /\ Dot(dt, dr) = 0
  BY <1>9, SquareSum
<1>11. Den(s) \in Nat /\ (Den(s) = 0 => (\A i \in 1 .. n : dt[i] = 0) /\ Num(s) = 0)
  <2>1. \A d \in Int : n * d \in Nat => d \in Nat
    BY <1>1
  <2>2. \A d \in Int : n * d = 0 => d = 0
    BY <1>1
  <2>3. n * 0 = 0
    OBVIOUS
  <2> QED BY <1>7, <1>8, <1>10, <2>1, <2>2, <2>3
<1>12. slope(s) = IF Den(s) = 0 THEN Zero ELSE [num |-> Num(s), den |-> Den(s)]
  <2>1. slope(s) = IF Len(s) < 2 \/ Den(s) = 0 THEN Zero
                     ELSE [num |-> Num(s), den |-> Den(s)]
    BY DEF slope, Num, Den, Times, RatesOf
  <2> QED BY <1>1, <2>1
<1> QED BY <1>1, <1>7, <1>8, <1>11, <1>12

\* Where the slope is defined it is a fraction.
LEMMA SlopeType ==
  ASSUME NEW s \in Samples
  PROVE  slope(s).num \in Int /\ slope(s).den \in Nat \ {0}
<1>1. Zero.num = 0 /\ Zero.den = 1
  BY DEF Zero
<1>2. CASE Len(s) < 2
  <2>1. slope(s) = Zero
    BY <1>2 DEF slope
  <2> QED BY <1>1, <2>1
<1>3. CASE Len(s) >= 2
  <2>1. PICK N \in Int, D \in Nat : N = Num(s) /\ D = Den(s)
    BY <1>3, SlopeFacts
  <2>2. slope(s) = IF D = 0 THEN Zero ELSE [num |-> N, den |-> D]
    BY <1>3, <2>1, SlopeFacts
  <2> QED BY <1>1, <2>2
<1>4. Len(s) \in Nat
  BY DEF Samples
<1> QED BY <1>2, <1>3, <1>4

\* Of two integers.
LEMMA MinMax ==
  ASSUME NEW a \in Int, NEW b \in Int
  PROVE  /\ Max({a, b}) = IF a >= b THEN a ELSE b
         /\ Min({a, b}) = IF a <= b THEN a ELSE b
<1>1. Max({a, b}) = IF a >= b THEN a ELSE b
  BY DEF Max
<1>2. Min({a, b}) = IF a <= b THEN a ELSE b
  BY DEF Min
<1> QED BY <1>1, <1>2

\* Rounding up.
LEMMA CeilFacts ==
  ASSUME NEW p \in Nat, NEW q \in Nat \ {0}
  PROVE  Ceil(p, q) \in Nat /\ Ceil(p, q) * q >= p
<1>1. PICK k \in Nat : k = p + q - 1
  OBVIOUS
<1>2. k \div q \in Nat /\ k = q * (k \div q) + (k % q) /\ k % q <= q - 1
  OBVIOUS
<1>3. (k \div q) * q >= p
  BY <1>1, <1>2
<1> QED BY <1>1, <1>2, <1>3 DEF Ceil

\* demand is a number of replicas within the limits; below MaxReplicas it covers, at
\* the target utilisation, both the predicted microVMs and those in flight (times den).
LEMMA DemandFacts ==
  ASSUME NEW rate \in Nat, NEW inflight \in Nat,
         NEW slp, slp.num \in Int, slp.den \in Nat \ {0}
  PROVE  /\ demand(rate, slp, inflight) \in MinReplicas .. MaxReplicas
         /\ demand(rate, slp, inflight) \in Nat
         /\ demand(rate, slp, inflight) < MaxReplicas =>
              \E rising \in Nat :
                LET cover == demand(rate, slp, inflight) * (slp.den * TargetPercent * SlotsPerHost)
                IN  /\ slp.num >= 0 => rising = slp.num
                    /\ cover >= 100 * ((rate * slp.den + rising * ProvisionLatency) * MeanTTL)
                    /\ cover >= 100 * (inflight * slp.den)
<1>1. PICK num \in Int, den \in Nat \ {0} : num = slp.num /\ den = slp.den
  OBVIOUS
<1>2. /\ SlotsPerHost \in Nat \ {0} /\ TargetPercent \in Nat \ {0} /\ MeanTTL \in Nat
      /\ ProvisionLatency \in Nat /\ MinReplicas \in Nat /\ MaxReplicas \in Nat
      /\ MinReplicas <= MaxReplicas
  BY AutoscalerAssumption
<1>3. PICK rise \in Nat : rise = Max({0, num}) /\ (num >= 0 => rise = num)
  BY MinMax
<1>4. PICK pred \in Nat : pred = (rate * den + rise * ProvisionLatency) * MeanTTL
  <2>1. \A x \in Nat, y \in Nat : x * y \in Nat
    OBVIOUS
  <2>2. rate * den \in Nat /\ rise * ProvisionLatency \in Nat
    BY <1>2, <2>1
  <2>3. (rate * den + rise * ProvisionLatency) * MeanTTL \in Nat
    BY <1>2, <2>1, <2>2
  <2> QED BY <2>3
<1>5. PICK now \in Nat : now = inflight * den
  OBVIOUS
<1>6. PICK required \in Nat : required = Max({pred, now}) /\ required >= pred /\ required >= now
  BY MinMax
<1>7. PICK unit \in Nat \ {0} : unit = den * TargetPercent * SlotsPerHost
  BY <1>2
<1>8. PICK c \in Nat : c = Ceil(100 * required, unit) /\ c * unit >= 100 * required
  <2>1. 100 * required \in Nat
    OBVIOUS
  <2> QED BY <2>1, CeilFacts
<1>9. demand(rate, slp, inflight) = clamp(c)
  BY <1>1, <1>3, <1>4, <1>5, <1>6, <1>7, <1>8 DEF demand
<1>10. PICK d \in Nat : d = clamp(c) /\ (d < MaxReplicas => d >= c) /\ d \in MinReplicas .. MaxReplicas
  <2>1. PICK m \in Nat : m = Max({c, MinReplicas}) /\ m >= c /\ m >= MinReplicas
    BY <1>2, MinMax
  <2>2. clamp(c) = IF m <= MaxReplicas THEN m ELSE MaxReplicas
    <3>1. clamp(c) = Min({m, MaxReplicas})
      BY <2>1 DEF clamp
    <3>2. m \in Int /\ MaxReplicas \in Int
      BY <1>2
    <3>3. Min({m, MaxReplicas}) = IF m <= MaxReplicas THEN m ELSE MaxReplicas
      BY <3>2, MinMax, Zenon
    <3> QED BY <3>1, <3>3
  <2> QED BY <1>2, <2>1, <2>2
<1>11. ASSUME d < MaxReplicas
       PROVE  d * unit >= 100 * pred /\ d * unit >= 100 * now
  <2>1. d * unit >= c * unit
    BY <1>10, <1>11
  <2> QED BY <1>6, <1>8, <2>1
<1>12. demand(rate, slp, inflight) = d
  BY <1>9, <1>10
<1>13. ASSUME d < MaxReplicas
       PROVE  /\ d * (den * TargetPercent * SlotsPerHost)
                   >= 100 * ((rate * den + rise * ProvisionLatency) * MeanTTL)
              /\ d * (den * TargetPercent * SlotsPerHost) >= 100 * (inflight * den)
  BY <1>4, <1>5, <1>7, <1>11, <1>13
<1> QED BY <1>1, <1>3, <1>10, <1>12, <1>13

\* The samples are kept in the order of their times, no two at the same.
InOrder(s) == \A i \in 1 .. Len(s), j \in 1 .. Len(s) : i < j => s[i].age > s[j].age

\* updateSlope keeps the samples in order and the slope that of the samples it keeps.
LEMMA HistoryStep ==
  ASSUME history \in Samples, InOrder(history),
         rateSlope = slope(history), NEW rate \in Nat, NEW gap \in Nat,
         updateSlope(rate, gap)
  PROVE  /\ history' \in Samples /\ InOrder(history') /\ history' # <<>>
         /\ rateSlope' = slope(history')
<1>1. CASE history # <<>> /\ gap = 0
  BY <1>1 DEF updateSlope
<1>2. CASE ~(history # <<>> /\ gap = 0)
  <2>0. PICK Rec : Rec = [age : Nat, rate : Nat]
    OBVIOUS
  <2>1. PICK n \in Nat : n = Len(history) /\ (history = <<>> <=> n = 0) /\ (n > 0 => gap > 0)
    BY <1>2 DEF Samples
  <2>2. PICK old : old = Older(history, gap)
    OBVIOUS
  <2>3. DOMAIN history = 1 .. n /\ \A i \in 1 .. n : history[i] \in Rec
    <3>1. history \in Seq(Rec)
      BY <2>0 DEF Samples
    <3> QED BY <2>1, <3>1
  <2>4. ASSUME NEW i \in 1 .. n
        PROVE  /\ old[i] \in Rec /\ old[i].age = history[i].age + gap
               /\ history[i].age \in Nat
    <3>1. history[i].age \in Nat
      BY <2>0, <2>3
    <3>2. old[i] = [history[i] EXCEPT !.age = @ + gap]
      BY <2>2, <2>3 DEF Older
    <3> QED BY <2>0, <2>3, <3>1, <3>2
  <2>5. old \in Seq(Rec) /\ Len(old) = n
    <3>1. old \in [1 .. n -> Rec]
      BY <2>2, <2>3, <2>4 DEF Older
    <3> QED BY <3>1
  <2>6. PICK new : new = [age |-> 0, rate |-> rate] /\ new \in Rec /\ new.age = 0
    <3>1. [age |-> 0, rate |-> rate] \in Rec /\ [age |-> 0, rate |-> rate].age = 0
      BY <2>0
    <3> QED BY <3>1
  <2>7. PICK all : all = Append(old, new)
    OBVIOUS
  <2>8. /\ all \in Seq(Rec) /\ Len(all) = n + 1 /\ all[n + 1] = new
        /\ \A i \in 1 .. n : all[i] = old[i]
    <3> QED BY <2>5, <2>6, <2>7
  <2>9. ASSUME NEW i \in 1 .. n + 1, NEW j \in 1 .. n + 1, i < j
        PROVE  all[i].age > all[j].age
    <3>1. i \in 1 .. n /\ all[i].age = history[i].age + gap /\ history[i].age \in Nat
      <4>1. i \in 1 .. n
        BY <2>9
      <4> QED BY <2>4, <2>8, <4>1
    <3>2. CASE j = n + 1
      BY <2>1, <2>6, <2>8, <3>1, <3>2
    <3>3. CASE j # n + 1
      <4>1. j \in 1 .. n /\ all[j].age = history[j].age + gap /\ history[j].age \in Nat
        <5>1. j \in 1 .. n
          BY <3>3
        <5> QED BY <2>4, <2>8, <5>1
      <4>2. history[i].age > history[j].age
        BY <2>1, <2>9, <3>1, <4>1 DEF InOrder
      <4> QED BY <3>1, <4>1, <4>2
    <3> QED BY <3>2, <3>3
  <2>10. PICK drop \in Nat : /\ Kept(all) = SubSeq(all, drop + 1, Len(all))
                             /\ drop <= n
    <3> DEFINE old2 == {i \in 1 .. Len(all) - 2 : all[i].age > SlopeWindow}
    <3>1. IsFiniteSet(1 .. Len(all) - 2) /\ Cardinality(1 .. Len(all) - 2) <= n
      <4>1. Len(all) - 2 \in Int /\ 1 \in Int
        BY <2>8
      <4>2. IsFiniteSet(1 .. Len(all) - 2) /\ Cardinality(1 .. Len(all) - 2)
              = IF 1 > Len(all) - 2 THEN 0 ELSE (Len(all) - 2) - 1 + 1
        BY <4>1, FS_Interval
      <4> QED BY <2>8, <4>2
    <3>2. old2 \subseteq 1 .. Len(all) - 2
      OBVIOUS
    <3>3. IsFiniteSet(old2) /\ Cardinality(old2) <= Cardinality(1 .. Len(all) - 2)
      <4> HIDE DEF old2
      <4> QED BY <3>1, <3>2, FS_Subset
    <3>4. Cardinality(old2) \in Nat /\ Cardinality(1 .. Len(all) - 2) \in Nat
      <4> HIDE DEF old2
      <4> QED BY <3>1, <3>3, FS_CardinalityType
    <3>5. Kept(all) = SubSeq(all, Cardinality(old2) + 1, Len(all))
      BY DEF Kept, Cardinality, Cardinality
    <3> HIDE DEF old2
    <3>6. Cardinality(old2) <= n
      BY <3>1, <3>3, <3>4
    <3> QED BY <3>4, <3>5, <3>6
  <2>11. history' = SubSeq(all, drop + 1, n + 1) /\ rateSlope' = slope(history')
    BY <1>2, <2>2, <2>6, <2>7, <2>8, <2>10 DEF updateSlope
  <2>12. PICK h : h = history'
    OBVIOUS
  <2>13. /\ h \in Seq(Rec) /\ Len(h) = n + 1 - drop
         /\ \A i \in 1 .. Len(h) : h[i] = all[i + drop] /\ i + drop \in 1 .. n + 1
    <3>1. h = SubSeq(all, drop + 1, n + 1)
      BY <2>11, <2>12
    <3>2. Len(h) = n + 1 - drop
      BY <2>8, <2>10, <3>1
    <3>3. \A i \in 1 .. n + 1 - drop : h[i] = all[i + drop] /\ i + drop \in 1 .. n + 1
      BY <2>8, <2>10, <3>1
    <3>4. h \in Seq(Rec)
      BY <2>8, <2>10, <3>1
    <3> QED BY <3>2, <3>3, <3>4
  <2>14. InOrder(h)
    <3> SUFFICES ASSUME NEW i \in 1 .. Len(h), NEW j \in 1 .. Len(h), i < j
                 PROVE  h[i].age > h[j].age
      BY DEF InOrder
    <3>1. i + drop \in 1 .. n + 1 /\ j + drop \in 1 .. n + 1 /\ i + drop < j + drop
      BY <2>10, <2>13
    <3> QED BY <2>9, <2>13, <3>1
  <2>15. h # <<>>
    <3>1. Len(h) # 0
      BY <2>10, <2>13
    <3> QED BY <3>1
  <2> QED BY <2>0, <2>11, <2>12, <2>13, <2>14, <2>15 DEF Samples
<1> QED BY <1>1, <1>2

\* The inductive invariant of the autoscaler: the last decision is the peak it holds, no
\* shrink is more recent than the peak, and the decision is at least what the last
\* sample called for and within the limits.
ScaleInv ==
  /\ history \in Samples /\ InOrder(history) /\ rateSlope = slope(history)
  /\ sample.rate \in Nat /\ sample.inflight \in Nat
  /\ peak \in Nat /\ replicas = peak
  /\ peakAt \in Nat /\ shrunk \in Nat /\ peakAt <= shrunk /\ shrunk <= ScaleDownStabilization
  /\ spacing \in Nat /\ spacing >= ScaleDownStabilization
  /\ history # <<>> => replicas >= demand(sample.rate, rateSlope, sample.inflight)
  /\ replicas <= MaxReplicas /\ (history # <<>> => replicas >= MinReplicas)

\* It holds in the state New leaves.
LEMMA ScaleInit == ASSUME New PROVE ScaleInv
<1>1. history = <<>> /\ Len(history) = 0
  BY DEF New
<1>2. history \in Samples /\ InOrder(history)
  BY <1>1 DEF Samples, InOrder
<1>3. slope(history) = Zero
  BY <1>1 DEF slope
<1>4. /\ sample.rate = 0 /\ sample.inflight = 0 /\ ScaleDownStabilization \in Nat
      /\ replicas = 0 /\ MaxReplicas \in Nat
  BY AutoscalerAssumption DEF New
<1> QED BY <1>1, <1>2, <1>3, <1>4 DEF ScaleInv, New

\* It survives a tick of the exporter, whatever the tick observes.
LEMMA ScaleStep ==
  ASSUME ScaleInv, NEW r \in Rates, NEW i \in Inflights, NEW g \in Gaps,
         exporterStep(r, i, g)
  PROVE  ScaleInv'
<1>1. r \in Nat /\ i \in Nat /\ g \in Nat /\ ScaleDownStabilization \in Nat
  BY AutoscalerAssumption
<1>2. /\ history' \in Samples /\ InOrder(history') /\ history' # <<>>
      /\ rateSlope' = slope(history')
  BY <1>1, HistoryStep DEF ScaleInv, exporterStep, Decide
<1>3. PICK n \in Nat : n = demand(r, rateSlope', i) /\ n \in MinReplicas .. MaxReplicas
  BY <1>1, <1>2, SlopeType, DemandFacts
<1>4. PICK sincePeak \in Nat, age \in Nat :
        /\ sincePeak = UpTo(ScaleDownStabilization, peakAt + g)
        /\ age = UpTo(ScaleDownStabilization, shrunk + g)
        /\ sincePeak <= age /\ age <= ScaleDownStabilization
        /\ sincePeak <= peakAt + g /\ (sincePeak >= ScaleDownStabilization => age = ScaleDownStabilization)
  <2>1. /\ peakAt + g \in Int /\ shrunk + g \in Int /\ ScaleDownStabilization \in Int
        /\ peakAt \in Nat /\ shrunk \in Nat /\ peakAt <= shrunk
    BY <1>1 DEF ScaleInv
  <2>2. /\ UpTo(ScaleDownStabilization, peakAt + g)
             = IF ScaleDownStabilization <= peakAt + g THEN ScaleDownStabilization ELSE peakAt + g
        /\ UpTo(ScaleDownStabilization, shrunk + g)
             = IF ScaleDownStabilization <= shrunk + g THEN ScaleDownStabilization ELSE shrunk + g
    BY <2>1, MinMax DEF UpTo
  <2> QED BY <1>1, <2>1, <2>2
<1>5. \/ /\ n < peak /\ sincePeak < ScaleDownStabilization
         /\ replicas' = peak /\ peakAt' = sincePeak /\ peak' = peak
      \/ /\ ~(n < peak /\ sincePeak < ScaleDownStabilization)
         /\ peak' = n /\ peakAt' = 0 /\ replicas' = n
  BY <1>3, <1>4 DEF exporterStep, Decide, applyStabilization
<1>6. \/ replicas' < replicas /\ shrunk' = 0 /\ spacing' = age
      \/ ~(replicas' < replicas) /\ shrunk' = age /\ spacing' = spacing
  BY <1>4 DEF exporterStep
<1>7. sample'.rate = r /\ sample'.inflight = i
  BY DEF exporterStep
<1>8. peak' \in Nat /\ replicas' = peak' /\ replicas' >= n
  BY <1>5 DEF ScaleInv
<1>9. /\ peakAt' \in Nat /\ shrunk' \in Nat /\ peakAt' <= shrunk'
      /\ shrunk' <= ScaleDownStabilization
      /\ spacing' \in Nat /\ spacing' >= ScaleDownStabilization
  BY <1>1, <1>4, <1>5, <1>6 DEF ScaleInv
<1>10. replicas' >= demand(sample'.rate, rateSlope', sample'.inflight)
  BY <1>3, <1>7, <1>8
<1>11. replicas' <= MaxReplicas /\ replicas' >= MinReplicas
  <2>1. MinReplicas \in Nat /\ MaxReplicas \in Nat
    BY AutoscalerAssumption
  <2> QED BY <1>3, <1>5, <2>1 DEF ScaleInv
<1> QED BY <1>1, <1>2, <1>7, <1>8, <1>9, <1>10, <1>11 DEF ScaleInv

\* The invariant holds throughout.
LEMMA ScaleInvariant == ScalingSpec => []ScaleInv
<1>1. New => ScaleInv
  BY ScaleInit
<1>2. ScaleInv /\ [Tick]_scaling => ScaleInv'
  <2> SUFFICES ASSUME ScaleInv, [Tick]_scaling PROVE ScaleInv'
    OBVIOUS
  <2>1. CASE Tick
    BY <2>1, ScaleStep DEF Tick
  <2>2. CASE UNCHANGED scaling
    <3>1. /\ history' = history /\ rateSlope' = rateSlope /\ peak' = peak /\ peakAt' = peakAt
          /\ sample' = sample /\ replicas' = replicas /\ shrunk' = shrunk /\ spacing' = spacing
      BY <2>2 DEF scaling
    <3> QED BY <3>1 DEF ScaleInv
  <2> QED BY <2>1, <2>2
<1> QED BY <1>1, <1>2, PTL DEF ScalingSpec

\* From one decision to shrink to the next there is at least a whole stabilisation
\* window: a shrink resets the time of the peak, so the peak is never the older one.
THEOREM FleetDoesNotRatchetDown == ScalingSpec => []ShrinksAreSpaced
<1>1. ScaleInv => ShrinksAreSpaced
  BY DEF ScaleInv, ShrinksAreSpaced
<1> QED BY <1>1, ScaleInvariant, PTL

\* updateSlope's formula is the textbook slope of the samples it keeps, also where the
\* variance is zero and it answers zero.
THEOREM SlopeIsCorrect == ScalingSpec => []SlopeIsLeastSquares
<1>1. ASSUME ScaleInv PROVE SlopeIsLeastSquares
  <2>1. CASE Len(history) < 2
    BY <2>1 DEF SlopeIsLeastSquares
  <2>2. CASE Len(history) >= 2
    <3>1. PICK n \in Nat : n = Len(history) /\ n >= 2 /\ DOMAIN history = 1 .. n
      BY <1>1, <2>2, SampleFunctions DEF ScaleInv
    <3>2. PICK u : u = [i \in DOMAIN history |-> -history[i].age]
      OBVIOUS
    <3>3. PICK t, r : t = Times(history) /\ r = RatesOf(history)
      OBVIOUS
    <3>4. PICK du, dr : du = Centred(u, n) /\ dr = Centred(r, n)
      OBVIOUS
    <3>5. /\ DOMAIN u = 1 .. n /\ DOMAIN t = 1 .. n /\ DOMAIN r = 1 .. n
          /\ history[1].age \in Int
          /\ \A i \in 1 .. n : u[i] \in Int /\ t[i] = history[1].age + 1 * u[i]
      <4>1. /\ history[1].age \in Nat
            /\ \A i \in 1 .. n : history[i].age \in Nat /\ t[i] = history[1].age - history[i].age
        BY <1>1, <3>1, <3>3, SampleFunctions DEF ScaleInv
      <4>2. DOMAIN u = 1 .. n /\ \A i \in 1 .. n : u[i] = -history[i].age
        BY <3>1, <3>2
      <4>3. DOMAIN t = 1 .. n /\ DOMAIN r = 1 .. n
        BY <3>1, <3>3 DEF Times, RatesOf
      <4> QED BY <4>1, <4>2, <4>3
    <3>6. Centred(t, n) = du
      <4>1. \A i \in 1 .. n : Centred(t, n)[i] = 1 * Centred(u, n)[i]
        <5>1. PICK a \in Int, b \in Int : a = history[1].age /\ b = 1
          BY <3>5
        <5>2. \A i \in 1 .. n : u[i] \in Int /\ t[i] = a + b * u[i]
          BY <3>5, <5>1
        <5>3. \A i \in 1 .. n : Centred(t, n)[i] = b * Centred(u, n)[i]
          <6>1. u \in [1 .. n -> Int] /\ t \in [1 .. n -> Int]
            <7>1. \A i \in 1 .. n : u[i] \in Int /\ t[i] \in Int
              BY <5>2
            <7> QED BY <3>2, <3>3, <3>5, <7>1 DEF Times
          <6>2. n \in Nat /\ \A i \in 1 .. n : t[i] = a + b * u[i]
            BY <3>1, <5>2
          <6> QED BY <6>1, <6>2, CentredLine, Zenon
        <5> QED BY <5>1, <5>3
      <4>2. \A i \in 1 .. n : Centred(u, n)[i] \in Int
        <5>1. SumFunction(u) \in Int
          BY <3>5, IndexSums
        <5> QED BY <3>5, <5>1 DEF Centred
      <4>3. \A i \in 1 .. n : Centred(t, n)[i] = Centred(u, n)[i]
        BY <4>1, <4>2
      <4>4. /\ Centred(t, n) = [i \in 1 .. n |-> Centred(t, n)[i]]
            /\ Centred(u, n) = [i \in 1 .. n |-> Centred(u, n)[i]]
        BY <3>5 DEF Centred
      <4> QED BY <3>4, <4>3, <4>4
    <3>7. PICK N \in Int, D \in Nat : N = Num(history) /\ D = Den(history)
      BY <1>1, <2>2, SlopeFacts DEF ScaleInv
    <3>8. /\ Dot(du, dr) = n * N /\ Dot(du, du) = n * D /\ (D = 0 => N = 0)
          /\ rateSlope = IF D = 0 THEN Zero ELSE [num |-> N, den |-> D]
      BY <1>1, <2>2, <3>1, <3>3, <3>4, <3>6, <3>7, SlopeFacts DEF ScaleInv
    <3>9. rateSlope.num * Dot(du, du) = rateSlope.den * Dot(du, dr)
      <4>1. CASE D = 0
        <5>1. rateSlope.num = 0 /\ rateSlope.den = 1 /\ N = 0
          BY <3>8, <4>1 DEF Zero
        <5> QED BY <3>8, <4>1, <5>1
      <4>2. CASE D # 0
        <5>1. rateSlope.num = N /\ rateSlope.den = D
          BY <3>8, <4>2
        <5>2. N * (n * D) = D * (n * N)
          OBVIOUS
        <5> QED BY <3>8, <5>1, <5>2
      <4> QED BY <4>1, <4>2
    <3>10. /\ du = [i \in DOMAIN history |-> Len(history) * u[i] - SumFunction(u)]
           /\ dr = [i \in DOMAIN history |-> Len(history) * r[i] - SumFunction(r)]
           /\ r = [i \in DOMAIN history |-> history[i].rate]
      BY <3>1, <3>3, <3>4, <3>5 DEF Centred, RatesOf
    <3> QED BY <3>2, <3>9, <3>10 DEF SlopeIsLeastSquares
  <2>3. Len(history) \in Nat
    BY <1>1 DEF ScaleInv, Samples
  <2> QED BY <2>1, <2>2, <2>3
<1> QED BY <1>1, ScaleInvariant, PTL

\* The samples lie on a line with slope b that has reached top.
OnLine(s, top, b) == \A i \in 1 .. Len(s) : s[i].rate = top - b * s[i].age

\* On a ramp the slope is the ramp's: the samples are at different times, so their
\* variance is not zero.
LEMMA SlopeOfRamp ==
  ASSUME NEW s \in Samples, InOrder(s), Len(s) >= 2, NEW top \in Nat, NEW b \in Int,
         OnLine(s, top, b)
  PROVE  slope(s).den \in Nat \ {0} /\ slope(s).num = b * slope(s).den
<1>1. PICK n \in Nat : n = Len(s) /\ n >= 2
  BY SampleFunctions
<1>2. PICK t, r : t = Times(s) /\ r = RatesOf(s)
  OBVIOUS
<1>3. PICK dt, dr : dt = Centred(t, n) /\ dr = Centred(r, n)
  OBVIOUS
<1>4. PICK first \in Nat : first = s[1].age
  BY <1>1, SampleFunctions
<1>5. /\ DOMAIN t = 1 .. n /\ DOMAIN r = 1 .. n
      /\ \A i \in 1 .. n : s[i].age \in Nat /\ t[i] = first - s[i].age /\ t[i] \in Int
                           /\ r[i] = s[i].rate /\ r[i] \in Int
  BY <1>1, <1>2, <1>4, SampleFunctions
<1>6. \A i \in 1 .. n : dr[i] = b * dt[i]
  <2>1. PICK a \in Int : a = top - b * first
    OBVIOUS
  <2>2. \A x \in Int : top - b * x = (top - b * first) + b * (first - x)
    OBVIOUS
  <2>3. \A i \in 1 .. n : r[i] = a + b * t[i]
    <3> SUFFICES ASSUME NEW i \in 1 .. n PROVE r[i] = a + b * t[i]
      OBVIOUS
    <3>0. s[i].age \in Int
      BY <1>5
    <3>1. PICK x \in Int : x = s[i].age
      BY <3>0
    <3>2. r[i] = top - b * x /\ t[i] = first - x
      BY <1>1, <1>5, <3>1 DEF OnLine
    <3> QED BY <2>1, <2>2, <3>2
  <2>4. \A i \in 1 .. n : Centred(r, n)[i] = b * Centred(t, n)[i]
    <3>1. t \in [1 .. n -> Int] /\ r \in [1 .. n -> Int]
      BY <1>2, <1>5 DEF Times, RatesOf
    <3> QED BY <2>3, <3>1, CentredLine
  <2> QED BY <1>3, <2>4
<1>7. PICK T \in Int : T = SumFunction(t)
  BY <1>5, IndexSums
<1>8. DOMAIN dt = 1 .. n /\ \A i \in 1 .. n : dt[i] = n * t[i] - T /\ dt[i] \in Int
  BY <1>3, <1>5, <1>7 DEF Centred
<1>9. DOMAIN dr = 1 .. n
  BY <1>3, <1>5 DEF Centred
<1>10. PICK N \in Int, D \in Nat : N = Num(s) /\ D = Den(s)
  BY SlopeFacts
<1>11. /\ Dot(dt, dr) = n * N /\ Dot(dt, dt) = n * D
       /\ D = 0 => \A i \in 1 .. n : dt[i] = 0
       /\ slope(s) = IF D = 0 THEN Zero ELSE [num |-> N, den |-> D]
  BY <1>1, <1>2, <1>3, <1>10, SlopeFacts
<1>12. D # 0
  <2>1. 1 \in 1 .. n /\ 2 \in 1 .. n /\ s[1].age > s[2].age
    BY <1>1 DEF InOrder
  <2>2. t[1] # t[2] /\ t[1] \in Int /\ t[2] \in Int
    BY <1>4, <1>5, <2>1
  <2>3. \A x \in Int, y \in Int : n * x - T = 0 /\ n * y - T = 0 => x = y
    BY <1>1
  <2>4. dt[1] = n * t[1] - T /\ dt[2] = n * t[2] - T
    BY <1>8, <2>1
  <2>5. ASSUME D = 0 PROVE FALSE
    <3>1. dt[1] = 0 /\ dt[2] = 0
      BY <1>11, <2>1, <2>5
    <3>2. n * t[1] - T = 0 /\ n * t[2] - T = 0
      BY <2>4, <3>1
    <3> QED BY <2>2, <2>3, <3>2
  <2> QED BY <2>5
<1>13. Dot(dt, dr) = b * Dot(dt, dt)
  <2>1. PICK p : p = [i \in 1 .. n |-> dt[i] * dt[i]]
    OBVIOUS
  <2>2. PICK q : q = [i \in 1 .. n |-> dt[i] * dr[i]]
    OBVIOUS
  <2>3. DOMAIN p = 1 .. n /\ DOMAIN q = 1 .. n /\ \A i \in 1 .. n : p[i] \in Int /\ q[i] = b * p[i]
    <3>1. \A x \in Int : x * (b * x) = b * (x * x) /\ x * x \in Int
      OBVIOUS
    <3> QED BY <1>6, <1>8, <2>1, <2>2, <3>1
  <2>4. Dot(dt, dt) = SumFunction(p) /\ Dot(dt, dr) = SumFunction(q)
    BY <1>8, <2>1, <2>2 DEF Dot
  <2>5. \A i \in 1 .. n : q[i] \in Int
    BY <2>3
  <2>6. SumFunction(p) \in Int /\ SumFunction(p) = SP!Sum(p, 1 .. n)
    BY <2>3, IndexSums
  <2>7. SumFunction(q) = SP!Sum(q, 1 .. n)
    BY <2>3, <2>5, IndexSums
  <2>8. IsFiniteSet(1 .. n) /\ Cardinality(1 .. n) = n
    BY Indices
  <2>9. PICK c \in Int : c = 0
    OBVIOUS
  <2>10. \A i \in 1 .. n : p[i] \in Int /\ q[i] = b * p[i] + c
    BY <2>3, <2>9
  <2>11. SP!Sum(q, 1 .. n) = b * SP!Sum(p, 1 .. n) + c * Cardinality(1 .. n)
    <3>1. PICK I : I = 1 .. n /\ IsFiniteSet(I)
      BY <2>8
    <3>2. \A i \in I : p[i] \in Int /\ q[i] = b * p[i] + c
      BY <2>10, <3>1
    <3>3. IsFiniteSet(I)
      BY <3>1
    <3>4. SP!Sum(q, I) = b * SP!Sum(p, I) + c * Cardinality(I)
      BY <3>2, <3>3, SumAffine, SMTT(60)
    <3> QED BY <3>1, <3>4
  <2> QED BY <2>4, <2>6, <2>7, <2>8, <2>9, <2>11
<1>14. N = b * D
  <2>1. n * N = b * (n * D)
    BY <1>11, <1>13
  <2>2. n * N = n * (b * D)
    BY <2>1
  <2>3. \A x \in Int, y \in Int : n * x = n * y => x = y
    BY <1>1
  <2>4. b * D \in Int
    OBVIOUS
  <2> QED BY <2>2, <2>3, <2>4
<1> QED BY <1>11, <1>12, <1>14

\* On a steady ramp the fleet that is asked for is large enough for when it is there:
\* the slope is the ramp's, and neither the rounding nor the limits take away from it.
THEOREM LeadCoversTheRamp == ScalingSpec => []CoversTheRamp
<1>1. ASSUME ScaleInv PROVE CoversTheRamp
  <2> SUFFICES ASSUME NEW b \in 0 .. sample.rate, OnRamp(b), replicas < MaxReplicas
               PROVE  replicas * SlotsPerHost * TargetPercent
                        >= 100 * Max({(sample.rate + b * ProvisionLatency) * MeanTTL, sample.inflight})
    BY DEF CoversTheRamp
  <2>1. PICK rate \in Nat, inflight \in Nat : rate = sample.rate /\ inflight = sample.inflight
    BY <1>1 DEF ScaleInv
  <2>2. b \in Nat
    BY <2>1
  <2>3. history \in Samples /\ InOrder(history) /\ Len(history) >= 2 /\ DOMAIN history = 1 .. Len(history)
    BY <1>1, SampleFunctions DEF ScaleInv, OnRamp, Samples
  <2>4. OnLine(history, rate, b)
    BY <2>1, <2>3 DEF OnRamp, OnLine
  <2>5. PICK den \in Nat \ {0} : den = rateSlope.den /\ rateSlope.num = b * den
    <3>1. slope(history).den \in Nat \ {0} /\ slope(history).num = b * slope(history).den
      BY <2>2, <2>3, <2>4, SlopeOfRamp
    <3>2. rateSlope = slope(history)
      BY <1>1 DEF ScaleInv
    <3> QED BY <3>1, <3>2
  <2>6. PICK d \in Nat : d = demand(rate, rateSlope, inflight)
    BY <2>2, <2>5, DemandFacts
  <2>7. replicas \in Nat /\ replicas >= d
    <3>1. history # <<>>
      BY <2>3
    <3> QED BY <1>1, <2>1, <2>6, <3>1 DEF ScaleInv
  <2>8. /\ SlotsPerHost \in Nat /\ TargetPercent \in Nat /\ MeanTTL \in Nat
        /\ ProvisionLatency \in Nat /\ MaxReplicas \in Nat
    BY AutoscalerAssumption
  <2>9. /\ d * (den * TargetPercent * SlotsPerHost)
             >= 100 * ((rate * den + (b * den) * ProvisionLatency) * MeanTTL)
        /\ d * (den * TargetPercent * SlotsPerHost) >= 100 * (inflight * den)
    <3>1. d < MaxReplicas
      BY <2>7, <2>8
    <3>2. b * den \in Nat /\ rateSlope.num \in Int
      BY <2>2, <2>5
    <3>3. PICK rising \in Nat :
            /\ rateSlope.num >= 0 => rising = rateSlope.num
            /\ d * (den * TargetPercent * SlotsPerHost)
                 >= 100 * ((rate * den + rising * ProvisionLatency) * MeanTTL)
            /\ d * (den * TargetPercent * SlotsPerHost) >= 100 * (inflight * den)
      BY <2>5, <2>6, <3>1, <3>2, DemandFacts
    <3>4. rising = b * den
      BY <2>5, <3>2, <3>3
    <3> QED BY <3>3, <3>4
  <2>10. PICK unit \in Nat, ahead \in Nat :
           unit = SlotsPerHost * TargetPercent /\ ahead = (rate + b * ProvisionLatency) * MeanTTL
    <3>1. \A x \in Nat, y \in Nat : x * y \in Nat
      OBVIOUS
    <3>2. b * ProvisionLatency \in Nat
      BY <2>2, <2>8, <3>1
    <3>3. SlotsPerHost * TargetPercent \in Nat /\ (rate + b * ProvisionLatency) * MeanTTL \in Nat
      BY <2>8, <3>1, <3>2
    <3> QED BY <3>3
  <2>11. den * (d * unit) >= den * (100 * ahead) /\ den * (d * unit) >= den * (100 * inflight)
    <3>1. d * (den * TargetPercent * SlotsPerHost) = den * (d * unit)
      BY <2>8, <2>10
    <3>2. 100 * ((rate * den + (b * den) * ProvisionLatency) * MeanTTL) = den * (100 * ahead)
      BY <2>2, <2>8, <2>10
    <3>3. 100 * (inflight * den) = den * (100 * inflight)
      OBVIOUS
    <3> QED BY <2>9, <3>1, <3>2, <3>3
  <2>12. d * unit >= 100 * ahead /\ d * unit >= 100 * inflight
    <3>1. \A x \in Int, y \in Int : den * x >= den * y => x >= y
      OBVIOUS
    <3>2. d * unit \in Int /\ 100 * ahead \in Int /\ 100 * inflight \in Int
      OBVIOUS
    <3> QED BY <2>11, <3>1, <3>2
  <2>13. replicas * unit >= d * unit
    BY <2>7
  <2>14. replicas * SlotsPerHost * TargetPercent = replicas * unit
    BY <2>7, <2>8, <2>10
  <2>15. replicas * unit >= 100 * ahead /\ replicas * unit >= 100 * inflight
    <3>1. replicas * unit \in Int /\ d * unit \in Int
      BY <2>7
    <3> QED BY <2>12, <2>13, <3>1
  <2>16. Max({ahead, inflight}) = IF ahead >= inflight THEN ahead ELSE inflight
    BY MinMax
  <2> QED BY <2>1, <2>10, <2>14, <2>15, <2>16
<1> QED BY <1>1, ScaleInvariant, PTL

\* Once a tick has been decided on, the decision is within the limits, and unless it is at
\* the upper one it covers, at the target utilisation, both the load the last sample's
\* rate amounts to and the microVMs that run.
CoversTheLoad ==
  history # <<>> =>
    /\ replicas \in MinReplicas .. MaxReplicas
    /\ replicas < MaxReplicas =>
         replicas * SlotsPerHost * TargetPercent
           >= 100 * Max({sample.rate * MeanTTL, sample.inflight})

\* Off a ramp too: a falling or noisy rate never makes Decide ask for fewer hosts than the
\* load there is, because a negative slope counts as none; holding a peak keeps the limits.
THEOREM DecisionsCoverTheLoad == ScalingSpec => []CoversTheLoad
<1>1. ASSUME ScaleInv, history # <<>> PROVE CoversTheLoad
  <2>1. PICK rate \in Nat, inflight \in Nat : rate = sample.rate /\ inflight = sample.inflight
    BY <1>1 DEF ScaleInv
  <2>2. rateSlope.num \in Int /\ rateSlope.den \in Nat \ {0}
    BY <1>1, SlopeType DEF ScaleInv
  <2>3. PICK den \in Nat \ {0} : den = rateSlope.den
    BY <2>2
  <2>4. PICK d \in Nat : d = demand(rate, rateSlope, inflight)
    BY <2>2, DemandFacts
  <2>5. /\ replicas \in Nat /\ replicas >= d
        /\ replicas >= MinReplicas /\ replicas <= MaxReplicas
    BY <1>1, <2>1, <2>4 DEF ScaleInv
  <2>6. /\ SlotsPerHost \in Nat /\ TargetPercent \in Nat /\ MeanTTL \in Nat
        /\ ProvisionLatency \in Nat /\ MinReplicas \in Nat /\ MaxReplicas \in Nat
    BY AutoscalerAssumption
  <2>7. ASSUME replicas < MaxReplicas
        PROVE  replicas * SlotsPerHost * TargetPercent
                 >= 100 * Max({sample.rate * MeanTTL, sample.inflight})
    <3>1. d < MaxReplicas
      BY <2>5, <2>6, <2>7
    <3>2. PICK rising \in Nat :
            /\ d * (den * TargetPercent * SlotsPerHost)
                 >= 100 * ((rate * den + rising * ProvisionLatency) * MeanTTL)
            /\ d * (den * TargetPercent * SlotsPerHost) >= 100 * (inflight * den)
      BY <2>2, <2>3, <2>4, <3>1, DemandFacts
    <3>3. \A x \in Nat, y \in Nat : x * y \in Nat
      OBVIOUS
    <3>4. PICK unit \in Nat, load \in Nat, lead \in Nat :
            /\ unit = SlotsPerHost * TargetPercent /\ load = rate * MeanTTL
            /\ lead = (rising * ProvisionLatency) * MeanTTL
      <4>1. rising * ProvisionLatency \in Nat
        BY <2>6, <3>3
      <4> QED BY <2>6, <3>3, <4>1
    <3>5. d * (den * TargetPercent * SlotsPerHost) = den * (d * unit)
      BY <2>6, <3>4
    <3>6. (rate * den + rising * ProvisionLatency) * MeanTTL = den * load + lead
      BY <2>6, <3>4
    <3>7. den * (d * unit) >= den * (100 * load) /\ den * (d * unit) >= den * (100 * inflight)
      <4>1. PICK a \in Nat, b \in Nat : a = den * load /\ b = d * unit
        BY <3>3
      <4>2. den * b >= 100 * (a + lead) /\ den * b >= 100 * (inflight * den)
        BY <3>2, <3>5, <3>6, <4>1
      <4>3. den * (100 * load) = 100 * a /\ den * (100 * inflight) = 100 * (inflight * den)
        BY <4>1
      <4> QED BY <4>1, <4>2, <4>3
    <3>8. d * unit >= 100 * load /\ d * unit >= 100 * inflight
      <4>1. \A x \in Int, y \in Int : den * x >= den * y => x >= y
        OBVIOUS
      <4>2. d * unit \in Int /\ 100 * load \in Int /\ 100 * inflight \in Int
        OBVIOUS
      <4> QED BY <3>7, <4>1, <4>2
    <3>9. replicas * unit >= d * unit /\ replicas * unit \in Int /\ d * unit \in Int
      BY <2>5
    <3>10. replicas * SlotsPerHost * TargetPercent = replicas * unit
      BY <2>5, <2>6, <3>4
    <3>11. Max({load, inflight}) = IF load >= inflight THEN load ELSE inflight
      BY MinMax
    <3> QED BY <2>1, <3>4, <3>8, <3>9, <3>10, <3>11
  <2> QED BY <2>5, <2>6, <2>7 DEF CoversTheLoad
<1>2. ScaleInv => CoversTheLoad
  BY <1>1 DEF CoversTheLoad
<1> QED BY <1>2, ScaleInvariant, PTL
=============================================================================
