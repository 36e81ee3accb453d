--------------------------- MODULE RegistryProofs ---------------------------
(***************************************************************************)
(* Proofs about Registry, for any hosts, capacities, timeouts and number of *)
(* handlers, and for calls and sweeps that overlap in any way.  What the    *)
(* maps say of the scheduler's states is proved host by host, for the hosts *)
(* of which no two operations overlapped (registry_overlap shows that it    *)
(* fails of the others).                                                    *)
(***************************************************************************)
EXTENDS Registry, TLAPS

SP == INSTANCE SchedulerProofs

DrainSteps == {"drain", "since"}          \* Sweep has hosts to drain
ReapSteps == {"reap", "remove", "forget"} \* the reaper has hosts to look at

Types ==
  /\ lastSeen \in [Host -> Int]
  /\ drainingSince \in [Host -> None .. ForceRemoveAfter]
  /\ draining \in [Host -> Returned .. ForceRemoveAfter]
  /\ call \in [Call -> [pc : {"idle", "add", "undo", "ready", "since", "drain"},
                        host : Host \cup {NoHost}, cap : Int]]
  /\ \A c \in Call : /\ call[c].pc = "idle" => call[c] = Idle
                     /\ call[c].pc # "idle" => call[c].host \in Host
                     /\ call[c].pc = "add" => call[c].cap \in Capacities
  /\ spc \in {"idle", "drain", "since", "reap", "remove", "forget"}
  /\ todo \subseteq Host
  /\ IF spc \in {"since", "remove", "forget"} THEN scur \in Host /\ scur \notin todo
                                              ELSE scur = NoHost

\* What the registry's map and the scheduler say of a host agree.
Settled(h) ==
  /\ Tracked(h) => hostState[h] = "Ready"
  /\ ~Tracked(h) /\ hostState[h] # "Absent" =>
       hostState[h] = "Draining" /\ drainingSince[h] # None

\* The date of its drain is not before it left service, unless it came back since.
Dated(h) ==
  /\ hostState[h] = "Absent" => draining[h] = None /\ drainingSince[h] = None
  /\ hostState[h] = "Draining" =>
       draining[h] = Returned \/ (drainingSince[h] >= 0 /\ draining[h] >= drainingSince[h])
  /\ hostState[h] \in {"Pending", "Ready"} =>
       draining[h] = Returned \/ (draining[h] = None /\ drainingSince[h] = None)

\* It has left service and the date is still to come, unless it came back before.
Left(h) == draining[h] = Returned \/ (draining[h] >= 0 /\ drainingSince[h] = None)

\* One operation at a time.
Alone(h) ==
  \A c \in Call : call[c].host = h =>
    /\ \A d \in Call : call[d].host = h => d = c
    /\ ~(spc \in DrainSteps /\ h \in todo) /\ scur # h

\* What call c for host h has done so far.
CallInv(c, h) ==
  LET p == call[c].pc IN
  /\ p \in {"add", "undo"} => /\ Tracked(h) /\ Dated(h)
                              /\ hostState[h] # "Absent" =>
                                   hostState[h] = "Draining" /\ drainingSince[h] # None
  /\ p = "ready" => Tracked(h) /\ Dated(h) /\ hostState[h] \in {"Pending", "Draining"}
  /\ p = "since" => ~Tracked(h) /\ hostState[h] = "Ready" /\ Left(h)
  /\ p = "drain" => /\ ~Tracked(h) /\ hostState[h] = "Ready" /\ drainingSince[h] >= 0
                    /\ draining[h] = Returned \/ draining[h] >= drainingSince[h]

\* What the sweep has done so far of host h.
SweepInv(h) ==
  /\ spc \in DrainSteps /\ h \in todo => ~Tracked(h) /\ hostState[h] = "Ready" /\ Left(h)
  /\ spc = "since" /\ scur = h => ~Tracked(h) /\ hostState[h] = "Draining" /\ Left(h)
  /\ spc \in ReapSteps /\ h \in todo =>
       /\ snap[h] \in Nat
       /\ draining[h] = Returned \/ (hostState[h] = "Draining" /\ used[h] <= snap[h])
  /\ spc = "remove" /\ scur = h =>
       /\ ~Tracked(h) /\ hostState[h] = "Draining" /\ Dated(h)
       /\ draining[h] = Returned \/ (used[h] > 0 => drainingSince[h] >= ForceRemoveAfter)
  /\ spc = "forget" /\ scur = h =>
       ~Tracked(h) /\ hostState[h] = "Absent" /\ draining[h] = None

HostInv(h) ==
  /\ Alone(h)
  /\ ~Busy(h) => Settled(h) /\ Dated(h)
  /\ \A c \in Call : call[c].host = h => CallInv(c, h)
  /\ SweepInv(h)

Agreement == \A h \in Host \ raced : HostInv(h)

-----------------------------------------------------------------------------
(* The types, and the scheduler inside the registry. *)

\* No step of a call leaves the types.
LEMMA CallTypes ==
  ASSUME Types, NEW c \in Call, NEW h \in Host,
         Handler(c) \/ Deregister(c, h) \/ \E k \in Capacities : Register(c, h, k)
  PROVE  Types'
<1> USE RegistryAssumption DEF None, Returned, Idle
<1>1. ASSUME NEW k \in Capacities, Register(c, h, k) PROVE Types'
  BY <1>1 DEF Register, Types, sweep
<1>2. CASE Deregister(c, h)
  <2>1. /\ lastSeen' = [lastSeen EXCEPT ![h] = None]
        /\ call' = [call EXCEPT ![c] = [pc |-> "since", host |-> h, cap |-> 0]]
        /\ draining' = [draining EXCEPT ![h] = Leaves(h)]
        /\ UNCHANGED <<drainingSince, sweep>>
    BY <1>2 DEF Deregister
  <2>2. draining' \in [Host -> Returned .. ForceRemoveAfter]
    BY <2>1 DEF Types, Leaves
  <2> QED BY <2>1, <2>2 DEF Types, sweep
<1>3. CASE RegisterAdds(c)
  BY <1>3 DEF RegisterAdds, Step, Types, sweep
<1>4. CASE RegisterUndo(c)
  BY <1>4 DEF RegisterUndo, Finish, Types, sweep
<1>5. CASE RegisterReadies(c)
  <2>1. /\ call' = [call EXCEPT ![c] = Idle]
        /\ UNCHANGED <<lastSeen, drainingSince, sweep>>
        /\ draining' = draining \/
           draining' = [draining EXCEPT ![call[c].host] = IF @ = None THEN None ELSE Returned]
    BY <1>5 DEF RegisterReadies, Finish
  <2>2. draining' \in [Host -> Returned .. ForceRemoveAfter]
    BY <2>1 DEF Types
  <2> QED BY <2>1, <2>2 DEF Types, sweep
<1>6. CASE DeregisterNotes(c)
  BY <1>6 DEF DeregisterNotes, Step, Types, sweep
<1>7. CASE DeregisterDrains(c)
  BY <1>7 DEF DeregisterDrains, Finish, Types, sweep
<1> QED BY <1>1, <1>2, <1>3, <1>4, <1>5, <1>6, <1>7 DEF Handler

\* Nor does a step of the sweep.
LEMMA SweepTypes ==
  ASSUME Types, Sweeper
  PROVE  Types'
<1> USE RegistryAssumption DEF None, Returned, sweep
<1>1. CASE Sweep
  <2>1. /\ todo' \subseteq Host /\ lastSeen' \in [Host -> Int] /\ spc = "idle" /\ spc' = "drain"
        /\ draining' = [h \in Host |-> IF h \in todo' THEN Leaves(h) ELSE draining[h]]
        /\ UNCHANGED <<drainingSince, call, scur, snap>>
    BY <1>1 DEF Sweep, Types
  <2>2. draining' \in [Host -> Returned .. ForceRemoveAfter]
    BY <2>1 DEF Types, Leaves
  <2> QED BY <2>1, <2>2 DEF Types
<1>2. ASSUME NEW h \in Host, SweepDrains(h) PROVE Types'
  BY <1>2 DEF SweepDrains, Types
<1>3. CASE SweepNotes
  BY <1>3 DEF SweepNotes, Types
<1>4. CASE reapSnapshot
  BY <1>4 DEF reapSnapshot, Types
<1>5. ASSUME NEW h \in Host, reapLooksAt(h) PROVE Types'
  BY <1>5 DEF reapLooksAt, Types
<1>6. CASE reapRemoves
  <2>1. /\ UNCHANGED <<lastSeen, drainingSince, call, todo>>
        /\ (spc' = "reap" /\ scur' = NoHost) \/ (spc' = "forget" /\ scur' = scur)
        /\ draining' = draining \/ draining' = [draining EXCEPT ![scur] = None]
    BY <1>6 DEF reapRemoves
  <2>2. draining' \in [Host -> Returned .. ForceRemoveAfter]
    BY <2>1 DEF Types
  <2>3. spc = "remove"
    BY <1>6 DEF reapRemoves
  <2> QED BY <2>1, <2>2, <2>3 DEF Types
<1>7. CASE reapForgets
  <2>1. /\ spc' = "reap" /\ scur' = NoHost /\ UNCHANGED <<lastSeen, call, todo>>
        /\ drainingSince' = [drainingSince EXCEPT ![scur] = None]
        /\ draining' = draining \/ draining' = [draining EXCEPT ![scur] = None]
    BY <1>7 DEF reapForgets
  <2>2. draining' \in [Host -> Returned .. ForceRemoveAfter]
    BY <2>1 DEF Types
  <2>3. drainingSince' \in [Host -> None .. ForceRemoveAfter]
    <3>1. drainingSince \in [Host -> None .. ForceRemoveAfter] /\ None \in None .. ForceRemoveAfter
      BY DEF Types
    <3> QED BY <2>1, <3>1
  <2> QED BY <2>1, <2>2, <2>3 DEF Types
<1>8. CASE SweepEnds
  BY <1>8 DEF SweepEnds, Types
<1> QED BY <1>1, <1>2, <1>3, <1>4, <1>5, <1>6, <1>7, <1>8 DEF Sweeper

\* The registry's own state is well typed throughout.
LEMMA TypesInvariant == Spec => []Types
<1>1. Init => Types
  BY RegistryAssumption DEF Init, Types, Idle, None, Returned
<1>2. Types /\ [Next]_vars => Types'
  <2> SUFFICES ASSUME Types, [Next]_vars PROVE Types'
    OBVIOUS
  <2>1. ASSUME NEW c \in Call, NEW h \in Host,
               Deregister(c, h) \/ \E k \in Capacities : Register(c, h, k)
        PROVE  Types'
    BY <2>1, CallTypes
  <2>2. ASSUME NEW c \in Call, Handler(c) PROVE Types'
    <3>1. call[c].host \in Host
      BY <2>2 DEF Handler, RegisterAdds, RegisterUndo, RegisterReadies, DeregisterNotes,
                  DeregisterDrains, Types
    <3> QED BY <2>2, <3>1, CallTypes
  <2>3. CASE Sweeper
    BY <2>3, SweepTypes
  <2>4. ASSUME NEW h \in Host, Heartbeat(h) \/ Crash(h) PROVE Types'
    BY <2>4 DEF Heartbeat, Crash, Types, sweep
  <2>5. ASSUME NEW v \in VM, Place(v) \/ Release(v) PROVE Types'
    BY <2>5 DEF Place, Release, Types, sweep
  <2>6. CASE Tick
    <3>1. lastSeen' \in [Host -> Int]
      BY <2>6, RegistryAssumption DEF Tick, Older, Types
    <3>2. drainingSince' \in [Host -> None .. ForceRemoveAfter]
      BY <2>6, RegistryAssumption DEF Tick, Older, Types, None
    <3>3. draining' \in [Host -> Returned .. ForceRemoveAfter]
      BY <2>6, RegistryAssumption DEF Tick, Older, Types, Returned
    <3> QED BY <2>6, <3>1, <3>2, <3>3 DEF Tick, Types, sweep
  <2>7. CASE UNCHANGED vars
    BY <2>7 DEF vars, Types, sweep
  <2> QED BY <2>1, <2>2, <2>3, <2>4, <2>5, <2>6, <2>7 DEF Next
<1> QED BY <1>1, <1>2, PTL DEF Spec

\* The registry calls the scheduler's methods and changes its state in no other way.
LEMMA StepsAreMethods ==
  ASSUME Types, [Next]_vars
  PROVE  [S!Next]_sched
<1> USE DEF S!Next, S!States
<1>1. ASSUME NEW c \in Call, NEW h \in Host,
             Deregister(c, h) \/ \E k \in Capacities : Register(c, h, k)
      PROVE  [S!Next]_sched
  BY <1>1 DEF Deregister, Register
<1>2. ASSUME NEW c \in Call, Handler(c) PROVE [S!Next]_sched
  <2>1. call[c].host \in Host /\ (call[c].pc = "add" => call[c].cap \in Capacities)
    BY <1>2 DEF Handler, RegisterAdds, RegisterUndo, RegisterReadies, DeregisterNotes,
                DeregisterDrains, Types
  <2> QED BY <1>2, <2>1 DEF Handler, RegisterAdds, RegisterUndo, RegisterReadies,
                            DeregisterNotes, DeregisterDrains, Drain
<1>3. CASE Sweeper
  <2>1. CASE reapRemoves
    <3>1. scur \in Host
      BY <2>1 DEF reapRemoves, Types
    <3> QED BY <2>1, <3>1 DEF reapRemoves
  <2>2. ASSUME NEW h \in Host, SweepDrains(h) \/ reapLooksAt(h) PROVE [S!Next]_sched
    BY <2>2 DEF SweepDrains, reapLooksAt, Drain
  <2>3. CASE Sweep \/ SweepNotes \/ reapSnapshot \/ reapForgets \/ SweepEnds
    BY <2>3 DEF Sweep, SweepNotes, reapSnapshot, reapForgets, SweepEnds
  <2> QED BY <1>3, <2>1, <2>2, <2>3 DEF Sweeper
<1>4. ASSUME NEW h \in Host, Heartbeat(h) \/ Crash(h) PROVE [S!Next]_sched
  BY <1>4 DEF Heartbeat, Crash
<1>5. ASSUME NEW v \in VM, Place(v) \/ Release(v) PROVE [S!Next]_sched
  BY <1>5 DEF Place, Release
<1>6. CASE Tick \/ UNCHANGED vars
  BY <1>6 DEF Tick, vars
<1> QED BY <1>1, <1>2, <1>3, <1>4, <1>5, <1>6 DEF Next

\* However handlers and the sweep overlap, the registry uses the scheduler as its
\* specification allows.
THEOREM RegistryImplementsScheduler == Spec => S!Spec
<1>1. Init => S!Init
  BY DEF Init
<1>2. Types /\ [Next]_vars => [S!Next]_(S!vars)
  BY StepsAreMethods DEF sched, S!vars
<1> QED BY <1>1, <1>2, TypesInvariant, PTL DEF Spec, S!Spec

\* So what is proved of the scheduler holds of the one the registry drives.
LEMMA SchedulerInvariant == Spec => []SP!IInv
<1>1. S!Init => SP!Init
  BY DEF S!Init, SP!Init
<1>2. [S!Next]_(S!vars) => [SP!Next]_(SP!vars)
  BY DEF S!Next, SP!Next, S!vars, SP!vars, S!AddHost, SP!AddHost, S!AddHostErr,
         SP!AddHostErr, S!MinSlotsPerHost, SP!MinSlotsPerHost, S!growBuckets, SP!growBuckets,
         S!SetHostState, SP!SetHostState, S!HostErr, SP!HostErr, S!free, SP!free,
         S!States, SP!States, S!RemoveHost, SP!RemoveHost, S!Place, SP!Place, S!PlaceErr,
         SP!PlaceErr, S!selectHost, SP!selectHost, S!Release, SP!Release, S!ReleaseErr,
         SP!ReleaseErr
<1>3. SP!SchedulerAssumption
  BY RegistryAssumption DEF SP!SchedulerAssumption
<1>4. SP!Init => SP!IInv
  BY <1>3, SP!SchedulerInit
<1>5. SP!IInv /\ [SP!Next]_(SP!vars) => SP!IInv'
  BY <1>3, SP!SchedulerStep
<1> QED BY <1>1, <1>2, <1>4, <1>5, RegistryImplementsScheduler, PTL DEF S!Spec

-----------------------------------------------------------------------------
(* The registry and the scheduler agree, host by host. *)

\* A step leaves what the maps and the scheduler say of host h ...
Same(h) ==
  /\ hostState'[h] = hostState[h] /\ (Tracked(h)' <=> Tracked(h))
  /\ drainingSince'[h] = drainingSince[h] /\ draining'[h] = draining[h]
  /\ hostState[h] = "Draining" => used'[h] <= used[h]

\* ... and where the operations on it are.
Unmoved(h) ==
  /\ \A c \in Call : call[c].host = h \/ call'[c].host = h => call'[c] = call[c]
  /\ (spc' \in DrainSteps /\ h \in todo') <=> (spc \in DrainSteps /\ h \in todo)
  /\ spc' \in ReapSteps /\ h \in todo' => spc \in ReapSteps /\ h \in todo /\ snap'[h] = snap[h]
  /\ scur' = h <=> scur = h
  /\ scur = h => spc' = spc
  /\ h \notin raced' => h \notin raced

\* Its invariant depends on no more.
LEMMA UntouchedKeeps ==
  ASSUME Types, used \in [Host -> Nat], used' \in [Host -> Nat], NEW h \in Host,
         Same(h), Unmoved(h), HostInv(h)
  PROVE  HostInv(h)'
<1>1. /\ Settled(h)' <=> Settled(h)
      /\ Dated(h)' <=> Dated(h)
      /\ Left(h)' <=> Left(h)
  BY DEF Same, Settled, Dated, Left, None, Returned
<1>2. Busy(h)' <=> Busy(h)
  BY DEF Unmoved, Busy, DrainSteps
<1>3. Alone(h)'
  BY DEF HostInv, Alone, Unmoved
<1>4. ASSUME NEW c \in Call, call'[c].host = h PROVE CallInv(c, h)'
  <2>1. call'[c] = call[c] /\ call[c].host = h /\ CallInv(c, h)
    BY <1>4 DEF Unmoved, HostInv
  <2> QED BY <1>1, <2>1 DEF CallInv, Same, None, Returned
<1>5. SweepInv(h)'
  <2>0. used[h] \in Nat /\ used'[h] \in Nat /\ drainingSince[h] \in Int /\ ForceRemoveAfter \in Int
    BY RegistryAssumption DEF Types, None
  <2>1. spc' \in DrainSteps /\ h \in todo' => ~Tracked(h)' /\ hostState'[h] = "Ready" /\ Left(h)'
    BY <1>1 DEF HostInv, SweepInv, Unmoved, Same
  <2>2. scur' = h => scur = h /\ spc' = spc
    BY DEF Unmoved
  <2>3. spc' = "since" /\ scur' = h => ~Tracked(h)' /\ hostState'[h] = "Draining" /\ Left(h)'
    BY <1>1, <2>2 DEF HostInv, SweepInv, Same
  <2>4. spc' = "forget" /\ scur' = h => ~Tracked(h)' /\ hostState'[h] = "Absent" /\ draining'[h] = None
    BY <2>2 DEF HostInv, SweepInv, Same
  <2>5. spc' = "remove" /\ scur' = h =>
          /\ ~Tracked(h)' /\ hostState'[h] = "Draining" /\ Dated(h)'
          /\ draining'[h] = Returned \/ (used'[h] > 0 => drainingSince'[h] >= ForceRemoveAfter)
    BY <1>1, <2>0, <2>2 DEF HostInv, SweepInv, Same
  <2>6. spc' \in ReapSteps /\ h \in todo' =>
          /\ snap'[h] \in Nat
          /\ draining'[h] = Returned \/ (hostState'[h] = "Draining" /\ used'[h] <= snap'[h])
    BY <2>0 DEF HostInv, SweepInv, Same, Unmoved
  <2> QED BY <2>1, <2>3, <2>4, <2>5, <2>6 DEF SweepInv
<1> QED BY <1>1, <1>2, <1>3, <1>4, <1>5 DEF HostInv

\* A step about one host.
LEMMA OneHost ==
  ASSUME Types, SP!IInv, SP!IInv', Agreement, NEW h \in Host,
         \A g \in Host : g # h => Same(g) /\ Unmoved(g),
         h \notin raced' => HostInv(h)'
  PROVE  Agreement'
<1>1. used \in [Host -> Nat] /\ used' \in [Host -> Nat]
  BY DEF SP!IInv, SP!TypeOK
<1> SUFFICES ASSUME NEW g \in Host, g \notin raced' PROVE HostInv(g)'
  BY DEF Agreement
<1>2. CASE g = h
  BY <1>2
<1>3. CASE g # h
  <2>1. HostInv(g)
    BY <1>3 DEF Unmoved, Agreement
  <2> QED BY <1>1, <1>3, <2>1, UntouchedKeeps
<1> QED BY <1>2, <1>3

\* A step about none.
LEMMA NoHostTouched ==
  ASSUME Types, SP!IInv, SP!IInv', Agreement, \A g \in Host : Same(g) /\ Unmoved(g)
  PROVE  Agreement'
<1>1. used \in [Host -> Nat] /\ used' \in [Host -> Nat]
  BY DEF SP!IInv, SP!TypeOK
<1> SUFFICES ASSUME NEW g \in Host, g \notin raced' PROVE HostInv(g)'
  BY DEF Agreement
<1>2. HostInv(g)
  BY DEF Unmoved, Agreement
<1> QED BY <1>1, <1>2, UntouchedKeeps

\* What the snapshot says of h holds, unless it came back.
Snapped(h) == spc \in ReapSteps /\ h \in todo =>
                draining[h] = Returned \/ (hostState[h] = "Draining" /\ used[h] <= snap[h])

\* A step of call c, the only operation on h, which ends or goes on.
LEMMA CallStep ==
  ASSUME NEW c \in Call, NEW h \in Host, UNCHANGED sweep, SweepInv(h), Snapped(h)',
         \A d \in Call : d # c => call'[d] = call[d] /\ call[d].host # h,
         ~(spc \in DrainSteps /\ h \in todo), scur # h,
         \/ call'[c] = Idle /\ Settled(h)' /\ Dated(h)'
         \/ call'[c].host = h /\ CallInv(c, h)'
  PROVE  HostInv(h)'
<1>1. Alone(h)'
  BY DEF Alone, sweep
<1>2. ~Busy(h)' => Settled(h)' /\ Dated(h)'
  BY DEF Busy
<1>3. ASSUME NEW d \in Call, call'[d].host = h PROVE CallInv(d, h)'
  <2>1. d = c
    BY <1>3
  <2>2. CASE call'[c] = Idle
    BY <2>1, <2>2 DEF CallInv, Idle
  <2> QED BY <2>1, <2>2
<1>4. SweepInv(h)'
  BY DEF SweepInv, Snapped, sweep
<1> QED BY <1>1, <1>2, <1>3, <1>4 DEF HostInv

\* The other hosts do not notice it.
LEMMA CallMovesOne ==
  ASSUME Types, NEW c \in Call, NEW h \in Host, UNCHANGED sweep,
         \A d \in Call : d # c => call'[d] = call[d],
         call[c].host \in {h, NoHost}, call'[c].host \in {h, NoHost},
         NEW g \in Host, g # h, g \notin raced' => g \notin raced
  PROVE  Unmoved(g)
<1>1. g # NoHost
  BY RegistryAssumption
<1>2. \A d \in Call : call[d].host = g \/ call'[d].host = g => call'[d] = call[d]
  BY <1>1
<1> QED BY <1>2 DEF Unmoved, sweep

\* Of a host with which nobody is busy.
LEMMA NotBusy ==
  ASSUME NEW h \in Host, ~Busy(h), HostInv(h)
  PROVE  /\ Settled(h) /\ Dated(h) /\ SweepInv(h) /\ Snapped(h)
         /\ \A c \in Call : call[c].host # h
         /\ ~(spc \in DrainSteps /\ h \in todo) /\ scur # h
BY DEF Busy, HostInv, SweepInv, Snapped, DrainSteps

\* Of a host with which a call is.
LEMMA OnlyCall ==
  ASSUME NEW h \in Host, HostInv(h), NEW c \in Call, call[c].host = h
  PROVE  /\ CallInv(c, h) /\ SweepInv(h) /\ Snapped(h)
         /\ \A d \in Call : d # c => call[d].host # h
         /\ ~(spc \in DrainSteps /\ h \in todo) /\ scur # h
BY DEF HostInv, Alone, SweepInv, Snapped

\* The calls of the agents.
LEMMA CallsKeepAgreement ==
  ASSUME Types, Types', Agreement, SP!IInv, SP!IInv', NEW c \in Call, NEW h \in Host,
         Deregister(c, h) \/ \E k \in Capacities : Register(c, h, k)
  PROVE  Agreement'
<1>0. used \in [Host -> Nat]
  BY DEF SP!IInv, SP!TypeOK
<1>1. CASE Deregister(c, h)
  <2>1. /\ Tracked(h) /\ lastSeen' = [lastSeen EXCEPT ![h] = None] /\ call[c] = Idle
        /\ call' = [call EXCEPT ![c] = [pc |-> "since", host |-> h, cap |-> 0]]
        /\ draining' = [draining EXCEPT ![h] = Leaves(h)]
        /\ raced' = raced \cup {g \in {h} : Busy(g)}
        /\ UNCHANGED <<hostState, used, drainingSince, sweep>>
    BY <1>1 DEF Deregister, Begins, sched
  <2>2. /\ call'[c] = [pc |-> "since", host |-> h, cap |-> 0]
        /\ \A d \in Call : d # c => call'[d] = call[d]
        /\ call[c].host = NoHost
    BY <2>1 DEF Types, Idle
  <2>3. ASSUME NEW g \in Host, g # h PROVE Same(g) /\ Unmoved(g)
    <3>1. Same(g)
      BY <1>0, <2>1, <2>3 DEF Same, Tracked, Types
    <3>2. g \notin raced' => g \notin raced
      BY <2>1
    <3> QED BY <2>1, <2>2, <2>3, <3>1, <3>2, CallMovesOne
  <2>4. ASSUME h \notin raced' PROVE HostInv(h)'
    <3>1. ~Busy(h) /\ HostInv(h)
      BY <2>1, <2>4 DEF Agreement
    <3>2. /\ Settled(h) /\ Dated(h) /\ SweepInv(h) /\ Snapped(h)
          /\ \A d \in Call : call[d].host # h
          /\ ~(spc \in DrainSteps /\ h \in todo) /\ scur # h
      BY <3>1, NotBusy
    <3>3. /\ ~Tracked(h)' /\ hostState'[h] = "Ready" /\ hostState[h] = "Ready"
          /\ draining'[h] = Leaves(h)
      BY <2>1, <3>2 DEF Tracked, Types, Settled
    <3>4. Left(h)' /\ (draining[h] = Returned => draining'[h] = Returned)
      BY <2>1, <3>2, <3>3 DEF Left, Leaves, Dated, None, Returned
    <3>5. Snapped(h)'
      BY <2>1, <3>2, <3>3, <3>4 DEF Snapped, sweep
    <3>6. CallInv(c, h)' /\ call'[c].host = h
      BY <2>2, <3>3, <3>4 DEF CallInv
    <3> QED BY <2>1, <2>2, <3>2, <3>5, <3>6, CallStep
  <2> QED BY <2>3, <2>4, OneHost
<1>2. ASSUME NEW k \in Capacities, Register(c, h, k), Tracked(h) PROVE Agreement'
  <2>1. /\ lastSeen' = [lastSeen EXCEPT ![h] = 0]
        /\ UNCHANGED <<hostState, used, drainingSince, draining, call, sweep, raced>>
    BY <1>2 DEF Register, sched
  <2>2. \A g \in Host : Same(g) /\ Unmoved(g)
    BY <1>0, <1>2, <2>1 DEF Same, Unmoved, Tracked, Types, None, sweep
  <2> QED BY <2>2, NoHostTouched
<1>3. ASSUME NEW k \in Capacities, Register(c, h, k), ~Tracked(h) PROVE Agreement'
  <2>1. /\ lastSeen' = [lastSeen EXCEPT ![h] = 0] /\ call[c] = Idle
        /\ call' = [call EXCEPT ![c] = [pc |-> "add", host |-> h, cap |-> k]]
        /\ raced' = raced \cup {g \in {h} : Busy(g)}
        /\ UNCHANGED <<hostState, used, drainingSince, draining, sweep>>
    BY <1>3 DEF Register, Begins, sched
  <2>2. /\ call'[c] = [pc |-> "add", host |-> h, cap |-> k]
        /\ \A d \in Call : d # c => call'[d] = call[d]
        /\ call[c].host = NoHost
    BY <2>1 DEF Types, Idle
  <2>3. ASSUME NEW g \in Host, g # h PROVE Same(g) /\ Unmoved(g)
    <3>1. Same(g)
      BY <1>0, <2>1, <2>3 DEF Same, Tracked, Types
    <3>2. g \notin raced' => g \notin raced
      BY <2>1
    <3> QED BY <2>1, <2>2, <2>3, <3>1, <3>2, CallMovesOne
  <2>4. ASSUME h \notin raced' PROVE HostInv(h)'
    <3>1. ~Busy(h) /\ HostInv(h)
      BY <2>1, <2>4 DEF Agreement
    <3>2. /\ Settled(h) /\ Dated(h) /\ SweepInv(h) /\ Snapped(h)
          /\ \A d \in Call : call[d].host # h
          /\ ~(spc \in DrainSteps /\ h \in todo) /\ scur # h
      BY <3>1, NotBusy
    <3>3. Tracked(h)' /\ Dated(h)'
      BY <2>1, <3>2 DEF Tracked, Types, Dated, None, Returned
    <3>4. Snapped(h)'
      BY <2>1, <3>2 DEF Snapped, sweep
    <3>5. CallInv(c, h)' /\ call'[c].host = h
      BY <1>3, <2>1, <2>2, <3>2, <3>3 DEF CallInv, Settled
    <3> QED BY <2>1, <2>2, <3>2, <3>4, <3>5, CallStep
  <2> QED BY <2>3, <2>4, OneHost
<1> QED BY <1>1, <1>2, <1>3

\* Their next steps.
LEMMA HandlersKeepAgreement ==
  ASSUME Types, Types', Agreement, SP!IInv, SP!IInv', NEW c \in Call, Handler(c)
  PROVE  Agreement'
<1>0. /\ hostState \in [Host -> {"Pending", "Ready", "Draining", "Absent"}]
      /\ used \in [Host -> Nat]
  BY DEF SP!IInv, SP!TypeOK, SP!States
<1>1. PICK h \in Host : h = call[c].host
  BY DEF Handler, RegisterAdds, RegisterUndo, RegisterReadies, DeregisterNotes,
         DeregisterDrains, Types
<1>2. UNCHANGED <<sweep, raced>>
  BY DEF Handler, RegisterAdds, RegisterUndo, RegisterReadies, DeregisterNotes, DeregisterDrains
<1>3. ASSUME h \notin raced
      PROVE  /\ CallInv(c, h) /\ SweepInv(h) /\ Snapped(h)
             /\ \A d \in Call : d # c => call[d].host # h
             /\ ~(spc \in DrainSteps /\ h \in todo) /\ scur # h
  BY <1>1, <1>3, OnlyCall DEF Agreement
<1>4. ASSUME \A d \in Call : d # c => call'[d] = call[d],
             call'[c] = Idle \/ call'[c].host = h,
             \A g \in Host : g # h => Same(g),
             h \notin raced => /\ Snapped(h)'
                               /\ \/ call'[c] = Idle /\ Settled(h)' /\ Dated(h)'
                                  \/ call'[c].host = h /\ CallInv(c, h)'
      PROVE  Agreement'
  <2>1. \A g \in Host : g # h => Unmoved(g)
    BY <1>1, <1>2, <1>4, CallMovesOne DEF Idle
  <2>2. h \notin raced' => HostInv(h)'
    BY <1>2, <1>3, <1>4, CallStep
  <2> QED BY <1>4, <2>1, <2>2, OneHost
<1>5. CASE RegisterAdds(c)
  <2>1. /\ call[c].pc = "add" /\ UNCHANGED <<lastSeen, drainingSince, draining>>
        /\ \/ /\ hostState[h] = "Absent" /\ hostState' = [hostState EXCEPT ![h] = "Pending"]
              /\ used' = [used EXCEPT ![h] = 0] /\ Step(c, "ready")
           \/ hostState[h] # "Absent" /\ Step(c, "ready") /\ UNCHANGED <<hostState, used>>
           \/ Step(c, "undo") /\ UNCHANGED <<hostState, used>>
    BY <1>1, <1>5 DEF RegisterAdds, S!AddHost, S!AddHostErr, sched
  <2>2. \A g \in Host : g # h => Same(g)
    BY <1>0, <2>1 DEF Same, Tracked
  <2>3. /\ \A d \in Call : d # c => call'[d] = call[d]
        /\ call'[c].host = h
        /\ \/ call'[c].pc = "ready" /\ hostState[h] = "Absent" /\ hostState'[h] = "Pending"
           \/ call'[c].pc = "ready" /\ hostState[h] # "Absent" /\ hostState'[h] = hostState[h]
                                    /\ used'[h] = used[h]
           \/ call'[c].pc = "undo" /\ hostState'[h] = hostState[h] /\ used'[h] = used[h]
    BY <1>0, <1>1, <2>1 DEF Step, Types
  <2>4. ASSUME h \notin raced PROVE Snapped(h)' /\ CallInv(c, h)'
    <3>1. /\ Tracked(h) /\ Dated(h) /\ Snapped(h)
          /\ hostState[h] # "Absent" => hostState[h] = "Draining" /\ drainingSince[h] # None
      BY <1>3, <2>1, <2>4 DEF CallInv
    <3>2. Tracked(h)' /\ drainingSince'[h] = drainingSince[h] /\ draining'[h] = draining[h]
      BY <2>1, <3>1 DEF Tracked
    <3>3. Dated(h)'
      BY <2>3, <3>1, <3>2 DEF Dated, None, Returned
    <3>4. Snapped(h)'
      BY <1>2, <2>3, <3>1, <3>2 DEF Snapped, Dated, sweep, None, Returned
    <3>5. CallInv(c, h)'
      BY <2>3, <3>1, <3>2, <3>3 DEF CallInv
    <3> QED BY <3>4, <3>5
  <2> QED BY <1>4, <2>2, <2>3, <2>4
<1>6. CASE RegisterUndo(c)
  <2>1. /\ call[c].pc = "undo" /\ call' = [call EXCEPT ![c] = Idle]
        /\ lastSeen' = [lastSeen EXCEPT ![h] = None]
        /\ UNCHANGED <<hostState, used, drainingSince, draining>>
    BY <1>1, <1>6 DEF RegisterUndo, Finish, sched
  <2>2. \A g \in Host : g # h => Same(g)
    BY <1>0, <2>1 DEF Same, Tracked, Types
  <2>3. (\A d \in Call : d # c => call'[d] = call[d]) /\ call'[c] = Idle /\ ~Tracked(h)'
    BY <2>1 DEF Types, Tracked
  <2>4. ASSUME h \notin raced PROVE Snapped(h)' /\ Settled(h)' /\ Dated(h)'
    <3>1. /\ Dated(h) /\ Snapped(h)
          /\ hostState[h] # "Absent" => hostState[h] = "Draining" /\ drainingSince[h] # None
      BY <1>3, <2>1, <2>4 DEF CallInv
    <3> QED BY <1>2, <2>1, <2>3, <3>1 DEF Settled, Dated, Snapped, sweep, None, Returned
  <2> QED BY <1>4, <2>2, <2>3, <2>4
<1>7. CASE RegisterReadies(c)
  <2>1. /\ call[c].pc = "ready" /\ call' = [call EXCEPT ![c] = Idle]
        /\ UNCHANGED <<lastSeen, drainingSince, used>>
    BY <1>7 DEF RegisterReadies, Finish, S!SetHostState, sched
  <2>2. \/ UNCHANGED <<hostState, draining>>
        \/ /\ hostState' = [hostState EXCEPT ![h] = "Ready"]
           /\ draining' = [draining EXCEPT ![h] = IF @ = None THEN None ELSE Returned]
    BY <1>1, <1>7 DEF RegisterReadies, S!SetHostState, sched
  <2>3. \A g \in Host : g # h => Same(g)
    BY <1>0, <2>1, <2>2 DEF Same, Tracked, Types
  <2>4. (\A d \in Call : d # c => call'[d] = call[d]) /\ call'[c] = Idle
    BY <2>1 DEF Types
  <2>5. ASSUME h \notin raced PROVE Snapped(h)' /\ Settled(h)' /\ Dated(h)'
    <3>1. Tracked(h) /\ Dated(h) /\ Snapped(h) /\ hostState[h] \in {"Pending", "Draining"}
      BY <1>3, <2>1, <2>5 DEF CallInv
    <3>2. /\ hostState' = [hostState EXCEPT ![h] = "Ready"]
          /\ draining' = [draining EXCEPT ![h] = IF @ = None THEN None ELSE Returned]
      BY <1>1, <1>7, <3>1 DEF RegisterReadies, S!SetHostState, S!HostErr
    <3>3. /\ Tracked(h)' /\ hostState'[h] = "Ready" /\ drainingSince'[h] = drainingSince[h]
          /\ draining'[h] = IF draining[h] = None THEN None ELSE Returned
      BY <1>0, <2>1, <3>1, <3>2 DEF Tracked, Types
    <3>4. draining[h] \in Int /\ drainingSince[h] \in Int
      BY RegistryAssumption DEF Types, None, Returned
    <3>5. draining[h] # None => draining'[h] = Returned
      BY <3>3
    <3>6. hostState[h] = "Draining" => draining[h] # None
      BY <3>1, <3>4 DEF Dated, None, Returned
    <3>7. Settled(h)' /\ Dated(h)'
      BY <3>1, <3>3, <3>5, <3>6 DEF Settled, Dated, None, Returned
    <3>8. draining[h] = Returned => draining[h] # None
      BY DEF None, Returned
    <3>9. Snapped(h)'
      BY <1>2, <3>1, <3>5, <3>6, <3>8 DEF Snapped, sweep
    <3> QED BY <3>7, <3>9
  <2> QED BY <1>4, <2>3, <2>4, <2>5
<1>8. CASE DeregisterNotes(c)
  <2>1. /\ call[c].pc = "since" /\ Step(c, "drain")
        /\ drainingSince' = [drainingSince EXCEPT ![h] = 0]
        /\ UNCHANGED <<hostState, used, lastSeen, draining>>
    BY <1>1, <1>8 DEF DeregisterNotes, sched
  <2>2. \A g \in Host : g # h => Same(g)
    BY <1>0, <2>1 DEF Same, Tracked, Types
  <2>3. /\ \A d \in Call : d # c => call'[d] = call[d]
        /\ call'[c].host = h /\ call'[c].pc = "drain" /\ drainingSince'[h] = 0
    BY <1>1, <2>1 DEF Step, Types
  <2>4. ASSUME h \notin raced PROVE Snapped(h)' /\ CallInv(c, h)'
    <3>1. ~Tracked(h) /\ hostState[h] = "Ready" /\ Left(h) /\ Snapped(h)
      BY <1>3, <2>1, <2>4 DEF CallInv
    <3> QED BY <1>2, <2>1, <2>3, <3>1 DEF CallInv, Left, Snapped, Tracked, sweep, None, Returned
  <2> QED BY <1>4, <2>2, <2>3, <2>4
<1>9. CASE DeregisterDrains(c)
  <2>1. /\ call[c].pc = "drain" /\ call' = [call EXCEPT ![c] = Idle]
        /\ UNCHANGED <<lastSeen, drainingSince, draining, used>>
        /\ UNCHANGED hostState \/ hostState' = [hostState EXCEPT ![h] = "Draining"]
    BY <1>1, <1>9 DEF DeregisterDrains, Finish, Drain, S!SetHostState, sched
  <2>2. \A g \in Host : g # h => Same(g)
    BY <1>0, <2>1 DEF Same, Tracked
  <2>3. (\A d \in Call : d # c => call'[d] = call[d]) /\ call'[c] = Idle
    BY <2>1 DEF Types
  <2>4. ASSUME h \notin raced PROVE Snapped(h)' /\ Settled(h)' /\ Dated(h)'
    <3>1. /\ ~Tracked(h) /\ hostState[h] = "Ready" /\ drainingSince[h] >= 0 /\ Snapped(h)
          /\ draining[h] = Returned \/ draining[h] >= drainingSince[h]
      BY <1>3, <2>1, <2>4 DEF CallInv
    <3>2. hostState'[h] = "Draining"
      BY <1>0, <1>1, <1>9, <3>1 DEF DeregisterDrains, Drain, S!SetHostState, S!HostErr
    <3>3. ~Tracked(h)' /\ drainingSince'[h] = drainingSince[h] /\ draining'[h] = draining[h]
      BY <2>1, <3>1 DEF Tracked
    <3>4. Settled(h)' /\ Dated(h)'
      BY <3>1, <3>2, <3>3 DEF Settled, Dated, None, Returned
    <3>5. Snapped(h)'
      BY <1>2, <3>1, <3>3 DEF Snapped, sweep
    <3> QED BY <3>4, <3>5
  <2> QED BY <1>4, <2>2, <2>3, <2>4
<1> QED BY <1>5, <1>6, <1>7, <1>8, <1>9 DEF Handler

\* A step of the sweep.
LEMMA SweeperKeepsAgreement ==
  ASSUME Types, Types', Agreement, SP!IInv, SP!IInv', Sweeper
  PROVE  Agreement'
<1>0. /\ hostState \in [Host -> {"Pending", "Ready", "Draining", "Absent"}]
      /\ used \in [Host -> Nat] /\ used' \in [Host -> Nat]
      /\ draining \in [Host -> Int] /\ drainingSince \in [Host -> Int]
      /\ ForceRemoveAfter \in Int /\ NoHost \notin Host
  <2>1. /\ hostState \in [Host -> {"Pending", "Ready", "Draining", "Absent"}]
        /\ used \in [Host -> Nat] /\ used' \in [Host -> Nat]
    BY DEF SP!IInv, SP!TypeOK, SP!States
  <2>2. ForceRemoveAfter \in Int /\ NoHost \notin Host
    BY RegistryAssumption
  <2>3. draining \in [Host -> Int] /\ drainingSince \in [Host -> Int]
    BY <2>2 DEF Types, None, Returned
  <2> QED BY <2>1, <2>2, <2>3
<1>1. UNCHANGED call
  BY DEF Sweeper, Sweep, SweepNotes, reapSnapshot, reapRemoves, reapForgets, SweepEnds,
         SweepDrains, reapLooksAt
<1>2. CASE Sweep
  <2>1. /\ spc = "idle" /\ todo' = {h \in Host : lastSeen[h] > HeartbeatTimeout} /\ spc' = "drain"
        /\ \A h \in Host : lastSeen'[h] = IF h \in todo' THEN None ELSE lastSeen[h]
        /\ \A h \in Host : draining'[h] = IF h \in todo' THEN Leaves(h) ELSE draining[h]
        /\ raced' = raced \cup {h \in todo' : Busy(h)}
        /\ UNCHANGED <<hostState, used, drainingSince, scur, snap>>
    BY <1>2 DEF Sweep, Begins, sched
  <2>2. scur = NoHost
    BY <2>1 DEF Types
  <2> SUFFICES ASSUME NEW h \in Host, h \notin raced' PROVE HostInv(h)'
    BY DEF Agreement
  <2>3. HostInv(h)
    BY <2>1 DEF Agreement
  <2>4. CASE h \notin todo'
    <3>1. Same(h)
      BY <1>0, <2>1, <2>4 DEF Same, Tracked
    <3>2. Unmoved(h)
      BY <1>0, <1>1, <2>1, <2>2, <2>4 DEF Unmoved, DrainSteps, ReapSteps
    <3> QED BY <1>0, <2>3, <3>1, <3>2, UntouchedKeeps
  <2>5. CASE h \in todo'
    <3>1. Tracked(h) /\ ~Busy(h)
      BY <2>1, <2>5, RegistryAssumption DEF Tracked, None
    <3>2. Settled(h) /\ Dated(h) /\ \A c \in Call : call[c].host # h
      BY <2>3, <3>1, NotBusy
    <3>3. ~Tracked(h)' /\ hostState'[h] = "Ready"
      BY <2>1, <2>5, <3>1, <3>2 DEF Tracked, Settled
    <3>4. Left(h)'
      BY <2>1, <2>5, <3>2, <3>3 DEF Left, Leaves, Dated, None, Returned
    <3>5. SweepInv(h)'
      BY <2>1, <3>3, <3>4 DEF SweepInv, ReapSteps
    <3>6. Alone(h)' /\ Busy(h)'
      BY <1>1, <2>1, <2>5, <3>2 DEF Alone, Busy
    <3> QED BY <1>1, <3>2, <3>5, <3>6 DEF HostInv
  <2> QED BY <2>4, <2>5
<1>3. ASSUME NEW h \in Host, SweepDrains(h) PROVE Agreement'
  <2>1. /\ spc = "drain" /\ h \in todo /\ scur' = h /\ todo' = todo \ {h} /\ spc' = "since"
        /\ UNCHANGED <<lastSeen, drainingSince, draining, used, snap, raced>>
        /\ UNCHANGED hostState \/ hostState' = [hostState EXCEPT ![h] = "Draining"]
    BY <1>3 DEF SweepDrains, Drain, S!SetHostState, sched
  <2>2. scur = NoHost
    BY <2>1 DEF Types
  <2>3. ASSUME NEW g \in Host, g # h PROVE Same(g) /\ Unmoved(g)
    <3>1. Same(g)
      BY <1>0, <2>1, <2>3 DEF Same, Tracked
    <3>2. Unmoved(g)
      BY <1>0, <1>1, <2>1, <2>2, <2>3 DEF Unmoved, DrainSteps, ReapSteps
    <3> QED BY <3>1, <3>2
  <2>4. ASSUME h \notin raced' PROVE HostInv(h)'
    <3>1. HostInv(h)
      BY <2>1, <2>4 DEF Agreement
    <3>2. /\ ~Tracked(h) /\ hostState[h] = "Ready" /\ Left(h)
          /\ \A c \in Call : call[c].host # h
      BY <2>1, <3>1 DEF HostInv, SweepInv, Alone, DrainSteps
    <3>3. hostState'[h] = "Draining"
      BY <1>0, <1>3, <3>2 DEF SweepDrains, Drain, S!SetHostState, S!HostErr
    <3>4. ~Tracked(h)' /\ Left(h)'
      BY <2>1, <3>2 DEF Tracked, Left
    <3>5. SweepInv(h)'
      BY <2>1, <3>3, <3>4 DEF SweepInv, ReapSteps
    <3>6. Alone(h)' /\ Busy(h)'
      BY <1>1, <2>1, <3>2 DEF Alone, Busy
    <3> QED BY <1>1, <3>2, <3>5, <3>6 DEF HostInv
  <2> QED BY <2>3, <2>4, OneHost
<1>4. CASE SweepNotes
  <2>1. /\ spc = "since" /\ spc' = "drain" /\ scur' = NoHost
        /\ UNCHANGED <<hostState, used, lastSeen, todo, draining, snap, raced>>
        /\ drainingSince' = [drainingSince EXCEPT ![scur] = IF @ = None THEN 0 ELSE @]
    BY <1>4 DEF SweepNotes, sched
  <2>2. PICK s \in Host : s = scur /\ s \notin todo
    BY <2>1 DEF Types
  <2>3. ASSUME NEW g \in Host, g # s PROVE Same(g) /\ Unmoved(g)
    <3>1. Same(g)
      BY <1>0, <2>1, <2>2, <2>3 DEF Same, Tracked
    <3>2. Unmoved(g)
      BY <1>0, <1>1, <2>1, <2>2, <2>3 DEF Unmoved, DrainSteps, ReapSteps
    <3> QED BY <3>1, <3>2
  <2>4. ASSUME s \notin raced' PROVE HostInv(s)'
    <3>1. HostInv(s)
      BY <2>1, <2>4 DEF Agreement
    <3>2. /\ ~Tracked(s) /\ hostState[s] = "Draining" /\ Left(s)
          /\ \A c \in Call : call[c].host # s
      BY <2>1, <2>2, <3>1 DEF HostInv, SweepInv, Alone
    <3>3. /\ ~Tracked(s)' /\ hostState'[s] = "Draining" /\ draining'[s] = draining[s]
          /\ drainingSince'[s] = IF drainingSince[s] = None THEN 0 ELSE drainingSince[s]
      BY <1>0, <2>1, <2>2, <3>2 DEF Tracked
    <3>4. Settled(s)' /\ Dated(s)'
      BY <3>2, <3>3 DEF Settled, Dated, Left, None, Returned
    <3>5. SweepInv(s)'
      BY <1>0, <2>1, <2>2 DEF SweepInv, ReapSteps
    <3>6. Alone(s)'
      BY <1>1, <3>2 DEF Alone
    <3> QED BY <1>1, <3>2, <3>4, <3>5, <3>6 DEF HostInv
  <2> QED BY <2>3, <2>4, OneHost
<1>5. CASE reapSnapshot
  <2>1. /\ spc = "drain" /\ todo = {} /\ spc' = "reap" /\ todo' = DOMAIN snap'
        /\ snap' = [h \in {g \in Host : hostState[g] = "Draining"} |-> used[h]]
        /\ UNCHANGED <<hostState, used, lastSeen, drainingSince, draining, scur, raced>>
    BY <1>5 DEF reapSnapshot, sched
  <2>2. scur = NoHost
    BY <2>1 DEF Types
  <2> SUFFICES ASSUME NEW h \in Host, h \notin raced' PROVE HostInv(h)'
    BY DEF Agreement
  <2>3. HostInv(h)
    BY <2>1 DEF Agreement
  <2>4. /\ Settled(h)' <=> Settled(h)
        /\ Dated(h)' <=> Dated(h)
        /\ Left(h)' <=> Left(h)
        /\ Tracked(h)' <=> Tracked(h)
    BY <2>1 DEF Settled, Dated, Left, Tracked
  <2>5. Busy(h)' <=> Busy(h)
    BY <1>1, <2>1 DEF Busy
  <2>6. Alone(h)'
    BY <1>0, <1>1, <2>1, <2>2, <2>3 DEF HostInv, Alone, DrainSteps
  <2>7. \A c \in Call : call'[c].host = h => CallInv(c, h)'
    BY <1>1, <2>1, <2>3, <2>4 DEF HostInv, CallInv
  <2>8. h \in todo' => hostState[h] = "Draining" /\ snap'[h] = used[h]
    BY <2>1
  <2>9. SweepInv(h)'
    BY <1>0, <2>1, <2>2, <2>8 DEF SweepInv, DrainSteps
  <2> QED BY <2>3, <2>4, <2>5, <2>6, <2>7, <2>9 DEF HostInv
<1>6. ASSUME NEW h \in Host, reapLooksAt(h) PROVE Agreement'
  <2>1. /\ spc = "reap" /\ h \in todo /\ todo' = todo \ {h}
        /\ UNCHANGED <<hostState, used, lastSeen, drainingSince, draining, snap>>
    BY <1>6 DEF reapLooksAt, sched
  <2>2. scur = NoHost
    BY <2>1 DEF Types
  <2>3. \A g \in Host : Same(g)
    BY <1>0, <2>1 DEF Same, Tracked
  <2>4. CASE ~MayReap(h)
    <3>1. UNCHANGED <<spc, scur, raced>>
      BY <1>6, <2>4 DEF reapLooksAt
    <3>2. \A g \in Host : Unmoved(g)
      BY <1>1, <2>1, <3>1 DEF Unmoved, DrainSteps, ReapSteps
    <3> QED BY <2>3, <3>2, NoHostTouched
  <2>5. CASE MayReap(h)
    <3>1. spc' = "remove" /\ scur' = h /\ raced' = raced \cup {g \in {h} : Busy(g)}
      BY <1>6, <2>5 DEF reapLooksAt, Begins
    <3>2. \A g \in Host : g # h => Unmoved(g)
      BY <1>0, <1>1, <2>1, <2>2, <3>1 DEF Unmoved, DrainSteps, ReapSteps
    <3>3. ASSUME h \notin raced' PROVE HostInv(h)'
      <4>1. ~Busy(h) /\ HostInv(h)
        BY <3>1, <3>3 DEF Agreement
      <4>2. Settled(h) /\ Dated(h) /\ Snapped(h) /\ \A c \in Call : call[c].host # h
        BY <4>1, NotBusy
      <4>3. /\ draining[h] = Returned \/ (hostState[h] = "Draining" /\ used[h] <= snap[h])
            /\ snap[h] \in Nat
        BY <2>1, <4>1 DEF HostInv, SweepInv, ReapSteps
      <4>4. ~Tracked(h) /\ hostState[h] = "Draining" /\ drainingSince[h] # None
        BY <2>5, <4>2, <4>3 DEF MayReap, Settled, Dated, None, Returned
      <4>5. draining[h] = Returned \/ (used[h] > 0 => drainingSince[h] >= ForceRemoveAfter)
        <5> SUFFICES ASSUME draining[h] # Returned, used[h] > 0
                     PROVE  drainingSince[h] >= ForceRemoveAfter
          OBVIOUS
        <5>1. snap[h] # 0
          BY <1>0, <4>3
        <5> QED BY <1>0, <2>5, <4>4, <5>1 DEF MayReap
      <4>6. ~Tracked(h)' /\ Dated(h)'
        BY <2>1, <4>2, <4>4 DEF Tracked, Dated
      <4>7. SweepInv(h)'
        BY <2>1, <3>1, <4>4, <4>5, <4>6 DEF SweepInv, DrainSteps
      <4>8. Alone(h)' /\ Busy(h)'
        BY <1>1, <3>1, <4>2 DEF Alone, Busy
      <4> QED BY <1>1, <4>2, <4>7, <4>8 DEF HostInv
    <3> QED BY <2>3, <3>2, <3>3, OneHost
  <2> QED BY <2>4, <2>5
<1>7. CASE reapRemoves
  <2>1. spc = "remove" /\ UNCHANGED <<lastSeen, drainingSince, todo, snap, raced>>
    BY <1>7 DEF reapRemoves
  <2>2. PICK s \in Host : s = scur /\ s \notin todo
    BY <2>1 DEF Types
  <2>3. \/ /\ hostState' = [hostState EXCEPT ![s] = "Absent"] /\ used' = [used EXCEPT ![s] = 0]
           /\ draining' = [draining EXCEPT ![s] = None]
           /\ spc' = "forget" /\ scur' = s
        \/ hostState[s] = "Absent" /\ spc' = "reap" /\ scur' = NoHost
             /\ UNCHANGED <<hostState, used, draining>>
    BY <1>7, <2>2 DEF reapRemoves, S!RemoveHost, S!HostErr, sched
  <2>4. ASSUME NEW g \in Host, g # s PROVE Same(g) /\ Unmoved(g)
    <3>1. Same(g)
      BY <1>0, <2>1, <2>3, <2>4 DEF Same, Tracked
    <3>2. Unmoved(g)
      BY <1>0, <1>1, <2>1, <2>2, <2>3, <2>4 DEF Unmoved, DrainSteps, ReapSteps
    <3> QED BY <3>1, <3>2
  <2>5. ASSUME s \notin raced' PROVE HostInv(s)'
    <3>1. HostInv(s)
      BY <2>1, <2>5 DEF Agreement
    <3>2. /\ ~Tracked(s) /\ hostState[s] = "Draining"
          /\ \A c \in Call : call[c].host # s
      BY <2>1, <2>2, <3>1 DEF HostInv, SweepInv, Alone
    <3>3. /\ ~Tracked(s)' /\ hostState'[s] = "Absent" /\ draining'[s] = None
          /\ spc' = "forget" /\ scur' = s
      BY <1>0, <2>1, <2>3, <3>2 DEF Tracked
    <3>4. SweepInv(s)'
      BY <2>1, <2>2, <3>3 DEF SweepInv, DrainSteps
    <3>5. Alone(s)' /\ Busy(s)'
      BY <1>1, <3>2, <3>3 DEF Alone, Busy
    <3> QED BY <1>1, <3>2, <3>4, <3>5 DEF HostInv
  <2> QED BY <2>4, <2>5, OneHost
<1>8. CASE reapForgets
  <2>1. /\ spc = "forget" /\ spc' = "reap" /\ scur' = NoHost
        /\ UNCHANGED <<hostState, used, lastSeen, todo, snap>>
    BY <1>8 DEF reapForgets, sched
  <2>2. PICK s \in Host : s = scur /\ s \notin todo
    BY <2>1 DEF Types
  <2>3. /\ drainingSince' = [drainingSince EXCEPT ![s] = None]
        /\ IF Forgotten(s)
           THEN raced' = raced \ {s} /\ draining' = [draining EXCEPT ![s] = None]
           ELSE UNCHANGED <<raced, draining>>
    BY <1>8, <2>2 DEF reapForgets
  <2>4. ASSUME NEW g \in Host, g # s PROVE Same(g) /\ Unmoved(g)
    <3>1. Same(g)
      BY <1>0, <2>1, <2>3, <2>4 DEF Same, Tracked
    <3>2. Unmoved(g)
      BY <1>0, <1>1, <2>1, <2>2, <2>3, <2>4 DEF Unmoved, DrainSteps, ReapSteps
    <3> QED BY <3>1, <3>2
  <2>5. ASSUME s \notin raced' PROVE HostInv(s)'
    <3>1. Forgotten(s)
      <4>1. CASE s \notin raced
        BY <2>1, <2>2, <4>1 DEF Agreement, HostInv, SweepInv, Alone, Forgotten
      <4>2. CASE s \in raced
        BY <2>3, <2>5, <4>2
      <4> QED BY <4>1, <4>2
    <3>2. /\ ~Tracked(s)' /\ hostState'[s] = "Absent" /\ (\A c \in Call : call[c].host # s)
          /\ draining'[s] = None /\ drainingSince'[s] = None
      BY <1>0, <2>1, <2>3, <3>1 DEF Forgotten, Tracked
    <3>3. Settled(s)' /\ Dated(s)'
      BY <3>2 DEF Settled, Dated
    <3>4. SweepInv(s)'
      BY <2>1, <2>2 DEF SweepInv, DrainSteps
    <3>5. Alone(s)'
      BY <1>1, <3>2 DEF Alone
    <3> QED BY <1>1, <3>2, <3>3, <3>4, <3>5 DEF HostInv
  <2> QED BY <2>4, <2>5, OneHost
<1>9. CASE SweepEnds
  <2>1. /\ spc = "reap" /\ todo = {} /\ spc' = "idle"
        /\ UNCHANGED <<hostState, used, lastSeen, drainingSince, draining, todo, scur, raced>>
    BY <1>9 DEF SweepEnds, sched
  <2>2. scur = NoHost
    BY <2>1 DEF Types
  <2>3. \A g \in Host : Same(g) /\ Unmoved(g)
    BY <1>0, <1>1, <2>1, <2>2 DEF Same, Unmoved, Tracked
  <2> QED BY <2>3, NoHostTouched
<1> QED BY <1>2, <1>3, <1>4, <1>5, <1>6, <1>7, <1>8, <1>9 DEF Sweeper

\* Time passes for all dates alike.
LEMMA TickKeepsAgreement ==
  ASSUME Types, Agreement, Tick
  PROVE  Agreement'
<1>1. /\ spc = "idle" /\ UNCHANGED <<hostState, call, spc, todo, scur, snap, raced>>
      /\ \A h \in Host : /\ lastSeen'[h] = Older(lastSeen[h], HeartbeatTimeout + 1)
                         /\ drainingSince'[h] = Older(drainingSince[h], ForceRemoveAfter)
                         /\ draining'[h] = Older(draining[h], ForceRemoveAfter)
  BY DEF Tick, sched, sweep
<1> SUFFICES ASSUME NEW h \in Host, h \notin raced PROVE HostInv(h)'
  BY <1>1 DEF Agreement
<1>2. HostInv(h)
  BY DEF Agreement
<1>3. /\ drainingSince[h] \in None .. ForceRemoveAfter /\ draining[h] \in Returned .. ForceRemoveAfter
      /\ ForceRemoveAfter \in Nat
  BY RegistryAssumption DEF Types
<1>4. /\ Tracked(h)' <=> Tracked(h)
      /\ drainingSince'[h] = None <=> drainingSince[h] = None
      /\ draining'[h] = None <=> draining[h] = None
      /\ draining'[h] = Returned <=> draining[h] = Returned
      /\ drainingSince[h] >= 0 => drainingSince'[h] >= 0
      /\ draining[h] >= 0 => draining'[h] >= 0
      /\ drainingSince[h] >= 0 /\ draining[h] >= drainingSince[h] => draining'[h] >= drainingSince'[h]
  BY <1>1, <1>3, RegistryAssumption DEF Tracked, Older, None, Returned, Types
<1>5. (Settled(h) => Settled(h)') /\ (Dated(h) => Dated(h)') /\ (Left(h) => Left(h)')
  BY <1>1, <1>4 DEF Settled, Dated, Left
<1>6. ASSUME NEW c \in Call, call'[c].host = h PROVE CallInv(c, h)'
  <2>1. CallInv(c, h)
    BY <1>1, <1>2, <1>6 DEF HostInv
  <2> QED BY <1>1, <1>4, <1>5, <2>1 DEF CallInv
<1>7. SweepInv(h)'
  BY <1>1 DEF SweepInv, DrainSteps, ReapSteps
<1>8. Alone(h)' /\ (Busy(h)' <=> Busy(h))
  BY <1>1, <1>2 DEF HostInv, Alone, Busy
<1> QED BY <1>2, <1>5, <1>6, <1>7, <1>8 DEF HostInv

\* However calls and the sweep overlap, the registry and the scheduler agree on every
\* host of which no two operations did.
LEMMA AgreementInvariant == Spec => []Agreement
<1>1. Init => Agreement
  <2> SUFFICES ASSUME Init, NEW h \in Host PROVE HostInv(h)
    BY DEF Agreement
  <2>1. Settled(h) /\ Dated(h)
    BY DEF Init, S!Init, Settled, Dated, Tracked, None
  <2>2. /\ \A c \in Call : call[c].host # h
        /\ spc = "idle"
    BY RegistryAssumption DEF Init, Idle
  <2> QED BY <2>1, <2>2 DEF HostInv, Alone, SweepInv, DrainSteps, ReapSteps
<1>2. Types /\ Types' /\ SP!IInv /\ SP!IInv' /\ Agreement /\ [Next]_vars => Agreement'
  <2> SUFFICES ASSUME Types, Types', SP!IInv, SP!IInv', Agreement, [Next]_vars PROVE Agreement'
    OBVIOUS
  <2>0. used \in [Host -> Nat] /\ used' \in [Host -> Nat]
    BY DEF SP!IInv, SP!TypeOK
  <2>1. ASSUME UNCHANGED <<call, sweep, raced>>, \A h \in Host : Same(h) PROVE Agreement'
    BY <2>1, NoHostTouched DEF Unmoved, sweep
  <2>2. ASSUME NEW h \in Host, Heartbeat(h) PROVE Agreement'
    <3>1. /\ Tracked(h) /\ lastSeen' = [lastSeen EXCEPT ![h] = 0]
          /\ UNCHANGED <<hostState, used, drainingSince, call, sweep, draining, raced>>
      BY <2>2 DEF Heartbeat, sched
    <3>2. \A g \in Host : Same(g)
      BY <2>0, <3>1 DEF Same, Tracked, Types, None
    <3> QED BY <2>1, <3>1, <3>2
  <2>3. ASSUME NEW h \in Host, Crash(h) PROVE Agreement'
    BY <2>0, <2>1, <2>3 DEF Crash, Same, Tracked, sched
  <2>4. ASSUME NEW v \in VM, Place(v) PROVE Agreement'
    <3>1. UNCHANGED <<lastSeen, drainingSince, call, sweep, draining, raced>>
      BY <2>4 DEF Place
    <3>2. PICK g \in Host : S!Place(v, g)
      BY <2>4 DEF Place
    <3>3. hostState[g] = "Ready"
      <4>1. g \in SP!selectHost
        BY <3>2 DEF S!Place, S!selectHost, SP!selectHost
      <4> QED BY <4>1, SP!SelectHostSound, RegistryAssumption DEF SP!SchedulerAssumption
    <3>4. hostState' = hostState /\ \A h \in Host : h # g => used'[h] = used[h]
      BY <2>0, <3>2 DEF S!Place
    <3>5. \A h \in Host : hostState[h] = "Draining" => used'[h] <= used[h]
      BY <2>0, <3>3, <3>4
    <3>6. \A h \in Host : Same(h)
      BY <3>1, <3>4, <3>5 DEF Same, Tracked
    <3> QED BY <2>1, <3>1, <3>6
  <2>5. ASSUME NEW v \in VM, Release(v) PROVE Agreement'
    <3>1. UNCHANGED <<hostState, lastSeen, drainingSince, call, sweep, draining, raced>>
      BY <2>5 DEF Release, S!Release
    <3>2. \A h \in Host : used'[h] <= used[h]
      BY <2>0, <2>5 DEF Release, S!Release
    <3>3. \A h \in Host : Same(h)
      BY <3>1, <3>2 DEF Same, Tracked
    <3> QED BY <2>1, <3>1, <3>3
  <2>6. CASE UNCHANGED vars
    BY <2>0, <2>1, <2>6 DEF vars, Same, Tracked, sched
  <2> QED BY <2>2, <2>3, <2>4, <2>5, <2>6, CallsKeepAgreement, HandlersKeepAgreement,
             SweeperKeepsAgreement, TickKeepsAgreement DEF Next
<1> QED BY <1>1, <1>2, TypesInvariant, SchedulerInvariant, PTL DEF Spec

\* However calls and sweeps of all hosts interleave, an agent whose heartbeats are
\* accepted is one whose host is given microVMs (Register, Deregister, Sweep), unless two
\* operations on that very host overlapped.
THEOREM HeartbeatsMeanReady == Spec => []TrackedIsReady
<1>1. Agreement => TrackedIsReady
  BY DEF Agreement, HostInv, TrackedIsReady, Settled
<1> QED BY <1>1, AgreementInvariant, PTL

\* Nor, with the same exception, is one that has stopped, and its grace period counts
\* from a date.
THEOREM SilenceMeansDraining == Spec => []UntrackedIsDraining
<1>1. Agreement => UntrackedIsDraining
  BY DEF Agreement, HostInv, UntrackedIsDraining, Settled
<1> QED BY <1>1, AgreementInvariant, PTL

\* A host with microVMs is given its whole grace period, in its first drain, although
\* the sweep reads Used before it looks at the dates and removes the host after that,
\* and hosts come and go meanwhile; unless two operations on that host overlapped.
THEOREM GraceIsGiven == Spec => GracePeriodGiven
<1>1. Types /\ SP!IInv /\ Agreement /\ [Next]_vars =>
        [\A h \in Host \ raced :
           hostState[h] # "Absent" /\ hostState'[h] = "Absent" /\ used[h] > 0 =>
             draining[h] \in {ForceRemoveAfter, Returned}]_vars
  <2> SUFFICES ASSUME Types, SP!IInv, Agreement, [Next]_vars, NEW h \in Host, h \notin raced,
                      hostState[h] # "Absent", hostState'[h] = "Absent", used[h] > 0
               PROVE  draining[h] \in {ForceRemoveAfter, Returned}
    OBVIOUS
  <2>0. hostState \in [Host -> {"Pending", "Ready", "Draining", "Absent"}]
    BY DEF SP!IInv, SP!TypeOK, SP!States
  <2>1. reapRemoves /\ scur = h
    <3>1. ASSUME NEW c \in Call, Handler(c) PROVE FALSE
      BY <2>0, <3>1 DEF Handler, RegisterAdds, RegisterUndo, RegisterReadies, DeregisterNotes,
                  DeregisterDrains, Drain, S!AddHost, S!SetHostState, sched
    <3>2. ASSUME NEW g \in Host, SweepDrains(g) PROVE FALSE
      BY <2>0, <3>2 DEF SweepDrains, Drain, S!SetHostState, sched
    <3>3. ASSUME NEW v \in VM, Place(v) \/ Release(v) PROVE FALSE
      BY <3>3 DEF Place, Release, S!Place, S!Release
    <3>4. ASSUME ~Sweeper, \A c \in Call : ~Handler(c), \A v \in VM : ~(Place(v) \/ Release(v))
          PROVE  FALSE
      <4>1. UNCHANGED sched
        BY <3>4 DEF Next, vars, Deregister, Register, Heartbeat, Crash, Tick
      <4> QED BY <4>1 DEF sched
    <3>5. CASE Sweeper
      <4>1. CASE Sweep \/ SweepNotes \/ reapSnapshot \/ reapForgets \/ SweepEnds
        BY <4>1 DEF Sweep, SweepNotes, reapSnapshot, reapForgets, SweepEnds, sched
      <4>2. ASSUME NEW g \in Host, reapLooksAt(g) PROVE FALSE
        BY <4>2 DEF reapLooksAt, sched
      <4>3. CASE reapRemoves
        <5>1. scur \in Host
          BY <4>3 DEF reapRemoves, Types
        <5> QED BY <2>0, <4>3, <5>1 DEF reapRemoves, S!RemoveHost, sched
      <4> QED BY <3>2, <3>5, <4>1, <4>2, <4>3 DEF Sweeper
    <3> QED BY <3>1, <3>3, <3>4, <3>5
  <2>2. /\ spc = "remove" /\ hostState[h] = "Draining" /\ Dated(h)
        /\ draining[h] = Returned \/ drainingSince[h] >= ForceRemoveAfter
    BY <2>1 DEF reapRemoves, Agreement, HostInv, SweepInv
  <2>3. draining[h] \in Returned .. ForceRemoveAfter /\ drainingSince[h] \in Int
        /\ ForceRemoveAfter \in Nat
    BY RegistryAssumption DEF Types, None
  <2> QED BY <2>2, <2>3 DEF Dated, Returned
<1> QED BY <1>1, TypesInvariant, SchedulerInvariant, AgreementInvariant, PTL DEF Spec, GracePeriodGiven

-----------------------------------------------------------------------------
(* What holds of every host, however operations on it overlap. *)

\* A call of Register that found h unknown is between its critical section and the end.
Joining(h) == \E c \in Call : call[c].host = h /\ call[c].pc \in {"add", "ready"}

\* The agent of h is gone, h takes no microVMs, and no registration of it is under way ...
Out(h) == h \in dead /\ hostState[h] \in {"Draining", "Absent"} /\ ~Joining(h)

\* ... and the scheduler has forgotten it, with every microVM it had.
Gone(h) == Out(h) /\ hostState[h] = "Absent" /\ \A v \in VM : assigned[v] # h

\* A host that was added and not yet made ready has the call that will do it: even when
\* registrations, deregistrations and removals of one host cross, none is left pending.
PendingIsJoining ==
  \A h \in Host : hostState[h] = "Pending" =>
    \E c \in Call : call[c].host = h /\ call[c].pc = "ready"

\* A host gets into service by the calls that register it, and in no other way.
LEMMA StatesMove ==
  ASSUME Types, SP!IInv, [Next]_vars, NEW h \in Host
  PROVE  \/ hostState'[h] = hostState[h]
         \/ hostState'[h] = "Draining" /\ hostState[h] # "Absent"
         \/ hostState'[h] = "Absent"
         \/ \E c \in Call : call[c].host = h /\ RegisterAdds(c) /\ hostState'[h] = "Pending"
         \/ \E c \in Call : call[c].host = h /\ RegisterReadies(c) /\ hostState'[h] = "Ready"
<1> DEFINE Goal == \/ hostState'[h] = hostState[h]
                   \/ hostState'[h] = "Draining" /\ hostState[h] # "Absent"
                   \/ hostState'[h] = "Absent"
                   \/ \E c \in Call : call[c].host = h /\ RegisterAdds(c) /\ hostState'[h] = "Pending"
                   \/ \E c \in Call : call[c].host = h /\ RegisterReadies(c) /\ hostState'[h] = "Ready"
<1> SUFFICES Goal
  OBVIOUS
<1>0. hostState \in [Host -> {"Pending", "Ready", "Draining", "Absent"}]
  BY DEF SP!IInv, SP!TypeOK, SP!States
<1>1. ASSUME NEW g \in Host, Drain(g) PROVE Goal
  BY <1>0, <1>1 DEF Drain, S!SetHostState, S!HostErr, sched
<1>2. ASSUME NEW c \in Call, RegisterAdds(c) PROVE Goal
  <2>1. \/ hostState' = [hostState EXCEPT ![call[c].host] = "Pending"]
        \/ UNCHANGED hostState
    BY <1>2 DEF RegisterAdds, S!AddHost, sched
  <2>2. CASE call[c].host = h
    BY <1>0, <1>2, <2>1, <2>2
  <2>3. CASE call[c].host # h
    BY <1>0, <2>1, <2>3
  <2> QED BY <2>2, <2>3
<1>3. ASSUME NEW c \in Call, RegisterReadies(c) PROVE Goal
  <2>1. \/ hostState' = [hostState EXCEPT ![call[c].host] = "Ready"]
        \/ UNCHANGED hostState
    BY <1>3 DEF RegisterReadies, S!SetHostState, sched
  <2>2. CASE call[c].host = h
    BY <1>0, <1>3, <2>1, <2>2
  <2>3. CASE call[c].host # h
    BY <1>0, <2>1, <2>3
  <2> QED BY <2>2, <2>3
<1>4. ASSUME NEW c \in Call, RegisterUndo(c) \/ DeregisterNotes(c) \/ DeregisterDrains(c)
      PROVE  Goal
  <2>1. CASE RegisterUndo(c) \/ DeregisterNotes(c)
    BY <2>1 DEF RegisterUndo, DeregisterNotes, sched
  <2>2. CASE DeregisterDrains(c)
    <3>1. call[c].host \in Host /\ Drain(call[c].host)
      BY <2>2 DEF DeregisterDrains, Types
    <3> HIDE DEF Goal
    <3> QED BY <1>1, <3>1
  <2> QED BY <1>4, <2>1, <2>2
<1>5. ASSUME NEW g \in Host, SweepDrains(g) PROVE Goal
  <2> HIDE DEF Goal
  <2> QED BY <1>1, <1>5 DEF SweepDrains
<1>6. CASE reapRemoves
  <2>1. UNCHANGED hostState \/ hostState' = [hostState EXCEPT ![scur] = "Absent"]
    BY <1>6 DEF reapRemoves, S!RemoveHost, sched
  <2> QED BY <1>0, <2>1
<1>7. ASSUME NEW v \in VM, Place(v) \/ Release(v) PROVE Goal
  BY <1>7 DEF Place, Release, S!Place, S!Release
<1>8. ASSUME \/ \E c \in Call, g \in Host : Deregister(c, g) \/ \E k \in Capacities : Register(c, g, k)
             \/ Sweep \/ SweepNotes \/ reapSnapshot \/ reapForgets \/ SweepEnds
             \/ \E g \in Host : reapLooksAt(g) \/ Heartbeat(g) \/ Crash(g)
             \/ Tick \/ UNCHANGED vars
      PROVE  UNCHANGED hostState
  BY <1>8 DEF Deregister, Register, Sweep, SweepNotes, reapSnapshot, reapForgets, SweepEnds,
              reapLooksAt, Heartbeat, Crash, Tick, vars, sched
<1>9. UNCHANGED hostState => Goal
  OBVIOUS
<1> HIDE DEF Goal
<1> QED BY <1>2, <1>3, <1>4, <1>5, <1>6, <1>7, <1>8, <1>9 DEF Next, Handler, Sweeper

\* A handler goes on from "add" to "ready" with the host it has; only Register begins
\* one there, for a host whose agent is alive.
LEMMA CallsMove ==
  ASSUME Types, [Next]_vars
  PROVE  /\ dead \subseteq dead'
         /\ \A c \in Call : call'[c].pc \in {"add", "ready"} =>
              call'[c].host \notin dead \/
                (call[c].host = call'[c].host /\ call[c].pc \in {"add", "ready"})
         /\ \A c \in Call : call[c].pc = "ready" => RegisterReadies(c) \/ call'[c] = call[c]
<1> DEFINE Goal == /\ dead \subseteq dead'
                   /\ \A c \in Call : call'[c].pc \in {"add", "ready"} =>
                        call'[c].host \notin dead \/
                          (call[c].host = call'[c].host /\ call[c].pc \in {"add", "ready"})
                   /\ \A c \in Call : call[c].pc = "ready" => RegisterReadies(c) \/ call'[c] = call[c]
<1> SUFFICES Goal
  OBVIOUS
<1>0. /\ call \in [Call -> [pc : {"idle", "add", "undo", "ready", "since", "drain"},
                            host : Host \cup {NoHost}, cap : Int]]
      /\ Idle.pc = "idle"
  BY DEF Types, Idle
<1>1. ASSUME NEW d \in Call, NEW r \in [pc : {"idle", "add", "undo", "ready", "since", "drain"},
                                        host : Host \cup {NoHost}, cap : Int],
             call' = [call EXCEPT ![d] = r], UNCHANGED dead,
             call[d].pc = "ready" => RegisterReadies(d),
             r.pc \in {"add", "ready"} =>
               r.host \notin dead \/ (call[d].host = r.host /\ call[d].pc \in {"add", "ready"})
      PROVE  Goal
  BY <1>0, <1>1
<1>2. ASSUME UNCHANGED call, dead \subseteq dead' PROVE Goal
  BY <1>2
<1> HIDE DEF Goal
<1>3. ASSUME NEW d \in Call, NEW g \in Host, NEW k \in Capacities, Register(d, g, k) PROVE Goal
  <2>1. CASE Tracked(g)
    BY <1>2, <1>3, <2>1 DEF Register
  <2>2. CASE ~Tracked(g)
    <3>1. PICK r : r = [pc |-> "add", host |-> g, cap |-> k]
      OBVIOUS
    <3>2. /\ call' = [call EXCEPT ![d] = r] /\ UNCHANGED dead /\ call[d].pc = "idle" /\ g \notin dead
          /\ r \in [pc : {"idle", "add", "undo", "ready", "since", "drain"},
                    host : Host \cup {NoHost}, cap : Int]
          /\ r.host = g
      BY <1>0, <1>3, <2>2, <3>1, RegistryAssumption DEF Register, Idle
    <3> QED BY <1>1, <3>2
  <2> QED BY <2>1, <2>2
<1>4. ASSUME NEW d \in Call, NEW g \in Host, Deregister(d, g) PROVE Goal
  <2>1. PICK r : r = [pc |-> "since", host |-> g, cap |-> 0]
    OBVIOUS
  <2>2. /\ call' = [call EXCEPT ![d] = r] /\ UNCHANGED dead /\ call[d].pc = "idle"
        /\ r \in [pc : {"idle", "add", "undo", "ready", "since", "drain"},
                  host : Host \cup {NoHost}, cap : Int]
        /\ r.pc = "since"
    BY <1>0, <1>4, <2>1 DEF Deregister, Idle
  <2> QED BY <1>1, <2>2
<1>5. ASSUME NEW d \in Call, RegisterUndo(d) \/ RegisterReadies(d) \/ DeregisterDrains(d) PROVE Goal
  <2>1. /\ call' = [call EXCEPT ![d] = Idle] /\ UNCHANGED dead
        /\ call[d].pc = "ready" => RegisterReadies(d)
    BY <1>5 DEF RegisterUndo, RegisterReadies, DeregisterDrains, Finish
  <2>2. Idle \in [pc : {"idle", "add", "undo", "ready", "since", "drain"},
                  host : Host \cup {NoHost}, cap : Int]
    BY DEF Idle
  <2> QED BY <1>0, <1>1, <2>1, <2>2
<1>6. ASSUME NEW d \in Call, RegisterAdds(d) \/ DeregisterNotes(d) PROVE Goal
  <2>1. PICK p \in {"ready", "undo", "drain"} : call' = [call EXCEPT ![d].pc = p]
    BY <1>6 DEF RegisterAdds, DeregisterNotes, Step
  <2>2. /\ UNCHANGED dead /\ call[d].pc \in {"add", "since"} /\ (call[d].pc = "since" => p = "drain")
    BY <1>6, <2>1 DEF RegisterAdds, DeregisterNotes, Step, Types
  <2>3. PICK r : r = [call[d] EXCEPT !.pc = p]
    OBVIOUS
  <2>4. /\ r \in [pc : {"idle", "add", "undo", "ready", "since", "drain"},
                  host : Host \cup {NoHost}, cap : Int]
        /\ r.pc = p /\ r.host = call[d].host /\ call' = [call EXCEPT ![d] = r]
    BY <1>0, <2>1, <2>3
  <2> QED BY <1>1, <2>2, <2>4
<1>7. ASSUME \/ Sweeper \/ Tick \/ UNCHANGED vars
             \/ \E g \in Host : Heartbeat(g) \/ Crash(g)
             \/ \E v \in VM : Place(v) \/ Release(v)
      PROVE  UNCHANGED call /\ dead \subseteq dead'
  BY <1>7 DEF Sweeper, Sweep, SweepNotes, reapSnapshot, reapRemoves, reapForgets, SweepEnds,
              SweepDrains, reapLooksAt, Heartbeat, Crash, Tick, Place, Release, vars
<1> QED BY <1>2, <1>3, <1>4, <1>5, <1>6, <1>7 DEF Next, Handler

\* A dead host that drains or is forgotten stays so.
LEMMA OutStays ==
  ASSUME Types, SP!IInv, [Next]_vars, NEW h \in Host, Out(h)
  PROVE  Out(h)' /\ (hostState[h] = "Absent" => hostState'[h] = "Absent")
<1>1. h \in dead /\ hostState[h] \in {"Draining", "Absent"} /\ ~Joining(h)
  BY DEF Out
<1>2. h \in dead'
  BY <1>1, CallsMove
<1>3. ASSUME NEW c \in Call, call[c].host = h, RegisterAdds(c) \/ RegisterReadies(c) PROVE FALSE
  BY <1>1, <1>3 DEF Joining, RegisterAdds, RegisterReadies
<1>4. /\ hostState'[h] \in {"Draining", "Absent"}
      /\ hostState[h] = "Absent" => hostState'[h] = "Absent"
  BY <1>1, <1>3, StatesMove
<1>5. ~Joining(h)'
  <2> SUFFICES ASSUME NEW c \in Call, call'[c].host = h, call'[c].pc \in {"add", "ready"}
               PROVE  FALSE
    BY DEF Joining
  <2>1. call[c].host = h /\ call[c].pc \in {"add", "ready"}
    BY <1>1, CallsMove
  <2> QED BY <1>1, <2>1 DEF Joining
<1> QED BY <1>2, <1>4, <1>5 DEF Out

\* The safety half of DeadHostsAreRemoved, and under any overlap of calls and sweeps: a
\* host whose agent is gone, once it drains and no registration of it is still being
\* handled, is never given microVMs again; once removed it stays removed, and none of its
\* slots stays taken.
THEOREM DeadHostsDoNotReturn ==
  ASSUME NEW h \in Host
  PROVE  Spec => [](Out(h) => []Out(h)) /\ [](Gone(h) => []Gone(h))
<1>1. Types /\ SP!IInv /\ Out(h) /\ [Next]_vars => Out(h)'
  BY OutStays
<1>2. Types /\ SP!IInv /\ SP!IInv' /\ Gone(h) /\ [Next]_vars => Gone(h)'
  <2> SUFFICES ASSUME Types, SP!IInv, SP!IInv', Gone(h), [Next]_vars PROVE Gone(h)'
    OBVIOUS
  <2>1. Out(h)' /\ hostState'[h] = "Absent"
    BY OutStays DEF Gone
  <2>2. \A v \in VM : assigned'[v] # NoHost => hostState'[assigned'[v]] # "Absent"
    BY DEF SP!IInv, SP!SlotAccounting, SP!Known
  <2>3. \A v \in VM : assigned'[v] # h
    BY <2>1, <2>2, RegistryAssumption
  <2> QED BY <2>1, <2>3 DEF Gone
<1> QED BY <1>1, <1>2, TypesInvariant, SchedulerInvariant, PTL DEF Spec

\* The registry's own map decides it for a host of which no two operations overlapped: a
\* dead one that is not tracked, with nobody busy, drains or is gone, for good, and a
\* call that arrives late cannot change that.
THEOREM SweptHostsStayOut ==
  ASSUME NEW h \in Host
  PROVE  Spec => [](h \in dead \ raced /\ ~Tracked(h) /\ ~Busy(h) => []Out(h))
<1>1. h \in dead \ raced /\ ~Tracked(h) /\ ~Busy(h) /\ UntrackedIsDraining => Out(h)
  BY DEF Out, Joining, Busy, UntrackedIsDraining
<1>2. Spec => [](Out(h) => []Out(h))
  BY DeadHostsDoNotReturn, PTL
<1>3. Spec => []UntrackedIsDraining
  BY SilenceMeansDraining
<1> QED BY <1>1, <1>2, <1>3, PTL

\* Whatever overlaps, a registration that added a host makes it ready: no host is left
\* known to the scheduler and never served.
THEOREM NoHostIsLeftPending == Spec => []PendingIsJoining
<1>1. Init => PendingIsJoining
  BY DEF Init, S!Init, PendingIsJoining
<1>2. Types /\ Types' /\ SP!IInv /\ PendingIsJoining /\ [Next]_vars => PendingIsJoining'
  <2> SUFFICES ASSUME Types, Types', SP!IInv, PendingIsJoining, [Next]_vars, NEW h \in Host,
                      hostState'[h] = "Pending"
               PROVE  \E c \in Call : call'[c].host = h /\ call'[c].pc = "ready"
    BY DEF PendingIsJoining
  <2>1. CASE hostState[h] = "Pending"
    <3>1. PICK c \in Call : call[c].host = h /\ call[c].pc = "ready"
      BY <2>1 DEF PendingIsJoining
    <3>2. CASE RegisterReadies(c)
      <4>1. S!HostErr(h) = "ok"
        BY <2>1 DEF S!HostErr
      <4>2. hostState' = [hostState EXCEPT ![h] = "Ready"]
        BY <2>1, <3>1, <3>2, <4>1 DEF RegisterReadies, S!SetHostState
      <4>3. hostState'[h] = "Ready"
        BY <4>2 DEF SP!IInv, SP!TypeOK
      <4> QED BY <4>3
    <3>3. CASE ~RegisterReadies(c)
      BY <3>1, <3>3, CallsMove
    <3> QED BY <3>2, <3>3
  <2>2. CASE hostState[h] # "Pending"
    <3>1. PICK c \in Call : call[c].host = h /\ RegisterAdds(c)
      BY <2>2, StatesMove
    <3>2. call' = [call EXCEPT ![c].pc = "ready"]
      <4>1. CASE UNCHANGED hostState
        BY <2>2, <4>1
      <4>2. CASE ~UNCHANGED hostState
        BY <3>1, <4>2 DEF RegisterAdds, Step, sched
      <4> QED BY <4>1, <4>2
    <3>3. call'[c].host = h /\ call'[c].pc = "ready"
      BY <3>1, <3>2 DEF Types
    <3> QED BY <3>3
  <2> QED BY <2>1, <2>2
<1> QED BY <1>1, <1>2, TypesInvariant, SchedulerInvariant, PTL DEF Spec
=============================================================================
