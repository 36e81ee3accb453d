-------------------------- MODULE PlacementProofs --------------------------
(***************************************************************************)
(* Proofs about Placement, for any hosts, microVMs and policy, any set of   *)
(* requests and way of naming them, any queue depth, with or without a      *)
(* booter, shutdown and changes of the fleet, and any bounds.               *)
(***************************************************************************)
EXTENDS Placement, FiniteSetTheorems, TLAPS

SP == INSTANCE SchedulerProofs

Queued(r) == \E i \in 1 .. Len(queue) : queue[i] = r

\* A request has returned iff it has an outcome; the dispatcher never answers what
\* only the request itself finds out; and until it is answered a request is queued, once, or served, from
\* the moment it got into the queue; only one that was given a host boots; and what a
\* request returns otherwise is its answer.
Journey(r) ==
  /\ pc[r] = "done" <=> outcome[r] # "none"
  /\ result[r].err \notin {"ErrQueueFull", "ErrBootFailed"}
  /\ result[r] = NoResult <=> result[r].err = "none"
  /\ IF pc[r] \in {"idle", "enqueue"} \/ outcome[r] = "ErrQueueFull"
     THEN ~Queued(r) /\ cur # r /\ result[r] = NoResult
     ELSE \/ Queued(r) /\ cur # r /\ result[r] = NoResult
          \/ ~Queued(r) /\ cur = r /\ result[r] = NoResult
          \/ ~Queued(r) /\ cur # r /\ result[r] # NoResult
  /\ pc[r] \in {"boot", "release", "signal", "replace"} \/ outcome[r] \in {"placed", "ErrBootFailed"}
       => result[r].err = "ok"
  /\ outcome[r] \in Errors \ {"ErrQueueFull", "ErrBootFailed"} => result[r].err = outcome[r]

NoDuplicates == \A i, j \in 1 .. Len(queue) : queue[i] = queue[j] => i = j

InHand == IF cur = NoReq THEN 0 ELSE 1

\* The arrivals are those answered, then the one in the dispatcher's hands, then the
\* queue.
Ordered ==
  LET n == Len(arrivals) - Len(queue) IN
  /\ n - InHand >= 0
  /\ \A i \in 1 .. Len(queue) : arrivals[n + i] = queue[i]
  /\ cur # NoReq => arrivals[n] = cur
  /\ \A i \in 1 .. n - InHand : result[arrivals[i]] # NoResult

QueueInv == (\A r \in Req : Journey(r)) /\ NoDuplicates /\ Ordered

HostOf(r) == IF pc[r] \in {"record", "await"} THEN result[r].host ELSE at[r]

\* Who holds a slot knows its host; unless it was lost it is the microVM's, and it is
\* nobody else's; and a slot that is taken is somebody's.
SlotInv ==
  /\ \A r \in Req : /\ result[r].err = "ok" => result[r].host \in Host
                    /\ Holding(r) => HostOf(r) \in Host
  /\ \A r \in Req : Holding(r) /\ r \notin lost => assigned[vmID[r]] = HostOf(r)
  /\ \A r, s \in Req : Holding(r) /\ Holding(s) /\ vmID[r] = vmID[s] =>
                         r = s \/ r \in lost \/ s \in lost
  /\ \A v \in VM : assigned[v] # NoHost => \E r \in Req : vmID[r] = v /\ Holding(r)

-----------------------------------------------------------------------------
(* The types. *)

\* The counters count.
LEMMA CountTypes ==
  ASSUME Types, NEW c \in Counters, Count(c)
  PROVE  stats' \in [Counters -> Nat]
BY DEF Types, Count

\* An answer is of the kind a request expects.
LEMMA AnswerTypes ==
  ASSUME Types, NEW r \in Req, NEW e \in Errors \cup {"ok"}, NEW h \in Host \cup {NoHost},
         Answer(r, e, h)
  PROVE  result' \in [Req -> [err : Errors \cup {"none", "ok"}, host : Host \cup {NoHost}]]
BY DEF Types, Answer

\* No step of a request leaves the types.
LEMMA RequestTypes ==
  ASSUME Types, NEW r \in Req, Admit(r) \/ Expire(r) \/ Requests(r)
  PROVE  Types'
<1> USE DEF sched, admit, maxBootAttempts, Errors, Counters
<1>1. CASE Admit(r)
  BY <1>1, CountTypes DEF Admit, Goto, Types
<1>2. CASE Expire(r)
  BY <1>2, CountTypes DEF Expire, Types
<1>3. CASE Enqueue(r)
  <2>1. queue' \in Seq(Req) /\ arrivals' \in Seq(Req) /\ Len(queue') = Len(queue) + 1
    BY <1>3 DEF Enqueue, Types
  <2>2. Len(queue') <= QueueDepth
    BY <1>3, <2>1, PlacementAssumption DEF Enqueue, Types
  <2> QED BY <1>3, <2>1, <2>2 DEF Enqueue, Goto, Types
<1>4. CASE QueueFull(r)
  BY <1>4, CountTypes DEF QueueFull, Goto, Return, Types
<1>5. CASE recordQueueDepth(r)
  <2>1. stats' \in [Counters -> Nat]
    <3>1. /\ stats["maxQueueLen"] \in Nat /\ stats["maxQueueLen"] = stats.maxQueueLen
          /\ Len(queue) \in Nat
      BY DEF Types
    <3> QED BY <1>5, <3>1 DEF recordQueueDepth, Types
  <2> HIDE DEF Counters
  <2> QED BY <1>5, <2>1 DEF recordQueueDepth, Goto, Types
<1>6. CASE Receive(r)
  <2>1. at' \in [Req -> Host \cup {NoHost}]
    BY <1>6 DEF Receive, Types
  <2>2. stats' \in [Counters -> Nat]
    BY <1>6, CountTypes DEF Receive, Types
  <2>3. /\ pc[r] = "await"
        /\ \/ pc' = [pc EXCEPT ![r] = "boot"] /\ UNCHANGED outcome
           \/ /\ pc' = [pc EXCEPT ![r] = "done"]
              /\ \E o \in Errors \cup {"none", "placed"} : outcome' = [outcome EXCEPT ![r] = o]
    <3>1. result[r].err \in Errors \cup {"none", "ok"}
      BY DEF Types
    <3> QED BY <1>6, <3>1 DEF Receive, Goto, Return
  <2>4. UNCHANGED <<vmID, sched, expired, tries, queue, result, freed, stopping, dpc, cur,
                    owed, lost, arrivals>>
    BY <1>6 DEF Receive
  <2> HIDE DEF Counters
  <2>5. CASE pc' = [pc EXCEPT ![r] = "boot"] /\ UNCHANGED outcome
    BY <2>1, <2>2, <2>4, <2>5 DEF Types
  <2>6. ASSUME pc' = [pc EXCEPT ![r] = "done"],
               NEW o \in Errors \cup {"none", "placed"}, outcome' = [outcome EXCEPT ![r] = o]
        PROVE  Types'
    <3>1. outcome' \in [Req -> Errors \cup {"none", "placed"}]
      BY <2>6 DEF Types
    <3>2. \A q \in Req : pc'[q] = "replace" => tries'[q] + 1 < maxBootAttempts
      BY <2>4, <2>6 DEF Types
    <3> HIDE DEF Errors
    <3> QED BY <2>1, <2>2, <2>4, <2>6, <3>1, <3>2 DEF Types
  <2> QED BY <2>3, <2>5, <2>6
<1>7. CASE BootSucceeds(r)
  BY <1>7, CountTypes DEF BootSucceeds, Goto, Return, Types
<1>8. CASE BootFails(r)
  BY <1>8, CountTypes DEF BootFails, Goto, Types
<1>9. CASE BootRelease(r)
  <2>1. lost' \subseteq Req
    BY <1>9 DEF BootRelease, Holders, Types
  <2>2. /\ pc' = [pc EXCEPT ![r] = "signal"]
        /\ UNCHANGED <<vmID, expired, at, tries, outcome, queue, result, freed,
                       stopping, dpc, cur, stats, owed, arrivals>>
    BY <1>9 DEF BootRelease, Goto
  <2> QED BY <2>1, <2>2 DEF Types
<1>10. CASE BootSignal(r)
  <2>1. /\ freed' = TRUE
        /\ UNCHANGED <<vmID, sched, expired, at, tries, queue, result, stopping, dpc, cur,
                       owed, lost, arrivals>>
    BY <1>10 DEF BootSignal, signalCapacity
  <2>2. CASE tries[r] + 1 >= maxBootAttempts \/ r \in expired
    <3>1. /\ Count("bootFailed") /\ pc' = [pc EXCEPT ![r] = "done"]
          /\ outcome' = [outcome EXCEPT ![r] = "ErrBootFailed"]
      BY <1>10, <2>2 DEF BootSignal, Return, Goto
    <3> QED BY <2>1, <3>1, CountTypes DEF Types
  <2>3. CASE ~(tries[r] + 1 >= maxBootAttempts \/ r \in expired)
    <3>1. pc' = [pc EXCEPT ![r] = "replace"] /\ UNCHANGED <<stats, outcome>>
      BY <1>10, <2>3 DEF BootSignal, Goto
    <3>2. \A q \in Req : pc'[q] = "replace" => tries'[q] + 1 < maxBootAttempts
      <4>1. tries[r] \in 0 .. 2 /\ tries' = tries /\ ~(tries[r] + 1 >= 3)
        BY <2>1, <2>3 DEF Types
      <4>2. \A q \in Req : pc'[q] = IF q = r THEN "replace" ELSE pc[q]
        BY <3>1 DEF Types
      <4> QED BY <4>1, <4>2 DEF Types
    <3> QED BY <2>1, <3>1, <3>2 DEF Types
  <2> QED BY <2>2, <2>3
<1>11. CASE BootReplace(r)
  <2>1. UNCHANGED <<vmID, expired, queue, result, freed, stopping, dpc, cur, owed, arrivals>>
    BY <1>11 DEF BootReplace
  <2>2. ASSUME NEW h \in Host, at' = [at EXCEPT ![r] = h],
               tries' = [tries EXCEPT ![r] = @ + 1], lost' = lost \ {r},
               Goto(r, "boot"), UNCHANGED <<stats, outcome>>
        PROVE  Types'
    <3>1. tries[r] \in 0 .. 2 /\ tries[r] + 1 < 3
      BY <1>11 DEF BootReplace, Types
    <3>2. tries' \in [Req -> 0 .. maxBootAttempts - 1]
      BY <2>2, <3>1 DEF Types
    <3>3. \A q \in Req : pc'[q] = "replace" => tries'[q] + 1 < maxBootAttempts
      BY <2>2 DEF Types, Goto
    <3> QED BY <2>1, <2>2, <3>2, <3>3 DEF Types, Goto
  <2>3. ASSUME Count("bootFailed"), Return(r, "ErrBootFailed"), UNCHANGED <<sched, at, tries, lost>>
        PROVE  Types'
    BY <2>1, <2>3, CountTypes DEF Return, Goto, Types
  <2> QED BY <1>11, <2>2, <2>3 DEF BootReplace
<1> QED BY <1>1, <1>2, <1>3, <1>4, <1>5, <1>6, <1>7, <1>8, <1>9, <1>10, <1>11 DEF Requests

\* No step of the dispatcher leaves the types.
LEMMA DispatcherTypes ==
  ASSUME Types, Dispatcher
  PROVE  Types'
<1> USE DEF sched, admit, maxBootAttempts, Errors, Counters
<1>1. CASE Take
  BY <1>1, CountTypes, AnswerTypes, PlacementAssumption DEF Take, Types
<1>2. CASE Quit
  BY <1>2, CountTypes, AnswerTypes, PlacementAssumption DEF Quit, Types
<1>3. CASE drain
  <2>1. CASE queue # <<>>
    <3>1. Head(queue) \in Req /\ Tail(queue) \in Seq(Req) /\ Len(Tail(queue)) = Len(queue) - 1
      BY <2>1 DEF Types
    <3>2. Answer(Head(queue), "ErrShuttingDown", NoHost) /\ queue' = Tail(queue) /\ UNCHANGED dpc
      BY <1>3, <2>1 DEF drain
    <3>3. result' \in [Req -> [err : Errors \cup {"none", "ok"}, host : Host \cup {NoHost}]]
      BY <3>1, <3>2, AnswerTypes
    <3>4. Len(queue') <= QueueDepth
      BY <3>1, <3>2, PlacementAssumption DEF Types
    <3> QED BY <1>3, <3>1, <3>2, <3>3, <3>4 DEF drain, Types
  <2>2. CASE queue = <<>>
    BY <1>3, <2>2 DEF drain, Types
  <2> QED BY <2>1, <2>2
<1>4. CASE CheckDeadline
  BY <1>4, CountTypes, AnswerTypes, PlacementAssumption DEF CheckDeadline, TimeOut, Answer, Types
<1>5. CASE dispatchPlace
  BY <1>5, CountTypes, AnswerTypes, PlacementAssumption DEF dispatchPlace, Answer, Types
<1>6. CASE WaitFreed
  BY <1>6, CountTypes, AnswerTypes, PlacementAssumption DEF WaitFreed, Types
<1>7. CASE WaitTimer
  BY <1>7, CountTypes, AnswerTypes, PlacementAssumption DEF WaitTimer, Types
<1>8. CASE WaitExpired
  BY <1>8, CountTypes, AnswerTypes, PlacementAssumption DEF WaitExpired, TimeOut, Answer, Types
<1>9. CASE WaitStopped
  BY <1>9, CountTypes, AnswerTypes, PlacementAssumption DEF WaitStopped, Answer, Types
<1> QED BY <1>1, <1>2, <1>3, <1>4, <1>5, <1>6, <1>7, <1>8, <1>9 DEF Dispatcher

\* Nor does anybody else's.
LEMMA OtherTypes ==
  ASSUME Types,
         \/ Stop \/ SignalCapacity \/ \E v \in VM : Release(v)
         \/ \E h \in Host : HostJoins(h) \/ HostReady(h) \/ HostDrains(h) \/ HostRemoved(h)
  PROVE  Types'
<1> USE DEF sched, admit
<1>1. CASE Stop
  BY <1>1 DEF Stop, Types
<1>2. CASE SignalCapacity
  BY <1>2 DEF SignalCapacity, signalCapacity, Types
<1>3. ASSUME NEW v \in VM, Release(v) PROVE Types'
  <2>1. lost' \subseteq Req
    BY <1>3 DEF Release, Holders, Types
  <2>2. stats' \in [Counters -> Nat]
    BY <1>3, CountTypes DEF Release, Counters
  <2> QED BY <1>3, <2>1, <2>2 DEF Release, Types
<1>4. ASSUME NEW h \in Host, HostJoins(h) \/ HostReady(h) \/ HostDrains(h) PROVE Types'
  BY <1>4 DEF HostJoins, HostReady, HostDrains, Types
<1>5. ASSUME NEW h \in Host, HostRemoved(h) PROVE Types'
  <2>1. lost' \subseteq Req
    BY <1>5 DEF HostRemoved, Holders, Types
  <2> QED BY <1>5, <2>1 DEF HostRemoved, Types
<1> QED BY <1>1, <1>2, <1>3, <1>4, <1>5

\* The service's own state is well typed throughout.
LEMMA TypesInvariant == Spec => []Types
<1>1. Init => Types
  <2> SUFFICES ASSUME Init PROVE Types
    OBVIOUS
  <2>1. stats \in [Counters -> Nat]
    BY DEF Init, Counters
  <2>2. queue \in Seq(Req) /\ Len(queue) <= QueueDepth /\ arrivals \in Seq(Req)
    BY PlacementAssumption DEF Init
  <2>3. result \in [Req -> [err : Errors \cup {"none", "ok"}, host : Host \cup {NoHost}]]
    BY DEF Init, NoResult
  <2>4. tries \in [Req -> 0 .. maxBootAttempts - 1] /\ vmID \in [Req -> VM]
    BY PlacementAssumption DEF Init, maxBootAttempts
  <2>5. freed \in BOOLEAN /\ stopping \in BOOLEAN
    BY DEF Init
  <2> QED BY <2>1, <2>2, <2>3, <2>4, <2>5 DEF Init, Types
<1>2. Types /\ [Next]_vars => Types'
  <2> SUFFICES ASSUME Types, [Next]_vars PROVE Types'
    OBVIOUS
  <2>1. CASE UNCHANGED vars
    BY <2>1 DEF vars, sched, admit, Types
  <2> QED BY <2>1, RequestTypes, DispatcherTypes, OtherTypes DEF Next
<1> QED BY <1>1, <1>2, PTL DEF Spec
-----------------------------------------------------------------------------
(* The scheduler inside the service. *)

\* The service calls the scheduler's methods and changes its state in no other way.
LEMMA StepsAreMethods ==
  ASSUME Types, [Next]_vars
  PROVE  [S!Next]_sched
<1> USE DEF vars, admit, S!Next
<1>1. ASSUME NEW r \in Req, Admit(r) \/ Expire(r) \/ Requests(r)
      PROVE  [S!Next]_sched
  <2>1. vmID[r] \in VM
    BY DEF Types
  <2>2. CASE BootRelease(r)
    BY <2>1, <2>2 DEF BootRelease
  <2>3. CASE BootReplace(r)
    BY <2>1, <2>3 DEF BootReplace
  <2>4. CASE Admit(r) \/ Expire(r) \/ Enqueue(r) \/ QueueFull(r) \/ recordQueueDepth(r)
    BY <2>4 DEF Admit, Expire, Enqueue, QueueFull, recordQueueDepth
  <2>5. CASE Receive(r) \/ BootSucceeds(r) \/ BootFails(r) \/ BootSignal(r)
    BY <2>5 DEF Receive, BootSucceeds, BootFails, BootSignal
  <2> QED BY <1>1, <2>2, <2>3, <2>4, <2>5 DEF Requests
<1>2. ASSUME Dispatcher
      PROVE  [S!Next]_sched
  <2>1. CASE dispatchPlace
    <3>1. cur \in Req /\ vmID[cur] \in VM
      BY <2>1, PlacementAssumption DEF dispatchPlace, Types
    <3> QED BY <2>1, <3>1 DEF dispatchPlace
  <2>2. CASE Take \/ Quit \/ drain \/ CheckDeadline
    BY <2>2 DEF Take, Quit, drain, CheckDeadline
  <2>3. CASE WaitFreed \/ WaitTimer \/ WaitExpired \/ WaitStopped
    BY <2>3 DEF WaitFreed, WaitTimer, WaitExpired, WaitStopped
  <2> QED BY <1>2, <2>1, <2>2, <2>3 DEF Dispatcher
<1>3. CASE Stop \/ SignalCapacity
  BY <1>3 DEF Stop, SignalCapacity
<1>4. ASSUME NEW v \in VM, Release(v) PROVE [S!Next]_sched
  BY <1>4 DEF Release
<1>5. ASSUME NEW h \in Host, HostJoins(h) \/ HostReady(h) \/ HostDrains(h) \/ HostRemoved(h)
      PROVE  [S!Next]_sched
  BY <1>5 DEF HostJoins, HostReady, HostDrains, HostRemoved, S!States
<1> QED BY <1>1, <1>2, <1>3, <1>4, <1>5 DEF Next

\* What is proved of the scheduler holds of the one in the service.
LEMMA MethodsKeepInvariant ==
  ASSUME SP!IInv, [S!Next]_sched
  PROVE  SP!IInv'
<1> USE DEF SP!SchedulerAssumption
<1>1. ASSUME NEW h \in Host, NEW c \in Capacities, S!AddHost(h, c) PROVE SP!IInv'
  <2>1. SP!AddHost(h, c)
    BY <1>1 DEF S!AddHost, SP!AddHost, S!AddHostErr, SP!AddHostErr, S!MinSlotsPerHost,
                SP!MinSlotsPerHost, S!growBuckets, SP!growBuckets
  <2> QED BY <2>1, SP!AddHostPreserves, PlacementAssumption
<1>2. ASSUME NEW h \in Host, NEW s \in S!States, S!SetHostState(h, s) PROVE SP!IInv'
  <2>1. SP!SetHostState(h, s) /\ s \in SP!States
    BY <1>2 DEF S!SetHostState, SP!SetHostState, S!HostErr, SP!HostErr, S!free, SP!free,
                S!States, SP!States
  <2> QED BY <2>1, SP!SetHostStatePreserves, PlacementAssumption
<1>3. ASSUME NEW h \in Host, S!RemoveHost(h) PROVE SP!IInv'
  <2>1. SP!RemoveHost(h)
    BY <1>3 DEF S!RemoveHost, SP!RemoveHost, S!HostErr, SP!HostErr, S!free, SP!free
  <2> QED BY <2>1, SP!RemoveHostPreserves, PlacementAssumption
<1>4. ASSUME NEW v \in VM, NEW h \in Host, S!Place(v, h) PROVE SP!IInv'
  <2>1. SP!Place(v, h)
    BY <1>4 DEF S!Place, SP!Place, S!PlaceErr, SP!PlaceErr, S!selectHost, SP!selectHost,
                S!free, SP!free
  <2> QED BY <2>1, SP!PlacePreserves, PlacementAssumption
<1>5. ASSUME NEW v \in VM, S!Release(v) PROVE SP!IInv'
  <2>1. SP!Release(v)
    BY <1>5 DEF S!Release, SP!Release, S!ReleaseErr, SP!ReleaseErr, S!free, SP!free
  <2> QED BY <2>1, SP!ReleasePreserves, PlacementAssumption
<1>6. CASE UNCHANGED sched
  <2>1. SP!TypeOK'
    BY <1>6 DEF sched, SP!IInv, SP!TypeOK
  <2>2. SP!SlotAccounting'
    <3>1. \A h \in Host : SP!VMsOn(h)' = SP!VMsOn(h)
      BY <1>6 DEF sched, SP!VMsOn
    <3>2. SP!Known' = SP!Known
      BY <1>6 DEF sched, SP!Known
    <3> QED BY <1>6, <3>1, <3>2 DEF sched, SP!IInv, SP!SlotAccounting
  <2>3. SP!BucketsExact'
    BY <1>6 DEF sched, SP!IInv, SP!BucketsExact, SP!Known, SP!free
  <2> QED BY <2>1, <2>2, <2>3 DEF SP!IInv
<1> QED BY <1>1, <1>2, <1>3, <1>4, <1>5, <1>6 DEF S!Next

\* The scheduler's counters and buckets are exact in every state of the service.
LEMMA SchedulerInvariant == Spec => []SP!IInv
<1>1. Init => SP!IInv
  <2> SUFFICES ASSUME Init PROVE SP!IInv
    OBVIOUS
  <2>1. SP!Init
    BY DEF Init, S!Init, SP!Init
  <2> QED BY <2>1, SP!SchedulerInit, PlacementAssumption DEF SP!SchedulerAssumption
<1>2. Types /\ SP!IInv /\ [Next]_vars => SP!IInv'
  BY StepsAreMethods, MethodsKeepInvariant
<1> QED BY <1>1, <1>2, TypesInvariant, PTL DEF Spec

\* The admission path, its retries, releases and fleet changes use the scheduler as
\* its specification allows: the service implements it.
THEOREM PlacementImplementsScheduler == Spec => S!Spec
<1>1. Init => S!Init
  BY DEF Init
<1>2. Types /\ [Next]_vars => [S!Next]_(S!vars)
  BY StepsAreMethods DEF sched, S!vars
<1> QED BY <1>1, <1>2, TypesInvariant, PTL DEF Spec, S!Spec

\* Every reachable state of the service and its scheduler is well typed; in
\* particular no request makes more than maxBootAttempts attempts and the queue
\* never grows past QueueDepth.
THEOREM TypeCorrect == Spec => []TypeOK
<1>1. SP!IInv /\ Types => TypeOK
  BY DEF SP!IInv, SP!TypeOK, S!TypeOK, S!States, SP!States, TypeOK
<1> QED BY <1>1, TypesInvariant, SchedulerInvariant, PTL

-----------------------------------------------------------------------------
(* The queue. *)

\* Who boots, gives up its slot or takes another.
Booting == {"boot", "release", "signal", "replace"}

\* A request that takes a step by itself keeps its place.
LEMMA MoveKeepsQueue ==
  ASSUME Types, QueueInv, NEW r \in Req, NEW p, NEW o,
         UNCHANGED <<queue, cur, result, arrivals>>,
         \A q \in Req : /\ pc'[q] = IF q = r THEN p ELSE pc[q]
                        /\ outcome'[q] = IF q = r THEN o ELSE outcome[q],
         pc[r] # "done", p = "done" <=> o # "none",
         pc[r] \in {"idle", "enqueue"} <=> p \in {"idle", "enqueue"} \/ o = "ErrQueueFull",
         p \in Booting \/ o \in {"placed", "ErrBootFailed"} => result[r].err = "ok",
         o \in Errors \ {"ErrQueueFull", "ErrBootFailed"} => result[r].err = o
  PROVE  QueueInv'
<1>1. \A q \in Req : Queued(q)' <=> Queued(q)
  BY DEF Queued
<1>2. ASSUME NEW q \in Req PROVE Journey(q)'
  <2>1. Journey(q)
    BY DEF QueueInv
  <2>2. CASE q = r
    <3>1. pc'[q] = p /\ outcome'[q] = o /\ outcome[q] = "none"
      BY <2>1, <2>2 DEF Journey
    <3> QED BY <1>1, <2>1, <2>2, <3>1 DEF Journey, NoResult, Booting
  <2>3. CASE q # r
    BY <1>1, <2>1, <2>3 DEF Journey, NoResult
  <2> QED BY <2>2, <2>3
<1>3. NoDuplicates' /\ Ordered'
  BY DEF QueueInv, NoDuplicates, Ordered, InHand, NoResult
<1> QED BY <1>2, <1>3 DEF QueueInv

\* A step that moves no request and answers none leaves the queue's state alone.
LEMMA FrameKeepsQueue ==
  ASSUME QueueInv, UNCHANGED <<queue, cur, result, arrivals, pc, outcome>>
  PROVE  QueueInv'
BY DEF QueueInv, Journey, Queued, NoDuplicates, Ordered, InHand, NoResult

\* A request that is in hand is neither queued nor answered.
LEMMA InHandOnly ==
  ASSUME Types, QueueInv, cur # NoReq
  PROVE  /\ cur \in Req /\ ~Queued(cur) /\ result[cur] = NoResult
         /\ pc[cur] \in {"record", "await"} /\ outcome[cur] = "none"
<1>1. cur \in Req /\ Journey(cur) /\ pc[cur] \in {"idle", "enqueue", "record", "await", "boot", "release", "signal",
                     "replace", "done"} /\ outcome[cur] \in Errors \cup {"none", "placed"}
  BY DEF Types, QueueInv
<1>2. ~Queued(cur) /\ result[cur] = NoResult
  BY <1>1 DEF Journey
<1> QED BY <1>1, <1>2 DEF Journey, NoResult, Errors

\* A queued request is neither in hand nor answered.
LEMMA QueuedOnly ==
  ASSUME Types, QueueInv, NEW i \in 1 .. Len(queue)
  PROVE  /\ queue[i] \in Req /\ Queued(queue[i]) /\ cur # queue[i] /\ result[queue[i]] = NoResult
         /\ pc[queue[i]] \notin {"idle", "enqueue"} /\ outcome[queue[i]] # "ErrQueueFull"
<1>1. queue[i] \in Req /\ Journey(queue[i]) /\ Queued(queue[i])
  BY DEF Types, QueueInv, Queued
<1> QED BY <1>1 DEF Journey

\* Answering the request in hand moves it to those answered.
LEMMA AnswerKeepsQueue ==
  ASSUME Types, QueueInv, cur # NoReq, cur' = NoReq,
         NEW e \in (Errors \ {"ErrQueueFull", "ErrBootFailed"}) \cup {"ok"}, NEW h, Answer(cur, e, h),
         UNCHANGED <<queue, arrivals, pc, outcome>>
  PROVE  QueueInv'
<1>1. /\ cur \in Req /\ ~Queued(cur) /\ result[cur] = NoResult
      /\ pc[cur] \in {"record", "await"} /\ outcome[cur] = "none"
  BY InHandOnly
<1>2. \A q \in Req : result'[q] = IF q = cur THEN [err |-> e, host |-> h] ELSE result[q]
  BY DEF Answer, Types
<1>3. [err |-> e, host |-> h] # NoResult /\ e \notin {"none", "ErrQueueFull", "ErrBootFailed"}
  BY DEF NoResult, Errors
<1>4. \A q \in Req : Queued(q)' <=> Queued(q)
  BY DEF Queued
<1>5. ASSUME NEW q \in Req PROVE Journey(q)'
  <2>1. Journey(q) /\ q # NoReq
    BY PlacementAssumption DEF QueueInv
  <2>2. CASE q = cur
    <3>1. result'[q] = [err |-> e, host |-> h]
      BY <1>2, <2>2
    <3> QED BY <1>1, <1>3, <1>4, <2>1, <2>2, <3>1 DEF Journey, NoResult, Errors
  <2>3. CASE q # cur
    <3>1. result'[q] = result[q]
      BY <1>2, <2>3
    <3> QED BY <1>4, <2>1, <2>3, <3>1 DEF Journey, NoResult
  <2> QED BY <2>2, <2>3
<1>6. NoDuplicates'
  BY DEF QueueInv, NoDuplicates
<1>7. Ordered'
  <2> DEFINE n == Len(arrivals) - Len(queue)
  <2>1. n \in Int /\ n - 1 >= 0 /\ arrivals[n] = cur /\ Len(queue) \in Nat /\ Len(arrivals) \in Nat
    BY DEF QueueInv, Ordered, InHand, Types
  <2>2. /\ \A i \in 1 .. Len(queue) : arrivals[n + i] = queue[i]
        /\ \A i \in 1 .. n - 1 : result[arrivals[i]] # NoResult
    BY DEF QueueInv, Ordered, InHand
  <2>3. ASSUME NEW i \in 1 .. n PROVE result'[arrivals[i]] # NoResult
    <3>1. arrivals[i] \in Req
      BY <2>1 DEF Types
    <3>2. i = n \/ i \in 1 .. n - 1
      BY <2>1
    <3> QED BY <1>2, <1>3, <2>1, <2>2, <3>1, <3>2
  <2> QED BY <2>1, <2>2, <2>3 DEF Ordered, InHand, NoResult
<1> QED BY <1>5, <1>6, <1>7 DEF QueueInv

\* A new request goes to the end of the queue.
LEMMA EnqueueKeepsQueue ==
  ASSUME Types, QueueInv, NEW r \in Req, Enqueue(r)
  PROVE  QueueInv'
<1>1. /\ pc[r] = "enqueue" /\ queue' = Append(queue, r) /\ arrivals' = Append(arrivals, r)
      /\ pc' = [pc EXCEPT ![r] = "record"] /\ UNCHANGED <<outcome, result, cur>>
  BY DEF Enqueue, Goto
<1>2. /\ queue \in Seq(Req) /\ arrivals \in Seq(Req) /\ Len(queue) \in Nat /\ Len(arrivals) \in Nat
      /\ Len(queue') = Len(queue) + 1 /\ Len(arrivals') = Len(arrivals) + 1
      /\ queue'[Len(queue) + 1] = r /\ arrivals'[Len(arrivals) + 1] = r
      /\ \A i \in 1 .. Len(queue) : queue'[i] = queue[i]
      /\ \A i \in 1 .. Len(arrivals) : arrivals'[i] = arrivals[i] /\ arrivals[i] \in Req
  BY <1>1 DEF Types
<1>3. Journey(r) /\ ~Queued(r) /\ cur # r /\ result[r] = NoResult /\ outcome[r] = "none"
  <2>1. Journey(r)
    BY DEF QueueInv
  <2> QED BY <1>1, <2>1 DEF Journey
<1>4. \A q \in Req : Queued(q)' <=> (Queued(q) \/ q = r)
  BY <1>2 DEF Queued
<1>5. ASSUME NEW q \in Req PROVE Journey(q)'
  <2>1. Journey(q)
    BY DEF QueueInv
  <2>2. CASE q = r
    <3>1. pc'[q] = "record" /\ outcome'[q] = "none"
      BY <1>1, <1>3, <2>2 DEF Types
    <3> QED BY <1>1, <1>3, <1>4, <2>2, <3>1 DEF Journey, NoResult
  <2>3. CASE q # r
    <3>1. pc'[q] = pc[q]
      BY <1>1, <2>3 DEF Types
    <3> QED BY <1>1, <1>4, <2>1, <2>3, <3>1 DEF Journey, NoResult
  <2> QED BY <2>2, <2>3
<1>6. NoDuplicates'
  <2>1. \A i \in 1 .. Len(queue) : queue[i] # r
    BY <1>3 DEF Queued
  <2> QED BY <1>2, <2>1 DEF QueueInv, NoDuplicates
<1>7. Ordered'
  <2> DEFINE n == Len(arrivals) - Len(queue)
  <2>1. /\ n \in Int /\ n - InHand >= 0 /\ (cur # NoReq => arrivals[n] = cur)
        /\ \A i \in 1 .. Len(queue) : arrivals[n + i] = queue[i]
        /\ \A i \in 1 .. n - InHand : result[arrivals[i]] # NoResult
        /\ InHand \in {0, 1} /\ (cur # NoReq => InHand = 1) /\ InHand' = InHand
        /\ Len(arrivals') - Len(queue') = n
    BY <1>1, <1>2 DEF QueueInv, Ordered, InHand
  <2>2. \A i \in 1 .. Len(queue') : arrivals'[n + i] = queue'[i]
    <3> SUFFICES ASSUME NEW i \in 1 .. Len(queue') PROVE arrivals'[n + i] = queue'[i]
      OBVIOUS
    <3>1. CASE i = Len(queue) + 1
      <4>1. n + i = Len(arrivals) + 1
        BY <1>2, <3>1
      <4> QED BY <1>2, <3>1, <4>1
    <3>2. CASE i # Len(queue) + 1
      <4>1. i \in 1 .. Len(queue) /\ n + i \in 1 .. Len(arrivals)
        BY <1>2, <2>1, <3>2
      <4> QED BY <1>2, <2>1, <4>1
    <3> QED BY <3>1, <3>2
  <2>3. cur' # NoReq => arrivals'[n] = cur'
    <3>1. cur # NoReq => n \in 1 .. Len(arrivals)
      BY <1>2, <2>1
    <3> QED BY <1>1, <1>2, <2>1, <3>1
  <2>4. \A i \in 1 .. n - InHand : result'[arrivals'[i]] # NoResult
    BY <1>1, <1>2, <2>1
  <2> QED BY <2>1, <2>2, <2>3, <2>4 DEF Ordered, NoResult
<1> QED BY <1>5, <1>6, <1>7 DEF QueueInv

\* What removing the head does to the queue.
LEMMA HeadLeaves ==
  ASSUME Types, QueueInv, queue # <<>>, queue' = Tail(queue)
  PROVE  /\ Head(queue) \in Req /\ Head(queue) = queue[1] /\ 1 \in 1 .. Len(queue)
         /\ Len(queue') = Len(queue) - 1 /\ Len(queue) \in Nat
         /\ \A i \in 1 .. Len(queue) - 1 : queue'[i] = queue[i + 1]
         /\ \A q \in Req : Queued(q)' <=> (Queued(q) /\ q # Head(queue))
         /\ NoDuplicates'
<1>1. /\ Head(queue) \in Req /\ Head(queue) = queue[1] /\ 1 \in 1 .. Len(queue)
      /\ Len(queue') = Len(queue) - 1 /\ Len(queue) \in Nat
      /\ \A i \in 1 .. Len(queue) - 1 : queue'[i] = queue[i + 1]
  BY DEF Types
<1>2. \A i, j \in 1 .. Len(queue) : queue[i] = queue[j] => i = j
  BY DEF QueueInv, NoDuplicates
<1>3. ASSUME NEW q \in Req PROVE Queued(q)' <=> (Queued(q) /\ q # Head(queue))
  <2>1. ASSUME NEW i \in 1 .. Len(queue) - 1, queue'[i] = q PROVE Queued(q) /\ q # Head(queue)
    <3>1. i + 1 \in 1 .. Len(queue) /\ queue[i + 1] = q /\ i + 1 # 1
      BY <1>1, <2>1
    <3> QED BY <1>1, <1>2, <3>1 DEF Queued
  <2>2. ASSUME NEW i \in 1 .. Len(queue), queue[i] = q, q # Head(queue) PROVE Queued(q)'
    <3>1. i - 1 \in 1 .. Len(queue) - 1
      BY <1>1, <2>2
    <3>2. queue'[i - 1] = q
      BY <1>1, <2>2, <3>1
    <3> QED BY <1>1, <3>1, <3>2 DEF Queued
  <2> QED BY <1>1, <2>1, <2>2 DEF Queued
<1>4. NoDuplicates'
  <2> SUFFICES ASSUME NEW i \in 1 .. Len(queue'), NEW j \in 1 .. Len(queue'), queue'[i] = queue'[j]
               PROVE  i = j
    BY DEF NoDuplicates
  <2>1. i + 1 \in 1 .. Len(queue) /\ j + 1 \in 1 .. Len(queue)
    BY <1>1
  <2>2. queue[i + 1] = queue[j + 1]
    BY <1>1
  <2>3. i + 1 = j + 1
    BY <1>2, <2>1, <2>2
  <2> QED BY <2>3
<1> QED BY <1>1, <1>3, <1>4

\* The dispatcher takes the oldest request in hand.
LEMMA TakeKeepsQueue ==
  ASSUME Types, QueueInv, Take
  PROVE  QueueInv'
<1>1. /\ cur = NoReq /\ queue # <<>> /\ cur' = Head(queue) /\ queue' = Tail(queue)
      /\ UNCHANGED <<pc, outcome, result, arrivals>>
  BY DEF Take, Types, admit
<1>2. /\ Head(queue) \in Req /\ Head(queue) = queue[1] /\ 1 \in 1 .. Len(queue)
      /\ Len(queue') = Len(queue) - 1 /\ Len(queue) \in Nat
      /\ \A i \in 1 .. Len(queue) - 1 : queue'[i] = queue[i + 1]
      /\ \A q \in Req : Queued(q)' <=> (Queued(q) /\ q # Head(queue))
      /\ NoDuplicates'
  BY <1>1, HeadLeaves
<1>3. /\ Queued(Head(queue)) /\ result[Head(queue)] = NoResult
      /\ pc[Head(queue)] \notin {"idle", "enqueue"} /\ outcome[Head(queue)] # "ErrQueueFull"
  BY <1>2, QueuedOnly
<1>4. ASSUME NEW q \in Req PROVE Journey(q)'
  <2>1. Journey(q) /\ q # cur
    BY <1>1, PlacementAssumption DEF QueueInv
  <2> QED BY <1>1, <1>2, <1>3, <2>1 DEF Journey, NoResult
<1>5. Ordered'
  <2> DEFINE n == Len(arrivals) - Len(queue)
  <2>1. /\ n \in Int /\ n >= 0 /\ Len(arrivals') - Len(queue') = n + 1 /\ InHand' = 1
        /\ \A i \in 1 .. Len(queue) : arrivals[n + i] = queue[i]
        /\ \A i \in 1 .. n : result[arrivals[i]] # NoResult
    BY <1>1, <1>2, PlacementAssumption DEF QueueInv, Ordered, InHand, Types
  <2>2. \A i \in 1 .. Len(queue') : arrivals'[n + 1 + i] = queue'[i]
    <3> SUFFICES ASSUME NEW i \in 1 .. Len(queue') PROVE arrivals'[n + 1 + i] = queue'[i]
      OBVIOUS
    <3>1. i + 1 \in 1 .. Len(queue) /\ i \in 1 .. Len(queue) - 1 /\ n + (i + 1) = n + 1 + i
      BY <1>2, <2>1
    <3>2. arrivals[n + (i + 1)] = queue[i + 1]
      BY <2>1, <3>1
    <3> QED BY <1>1, <1>2, <3>1, <3>2
  <2>3. arrivals'[n + 1] = cur'
    BY <1>1, <1>2, <2>1
  <2>4. n + 1 - 1 = n
    BY <2>1
  <2> QED BY <1>1, <2>1, <2>2, <2>3, <2>4 DEF Ordered, NoResult
<1> QED BY <1>2, <1>4, <1>5 DEF QueueInv

\* At shutdown the oldest request is answered straight from the queue.
LEMMA DrainKeepsQueue ==
  ASSUME Types, QueueInv, drain
  PROVE  QueueInv'
<1>0. cur = NoReq /\ cur' = NoReq /\ UNCHANGED <<pc, outcome, arrivals>>
  BY DEF drain, Types, admit
<1>1. CASE queue = <<>>
  <2>1. UNCHANGED <<queue, result>>
    BY <1>1 DEF drain
  <2>2. \A q \in Req : Journey(q)'
    BY <1>0, <2>1 DEF QueueInv, Journey, Queued, NoResult
  <2> QED BY <1>0, <2>1, <2>2 DEF QueueInv, NoDuplicates, Ordered, InHand, NoResult
<1>2. CASE queue # <<>>
  <2>1. queue' = Tail(queue) /\ Answer(Head(queue), "ErrShuttingDown", NoHost)
    BY <1>2 DEF drain
  <2>2. /\ Head(queue) \in Req /\ Head(queue) = queue[1] /\ 1 \in 1 .. Len(queue)
        /\ Len(queue') = Len(queue) - 1 /\ Len(queue) \in Nat
        /\ \A i \in 1 .. Len(queue) - 1 : queue'[i] = queue[i + 1]
        /\ \A q \in Req : Queued(q)' <=> (Queued(q) /\ q # Head(queue))
        /\ NoDuplicates'
    BY <1>2, <2>1, HeadLeaves
  <2>3. /\ Queued(Head(queue)) /\ result[Head(queue)] = NoResult
        /\ pc[Head(queue)] \notin {"idle", "enqueue"} /\ outcome[Head(queue)] # "ErrQueueFull"
    BY <2>2, QueuedOnly
  <2> DEFINE down == [err |-> "ErrShuttingDown", host |-> NoHost]
  <2>4. \A q \in Req : result'[q] = IF q = Head(queue) THEN down ELSE result[q]
    BY <2>1 DEF Answer, Types
  <2>5. down # NoResult
    BY DEF NoResult
  <2>6. ASSUME NEW q \in Req PROVE Journey(q)'
    <3>1. Journey(q) /\ q # cur /\ q # cur'
      BY <1>0, PlacementAssumption DEF QueueInv
    <3>2. CASE q = Head(queue)
      <4>1. result'[q] = down
        BY <2>4, <3>2
      <4>2. /\ result[q].err = "none"
            /\ pc[q] \notin {"boot", "release", "signal", "replace"}
            /\ outcome[q] \notin {"placed", "ErrBootFailed"}
            /\ outcome[q] \notin Errors \ {"ErrQueueFull", "ErrBootFailed"}
        BY <2>3, <3>1, <3>2 DEF Journey, NoResult, Errors
      <4> QED BY <1>0, <2>2, <2>3, <2>5, <3>1, <3>2, <4>1, <4>2 DEF Journey, NoResult
    <3>3. CASE q # Head(queue)
      <4>1. result'[q] = result[q]
        BY <2>4, <3>3
      <4> QED BY <1>0, <2>2, <3>1, <3>3, <4>1 DEF Journey, NoResult
    <3> QED BY <3>2, <3>3
  <2>7. Ordered'
    <3> DEFINE n == Len(arrivals) - Len(queue)
    <3>1. /\ n \in Int /\ n >= 0 /\ Len(arrivals') - Len(queue') = n + 1 /\ InHand' = 0
          /\ \A i \in 1 .. Len(queue) : arrivals[n + i] = queue[i]
          /\ \A i \in 1 .. n : result[arrivals[i]] # NoResult
      BY <1>0, <2>2 DEF QueueInv, Ordered, InHand, Types
    <3>2. \A i \in 1 .. Len(queue') : arrivals'[n + 1 + i] = queue'[i]
      <4> SUFFICES ASSUME NEW i \in 1 .. Len(queue') PROVE arrivals'[n + 1 + i] = queue'[i]
        OBVIOUS
      <4>1. i + 1 \in 1 .. Len(queue) /\ i \in 1 .. Len(queue) - 1 /\ n + (i + 1) = n + 1 + i
        BY <2>2, <3>1
      <4>2. arrivals[n + (i + 1)] = queue[i + 1]
        BY <3>1, <4>1
      <4> QED BY <1>0, <2>2, <4>1, <4>2
    <3>3. arrivals[n + 1] = Head(queue)
      BY <2>2, <3>1
    <3>4. ASSUME NEW i \in 1 .. n + 1 PROVE result'[arrivals'[i]] # NoResult
      <4>1. arrivals[i] \in Req
        BY <2>2, <3>1 DEF Types
      <4> HIDE DEF n
      <4>2. i = n + 1 \/ i \in 1 .. n
        BY <3>1
      <4> QED BY <1>0, <2>4, <2>5, <3>1, <3>3, <4>1, <4>2
    <3> HIDE DEF n
    <3>5. n + 1 - InHand' = n + 1 /\ n + 1 >= 0
      BY <3>1
    <3> DEFINE m == Len(arrivals') - Len(queue')
    <3>6. m - InHand' >= 0 /\ m = n + 1 /\ m - InHand' = n + 1
      BY <3>1, <3>5
    <3>7. \A i \in 1 .. Len(queue') : arrivals'[m + i] = queue'[i]
      BY <3>2, <3>6
    <3>8. \A i \in 1 .. m - InHand' : result'[arrivals'[i]] # NoResult
      <4> HIDE DEF m
      <4> QED BY <3>4, <3>6
    <3> QED BY <1>0, <3>6, <3>7, <3>8 DEF Ordered, NoResult
  <2> QED BY <2>2, <2>6, <2>7 DEF QueueInv
<1> QED BY <1>1, <1>2
\* No step of a request disturbs the queue.
LEMMA RequestKeepsQueue ==
  ASSUME Types, QueueInv, NEW r \in Req, Admit(r) \/ Expire(r) \/ Requests(r)
  PROVE  QueueInv'
<1>0. Journey(r) /\ (pc[r] # "done" => outcome[r] = "none")
  BY DEF QueueInv, Journey
<1> DEFINE Move(p, o) ==
      /\ UNCHANGED <<queue, cur, result, arrivals>>
      /\ \A q \in Req : /\ pc'[q] = IF q = r THEN p ELSE pc[q]
                        /\ outcome'[q] = IF q = r THEN o ELSE outcome[q]
<1>1. CASE Admit(r)
  <2>1. pc[r] = "idle" /\ Move("enqueue", outcome[r])
    BY <1>1 DEF Admit, Goto, Types
  <2> QED BY <1>0, <2>1, MoveKeepsQueue DEF Booting, Errors
<1>2. CASE Expire(r)
  BY <1>2, FrameKeepsQueue DEF Expire, admit
<1>3. CASE Enqueue(r)
  BY <1>3, EnqueueKeepsQueue
<1>4. CASE QueueFull(r)
  <2>1. pc[r] = "enqueue" /\ Move("done", "ErrQueueFull")
    BY <1>4 DEF QueueFull, Return, Goto, Types
  <2> QED BY <1>0, <2>1, MoveKeepsQueue DEF Booting, Errors
<1>5. CASE recordQueueDepth(r)
  <2>1. pc[r] = "record" /\ Move("await", outcome[r])
    BY <1>5 DEF recordQueueDepth, Goto, Types
  <2> QED BY <1>0, <2>1, MoveKeepsQueue DEF Booting, Errors
<1>6. CASE Receive(r)
  <2>1. pc[r] = "await" /\ result[r] # NoResult
    BY <1>6 DEF Receive
  <2>2. CASE result[r].err # "ok"
    <3>1. /\ Move("done", result[r].err)
          /\ result[r].err \in Errors \ {"ErrQueueFull", "ErrBootFailed"}
      BY <1>0, <1>6, <2>1, <2>2 DEF Receive, Return, Goto, Types, Journey
    <3> QED BY <1>0, <2>1, <2>2, <3>1, MoveKeepsQueue DEF Booting, Errors, Journey
  <2>3. CASE result[r].err = "ok" /\ Booter
    <3>1. Move("boot", outcome[r])
      BY <1>6, <2>3 DEF Receive, Return, Goto, Types
    <3> QED BY <1>0, <2>1, <2>3, <3>1, MoveKeepsQueue DEF Booting, Errors
  <2>4. CASE result[r].err = "ok" /\ ~Booter
    <3>1. Move("done", "placed")
      BY <1>6, <2>4 DEF Receive, Return, Goto, Types
    <3> QED BY <1>0, <2>1, <2>4, <3>1, MoveKeepsQueue DEF Booting, Errors
  <2> QED BY <2>2, <2>3, <2>4
<1>7. CASE BootSucceeds(r)
  <2>1. pc[r] = "boot" /\ Move("done", "placed")
    BY <1>7 DEF BootSucceeds, Return, Goto, Types
  <2> QED BY <1>0, <2>1, MoveKeepsQueue DEF Booting, Errors, Journey
<1>8. CASE BootFails(r)
  <2>1. pc[r] = "boot" /\ Move("release", outcome[r])
    BY <1>8 DEF BootFails, Goto, Types
  <2> QED BY <1>0, <2>1, MoveKeepsQueue DEF Booting, Errors, Journey
<1>9. CASE BootRelease(r)
  <2>1. pc[r] = "release" /\ Move("signal", outcome[r])
    BY <1>9 DEF BootRelease, Goto, Types
  <2> QED BY <1>0, <2>1, MoveKeepsQueue DEF Booting, Errors, Journey
<1>10. CASE BootSignal(r)
  <2>1. /\ pc[r] = "signal"
        /\ Move("done", "ErrBootFailed") \/ Move("replace", outcome[r])
    BY <1>10 DEF BootSignal, Return, Goto, Types
  <2>2. CASE Move("done", "ErrBootFailed")
    BY <1>0, <2>1, <2>2, MoveKeepsQueue DEF Booting, Errors, Journey
  <2>3. CASE Move("replace", outcome[r])
    BY <1>0, <2>1, <2>3, MoveKeepsQueue DEF Booting, Errors, Journey
  <2> QED BY <2>1, <2>2, <2>3
<1>11. CASE BootReplace(r)
  <2>1. /\ pc[r] = "replace"
        /\ Move("done", "ErrBootFailed") \/ Move("boot", outcome[r])
    BY <1>11 DEF BootReplace, Return, Goto, Types
  <2>2. CASE Move("done", "ErrBootFailed")
    BY <1>0, <2>1, <2>2, MoveKeepsQueue DEF Booting, Errors, Journey
  <2>3. CASE Move("boot", outcome[r])
    BY <1>0, <2>1, <2>3, MoveKeepsQueue DEF Booting, Errors, Journey
  <2> QED BY <2>1, <2>2, <2>3
<1> QED BY <1>1, <1>2, <1>3, <1>4, <1>5, <1>6, <1>7, <1>8, <1>9, <1>10, <1>11 DEF Requests

\* Nor does a step of the dispatcher.
LEMMA DispatcherKeepsQueue ==
  ASSUME Types, QueueInv, Dispatcher
  PROVE  QueueInv'
<1>1. CASE Take
  BY <1>1, TakeKeepsQueue
<1>2. CASE drain
  BY <1>2, DrainKeepsQueue
<1>3. CASE Quit \/ WaitFreed \/ WaitTimer
  BY <1>3, FrameKeepsQueue DEF Quit, WaitFreed, WaitTimer, admit
<1>4. CASE CheckDeadline \/ WaitExpired
  <2>1. cur # NoReq /\ UNCHANGED <<queue, arrivals, pc, outcome>>
    BY <1>4 DEF CheckDeadline, WaitExpired, Types, admit
  <2>2. \/ Answer(cur, "ErrAdmissionTimeout", NoHost) /\ cur' = NoReq
        \/ UNCHANGED <<result, cur>>
    BY <1>4 DEF CheckDeadline, WaitExpired, TimeOut
  <2> QED BY <2>1, <2>2, AnswerKeepsQueue, FrameKeepsQueue DEF Errors
<1>5. CASE dispatchPlace
  <2>1. cur # NoReq /\ UNCHANGED <<queue, arrivals, pc, outcome>>
    BY <1>5 DEF dispatchPlace, Types, admit
  <2>2. \/ \E h \in Host : Answer(cur, "ok", h) /\ cur' = NoReq
        \/ Answer(cur, "ErrDuplicateVM", NoHost) /\ cur' = NoReq
        \/ UNCHANGED <<result, cur>>
    BY <1>5 DEF dispatchPlace
  <2> QED BY <2>1, <2>2, AnswerKeepsQueue, FrameKeepsQueue DEF Errors
<1>6. CASE WaitStopped
  <2>1. cur # NoReq /\ UNCHANGED <<queue, arrivals, pc, outcome>>
    BY <1>6 DEF WaitStopped, Types, admit
  <2>2. Answer(cur, "ErrShuttingDown", NoHost) /\ cur' = NoReq
    BY <1>6 DEF WaitStopped
  <2> QED BY <2>1, <2>2, AnswerKeepsQueue DEF Errors
<1> QED BY <1>1, <1>2, <1>3, <1>4, <1>5, <1>6 DEF Dispatcher

\* The queue's invariant holds throughout.
LEMMA QueueInvariant == Spec => []QueueInv
<1>1. Init => QueueInv
  <2> SUFFICES ASSUME Init PROVE QueueInv
    OBVIOUS
  <2>1. queue = <<>> /\ arrivals = <<>> /\ Len(queue) = 0 /\ Len(arrivals) = 0 /\ cur = NoReq
    BY DEF Init
  <2>2. ASSUME NEW r \in Req PROVE Journey(r)
    <3>1. pc[r] = "idle" /\ outcome[r] = "none" /\ result[r] = NoResult /\ ~Queued(r) /\ cur # r
      BY <2>1, PlacementAssumption DEF Init, Queued
    <3> QED BY <3>1 DEF Journey, NoResult, Errors
  <2> QED BY <2>1, <2>2 DEF QueueInv, NoDuplicates, Ordered, InHand
<1>2. Types /\ QueueInv /\ [Next]_vars => QueueInv'
  <2> SUFFICES ASSUME Types, QueueInv, [Next]_vars PROVE QueueInv'
    OBVIOUS
  <2>1. CASE UNCHANGED vars
    BY <2>1, FrameKeepsQueue DEF vars, admit
  <2>2. CASE \/ Stop \/ SignalCapacity \/ \E v \in VM : Release(v)
             \/ \E h \in Host : HostJoins(h) \/ HostReady(h) \/ HostDrains(h) \/ HostRemoved(h)
    BY <2>2, FrameKeepsQueue DEF Stop, SignalCapacity, Release, HostJoins, HostReady,
                                 HostDrains, HostRemoved, admit
  <2> QED BY <2>1, <2>2, RequestKeepsQueue, DispatcherKeepsQueue DEF Next
<1> QED BY <1>1, <1>2, TypesInvariant, PTL DEF Spec

\* No request is lost between Admit and the dispatcher and none is served twice, through
\* timeouts and shutdown, so that the dispatcher's send on p.result never blocks
\* (dispatch, drain).
THEOREM RequestsAreInOnePlace == Spec => []InOnePlace
<1>1. Types /\ QueueInv => InOnePlace
  <2> SUFFICES ASSUME Types, QueueInv, NEW r \in Req
               PROVE  LET places == Occurrences(r) + (IF cur = r THEN 1 ELSE 0)
                                    + (IF result[r] # NoResult THEN 1 ELSE 0)
                      IN  IF pc[r] \in {"idle", "enqueue"} \/ outcome[r] = "ErrQueueFull"
                          THEN places = 0 ELSE places = 1
    BY DEF InOnePlace
  <2>1. ~Queued(r) => Occurrences(r) = 0
    <3> SUFFICES ASSUME ~Queued(r) PROVE Occurrences(r) = 0
      OBVIOUS
    <3>1. {i \in 1 .. Len(queue) : queue[i] = r} = {}
      BY DEF Queued
    <3> QED BY <3>1, FS_EmptySet DEF Occurrences
  <2>2. Queued(r) => Occurrences(r) = 1
    <3> SUFFICES ASSUME Queued(r) PROVE Occurrences(r) = 1
      OBVIOUS
    <3>1. PICK i \in 1 .. Len(queue) : queue[i] = r
      BY DEF Queued
    <3>2. {j \in 1 .. Len(queue) : queue[j] = r} = {i}
      BY <3>1 DEF QueueInv, NoDuplicates
    <3> QED BY <3>2, FS_Singleton DEF Occurrences
  <2>3. Journey(r)
    BY DEF QueueInv
  <2> QED BY <2>1, <2>2, <2>3 DEF Journey
<1> QED BY <1>1, TypesInvariant, QueueInvariant, PTL

\* Requests are answered in the order in which they got into the queue (Start:
\* "Serialising admission is what makes the queue strictly first in, first out").
THEOREM RequestsAreAnsweredInOrder == Spec => []FirstInFirstOut
<1>1. Types /\ QueueInv => FirstInFirstOut
  <2> SUFFICES ASSUME Types, QueueInv, NEW i \in 1 .. Len(arrivals), NEW j \in 1 .. Len(arrivals),
                      i < j, result[arrivals[j]] # NoResult
               PROVE  result[arrivals[i]] # NoResult
    BY DEF FirstInFirstOut
  <2> DEFINE n == Len(arrivals) - Len(queue)
  <2>1. /\ Len(arrivals) \in Nat /\ Len(queue) \in Nat /\ n \in Int /\ InHand \in {0, 1}
        /\ n - InHand >= 0 /\ (InHand = 1 => cur # NoReq /\ arrivals[n] = cur)
        /\ \A k \in 1 .. Len(queue) : arrivals[n + k] = queue[k]
        /\ \A k \in 1 .. n - InHand : result[arrivals[k]] # NoResult
    BY DEF Types, QueueInv, Ordered, InHand
  <2>2. ~(j > n)
    <3> SUFFICES ASSUME j > n PROVE FALSE
      OBVIOUS
    <3>1. j - n \in 1 .. Len(queue) /\ n + (j - n) = j
      BY <2>1
    <3> QED BY <2>1, <3>1, QueuedOnly
  <2>3. ~(j = n /\ InHand = 1)
    BY <2>1, InHandOnly
  <2>4. i \in 1 .. n - InHand
    BY <2>1, <2>2, <2>3
  <2> QED BY <2>1, <2>4
<1> QED BY <1>1, TypesInvariant, QueueInvariant, PTL

-----------------------------------------------------------------------------
(* The slots. *)

\* Slots are lost, or given up by the requests in G, and none is gained.  With no one
\* in G and nothing lost this is the step of a request that keeps what it has.
LEMMA LossKeepsSlots ==
  ASSUME Types, SlotInv, NEW G \in SUBSET Req, UNCHANGED vmID,
         \A q \in Req : result'[q].err = "ok" => result'[q].host \in Host,
         \A q \in Req : Holding(q)' <=> Holding(q) /\ q \notin G,
         \A q \in Req : Holding(q)' => HostOf(q)' = HostOf(q),
         lost \subseteq lost',
         \A v \in VM : assigned'[v] \in {assigned[v], NoHost},
         \A q \in Req : Holding(q)' /\ q \notin lost' => assigned'[vmID[q]] = assigned[vmID[q]],
         \A q \in G : assigned'[vmID[q]] = NoHost
  PROVE  SlotInv'
<1>1. \A q \in Req : vmID[q] \in VM
  BY DEF Types
<1>2. \A q \in Req : Holding(q)' => HostOf(q)' \in Host
  BY DEF SlotInv
<1>3. \A q \in Req : Holding(q)' /\ q \notin lost' => assigned'[vmID'[q]] = HostOf(q)'
  BY DEF SlotInv
<1>4. \A q, s \in Req : Holding(q)' /\ Holding(s)' /\ vmID'[q] = vmID'[s] =>
                         q = s \/ q \in lost' \/ s \in lost'
  BY DEF SlotInv
<1>5. ASSUME NEW v \in VM, assigned'[v] # NoHost
      PROVE  \E q \in Req : vmID'[q] = v /\ Holding(q)'
  <2>1. PICK q \in Req : vmID[q] = v /\ Holding(q)
    BY <1>5 DEF SlotInv
  <2>2. q \notin G
    BY <1>5, <2>1
  <2> QED BY <2>1, <2>2
<1> QED BY <1>2, <1>3, <1>4, <1>5 DEF SlotInv

\* A request gains a slot: the scheduler had none for its microVM.
LEMMA GainKeepsSlots ==
  ASSUME Types, SlotInv, NEW r \in Req, NEW h \in Host, UNCHANGED vmID, assigned \in [VM -> Host \cup {NoHost}],
         \A q \in Req : result'[q].err = "ok" => result'[q].host \in Host,
         ~Holding(r), assigned[vmID[r]] = NoHost,
         assigned' = [assigned EXCEPT ![vmID[r]] = h],
         lost' \in {lost, lost \ {r}},
         \A q \in Req : Holding(q)' <=> Holding(q) \/ q = r,
         \A q \in Req : Holding(q) => HostOf(q)' = HostOf(q),
         HostOf(r)' = h
  PROVE  SlotInv'
<1>1. \A q \in Req : vmID[q] \in VM
  BY DEF Types
<1>2. ASSUME NEW q \in Req, Holding(q), vmID[q] = vmID[r] PROVE q \in lost
  BY <1>2, PlacementAssumption DEF SlotInv
<1>3. \A q \in Req : Holding(q)' => HostOf(q)' \in Host
  BY DEF SlotInv
<1>4. ASSUME NEW q \in Req, Holding(q)', q \notin lost' PROVE assigned'[vmID'[q]] = HostOf(q)'
  <2>1. CASE q = r
    BY <1>1, <2>1
  <2>2. CASE q # r
    <3>1. Holding(q) /\ q \notin lost
      BY <1>4, <2>2
    <3>2. vmID[q] # vmID[r]
      BY <1>2, <3>1
    <3> QED BY <1>1, <3>1, <3>2 DEF SlotInv
  <2> QED BY <2>1, <2>2
<1>5. \A q, s \in Req : Holding(q)' /\ Holding(s)' /\ vmID'[q] = vmID'[s] =>
                         q = s \/ q \in lost' \/ s \in lost'
  BY <1>2 DEF SlotInv
<1>6. ASSUME NEW v \in VM, assigned'[v] # NoHost
      PROVE  \E q \in Req : vmID'[q] = v /\ Holding(q)'
  <2>1. CASE v = vmID[r]
    BY <2>1
  <2>2. CASE v # vmID[r]
    BY <1>6, <2>2 DEF SlotInv
  <2> QED BY <2>1, <2>2
<1> QED BY <1>3, <1>4, <1>5, <1>6 DEF SlotInv

\* A request that is neither answered nor booting nor placed holds nothing.
LEMMA HoldsNothing ==
  ASSUME NEW r \in Req, QueueInv,
         \/ pc[r] \in {"idle", "enqueue", "signal", "replace"}
         \/ pc[r] \in {"record", "await"} /\ result[r].err # "ok"
         \/ outcome[r] \in Errors
  PROVE  ~Holding(r)
<1>1. Journey(r)
  BY DEF QueueInv
<1>2. CASE outcome[r] \in Errors
  BY <1>1, <1>2 DEF Holding, Journey, Errors
<1>3. CASE outcome[r] \notin Errors
  BY <1>1, <1>3 DEF Holding, Journey
<1> QED BY <1>2, <1>3

\* No step of a request takes somebody's slot.
LEMMA RequestKeepsSlots ==
  ASSUME Types, Types', QueueInv, QueueInv', SlotInv, SP!IInv, NEW r \in Req,
         Admit(r) \/ Expire(r) \/ Requests(r)
  PROVE  SlotInv'
<1>0. /\ assigned \in [VM -> Host \cup {NoHost}] /\ vmID[r] \in VM
      /\ \A q \in Req : result[q].err = "ok" => result[q].host \in Host
  BY DEF SP!IInv, SP!TypeOK, Types, SlotInv
<1> DEFINE Same == UNCHANGED <<assigned, vmID, lost, result>>
           Others == \A q \in Req \ {r} : /\ pc'[q] = pc[q] /\ outcome'[q] = outcome[q]
                                          /\ at'[q] = at[q]
<1>1. ASSUME Same, Others, Holding(r)' <=> Holding(r), Holding(r)' => HostOf(r)' = HostOf(r)
      PROVE  SlotInv'
  <2>1. \A q \in Req : Holding(q)' <=> Holding(q)
    BY <1>1 DEF Holding
  <2>2. \A q \in Req : Holding(q)' => HostOf(q)' = HostOf(q)
    BY <1>1 DEF HostOf
  <2> QED BY <1>0, <1>1, <2>1, <2>2, LossKeepsSlots, {} \in SUBSET Req
<1>2. ASSUME Same, Others, ~Holding(r), ~Holding(r)'
      PROVE  SlotInv'
  BY <1>1, <1>2
<1>3. CASE Admit(r) \/ Enqueue(r) \/ QueueFull(r)
  <2>1. Same /\ Others /\ pc[r] \in {"idle", "enqueue"}
        /\ (pc'[r] \in {"enqueue", "record"} \/ outcome'[r] \in Errors)
    BY <1>3 DEF Admit, Enqueue, QueueFull, Goto, Return, sched, Types, Errors
  <2>2. ~Holding(r) /\ result[r].err = "none"
    BY <2>1, HoldsNothing DEF QueueInv, Journey, NoResult
  <2>3. ~Holding(r)'
    <3>1. Journey(r)'
      BY DEF QueueInv
    <3> QED BY <2>1, <2>2, <3>1 DEF Holding, Journey, Errors
  <2> QED BY <1>2, <2>1, <2>2, <2>3
<1>4. CASE Expire(r)
  BY <1>1, <1>4 DEF Expire, admit, sched, Holding, HostOf
<1>5. CASE recordQueueDepth(r)
  <2>1. Same /\ Others /\ pc[r] = "record" /\ pc'[r] = "await" /\ UNCHANGED <<outcome, at>>
    BY <1>5 DEF recordQueueDepth, Goto, sched, Types
  <2> QED BY <1>1, <2>1 DEF Holding, HostOf
<1>6. CASE Receive(r)
  <2>1. Same /\ Others /\ pc[r] = "await" /\ at'[r] = result[r].host
    BY <1>6 DEF Receive, Goto, Return, sched, Types
  <2>2. CASE result[r].err # "ok"
    <3>1. pc'[r] = "done" /\ outcome'[r] = result[r].err
      BY <1>6, <2>2 DEF Receive, Goto, Return, Types
    <3>2. ~Holding(r)
      BY <2>1, <2>2, HoldsNothing
    <3>3. ~Holding(r)'
      BY <3>1 DEF Holding, Types, Errors
    <3> QED BY <1>2, <2>1, <3>2, <3>3
  <2>3. CASE result[r].err = "ok"
    <3>1. pc'[r] = "boot" \/ (pc'[r] = "done" /\ outcome'[r] = "placed")
      <4>1. \/ Goto(r, "boot")
            \/ Return(r, "placed")
        BY <1>6, <2>3 DEF Receive
      <4> QED BY <4>1 DEF Goto, Return, Types
    <3> QED BY <1>1, <2>1, <2>3, <3>1 DEF Holding, HostOf
  <2> QED BY <2>2, <2>3
<1>7. CASE BootSucceeds(r) \/ BootFails(r)
  <2>1. /\ Same /\ Others /\ pc[r] = "boot" /\ at'[r] = at[r]
        /\ Return(r, "placed") \/ Goto(r, "release")
    BY <1>7 DEF BootSucceeds, BootFails, Goto, Return, sched, Types
  <2>2. pc'[r] = "release" \/ (pc'[r] = "done" /\ outcome'[r] = "placed")
    BY <2>1 DEF Goto, Return, Types
  <2> QED BY <1>1, <2>1, <2>2 DEF Holding, HostOf
<1>8. CASE BootRelease(r)
  <2>1. /\ pc[r] = "release" /\ pc'[r] = "signal" /\ Others /\ UNCHANGED <<vmID, result, at, outcome>>
    BY <1>8 DEF BootRelease, Goto, Types
  <2>2. \/ /\ assigned' = [assigned EXCEPT ![vmID[r]] = NoHost]
           /\ lost' = lost \cup (Holders(vmID[r]) \ {r})
        \/ assigned[vmID[r]] = NoHost /\ UNCHANGED <<assigned, lost>>
    BY <1>8 DEF BootRelease, S!ReleaseErr, S!Release, sched
  <2>3. \A q \in Req : Holding(q)' <=> Holding(q) /\ q \notin {r}
    <3>1. ~Holding(r)'
      <4>1. Journey(r)
        BY DEF QueueInv
      <4> QED BY <2>1, <4>1 DEF Holding, Journey
    <3> QED BY <2>1, <3>1 DEF Holding
  <2>4. \A q \in Req : Holding(q)' => HostOf(q)' = HostOf(q)
    BY <2>1, <2>3 DEF HostOf
  <2>5. \A v \in VM : assigned'[v] \in {assigned[v], NoHost}
    BY <1>0, <2>2
  <2>6. ASSUME NEW q \in Req, Holding(q)', q \notin lost'
        PROVE  assigned'[vmID[q]] = assigned[vmID[q]]
    <3>1. Holding(q) /\ q # r
      BY <2>3, <2>6
    <3>2. vmID[q] \in VM
      BY DEF Types
    <3>3. CASE vmID[q] = vmID[r]
      BY <2>2, <2>6, <3>1, <3>3 DEF Holders
    <3>4. CASE vmID[q] # vmID[r]
      BY <1>0, <2>2, <3>2, <3>4
    <3> QED BY <3>3, <3>4
  <2>7. assigned'[vmID[r]] = NoHost
    BY <1>0, <2>2
  <2>8. lost \subseteq lost'
    BY <2>2
  <2> QED BY <1>0, <2>1, <2>3, <2>4, <2>5, <2>6, <2>7, <2>8, LossKeepsSlots, {r} \in SUBSET Req
<1>9. CASE BootSignal(r)
  <2>1. /\ Same /\ Others /\ pc[r] = "signal"
        /\ pc'[r] = "replace" \/ outcome'[r] = "ErrBootFailed"
    BY <1>9 DEF BootSignal, Goto, Return, sched, Types
  <2>2. ~Holding(r)
    BY <2>1, HoldsNothing
  <2>3. ~Holding(r)'
    <3>1. Journey(r)'
      BY DEF QueueInv
    <3> QED BY <2>1, <3>1 DEF Holding, Journey
  <2> QED BY <1>2, <2>1, <2>2, <2>3
<1>10. CASE BootReplace(r)
  <2>1. pc[r] = "replace" /\ Others /\ UNCHANGED <<vmID, result>>
    BY <1>10 DEF BootReplace, Goto, Return, Types
  <2>2. ~Holding(r)
    BY <2>1, HoldsNothing
  <2>3. ASSUME NEW h \in Host, S!Place(vmID[r], h), at' = [at EXCEPT ![r] = h], lost' = lost \ {r},
               Goto(r, "boot"), UNCHANGED outcome
        PROVE  SlotInv'
    <3>1. assigned[vmID[r]] = NoHost /\ assigned' = [assigned EXCEPT ![vmID[r]] = h]
      BY <2>3 DEF S!Place, S!PlaceErr
    <3>2. pc'[r] = "boot" /\ at'[r] = h
      BY <2>3 DEF Goto, Types
    <3>3. \A q \in Req : Holding(q)' <=> Holding(q) \/ q = r
      BY <2>1, <3>2 DEF Holding
    <3>4. HostOf(r)' = h /\ \A q \in Req : Holding(q) => HostOf(q)' = HostOf(q)
      BY <2>1, <2>2, <3>2 DEF HostOf
    <3> QED BY <1>0, <2>1, <2>2, <2>3, <3>1, <3>3, <3>4, GainKeepsSlots
  <2>4. ASSUME Return(r, "ErrBootFailed"), UNCHANGED <<sched, at, lost>>
        PROVE  SlotInv'
    <3>1. pc'[r] = "done" /\ outcome'[r] = "ErrBootFailed" /\ Same
      BY <2>1, <2>4 DEF Return, Goto, Types, sched
    <3>2. ~Holding(r)'
      BY <3>1 DEF Holding
    <3> QED BY <1>2, <2>1, <2>2, <3>1, <3>2
  <2> QED BY <1>10, <2>3, <2>4 DEF BootReplace
<1> QED BY <1>3, <1>4, <1>5, <1>6, <1>7, <1>8, <1>9, <1>10 DEF Requests

\* Nor does a step of the dispatcher.
LEMMA DispatcherKeepsSlots ==
  ASSUME Types, QueueInv, SlotInv, SP!IInv, Dispatcher
  PROVE  SlotInv'
<1>0. /\ assigned \in [VM -> Host \cup {NoHost}]
      /\ \A q \in Req : result[q].err = "ok" => result[q].host \in Host
  BY DEF SP!IInv, SP!TypeOK, SlotInv
<1>1. UNCHANGED <<vmID, pc, at, outcome, lost>>
  BY DEF Dispatcher, Take, Quit, drain, CheckDeadline, dispatchPlace, WaitFreed, WaitTimer,
         WaitExpired, WaitStopped, admit
<1>2. ASSUME UNCHANGED <<assigned, result>> PROVE SlotInv'
  BY <1>1, <1>2 DEF SlotInv, Holding, HostOf
<1>3. ASSUME NEW r \in Req, result[r] = NoResult, NEW e \in Errors, Answer(r, e, NoHost),
             UNCHANGED assigned
      PROVE  SlotInv'
  <2>1. \A q \in Req : result'[q] = IF q = r THEN [err |-> e, host |-> NoHost] ELSE result[q]
    BY <1>3 DEF Answer, Types
  <2>2. result[r].err # "ok" /\ result'[r].err # "ok"
    BY <1>3, <2>1 DEF NoResult, Errors
  <2>3. \A q \in Req : Holding(q)' <=> Holding(q)
    BY <1>1, <2>1, <2>2 DEF Holding
  <2>4. \A q \in Req : Holding(q)' => HostOf(q)' = HostOf(q)
    <3>1. pc[r] \in {"record", "await"} => ~Holding(r)
      BY <2>2, HoldsNothing
    <3> QED BY <1>1, <2>1, <2>3, <3>1 DEF HostOf
  <2>5. \A q \in Req : result'[q].err = "ok" => result'[q].host \in Host
    BY <1>0, <2>1, <2>2
  <2> QED BY <1>1, <1>3, <2>3, <2>4, <2>5, LossKeepsSlots, {} \in SUBSET Req
<1>4. CASE Take \/ Quit \/ WaitFreed \/ WaitTimer
  BY <1>2, <1>4 DEF Take, Quit, WaitFreed, WaitTimer, sched
<1>5. CASE drain
  <2>1. UNCHANGED assigned
    BY <1>5 DEF drain, sched
  <2>2. CASE queue = <<>>
    BY <1>2, <1>5, <2>1, <2>2 DEF drain
  <2>3. CASE queue # <<>>
    <3>1. Answer(Head(queue), "ErrShuttingDown", NoHost) /\ queue' = Tail(queue)
      BY <1>5, <2>3 DEF drain
    <3>2. Head(queue) \in Req /\ Head(queue) = queue[1] /\ 1 \in 1 .. Len(queue)
      BY <2>3, <3>1, HeadLeaves
    <3>3. result[Head(queue)] = NoResult
      BY <3>2, QueuedOnly
    <3> QED BY <1>3, <2>1, <3>1, <3>2, <3>3 DEF Errors
  <2> QED BY <2>2, <2>3
<1>6. CASE CheckDeadline \/ WaitExpired \/ WaitStopped
  <2>1. cur # NoReq /\ UNCHANGED assigned
    BY <1>6 DEF CheckDeadline, WaitExpired, WaitStopped, Types, sched
  <2>2. \/ Answer(cur, "ErrAdmissionTimeout", NoHost) \/ Answer(cur, "ErrShuttingDown", NoHost)
        \/ UNCHANGED result
    BY <1>6 DEF CheckDeadline, WaitExpired, WaitStopped, TimeOut
  <2>3. cur \in Req /\ result[cur] = NoResult
    BY <2>1, InHandOnly
  <2> QED BY <1>2, <1>3, <2>1, <2>2, <2>3 DEF Errors
<1>7. CASE dispatchPlace
  <2>1. cur # NoReq
    BY <1>7 DEF dispatchPlace, Types
  <2>2. PICK r \in Req : /\ r = cur /\ result[r] = NoResult /\ pc[r] \in {"record", "await"}
                          /\ outcome[r] = "none" /\ vmID[r] \in VM
    BY <2>1, InHandOnly DEF Types
  <2>3. ASSUME NEW h \in Host, S!Place(vmID[r], h), Answer(r, "ok", h) PROVE SlotInv'
    <3>1. assigned[vmID[r]] = NoHost /\ assigned' = [assigned EXCEPT ![vmID[r]] = h]
      BY <2>3 DEF S!Place, S!PlaceErr
    <3>2. \A q \in Req : result'[q] = IF q = r THEN [err |-> "ok", host |-> h] ELSE result[q]
      BY <2>3 DEF Answer, Types
    <3>3. ~Holding(r)
      BY <2>2, HoldsNothing DEF NoResult
    <3>4. \A q \in Req : Holding(q)' <=> Holding(q) \/ q = r
      BY <1>1, <2>2, <3>2 DEF Holding
    <3>5. \A q \in Req : Holding(q) => HostOf(q)' = HostOf(q)
      BY <1>1, <3>2, <3>3 DEF HostOf
    <3>6. HostOf(r)' = h
      BY <1>1, <2>2, <3>2 DEF HostOf
    <3>7. \A q \in Req : result'[q].err = "ok" => result'[q].host \in Host
      BY <1>0, <3>2
    <3> QED BY <1>0, <1>1, <2>2, <3>1, <3>3, <3>4, <3>5, <3>6, <3>7, GainKeepsSlots
  <2>4. ASSUME Answer(r, "ErrDuplicateVM", NoHost), UNCHANGED sched PROVE SlotInv'
    BY <1>3, <2>2, <2>4 DEF Errors, sched
  <2>5. ASSUME UNCHANGED <<sched, result>> PROVE SlotInv'
    BY <1>2, <2>5 DEF sched
  <2> QED BY <1>7, <2>2, <2>3, <2>4, <2>5 DEF dispatchPlace
<1> QED BY <1>4, <1>5, <1>6, <1>7 DEF Dispatcher

\* Deletions and removed hosts take slots away, and those who lose one are marked.
LEMMA OthersKeepSlots ==
  ASSUME Types, SlotInv, SP!IInv,
         \/ Stop \/ SignalCapacity \/ \E v \in VM : Release(v)
         \/ \E h \in Host : HostJoins(h) \/ HostReady(h) \/ HostDrains(h) \/ HostRemoved(h)
  PROVE  SlotInv'
<1>0. /\ assigned \in [VM -> Host \cup {NoHost}] /\ \A q \in Req : vmID[q] \in VM
      /\ \A q \in Req : result[q].err = "ok" => result[q].host \in Host
  BY DEF SP!IInv, SP!TypeOK, SlotInv, Types
<1>1. UNCHANGED <<vmID, pc, at, outcome, result>>
  BY DEF Stop, SignalCapacity, Release, HostJoins, HostReady, HostDrains, HostRemoved, admit
<1>2. \A q \in Req : (Holding(q)' <=> Holding(q)) /\ HostOf(q)' = HostOf(q)
  BY <1>1 DEF Holding, HostOf
<1>3. ASSUME UNCHANGED <<assigned, lost>> PROVE SlotInv'
  BY <1>0, <1>1, <1>2, <1>3, LossKeepsSlots, {} \in SUBSET Req
<1>4. CASE \/ Stop \/ SignalCapacity
           \/ \E h \in Host : HostJoins(h) \/ HostReady(h) \/ HostDrains(h)
  BY <1>3, <1>4 DEF Stop, SignalCapacity, HostJoins, HostReady, HostDrains, S!AddHost,
                    S!SetHostState, sched
<1>5. ASSUME NEW v \in VM, Release(v) PROVE SlotInv'
  <2>1. assigned' = [assigned EXCEPT ![v] = NoHost] /\ lost' = lost \cup Holders(v)
    BY <1>5 DEF Release, S!Release
  <2>2. \A q \in Req : Holding(q) /\ q \notin lost' => vmID[q] # v
    BY <2>1 DEF Holders
  <2> QED BY <1>0, <1>1, <1>2, <2>1, <2>2, LossKeepsSlots, {} \in SUBSET Req
<1>6. ASSUME NEW h \in Host, HostRemoved(h) PROVE SlotInv'
  <2>1. /\ assigned' = [v \in VM |-> IF assigned[v] = h THEN NoHost ELSE assigned[v]]
        /\ lost' = lost \cup UNION {Holders(v) : v \in S!Orphans(h)}
    BY <1>6 DEF HostRemoved, S!RemoveHost
  <2>2. ASSUME NEW q \in Req, Holding(q), q \notin lost' PROVE assigned[vmID[q]] # h
    BY <1>0, <2>1, <2>2 DEF Holders, S!Orphans
  <2> QED BY <1>0, <1>1, <1>2, <2>1, <2>2, LossKeepsSlots, {} \in SUBSET Req
<1> QED BY <1>4, <1>5, <1>6

\* The slots' invariant holds throughout.
LEMMA SlotInvariant == Spec => []SlotInv
<1>1. Init => SlotInv
  <2> SUFFICES ASSUME Init PROVE SlotInv
    OBVIOUS
  <2>1. ASSUME NEW r \in Req PROVE ~Holding(r) /\ result[r].err # "ok"
    BY DEF Init, Holding, NoResult
  <2>2. \A v \in VM : assigned[v] = NoHost
    BY DEF Init, S!Init
  <2> QED BY <2>1, <2>2 DEF SlotInv
<1>2. Types /\ Types' /\ QueueInv /\ QueueInv' /\ SP!IInv /\ SlotInv /\ [Next]_vars => SlotInv'
  <2> SUFFICES ASSUME Types, Types', QueueInv, QueueInv', SP!IInv, SlotInv, [Next]_vars
               PROVE  SlotInv'
    OBVIOUS
  <2>1. CASE UNCHANGED vars
    BY <2>1 DEF vars, admit, sched, SlotInv, Holding, HostOf
  <2> QED BY <2>1, RequestKeepsSlots, DispatcherKeepsSlots, OthersKeepSlots DEF Next
<1> QED BY <1>1, <1>2, TypesInvariant, QueueInvariant, SchedulerInvariant, PTL DEF Spec

\* A request that was given a slot has it, at the host it knows of, until it gives it
\* back or somebody deletes the microVM or removes the host (dispatch, bootWithRetry).
THEOREM SlotsAreKept == Spec => []PlacedHoldsItsSlot
<1>1. SlotInv => PlacedHoldsItsSlot
  BY DEF SlotInv, PlacedHoldsItsSlot, HostOf
<1> QED BY <1>1, SlotInvariant, PTL

\* However many requests ask for an identifier, through boots that fail and are tried
\* again, only one of them holds its slot (Place's ErrDuplicateVM).
THEOREM IdentifiersAreExclusive == Spec => []OneHolderPerID
<1>1. SlotInv => OneHolderPerID
  <2> SUFFICES ASSUME SlotInv, NEW v \in VM PROVE Cardinality(Holders(v) \ lost) <= 1
    BY DEF OneHolderPerID
  <2>1. CASE Holders(v) \ lost = {}
    BY <2>1, FS_EmptySet
  <2>2. CASE Holders(v) \ lost # {}
    <3>1. PICK r : r \in Holders(v) \ lost
      BY <2>2
    <3>2. Holders(v) \ lost = {r}
      BY <3>1 DEF Holders, SlotInv
    <3>3. Cardinality({r}) = 1
      BY FS_Singleton
    <3> QED BY <3>2, <3>3
  <2> QED BY <2>1, <2>2
<1> QED BY <1>1, SlotInvariant, PTL

\* Whatever makes Admit fail (a full queue, its deadline, shutdown, a duplicate, boots
\* that fail), no slot stays behind for its microVM.
THEOREM FailuresLeakNoSlot == Spec => []FailedHoldsNoSlot
<1>1. Types /\ QueueInv /\ SlotInv => FailedHoldsNoSlot
  <2> SUFFICES ASSUME Types, QueueInv, SlotInv, NEW r \in Req, outcome[r] \in Errors,
                      assigned[vmID[r]] # NoHost
               PROVE  \E s \in Req \ {r} : vmID[s] = vmID[r] /\ Holding(s)
    BY DEF FailedHoldsNoSlot
  <2>1. PICK s \in Req : vmID[s] = vmID[r] /\ Holding(s)
    BY DEF SlotInv, Types
  <2>2. ~Holding(r)
    BY HoldsNothing
  <2> QED BY <2>1, <2>2
<1> QED BY <1>1, TypesInvariant, QueueInvariant, SlotInvariant, PTL

-----------------------------------------------------------------------------
(* The wakeups. *)

Open == \E h \in Host : hostState[h] = "Ready" /\ S!free(h) > 0

Promised == freed \/ owed > 0 \/ \E r \in Req : pc[r] = "signal"

\* The search finds a host exactly when a ready one has a free slot.
LEMMA SearchIffOpen ==
  SP!IInv => (S!selectHost # {} <=> Open)
<1> SUFFICES ASSUME SP!IInv PROVE S!selectHost # {} <=> Open
  OBVIOUS
<1>1. S!selectHost = SP!selectHost /\ \A h \in Host : S!free(h) = SP!free(h)
  BY DEF S!selectHost, SP!selectHost, S!free, SP!free
<1>2. ASSUME NEW h \in SP!selectHost PROVE Open
  <2>1. h \in Host /\ hostState[h] = "Ready" /\ SP!free(h) \in 1 .. maxCap
    BY SP!SelectHostSound, PlacementAssumption DEF SP!SchedulerAssumption
  <2>2. SP!free(h) > 0
    BY <2>1
  <2> QED BY <1>1, <2>1, <2>2 DEF Open
<1>3. ASSUME NEW h \in Host, hostState[h] = "Ready", S!free(h) > 0 PROVE SP!selectHost # {}
  BY <1>1, <1>3, SP!SelectHostComplete, PlacementAssumption DEF SP!SchedulerAssumption
<1> QED BY <1>1, <1>2, <1>3 DEF Open

\* The same in the next state.
LEMMA SearchIffOpenNext == SP!IInv' => (S!selectHost # {} <=> Open)'
BY SearchIffOpen, PTL

\* A step that breaks no promise: the fleet was open already, or somebody owes a signal.
LEMMA PromiseKept ==
  ASSUME SP!IInv, SP!IInv', NoLostWakeup,
         dpc' = "wait" => dpc = "wait",
         Open' /\ ~Open => Promised',
         Promised => Promised'
  PROVE  NoLostWakeup'
<1>1. (S!selectHost # {})' <=> Open'
  BY SearchIffOpenNext
<1>2. S!selectHost # {} <=> Open
  BY SearchIffOpen
<1> QED BY <1>1, <1>2 DEF NoLostWakeup, Promised

\* A request's step leaves no waiting dispatcher without its wakeup.
LEMMA RequestKeepsWakeup ==
  ASSUME Types, SP!IInv, SP!IInv', NoLostWakeup, NEW r \in Req,
         Admit(r) \/ Expire(r) \/ Requests(r)
  PROVE  NoLostWakeup'
<1>1. CASE Admit(r) \/ Expire(r) \/ Enqueue(r) \/ QueueFull(r) \/ recordQueueDepth(r) \/ Receive(r)
           \/ BootSucceeds(r) \/ BootFails(r)
  <2>1. UNCHANGED <<sched, dpc, freed, owed>>
    BY <1>1 DEF Admit, Expire, Enqueue, QueueFull, recordQueueDepth, Receive, BootSucceeds, BootFails
  <2>2. pc[r] # "signal" \/ UNCHANGED pc
    BY <1>1 DEF Admit, Expire, Enqueue, QueueFull, recordQueueDepth, Receive, BootSucceeds,
                BootFails, admit
  <2>3. \A q \in Req \ {r} : pc'[q] = pc[q]
    BY <1>1 DEF Admit, Expire, Enqueue, QueueFull, recordQueueDepth, Receive, BootSucceeds,
                BootFails, admit, Goto, Return, Types
  <2>4. Promised => Promised'
    BY <2>1, <2>2, <2>3 DEF Promised
  <2>5. Open' <=> Open
    BY <2>1 DEF Open, S!free, sched
  <2> QED BY <2>1, <2>4, <2>5, PromiseKept
<1>2. CASE BootRelease(r)
  <2>1. pc'[r] = "signal"
    BY <1>2 DEF BootRelease, Goto, Types
  <2> QED BY <2>1 DEF NoLostWakeup
<1>3. CASE BootSignal(r)
  <2>1. freed'
    BY <1>3 DEF BootSignal, signalCapacity
  <2> QED BY <2>1 DEF NoLostWakeup
<1>4. CASE BootReplace(r)
  <2>1. pc[r] = "replace" /\ UNCHANGED <<dpc, freed, owed>> /\ \A q \in Req \ {r} : pc'[q] = pc[q]
    BY <1>4 DEF BootReplace, Goto, Return, Types
  <2>2. Promised => Promised'
    BY <2>1 DEF Promised
  <2>3. Open' => Open
    <3>1. CASE UNCHANGED sched
      BY <3>1 DEF Open, S!free, sched
    <3>2. ASSUME NEW h \in Host, S!Place(vmID[r], h) PROVE Open
      BY <3>2, SearchIffOpen DEF S!Place
    <3> QED BY <1>4, <3>1, <3>2 DEF BootReplace
  <2> QED BY <2>1, <2>2, <2>3, PromiseKept
<1> QED BY <1>1, <1>2, <1>3, <1>4 DEF Requests

\* The dispatcher starts to wait only when the fleet is full.
LEMMA DispatcherKeepsWakeup ==
  ASSUME Types, SP!IInv, SP!IInv', NoLostWakeup, Dispatcher
  PROVE  NoLostWakeup'
<1>1. CASE dispatchPlace /\ dpc' = "wait"
  <2>1. S!PlaceErr(vmID[cur]) = "ErrNoCapacity" /\ UNCHANGED sched
    BY <1>1 DEF dispatchPlace
  <2>2. S!selectHost = {}
    BY <2>1 DEF S!PlaceErr
  <2>3. (S!selectHost = {})'
    BY <2>1, <2>2 DEF S!selectHost, sched
  <2> QED BY <2>3 DEF NoLostWakeup
<1>2. CASE dpc' # "wait"
  BY <1>2 DEF NoLostWakeup
<1>3. CASE dpc' = "wait" /\ ~dispatchPlace
  BY <1>3 DEF Dispatcher, Take, Quit, drain, CheckDeadline, TimeOut, WaitFreed, WaitTimer,
              WaitExpired, WaitStopped
<1> QED BY <1>1, <1>2, <1>3

\* While the dispatcher waits for capacity and there is some, the token is in the
\* channel or on its way: capacity that appears between the failed placement and the
\* wait, or while the token of an earlier release is being consumed, is not missed
\* (signalCapacity, dispatch).
THEOREM NoWakeupIsLost == Spec => []NoLostWakeup
<1>1. Init => NoLostWakeup
  BY DEF Init, NoLostWakeup
<1>2. Types /\ SP!IInv /\ SP!IInv' /\ NoLostWakeup /\ [Next]_vars => NoLostWakeup'
  <2> SUFFICES ASSUME Types, SP!IInv, SP!IInv', NoLostWakeup, [Next]_vars
               PROVE  NoLostWakeup'
    OBVIOUS
  <2>1. CASE UNCHANGED vars
    BY <2>1 DEF vars, sched, admit, NoLostWakeup, S!selectHost
  <2>2. CASE SignalCapacity
    BY <2>2 DEF SignalCapacity, signalCapacity, NoLostWakeup
  <2>3. ASSUME NEW v \in VM, Release(v) PROVE NoLostWakeup'
    BY <2>3 DEF Release, NoLostWakeup, Types
  <2>4. ASSUME NEW h \in Host, HostReady(h) PROVE NoLostWakeup'
    BY <2>4 DEF HostReady, NoLostWakeup, Types
  <2>5. CASE Stop
    BY <2>5 DEF Stop, sched, admit, NoLostWakeup, S!selectHost
  <2>6. ASSUME NEW h \in Host, HostJoins(h) \/ HostDrains(h) \/ HostRemoved(h)
        PROVE  NoLostWakeup'
    <3>1. UNCHANGED <<dpc, freed, owed, pc>>
      BY <2>6 DEF HostJoins, HostDrains, HostRemoved, admit
    <3>2. Promised => Promised'
      BY <3>1 DEF Promised
    <3>3. Open' => Open
      <4>1. /\ capacity \in [Host -> Nat] /\ used \in [Host -> Nat]
            /\ hostState \in [Host -> S!States \cup {"Absent"}]
        BY DEF SP!IInv, SP!TypeOK, S!States, SP!States
      <4>2. \A g \in Host : hostState'[g] = "Ready" =>
                             /\ hostState[g] = "Ready" /\ capacity'[g] = capacity[g]
                             /\ used'[g] = used[g]
        BY <2>6, <4>1 DEF HostJoins, HostDrains, HostRemoved, S!AddHost, S!SetHostState, S!RemoveHost
      <4> QED BY <4>2 DEF Open, S!free
    <3> QED BY <3>1, <3>2, <3>3, PromiseKept
  <2> QED BY <2>1, <2>2, <2>3, <2>4, <2>5, <2>6, RequestKeepsWakeup, DispatcherKeepsWakeup DEF Next
<1> QED BY <1>1, <1>2, TypesInvariant, SchedulerInvariant, PTL DEF Spec
=============================================================================
