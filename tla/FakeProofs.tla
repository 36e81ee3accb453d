----------------------------- MODULE FakeProofs -----------------------------
(***************************************************************************)
(* Proofs about Fake, for any set of calls and identifiers, any number of   *)
(* slots, and any room on the expired channel.                              *)
(***************************************************************************)
EXTENDS Fake, FiniteSetTheorems, TLAPS

LiveTimers == {c \in Call : timer[c] \in {"armed", "fired", "reaped"}}
Holders    == {c \in Call \ cut : phase[c] = "boot" \/ running[ID[c]] = c}

\* A Start has no timer before it has booted, and it is in running under its own
\* identifier; as long as Close was not called, a boot that nobody cut short still
\* has the entry it made.
CallsInOrder ==
  /\ \A c \in Call : phase[c] \in {"idle", "boot"} => timer[c] = "none"
  /\ \A c \in Call : phase[c] = "idle" => c \notin cut
  /\ \A v \in VM : running[v] # NoCall =>
       ID[running[v]] = v /\ phase[running[v]] # "idle"
  /\ ~closed => \A c \in Call \ cut : phase[c] = "boot" => running[ID[c]] = c
  /\ closing = "no" <=> ~closed

\* Call may be infinite: what is counted is finite.
Counts ==
  /\ IsFiniteSet(LiveTimers) /\ wg = Cardinality(LiveTimers)
  /\ IsFiniteSet(Running) /\ IsFiniteSet(Holders) /\ Cardinality(Holders) <= Slots

\* None of the three counts is inductive: that a Start finds no more holders than
\* entries, and that it arms a timer which is not counted yet, is CallsInOrder.
IInv == TypeOK /\ CallsInOrder /\ Counts /\ NoSendOnClosed
-----------------------------------------------------------------------------
\* NewFake starts with no microVM, no timer and a wait group at zero.
LEMMA FakeInit == Init => IInv
<1> SUFFICES ASSUME Init PROVE IInv
  OBVIOUS
<1>1. TypeOK
  <2>1. expired \in Seq(VM)
    BY DEF Init
  <2>2. closed \in BOOLEAN
    BY DEF Init
  <2> QED BY <2>1, <2>2, HypervisorAssumption DEF Init, TypeOK
<1>1a. CallsInOrder /\ NoSendOnClosed
  BY HypervisorAssumption DEF Init, CallsInOrder, NoSendOnClosed
<1>2. LiveTimers = {} /\ Running = {} /\ Holders = {}
  BY HypervisorAssumption DEF Init, LiveTimers, Running, Holders
<1>3. Counts
  BY <1>2, FS_EmptySet, HypervisorAssumption DEF Init, Counts
<1> QED BY <1>1, <1>1a, <1>3 DEF IInv

\* As long as Close was not called, no more microVMs are booting or running than
\* running has entries.
LEMMA HoldersHaveEntries ==
  ASSUME IInv, ~closed
  PROVE  Cardinality(Holders) <= Cardinality(Running)
<1> DEFINE f == [c \in Holders |-> ID[c]]
<1>1. ASSUME NEW c \in Holders PROVE c \in Call /\ running[ID[c]] = c /\ ID[c] \in Running
  BY HypervisorAssumption DEF IInv, CallsInOrder, Holders, Running
<1>2. f \in Injection(Holders, Running)
  BY <1>1 DEF Injection, IsInjective
<1> HIDE DEF f
<1> QED BY <1>2, FS_Injection DEF IInv, Counts

\* What the three counts need of a step that only gives back: no new live timer
\* but the ones counted, no new holder, no new entry.
LEMMA ShrinkKeepsCounts ==
  ASSUME IInv, Running' \subseteq Running, Holders' \subseteq Holders,
         UNCHANGED wg, LiveTimers' = LiveTimers
  PROVE  Counts'
<1>1. IsFiniteSet(Running')
  BY FS_Subset DEF IInv, Counts
<1>2. IsFiniteSet(Holders') /\ Cardinality(Holders') <= Cardinality(Holders)
  BY FS_Subset DEF IInv, Counts
<1>3. Cardinality(Holders') \in Nat /\ Cardinality(Holders) \in Nat
  BY <1>2, FS_CardinalityType DEF IInv, Counts
<1> QED BY <1>1, <1>2, <1>3, HypervisorAssumption DEF IInv, Counts

\* The same when one timer goroutine ends and calls wg.Done.
LEMMA DoneKeepsCounts ==
  ASSUME IInv, Running' \subseteq Running, Holders' \subseteq Holders,
         NEW c \in LiveTimers, wg' = wg - 1, LiveTimers' = LiveTimers \ {c}
  PROVE  Counts'
<1>1. IsFiniteSet(Running')
  BY FS_Subset DEF IInv, Counts
<1>2. IsFiniteSet(Holders') /\ Cardinality(Holders') <= Cardinality(Holders)
  BY FS_Subset DEF IInv, Counts
<1>3. Cardinality(Holders') \in Nat /\ Cardinality(Holders) \in Nat
  BY <1>2, FS_CardinalityType DEF IInv, Counts
<1>4. IsFiniteSet(LiveTimers') /\ wg' = Cardinality(LiveTimers')
  BY FS_RemoveElement DEF IInv, Counts
<1> QED BY <1>1, <1>2, <1>3, <1>4, HypervisorAssumption DEF IInv, Counts

\* The same when timers that had not fired are stopped and done for.
LEMMA DisarmKeepsCounts ==
  ASSUME IInv, Running' \subseteq Running, Holders' \subseteq Holders,
         NEW cs \in SUBSET Call, Disarm(cs)
  PROVE  Counts' /\ LiveTimers' \subseteq LiveTimers
<1> DEFINE armed == {c \in cs : timer[c] = "armed"}
<1>1. IsFiniteSet(Running')
  BY FS_Subset DEF IInv, Counts
<1>2. IsFiniteSet(Holders') /\ Cardinality(Holders') <= Cardinality(Holders)
  BY FS_Subset DEF IInv, Counts
<1>3. Cardinality(Holders') \in Nat /\ Cardinality(Holders) \in Nat
  BY <1>2, FS_CardinalityType DEF IInv, Counts
<1>4. LiveTimers' = LiveTimers \ armed /\ armed \subseteq LiveTimers
  BY DEF Disarm, LiveTimers, IInv, TypeOK
<1>5. wg' = wg - Cardinality(armed)
  BY DEF Disarm
<1>6. armed = LiveTimers \cap armed
  BY <1>4
<1> HIDE DEF armed
<1>7. PICK live : live = LiveTimers
  OBVIOUS
<1>8. IsFiniteSet(live) /\ wg = Cardinality(live)
  BY <1>7 DEF IInv, Counts
<1>9. IsFiniteSet(live \ armed) /\ Cardinality(live \ armed) = Cardinality(live) - Cardinality(armed)
  <2>1. /\ IsFiniteSet(live \ armed)
        /\ Cardinality(live \ armed) = Cardinality(live) - Cardinality(live \cap armed)
    BY <1>8, FS_Difference
  <2>2. live \cap armed = armed
    BY <1>6, <1>7
  <2> QED BY <2>1, <2>2
<1>10. LiveTimers' = live \ armed /\ wg' = wg - Cardinality(armed)
  BY <1>4, <1>5, <1>7
<1>11. IsFiniteSet(LiveTimers') /\ wg' = Cardinality(LiveTimers')
  BY <1>8, <1>9, <1>10
<1> QED BY <1>1, <1>2, <1>3, <1>4, <1>11, HypervisorAssumption DEF IInv, Counts

\* Start: the slot it reserves was free, and the entry it makes was not there.
LEMMA StartPreserves ==
  ASSUME IInv, NEW c \in Call, Start(c)
  PROVE  IInv'
<1>1. ID[c] \in VM /\ c # NoCall
  BY HypervisorAssumption
<1>2. LiveTimers' = LiveTimers
  BY DEF Start, LiveTimers
<1>3. CASE StartErr(c) # "ok"
  <2>1. StartErr(c) \in {"ErrClosed", "ErrDuplicateVM", "ErrNoCapacity"}
    BY <1>3 DEF StartErr
  <2>2. TypeOK'
    BY <1>3, <2>1 DEF Start, IInv, TypeOK
  <2>3. CallsInOrder' /\ NoSendOnClosed'
    BY <1>3, <2>1, HypervisorAssumption DEF Start, IInv, TypeOK, CallsInOrder, NoSendOnClosed
  <2>4. Running' = Running /\ Holders' \subseteq Holders
    BY <1>3, <2>1 DEF Start, IInv, TypeOK, Running, Holders
  <2>5. Counts'
    BY <1>2, <2>4, ShrinkKeepsCounts DEF Start
  <2> QED BY <2>2, <2>3, <2>5 DEF IInv
<1>4. CASE StartErr(c) = "ok"
  <2>1. ~closed /\ running[ID[c]] = NoCall /\ ~(Cardinality(Running) >= Slots)
    BY <1>4 DEF StartErr
  <2>2. /\ phase[c] = "idle" /\ phase' = [phase EXCEPT ![c] = "boot"]
        /\ running' = [running EXCEPT ![ID[c]] = c]
        /\ UNCHANGED <<timer, closed, closing, wg, expired, cut>>
    BY <1>4 DEF Start
  <2>3. TypeOK'
    BY <1>1, <2>2 DEF IInv, TypeOK
  <2>4. CallsInOrder' /\ NoSendOnClosed'
    BY <1>1, <2>1, <2>2, HypervisorAssumption DEF IInv, TypeOK, CallsInOrder, NoSendOnClosed
  <2>5. Running' = Running \cup {ID[c]}
    BY <1>1, <2>2 DEF IInv, TypeOK, Running
  <2>6. Holders' = Holders \cup {c}
    <3>1. c \in Holders'
      BY <2>2 DEF IInv, TypeOK, CallsInOrder, Holders
    <3>2. ASSUME NEW d \in Call, d # c PROVE d \in Holders' <=> d \in Holders
      BY <1>1, <2>1, <2>2, <3>2, HypervisorAssumption DEF IInv, TypeOK, Holders
    <3> QED BY <3>1, <3>2 DEF Holders
  <2>7. IsFiniteSet(Running') /\ IsFiniteSet(Holders')
    BY <2>5, <2>6, FS_AddElement DEF IInv, Counts
  <2>8. Cardinality(Holders') <= Cardinality(Holders) + 1
    <3>1. IsFiniteSet(Holders) /\ Cardinality(Holders) \in Nat
      BY FS_CardinalityType DEF IInv, Counts
    <3> QED BY <2>6, <3>1, FS_AddElement
  <2>9. Cardinality(Holders) < Slots
    BY <2>1, HoldersHaveEntries, FS_CardinalityType, HypervisorAssumption DEF IInv, Counts
  <2>10. Cardinality(Holders') <= Slots
    BY <2>7, <2>8, <2>9, FS_CardinalityType, HypervisorAssumption DEF IInv, Counts
  <2> QED BY <1>2, <2>2, <2>3, <2>4, <2>7, <2>10 DEF IInv, Counts
<1> QED BY <1>3, <1>4

\* A failed boot releases the entry of its identifier, its own or another's, which
\* is then cut.
LEMMA BootFailsPreserves ==
  ASSUME IInv, NEW c \in Call, BootFails(c)
  PROVE  IInv'
<1>1. ID[c] \in VM /\ c # NoCall
  BY HypervisorAssumption
<1>2. TypeOK'
  BY <1>1 DEF BootFails, IInv, TypeOK
<1>3. CallsInOrder'
  BY <1>1, HypervisorAssumption DEF BootFails, IInv, TypeOK, CallsInOrder
<1>4. LiveTimers' = LiveTimers /\ NoSendOnClosed'
  BY DEF BootFails, IInv, LiveTimers, NoSendOnClosed
<1>5. Running' \subseteq Running /\ Holders' \subseteq Holders
  BY <1>1, HypervisorAssumption DEF BootFails, IInv, TypeOK, Running, Holders
<1>6. Counts'
  BY <1>4, <1>5, ShrinkKeepsCounts DEF BootFails
<1> QED BY <1>2, <1>3, <1>4, <1>6 DEF IInv

\* A finished boot arms a timer that was not armed before, and none after Close.
LEMMA BootsPreserves ==
  ASSUME IInv, NEW c \in Call, Boots(c)
  PROVE  IInv'
<1>1. TypeOK'
  BY DEF Boots, IInv, TypeOK
<1>2. CallsInOrder'
  BY HypervisorAssumption DEF Boots, IInv, TypeOK, CallsInOrder
<1>3. NoSendOnClosed'
  BY DEF Boots, IInv, TypeOK, CallsInOrder, NoSendOnClosed
<1>4. Running' = Running /\ Holders' \subseteq Holders
  BY DEF Boots, IInv, TypeOK, Running, Holders
<1>5. CASE ~(~closed /\ c \in HasTTL)
  <2>1. LiveTimers' = LiveTimers /\ UNCHANGED wg
    BY <1>5 DEF Boots, LiveTimers
  <2> QED BY <1>1, <1>2, <1>3, <1>4, <2>1, ShrinkKeepsCounts DEF IInv
<1>6. CASE ~closed /\ c \in HasTTL
  <2>1. LiveTimers' = LiveTimers \cup {c} /\ c \notin LiveTimers /\ wg' = wg + 1
    BY <1>6 DEF Boots, IInv, TypeOK, CallsInOrder, LiveTimers
  <2>2. IsFiniteSet(LiveTimers') /\ wg' = Cardinality(LiveTimers')
    BY <2>1, FS_AddElement DEF IInv, Counts
  <2>3. IsFiniteSet(Holders') /\ Cardinality(Holders') <= Cardinality(Holders)
    BY <1>4, FS_Subset DEF IInv, Counts
  <2>4. Cardinality(Holders') <= Slots
    BY <2>3, FS_CardinalityType, HypervisorAssumption DEF IInv, Counts
  <2> QED BY <1>1, <1>2, <1>3, <1>4, <2>2, <2>3, <2>4 DEF IInv, Counts
<1> QED BY <1>5, <1>6

\* A timer that fires goes on being counted.
LEMMA FiresPreserves ==
  ASSUME IInv, NEW c \in Call, Fires(c)
  PROVE  IInv'
<1>1. TypeOK' /\ CallsInOrder' /\ NoSendOnClosed'
  BY DEF Fires, IInv, TypeOK, CallsInOrder, NoSendOnClosed
<1>2. LiveTimers' = LiveTimers /\ Running' = Running /\ Holders' = Holders
  BY DEF Fires, IInv, TypeOK, LiveTimers, Running, Holders
<1> QED BY <1>1, <1>2, ShrinkKeepsCounts DEF IInv, Fires

\* reap deletes the entry of its identifier, whoever made it, or is done at once.
LEMMA ReapPreserves ==
  ASSUME IInv, NEW c \in Call, reap(c)
  PROVE  IInv'
<1>1. ID[c] \in VM /\ c # NoCall
  BY HypervisorAssumption
<1>2. TypeOK'
  BY <1>1 DEF reap, IInv, TypeOK
<1>3. CallsInOrder' /\ NoSendOnClosed'
  BY <1>1, HypervisorAssumption DEF reap, IInv, TypeOK, CallsInOrder, NoSendOnClosed
<1>4. Running' \subseteq Running /\ Holders' \subseteq Holders
  BY <1>1, HypervisorAssumption DEF reap, IInv, TypeOK, Running, Holders
<1>5. CASE closed \/ running[ID[c]] = NoCall
  <2>1. c \in LiveTimers /\ LiveTimers' = LiveTimers \ {c} /\ wg' = wg - 1
    BY <1>5 DEF reap, IInv, TypeOK, LiveTimers
  <2> QED BY <1>2, <1>3, <1>4, <2>1, DoneKeepsCounts DEF IInv
<1>6. CASE ~(closed \/ running[ID[c]] = NoCall)
  <2>1. LiveTimers' = LiveTimers /\ UNCHANGED wg
    BY <1>6 DEF reap, IInv, TypeOK, LiveTimers
  <2> QED BY <1>2, <1>3, <1>4, <2>1, ShrinkKeepsCounts DEF IInv
<1> QED BY <1>5, <1>6

\* After the send, or the drop, the timer goroutine is done.
LEMMA NotifyPreserves ==
  ASSUME IInv, NEW c \in Call, Notify(c)
  PROVE  IInv'
<1>1. expired' \in Seq(VM)
  <2>1. ID[c] \in VM /\ expired \in Seq(VM)
    BY HypervisorAssumption DEF IInv, TypeOK
  <2>2. expired' = Append(expired, ID[c]) \/ expired' = expired
    BY DEF Notify
  <2> QED BY <2>1, <2>2
<1>2. TypeOK' /\ CallsInOrder' /\ NoSendOnClosed'
  BY <1>1 DEF Notify, IInv, TypeOK, CallsInOrder, NoSendOnClosed
<1>3. Running' = Running /\ Holders' = Holders
  BY DEF Notify, Running, Holders
<1>4. c \in LiveTimers /\ LiveTimers' = LiveTimers \ {c} /\ wg' = wg - 1
  BY DEF Notify, IInv, TypeOK, LiveTimers
<1> QED BY <1>2, <1>3, <1>4, DoneKeepsCounts DEF IInv

\* Stop takes one entry out and disarms its timer.
LEMMA StopPreserves ==
  ASSUME IInv, NEW v \in VM, Stop(v)
  PROVE  IInv'
<1>1. {running[v]} \in SUBSET Call /\ Disarm({running[v]})
  BY DEF Stop, Running, IInv, TypeOK
<1>2. Running' \subseteq Running /\ Holders' \subseteq Holders
  BY HypervisorAssumption DEF Stop, Running, Holders, IInv, TypeOK
<1>3. Counts' /\ LiveTimers' \subseteq LiveTimers
  BY <1>1, <1>2, DisarmKeepsCounts
<1>4. wg' \in Int
  BY <1>3, FS_CardinalityType DEF Counts
<1>5. TypeOK'
  BY <1>1, <1>4 DEF Stop, Disarm, IInv, TypeOK
<1>6. CallsInOrder'
  BY <1>1, HypervisorAssumption DEF Stop, Disarm, IInv, TypeOK, CallsInOrder, Running
<1>7. NoSendOnClosed'
  BY <1>3 DEF Stop, IInv, NoSendOnClosed, LiveTimers
<1> QED BY <1>3, <1>5, <1>6, <1>7 DEF IInv

\* Close empties running and disarms every timer that has not fired; those that
\* have, and the boots under way, go on.
LEMMA ClosePreserves ==
  ASSUME IInv, Close
  PROVE  IInv'
<1>1. {running[v] : v \in Running} \in SUBSET Call /\ Disarm({running[v] : v \in Running})
  BY DEF Close, Running, IInv, TypeOK
<1>2. Running' \subseteq Running /\ Holders' \subseteq Holders
  BY HypervisorAssumption DEF Close, Running, Holders, IInv, TypeOK
<1>3. Counts' /\ LiveTimers' \subseteq LiveTimers
  BY <1>1, <1>2, DisarmKeepsCounts
<1>4. wg' \in Int
  BY <1>3, FS_CardinalityType DEF Counts
<1>5. TypeOK'
  BY <1>1, <1>4 DEF Close, Disarm, IInv, TypeOK
<1>6. CallsInOrder'
  BY <1>1, HypervisorAssumption DEF Close, Disarm, IInv, TypeOK, CallsInOrder
<1>7. NoSendOnClosed'
  BY DEF Close, NoSendOnClosed
<1> QED BY <1>3, <1>5, <1>6, <1>7 DEF IInv

\* Close closes the channel only when the wait group is at zero, and then no timer
\* goroutine is left.
LEMMA CloseReturnsPreserves ==
  ASSUME IInv, CloseReturns
  PROVE  IInv'
<1>1. LiveTimers = {}
  BY FS_EmptySet DEF CloseReturns, IInv, Counts
<1>2. TypeOK' /\ CallsInOrder'
  BY DEF CloseReturns, IInv, TypeOK, CallsInOrder
<1>3. NoSendOnClosed'
  BY <1>1 DEF CloseReturns, NoSendOnClosed, LiveTimers
<1>4. LiveTimers' = LiveTimers /\ Running' = Running /\ Holders' = Holders
  BY DEF CloseReturns, LiveTimers, Running, Holders
<1> QED BY <1>2, <1>3, <1>4, ShrinkKeepsCounts DEF IInv, CloseReturns

\* Taking a notice off the channel touches nothing else.
LEMMA ConsumePreserves ==
  ASSUME IInv, Consume
  PROVE  IInv'
<1>1. Tail(expired) \in Seq(VM)
  BY DEF Consume, IInv, TypeOK
<1>2. TypeOK' /\ CallsInOrder' /\ NoSendOnClosed'
  BY <1>1 DEF Consume, IInv, TypeOK, CallsInOrder, NoSendOnClosed
<1>3. LiveTimers' = LiveTimers /\ Running' = Running /\ Holders' = Holders
  BY DEF Consume, LiveTimers, Running, Holders
<1> QED BY <1>2, <1>3, ShrinkKeepsCounts DEF IInv, Consume

\* A stutter keeps everything.
LEMMA StutterPreserves ==
  ASSUME IInv, UNCHANGED vars
  PROVE  IInv'
<1>1. TypeOK' /\ CallsInOrder' /\ NoSendOnClosed'
  BY DEF vars, IInv, TypeOK, CallsInOrder, NoSendOnClosed
<1>2. LiveTimers' = LiveTimers /\ Running' = Running /\ Holders' = Holders
  BY DEF vars, LiveTimers, Running, Holders
<1> QED BY <1>1, <1>2, ShrinkKeepsCounts DEF IInv, vars

\* The inductive invariant holds throughout.
LEMMA FakeInvariant == Spec => []IInv
<1>1. IInv /\ [Next]_vars => IInv'
  <2> SUFFICES ASSUME IInv, [Next]_vars PROVE IInv'
    OBVIOUS
  <2>1. ASSUME NEW c \in Call,
               Start(c) \/ BootFails(c) \/ Boots(c) \/ Fires(c) \/ reap(c) \/ Notify(c)
        PROVE  IInv'
    BY <2>1, StartPreserves, BootFailsPreserves, BootsPreserves, FiresPreserves,
       ReapPreserves, NotifyPreserves
  <2>2. ASSUME NEW v \in VM, Stop(v) PROVE IInv'
    BY <2>2, StopPreserves
  <2>3. ASSUME Close \/ CloseReturns \/ Consume PROVE IInv'
    BY <2>3, ClosePreserves, CloseReturnsPreserves, ConsumePreserves
  <2> QED BY <2>1, <2>2, <2>3, StutterPreserves DEF Next
<1> QED BY <1>1, FakeInit, PTL DEF Spec
-----------------------------------------------------------------------------
\* Every reachable state of the in-process hypervisor is well typed.
THEOREM TypeCorrect == Spec => []TypeOK
<1>1. IInv => TypeOK
  BY DEF IInv
<1> QED BY <1>1, FakeInvariant, PTL

\* Whatever interleaving of Start, Stop, Close, boots and timers, at most Slots
\* microVMs boot or run, apart from those cut while they booted.
THEOREM NeverOverSlots == Spec => []SlotsRespected
<1>1. IInv => SlotsRespected
  BY DEF IInv, Counts, Holders, SlotsRespected
<1> QED BY <1>1, FakeInvariant, PTL

\* wg.Add and wg.Done balance on every path of Stop, Close and reap: the counter
\* is the number of timers not done, so it never goes negative.
THEOREM WaitGroupIsExact == Spec => []WaitGroupExact
<1>1. IInv => WaitGroupExact
  BY DEF IInv, Counts, LiveTimers, WaitGroupExact
<1> QED BY <1>1, FakeInvariant, PTL

\* No timer goroutine is left to send when Close closes the expired channel.
THEOREM NeverSendsOnClosed == Spec => []NoSendOnClosed
<1>1. IInv => NoSendOnClosed
  BY DEF IInv
<1> QED BY <1>1, FakeInvariant, PTL
=============================================================================
