-------------------------------- MODULE Fake --------------------------------
(***************************************************************************)
(* internal/hypervisor/fake.go: the in-process hypervisor of one host.  A   *)
(* Start reserves its slot under the lock, boots without it, and takes the  *)
(* lock again to arm the TTL timer; Stop, Close and the timers of other     *)
(* microVMs run in between.  A call of Start stands for the fakeVM that it  *)
(* allocates, so running maps an identifier to a call.                      *)
(*                                                                          *)
(* The steps are the critical sections, the firing of a timer, the send on  *)
(* the expired channel and its close.                                       *)
(***************************************************************************)
EXTENDS Integers, Sequences, FiniteSets

CONSTANTS Call, NoCall,     \* the calls of Start, and none
          VM, ID,           \* identifiers, and the one each call asks for
          HasTTL,           \* the calls whose spec has a TTL
          Slots,            \* cfg.Slots
          ExpiredPerSlot    \* room on the expired channel, per slot (4 in the code)

ASSUME HypervisorAssumption ==
  /\ NoCall \notin Call /\ ID \in [Call -> VM] /\ HasTTL \subseteq Call
  /\ Slots \in Nat \ {0, 1} /\ ExpiredPerSlot \in Nat \ {0}

VARIABLES phase,     \* where each Start is, or what it returned
          running,   \* [VM -> Call \cup {NoCall}]
          timer,     \* the state of the TTL timer of each call
          closed,    \* f.closed
          closing,   \* where Close is
          wg,        \* the wait group's counter
          expired,   \* the expired channel
          cut        \* the calls whose microVM was taken out of running while it
                     \* booted, or by the failure of another (history)

vars == <<phase, running, timer, closed, closing, wg, expired, cut>>

Running == {v \in VM : running[v] # NoCall}

\* NewFake
Init ==
  /\ phase = [c \in Call |-> "idle"] /\ running = [v \in VM |-> NoCall]
  /\ timer = [c \in Call |-> "none"]
  /\ closed = FALSE /\ closing = "no" /\ wg = 0 /\ expired = <<>> /\ cut = {}

\* A wrong form for the mutation runs: one microVM too many.
StartErrLate(c) == IF closed THEN "ErrClosed"
                   ELSE IF running[ID[c]] # NoCall THEN "ErrDuplicateVM"
                   ELSE IF Cardinality(Running) > Slots THEN "ErrNoCapacity"
                   ELSE "ok"

StartErr(c) == IF closed THEN "ErrClosed"
               ELSE IF running[ID[c]] # NoCall THEN "ErrDuplicateVM"
               ELSE IF Cardinality(Running) >= Slots THEN "ErrNoCapacity"
               ELSE "ok"

Start(c) ==
  /\ phase[c] = "idle"
  /\ IF StartErr(c) = "ok"
     THEN phase' = [phase EXCEPT ![c] = "boot"] /\ running' = [running EXCEPT ![ID[c]] = c]
     ELSE phase' = [phase EXCEPT ![c] = StartErr(c)] /\ UNCHANGED running
  /\ UNCHANGED <<timer, closed, closing, wg, expired, cut>>

\* The boot fails or its context is done: release deletes whatever has the id.
BootFails(c) ==
  /\ phase[c] = "boot" /\ phase' = [phase EXCEPT ![c] = "ErrBootFailed"]
  /\ running' = [running EXCEPT ![ID[c]] = NoCall]
  /\ cut' = cut \cup ({running[ID[c]]} \ {c, NoCall})
  /\ UNCHANGED <<timer, closed, closing, wg, expired>>

\* A wrong form for the mutation runs: closed is not looked at again after the boot.
BootsUnchecked(c) ==
  /\ phase[c] = "boot" /\ phase' = [phase EXCEPT ![c] = "started"]
  /\ IF c \in HasTTL THEN timer' = [timer EXCEPT ![c] = "armed"] /\ wg' = wg + 1
                     ELSE UNCHANGED <<timer, wg>>
  /\ UNCHANGED <<running, closed, closing, expired, cut>>

Boots(c) ==
  /\ phase[c] = "boot"
  /\ phase' = [phase EXCEPT ![c] = IF closed THEN "ErrClosed" ELSE "started"]
  /\ IF ~closed /\ c \in HasTTL THEN timer' = [timer EXCEPT ![c] = "armed"] /\ wg' = wg + 1
                                ELSE UNCHANGED <<timer, wg>>
  /\ UNCHANGED <<running, closed, closing, expired, cut>>

\* The timer goroutine starts; from here timer.Stop returns false.
Fires(c) ==
  /\ timer[c] = "armed" /\ timer' = [timer EXCEPT ![c] = "fired"]
  /\ UNCHANGED <<phase, running, closed, closing, wg, expired, cut>>

\* The critical section of reap; when it returns early, wg.Done follows.
reap(c) ==
  /\ timer[c] = "fired"
  /\ IF closed \/ running[ID[c]] = NoCall
     THEN timer' = [timer EXCEPT ![c] = "ended"] /\ wg' = wg - 1 /\ UNCHANGED <<running, cut>>
     ELSE /\ timer' = [timer EXCEPT ![c] = "reaped"] /\ UNCHANGED wg
          /\ running' = [running EXCEPT ![ID[c]] = NoCall]
          /\ cut' = cut \cup {d \in {running[ID[c]]} : phase[d] = "boot"}
  /\ UNCHANGED <<phase, closed, closing, expired>>

\* The send does not block: when the channel is full the notice is dropped.
Notify(c) ==
  /\ timer[c] = "reaped" /\ timer' = [timer EXCEPT ![c] = "ended"] /\ wg' = wg - 1
  /\ IF Len(expired) < Slots * ExpiredPerSlot
     THEN expired' = Append(expired, ID[c]) ELSE UNCHANGED expired
  /\ UNCHANGED <<phase, running, closed, closing, cut>>

\* A wrong form for the mutation runs: a disarmed timer is never done for.
DisarmUncounted(cs) ==
  /\ timer' = [c \in Call |-> IF c \in cs /\ timer[c] = "armed" THEN "stopped" ELSE timer[c]]
  /\ UNCHANGED wg

\* vm.timer.Stop() of the calls cs: the timers that had not fired are disarmed,
\* and done for.
Disarm(cs) ==
  LET armed == {c \in cs : timer[c] = "armed"}
  IN  /\ timer' = [c \in Call |-> IF c \in armed THEN "stopped" ELSE timer[c]]
      /\ wg' = wg - Cardinality(armed)

\* Stopping an unknown microVM, or after Close, changes nothing.
Stop(v) ==
  /\ ~closed /\ v \in Running
  /\ running' = [running EXCEPT ![v] = NoCall] /\ Disarm({running[v]})
  /\ cut' = cut \cup {d \in {running[v]} : phase[d] = "boot"}
  /\ UNCHANGED <<phase, closed, closing, expired>>

Close ==
  /\ ~closed /\ closed' = TRUE /\ closing' = "waiting"
  /\ running' = [v \in VM |-> NoCall] /\ Disarm({running[v] : v \in Running})
  /\ UNCHANGED <<phase, expired, cut>>

\* wg.Wait and close(expired)
CloseReturns ==
  /\ closing = "waiting" /\ wg = 0 /\ closing' = "returned"
  /\ UNCHANGED <<phase, running, timer, closed, wg, expired, cut>>

\* The agent's watchExpiries takes a notice off the channel.
Consume ==
  /\ expired # <<>> /\ expired' = Tail(expired)
  /\ UNCHANGED <<phase, running, timer, closed, closing, wg, cut>>

Next ==
  \/ \E c \in Call : Start(c) \/ BootFails(c) \/ Boots(c) \/ Fires(c) \/ reap(c) \/ Notify(c)
  \/ \E v \in VM : Stop(v)
  \/ Close \/ CloseReturns \/ Consume

Spec == Init /\ [][Next]_vars

\* Boots end (their context or the simulated latency), timers fire, goroutines run.
Fairness == /\ WF_vars(CloseReturns)
            /\ \A c \in Call : WF_vars(Fires(c) \/ reap(c) \/ Notify(c))

FairSpec == Spec /\ Fairness

-----------------------------------------------------------------------------
\* The states of a Start, of a timer and of Close are the ones listed.
TypeOK ==
  /\ phase \in [Call -> {"idle", "boot", "started", "ErrBootFailed", "ErrClosed",
                         "ErrDuplicateVM", "ErrNoCapacity"}]
  /\ running \in [VM -> Call \cup {NoCall}]
  /\ timer \in [Call -> {"none", "armed", "fired", "reaped", "stopped", "ended"}]
  /\ closed \in BOOLEAN /\ closing \in {"no", "waiting", "returned"}
  /\ wg \in Int /\ expired \in Seq(VM) /\ cut \subseteq Call

\* However Starts, Stops, failures and expiries interleave, no more than Slots
\* microVMs are booting or running: the slot is reserved before the lock is given
\* up for the boot.  Those that lost their slot while they booted are not counted:
\* they go on beside it.
SlotsRespected ==
  Cardinality({c \in Call \ cut : phase[c] = "boot" \/ running[ID[c]] = c}) <= Slots

\* The wait group counts the timers that are armed or whose goroutine has not
\* ended, whichever of Stop, Close and the timer itself got to them first, so it
\* never goes negative (a panic) and never stays up (Close would hang).
WaitGroupExact ==
  wg = Cardinality({c \in Call : timer[c] \in {"armed", "fired", "reaped"}})

\* Nobody sends on the expired channel after Close has closed it (a panic), not
\* even the timer of a Start that was still booting when Close came.
NoSendOnClosed ==
  closing = "returned" =>
    \A c \in Call : timer[c] \notin {"armed", "fired", "reaped"}

\* A Close that was called returns, in spite of armed and running timers.
CloseEnds == closed ~> closing = "returned"
=============================================================================
