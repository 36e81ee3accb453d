-------------------------------- MODULE QEMU --------------------------------
(***************************************************************************)
(* internal/hypervisor/qemu.go: the hypervisor that runs each microVM as a  *)
(* QEMU process.  It repeats the fake's bookkeeping around a real process:  *)
(* boot creates the process's context and starts it, with no lock held, and *)
(* terminate, called after the lock is given up, cancels that context and   *)
(* waits for the process.  Constants are those of Fake.                     *)
(*                                                                          *)
(* vm.cancel and vm.cmd are written by boot and read by terminate without a *)
(* lock: terminate sees what boot has written by then, which may be nothing. *)
(* A cancelled context kills the process at once.                           *)
(***************************************************************************)
EXTENDS Integers, Sequences, FiniteSets

CONSTANTS Call, NoCall, VM, ID, HasTTL, Slots, ExpiredPerSlot

ASSUME HypervisorAssumption ==
  /\ NoCall \notin Call /\ ID \in [Call -> VM] /\ HasTTL \subseteq Call
  /\ Slots \in Nat \ {0, 1} /\ ExpiredPerSlot \in Nat \ {0}

VARIABLES phase,      \* where each Start is, or what it returned
          running,    \* [VM -> Call \cup {NoCall}]
          timer,      \* the state of the TTL timer of each call
          victim,     \* the microVM the timer's goroutine is terminating
          closed,     \* q.closed
          closing,    \* where Close is
          closeList,  \* Close's vms: those it has yet to terminate
          wg,         \* the wait group's counter
          expired,    \* the expired channel
          cut,        \* as in Fake (history)
          guest,      \* the process of each call
          cancelled,  \* the calls whose vmCtx is cancelled
          term        \* where terminate(vm) is, for each vm

book == <<phase, running, timer, victim, closed, closing, closeList, wg, expired, cut>>
process == <<guest, cancelled, term>>
vars == <<book, process>>

Running == {v \in VM : running[v] # NoCall}

Booting(c) == phase[c] \in {"reserved", "launching", "booting", "failed", "ready"}

Goto(c, p) == phase' = [phase EXCEPT ![c] = p]

\* NewQEMU
Init ==
  /\ phase = [c \in Call |-> "idle"] /\ running = [v \in VM |-> NoCall]
  /\ timer = [c \in Call |-> "none"] /\ victim = [c \in Call |-> NoCall]
  /\ closed = FALSE /\ closing = "no" /\ closeList = {} /\ wg = 0 /\ expired = <<>>
  /\ cut = {}
  /\ guest = [c \in Call |-> "none"] /\ cancelled = {} /\ term = [c \in Call |-> "none"]

\* Cancelling vmCtx kills the process, if there is one.
cancel(c) ==
  /\ cancelled' = cancelled \cup {c}
  /\ guest' = [guest EXCEPT ![c] = IF @ = "alive" THEN "dead" ELSE @]

-----------------------------------------------------------------------------
(* Start and boot. *)

StartErr(c) == IF closed THEN "ErrClosed"
               ELSE IF running[ID[c]] # NoCall THEN "ErrDuplicateVM"
               ELSE IF Cardinality(Running) >= Slots THEN "ErrNoCapacity"
               ELSE "ok"

Start(c) ==
  /\ phase[c] = "idle"
  /\ IF StartErr(c) = "ok"
     THEN Goto(c, "reserved") /\ running' = [running EXCEPT ![ID[c]] = c]
     ELSE Goto(c, StartErr(c)) /\ UNCHANGED running
  /\ UNCHANGED <<cut, timer, victim, closed, closing, closeList, wg, expired, process>>

SetsCancel(c) ==
  /\ phase[c] = "reserved" /\ Goto(c, "launching")
  /\ UNCHANGED <<cut, running, timer, victim, closed, closing, closeList, wg, expired, process>>

\* cmd.Start refuses a cancelled context and may fail by itself.
Launches(c) ==
  /\ phase[c] = "launching"
  /\ \/ /\ c \notin cancelled /\ Goto(c, "booting")
        /\ guest' = [guest EXCEPT ![c] = "alive"] /\ UNCHANGED cancelled
     \/ Goto(c, "failed") /\ cancel(c)
  /\ UNCHANGED <<cut, running, timer, victim, closed, closing, closeList, wg, expired, term>>

\* The guest prints the marker.
GuestReady(c) ==
  /\ phase[c] = "booting" /\ guest[c] = "alive" /\ Goto(c, "ready")
  /\ UNCHANGED <<cut, running, timer, victim, closed, closing, closeList, wg, expired, process>>

\* The guest exits before the marker, the boot times out or the caller goes away.
BootFails(c) ==
  /\ phase[c] = "booting" /\ Goto(c, "failed") /\ cancel(c)
  /\ UNCHANGED <<cut, running, timer, victim, closed, closing, closeList, wg, expired, term>>

\* The release of Start: it deletes whatever has the id.
Released(c) ==
  /\ phase[c] = "failed" /\ Goto(c, "ErrBootFailed")
  /\ running' = [running EXCEPT ![ID[c]] = NoCall]
  /\ cut' = cut \cup ({running[ID[c]]} \ {c, NoCall})
  /\ UNCHANGED <<timer, victim, closed, closing, closeList, wg, expired, process>>

\* A wrong form for the mutation runs: a guest that came up too late is left alone.
StartedUncancelled(c) ==
  /\ phase[c] = "ready" /\ Goto(c, IF closed THEN "ErrClosed" ELSE "started")
  /\ IF ~closed /\ c \in HasTTL THEN timer' = [timer EXCEPT ![c] = "armed"] /\ wg' = wg + 1
                                ELSE UNCHANGED <<timer, wg>>
  /\ UNCHANGED <<cut, running, victim, closed, closing, closeList, expired, process>>

\* Start takes the lock again.
Started(c) ==
  /\ phase[c] = "ready"
  /\ IF closed THEN Goto(c, "ErrClosed") /\ cancel(c)
               ELSE Goto(c, "started") /\ UNCHANGED <<guest, cancelled>>
  /\ IF ~closed /\ c \in HasTTL THEN timer' = [timer EXCEPT ![c] = "armed"] /\ wg' = wg + 1
                                ELSE UNCHANGED <<timer, wg>>
  /\ UNCHANGED <<cut, running, victim, closed, closing, closeList, expired, term>>

\* A guest may exit on its own (-no-reboot); nobody is told.
GuestExits(c) ==
  /\ guest[c] = "alive" /\ guest' = [guest EXCEPT ![c] = "dead"]
  /\ UNCHANGED <<book, cancelled, term>>

-----------------------------------------------------------------------------
(* terminate, run by Stop, Close or reap once the vm is out of running. *)

\* vm.cancel is nil until boot has set it.
TermCancels(c) ==
  /\ term[c] = "cancel" /\ term' = [term EXCEPT ![c] = "wait"]
  /\ IF phase[c] = "reserved" THEN UNCHANGED <<guest, cancelled>> ELSE cancel(c)
  /\ UNCHANGED book

\* vm.cmd is nil until the process has started, and a little longer; once it is
\* not, terminate waits for the process to exit.
TermWaits(c) ==
  /\ term[c] = "wait" /\ term' = [term EXCEPT ![c] = "done"]
  /\ phase[c] \in {"reserved", "launching", "booting"} \/ guest[c] # "alive"
  /\ UNCHANGED <<book, guest, cancelled>>

-----------------------------------------------------------------------------
(* Expiry, Stop and Close. *)

Fires(c) ==
  /\ timer[c] = "armed" /\ timer' = [timer EXCEPT ![c] = "fired"]
  /\ UNCHANGED <<cut, phase, running, victim, closed, closing, closeList, wg, expired, process>>

\* A wrong form for the mutation runs: the process is left running.
reapUnterminated(c) ==
  /\ timer[c] = "fired"
  /\ IF closed \/ running[ID[c]] = NoCall
     THEN /\ timer' = [timer EXCEPT ![c] = "ended"] /\ wg' = wg - 1
          /\ UNCHANGED <<running, victim, term, cut>>
     ELSE /\ timer' = [timer EXCEPT ![c] = "reaped"] /\ UNCHANGED wg
          /\ running' = [running EXCEPT ![ID[c]] = NoCall]
          /\ victim' = [victim EXCEPT ![c] = running[ID[c]]]
          /\ term' = [term EXCEPT ![running[ID[c]]] = "done"]
          /\ cut' = cut \cup {d \in {running[ID[c]]} : Booting(d)}
  /\ UNCHANGED <<phase, closed, closing, closeList, expired, guest, cancelled>>

reap(c) ==
  /\ timer[c] = "fired"
  /\ IF closed \/ running[ID[c]] = NoCall
     THEN /\ timer' = [timer EXCEPT ![c] = "ended"] /\ wg' = wg - 1
          /\ UNCHANGED <<running, victim, term, cut>>
     ELSE /\ timer' = [timer EXCEPT ![c] = "reaped"] /\ UNCHANGED wg
          /\ running' = [running EXCEPT ![ID[c]] = NoCall]
          /\ victim' = [victim EXCEPT ![c] = running[ID[c]]]
          /\ term' = [term EXCEPT ![running[ID[c]]] = "cancel"]
          /\ cut' = cut \cup {d \in {running[ID[c]]} : Booting(d)}
  /\ UNCHANGED <<phase, closed, closing, closeList, expired, guest, cancelled>>

\* The send, once terminate has returned; a full channel drops the notice.
Notify(c) ==
  /\ timer[c] = "reaped" /\ term[victim[c]] = "done"
  /\ timer' = [timer EXCEPT ![c] = "ended"] /\ wg' = wg - 1
  /\ IF Len(expired) < Slots * ExpiredPerSlot
     THEN expired' = Append(expired, ID[c]) ELSE UNCHANGED expired
  /\ UNCHANGED <<cut, phase, running, victim, closed, closing, closeList, process>>

\* A wrong form for the mutation runs: a disarmed timer is never done for.
DisarmUncounted(cs) ==
  /\ timer' = [c \in Call |-> IF c \in cs /\ timer[c] = "armed" THEN "stopped" ELSE timer[c]]
  /\ UNCHANGED wg

Disarm(cs) ==
  LET armed == {c \in cs : timer[c] = "armed"}
  IN  /\ timer' = [c \in Call |-> IF c \in armed THEN "stopped" ELSE timer[c]]
      /\ wg' = wg - Cardinality(armed)

\* Stop returns when terminate(vm) does.
Stop(v) ==
  /\ ~closed /\ v \in Running
  /\ running' = [running EXCEPT ![v] = NoCall] /\ Disarm({running[v]})
  /\ term' = [term EXCEPT ![running[v]] = "cancel"]
  /\ cut' = cut \cup {d \in {running[v]} : Booting(d)}
  /\ UNCHANGED <<phase, victim, closed, closing, closeList, expired, guest, cancelled>>

Close ==
  /\ ~closed /\ closed' = TRUE /\ closing' = "terminating"
  /\ closeList' = {running[v] : v \in Running}
  /\ running' = [v \in VM |-> NoCall] /\ Disarm({running[v] : v \in Running})
  /\ UNCHANGED <<cut, phase, victim, expired, process>>

\* Close terminates its microVMs one after the other.
CloseTerminates(c) ==
  /\ closing = "terminating" /\ c \in closeList
  /\ \/ /\ term[c] = "none" /\ \A d \in closeList : term[d] = "none"
        /\ term' = [term EXCEPT ![c] = "cancel"] /\ UNCHANGED closeList
     \/ term[c] = "done" /\ closeList' = closeList \ {c} /\ UNCHANGED term
  /\ UNCHANGED <<cut, phase, running, timer, victim, closed, closing, wg, expired, guest, cancelled>>

\* A wrong form for the mutation runs: the channel is closed without waiting.
CloseUnwaited ==
  /\ closing = "terminating" /\ closeList = {} /\ closing' = "returned"
  /\ UNCHANGED <<cut, phase, running, timer, victim, closed, closeList, wg, expired, process>>

CloseReturns ==
  /\ closing = "terminating" /\ closeList = {} /\ wg = 0 /\ closing' = "returned"
  /\ UNCHANGED <<cut, phase, running, timer, victim, closed, closeList, wg, expired, process>>

\* The agent's watchExpiries takes a notice off the channel.
Consume ==
  /\ expired # <<>> /\ expired' = Tail(expired)
  /\ UNCHANGED <<cut, phase, running, timer, victim, closed, closing, closeList, wg, process>>

-----------------------------------------------------------------------------
Boot(c) == \/ SetsCancel(c) \/ Launches(c) \/ GuestReady(c) \/ BootFails(c)
           \/ Released(c) \/ Started(c)

Timer(c) == Fires(c) \/ reap(c) \/ Notify(c)

Terminate(c) == TermCancels(c) \/ TermWaits(c) \/ CloseTerminates(c)

Next ==
  \/ \E c \in Call : Start(c) \/ Boot(c) \/ GuestExits(c) \/ Timer(c) \/ Terminate(c)
  \/ \E v \in VM : Stop(v)
  \/ Close \/ CloseReturns \/ Consume

Spec == Init /\ [][Next]_vars

\* Goroutines run, timers fire and a boot ends (BootTimeout); a guest need not exit.
Fairness == /\ WF_vars(CloseReturns)
            /\ \A c \in Call : WF_vars(Boot(c)) /\ WF_vars(Timer(c)) /\ WF_vars(Terminate(c))

FairSpec == Spec /\ Fairness

-----------------------------------------------------------------------------
\* The fake as the abstraction of this hypervisor: a boot is one step of it, and
\* processes are not seen.
F == INSTANCE Fake WITH
       phase <- [c \in Call |-> IF Booting(c) THEN "boot" ELSE phase[c]],
       closing <- IF closing = "terminating" THEN "waiting" ELSE closing

\* The fake, which the tests and the simulator run on, is a faithful stand-in: all
\* that Start, Stop, Close and the timers do to slots, identifiers, timers and the
\* expired channel here, they may do there.
ImplementsFake == F!Spec

\* No process is lost: one that runs belongs to a Start that is still at work, to
\* a microVM that is listed and will be stopped, or is about to be terminated.  The
\* exceptions are the microVMs that were cut: a Stop (or a stale timer) that came
\* before boot had set vm.cancel and vm.cmd returns, the guest comes up after it,
\* and nothing lists it.
NoStrayGuest ==
  \A c \in Call :
    guest[c] = "alive" =>
      \/ Booting(c) \/ running[ID[c]] = c
      \/ c \in closeList \/ term[c] \in {"cancel", "wait"}
      \/ c \in cut

\* No guest survives Close: each one is killed by it or by the Start that brings
\* it up too late, but for those that were cut.
CloseKillsAll ==
  closed ~> [](\A c \in Call \ cut : guest[c] # "alive")

\* Close returns, although it waits for timers that wait for processes that others
\* start.  The exception is a stale timer that waits for the guest of the next
\* microVM with its identifier, which it took out of running too early to kill.
CloseEnds ==
  closed ~> \/ closing = "returned"
            \/ \E c \in Call : timer[c] = "reaped" /\ victim[c] \in cut
=============================================================================
