------------------------------ MODULE Registry ------------------------------
(***************************************************************************)
(* internal/registry/registry.go: host membership and liveness.  Agents     *)
(* register, heartbeat and deregister through HTTP handlers, each in a      *)
(* goroutine of its own; one goroutine sweeps.  The registry's lock covers  *)
(* only its maps, the scheduler has a lock of its own, so a call is several *)
(* steps: one per critical section, and calls and the sweep overlap freely. *)
(* raced remembers the hosts of which two overlapped: of those the          *)
(* registry's maps and the scheduler may disagree.                          *)
(*                                                                          *)
(* Time is kept as ages: how long ago a host was last seen or began to      *)
(* drain, each up to the bound it is compared with.  A sweep takes no time  *)
(* on that scale, so the now it captured is the present; a call may take    *)
(* any time, as it reads the clock where it writes the map.  The address map *)
(* changes in the same critical sections as lastSeen and is left out, as is *)
(* the wakeup Register sends (Placement.tla has it).                        *)
(***************************************************************************)
EXTENDS Integers, FiniteSets

CONSTANTS Host, VM, NoHost, Capacities, Policy,     \* as in Scheduler
          Call,               \* handler goroutines
          HeartbeatTimeout,   \* Config.HeartbeatTimeout, in clock units
          ForceRemoveAfter    \* in clock units

ASSUME RegistryAssumption ==
  /\ NoHost \notin Host /\ Capacities \subseteq Int /\ Policy \in {"BestFit", "WorstFit"}
  /\ HeartbeatTimeout \in Nat \ {0} /\ ForceRemoveAfter \in Nat \ {0}

None == -1           \* no entry in the map
Returned == -2       \* for draining: it has been ready again since

VARIABLES hostState, capacity, used, assigned, buckets, maxCap,  \* the scheduler
          lastSeen,        \* age of the entry, at most HeartbeatTimeout + 1
          drainingSince,   \* age of the entry, at most ForceRemoveAfter
          orphaned,        \* the microVMs the orphaned counter counted
          call,            \* the handlers: what each will do next, for which host
          spc, todo, scur, \* Sweep: where it is, hosts left, the host it works on
          snap,            \* the draining hosts of the Hosts() snapshot, with Used
          dead,            \* hosts whose agent has gone for good
          draining,        \* how long ago the host first left service, or that it came
                           \* back (history)
          raced            \* hosts of which two operations overlapped, since the scheduler
                           \* last forgot them (history)

sched == <<hostState, capacity, used, assigned, buckets, maxCap>>
sweep == <<spc, todo, scur, snap>>
vars == <<sched, lastSeen, drainingSince, orphaned, call, sweep, dead, draining, raced>>

S == INSTANCE Scheduler

Idle == [pc |-> "idle", host |-> NoHost, cap |-> 0]

\* New
Init ==
  /\ S!Init
  /\ lastSeen = [h \in Host |-> None] /\ drainingSince = [h \in Host |-> None]
  /\ orphaned = {} /\ call = [c \in Call |-> Idle]
  /\ spc = "idle" /\ todo = {} /\ scur = NoHost /\ snap = [h \in {} |-> 0]
  /\ dead = {} /\ draining = [h \in Host |-> None] /\ raced = {}

Tracked(h) == lastSeen[h] # None

\* An operation on h is between two of its critical sections.
Busy(h) ==
  \/ \E c \in Call : call[c].host = h
  \/ spc \in {"drain", "since"} /\ h \in todo
  \/ scur = h

\* Operations on the hosts hs begin.
Begins(hs) == raced' = raced \cup {h \in hs : Busy(h)}

\* Host h leaves service.
Leaves(h) == IF draining[h] = None THEN 0 ELSE draining[h]

\* The call of SetHostState to drain h, whose error (unknown host) is ignored by
\* Sweep and returned by Deregister.
Drain(h) ==
  IF S!HostErr(h) = "ok" /\ hostState[h] # "Draining"
  THEN S!SetHostState(h, "Draining")
  ELSE UNCHANGED sched

Step(c, p) == call' = [call EXCEPT ![c].pc = p]
Finish(c) == call' = [call EXCEPT ![c] = Idle]

-----------------------------------------------------------------------------
(* Register: its critical section, AddHost, the undo, SetHostState. *)

Register(c, h, cap) ==
  /\ call[c] = Idle /\ h \notin dead
  /\ lastSeen' = [lastSeen EXCEPT ![h] = 0]
  /\ IF Tracked(h)
     THEN UNCHANGED <<call, raced>>
     ELSE /\ call' = [call EXCEPT ![c] = [pc |-> "add", host |-> h, cap |-> cap]]
          /\ Begins({h})
  /\ UNCHANGED <<sched, drainingSince, orphaned, sweep, dead, draining>>

RegisterAdds(c) ==
  LET h == call[c].host  cap == call[c].cap IN
  /\ call[c].pc = "add"
  /\ \/ S!AddHost(h, cap) /\ Step(c, "ready")
     \/ S!AddHostErr(h, cap) = "ErrDuplicateHost" /\ Step(c, "ready") /\ UNCHANGED sched
     \/ S!AddHostErr(h, cap) = "ErrInvalidCapacity" /\ Step(c, "undo") /\ UNCHANGED sched
  /\ UNCHANGED <<lastSeen, drainingSince, orphaned, sweep, dead, draining, raced>>

\* A wrong form for the mutation runs: the refused host stays tracked.
RegisterUndoForgotten(c) ==
  /\ call[c].pc = "undo" /\ Finish(c)
  /\ UNCHANGED <<lastSeen, sched, drainingSince, orphaned, sweep, dead, draining, raced>>

RegisterUndo(c) ==
  /\ call[c].pc = "undo" /\ Finish(c)
  /\ lastSeen' = [lastSeen EXCEPT ![call[c].host] = None]
  /\ UNCHANGED <<sched, drainingSince, orphaned, sweep, dead, draining, raced>>

RegisterReadies(c) ==
  LET h == call[c].host IN
  /\ call[c].pc = "ready" /\ Finish(c)
  /\ IF S!HostErr(h) = "ok" /\ hostState[h] # "Ready"
     THEN /\ S!SetHostState(h, "Ready")
          /\ draining' = [draining EXCEPT ![h] = IF @ = None THEN None ELSE Returned]
     ELSE UNCHANGED <<sched, draining>>
  /\ UNCHANGED <<lastSeen, drainingSince, orphaned, sweep, dead, raced>>

Heartbeat(h) ==
  /\ h \notin dead /\ Tracked(h)
  /\ lastSeen' = [lastSeen EXCEPT ![h] = 0]
  /\ UNCHANGED <<sched, drainingSince, orphaned, call, sweep, dead, draining, raced>>

-----------------------------------------------------------------------------
(* Deregister: forget, note the time, drain. *)

Deregister(c, h) ==
  /\ call[c] = Idle /\ h \notin dead /\ Tracked(h)
  /\ lastSeen' = [lastSeen EXCEPT ![h] = None]
  /\ call' = [call EXCEPT ![c] = [pc |-> "since", host |-> h, cap |-> 0]]
  /\ draining' = [draining EXCEPT ![h] = Leaves(h)] /\ Begins({h})
  /\ UNCHANGED <<sched, drainingSince, orphaned, sweep, dead>>

DeregisterNotes(c) ==
  /\ call[c].pc = "since" /\ Step(c, "drain")
  /\ drainingSince' = [drainingSince EXCEPT ![call[c].host] = 0]
  /\ UNCHANGED <<sched, lastSeen, orphaned, sweep, dead, draining, raced>>

\* A wrong form for the mutation runs: the host keeps taking microVMs.
DeregisterKeepsReady(c) ==
  /\ call[c].pc = "drain" /\ Finish(c) /\ UNCHANGED sched
  /\ UNCHANGED <<lastSeen, drainingSince, orphaned, sweep, dead, draining, raced>>

DeregisterDrains(c) ==
  /\ call[c].pc = "drain" /\ Finish(c) /\ Drain(call[c].host)
  /\ UNCHANGED <<lastSeen, drainingSince, orphaned, sweep, dead, draining, raced>>

-----------------------------------------------------------------------------
(* Sweep and reapEmptyDrainingHosts. *)

Sweep ==
  /\ spc = "idle" /\ spc' = "drain"
  /\ todo' = {h \in Host : lastSeen[h] > HeartbeatTimeout}
  /\ lastSeen' = [h \in Host |-> IF h \in todo' THEN None ELSE lastSeen[h]]
  /\ draining' = [h \in Host |-> IF h \in todo' THEN Leaves(h) ELSE draining[h]]
  /\ Begins(todo')
  /\ UNCHANGED <<sched, drainingSince, orphaned, call, scur, snap, dead>>

SweepDrains(h) ==
  /\ spc = "drain" /\ h \in todo
  /\ Drain(h) /\ scur' = h /\ todo' = todo \ {h} /\ spc' = "since"
  /\ UNCHANGED <<lastSeen, drainingSince, orphaned, call, snap, dead, draining, raced>>

\* A wrong form for the mutation runs: the drain is never dated.
SweepNotesNothing ==
  /\ spc = "since" /\ spc' = "drain" /\ scur' = NoHost
  /\ UNCHANGED <<drainingSince, sched, lastSeen, orphaned, call, todo, snap, dead, draining, raced>>

\* An entry that is there already is kept.
SweepNotes ==
  /\ spc = "since" /\ spc' = "drain" /\ scur' = NoHost
  /\ drainingSince' = [drainingSince EXCEPT ![scur] = IF @ = None THEN 0 ELSE @]
  /\ UNCHANGED <<sched, lastSeen, orphaned, call, todo, snap, dead, draining, raced>>

reapSnapshot ==
  /\ spc = "drain" /\ todo = {} /\ spc' = "reap"
  /\ snap' = [h \in {g \in Host : hostState[g] = "Draining"} |-> used[h]]
  /\ todo' = DOMAIN snap'
  /\ UNCHANGED <<sched, lastSeen, drainingSince, orphaned, call, scur, dead, draining, raced>>

\* A wrong form for the mutation runs: an occupied host is never given up.
MayReapOnlyEmpty(h) == ~Tracked(h) /\ snap[h] = 0

\* Used is the snapshot's; the maps are read under the registry's lock.
MayReap(h) ==
  /\ ~Tracked(h)
  /\ ~(snap[h] # 0 /\ drainingSince[h] # None /\ drainingSince[h] < ForceRemoveAfter)

reapLooksAt(h) ==
  /\ spc = "reap" /\ h \in todo
  /\ todo' = todo \ {h}
  /\ IF MayReap(h) THEN spc' = "remove" /\ scur' = h /\ Begins({h})
                   ELSE UNCHANGED <<spc, scur, raced>>
  /\ UNCHANGED <<sched, lastSeen, drainingSince, orphaned, call, snap, dead, draining>>

reapRemoves ==
  /\ spc = "remove"
  /\ IF S!HostErr(scur) = "ok"
     THEN /\ S!RemoveHost(scur)
          /\ orphaned' = orphaned \cup S!Orphans(scur)
          /\ draining' = [draining EXCEPT ![scur] = None]
          /\ spc' = "forget" /\ UNCHANGED scur
     ELSE spc' = "reap" /\ scur' = NoHost /\ UNCHANGED <<sched, orphaned, draining>>
  /\ UNCHANGED <<lastSeen, drainingSince, call, todo, snap, dead, raced>>

\* Neither the maps, the scheduler nor a call knows of h.
Forgotten(h) == ~Tracked(h) /\ hostState[h] = "Absent" /\ \A c \in Call : call[c].host # h

reapForgets ==
  /\ spc = "forget" /\ spc' = "reap" /\ scur' = NoHost
  /\ drainingSince' = [drainingSince EXCEPT ![scur] = None]
  /\ IF Forgotten(scur)
     THEN raced' = raced \ {scur} /\ draining' = [draining EXCEPT ![scur] = None]
     ELSE UNCHANGED <<raced, draining>>
  /\ UNCHANGED <<sched, lastSeen, orphaned, call, todo, snap, dead>>

SweepEnds ==
  /\ spc = "reap" /\ todo = {} /\ spc' = "idle" /\ snap' = [h \in {} |-> 0]
  /\ UNCHANGED <<sched, lastSeen, drainingSince, orphaned, call, todo, scur, dead, draining, raced>>

-----------------------------------------------------------------------------
(* The clock, the agents and the callers of the scheduler. *)

Older(age, bound) == IF age \in 0 .. bound - 1 THEN age + 1 ELSE age

Tick ==
  /\ spc = "idle"
  /\ lastSeen' = [h \in Host |-> Older(lastSeen[h], HeartbeatTimeout + 1)]
  /\ drainingSince' = [h \in Host |-> Older(drainingSince[h], ForceRemoveAfter)]
  /\ draining' = [h \in Host |-> Older(draining[h], ForceRemoveAfter)]
  /\ UNCHANGED <<sched, orphaned, call, sweep, dead, raced>>

Crash(h) ==
  /\ h \notin dead /\ dead' = dead \cup {h}
  /\ UNCHANGED <<sched, lastSeen, drainingSince, orphaned, call, sweep, draining, raced>>

Place(v) ==
  /\ \E h \in Host : S!Place(v, h)
  /\ UNCHANGED <<lastSeen, drainingSince, orphaned, call, sweep, dead, draining, raced>>

\* A microVM expires or is deleted; no agent is left to report it on a dead host.
Release(v) ==
  /\ assigned[v] \notin dead /\ S!Release(v)
  /\ UNCHANGED <<lastSeen, drainingSince, orphaned, call, sweep, dead, draining, raced>>

Handler(c) ==
  \/ RegisterAdds(c) \/ RegisterUndo(c) \/ RegisterReadies(c)
  \/ DeregisterNotes(c) \/ DeregisterDrains(c)

Sweeper ==
  \/ Sweep \/ SweepNotes \/ reapSnapshot \/ reapRemoves \/ reapForgets \/ SweepEnds
  \/ \E h \in Host : SweepDrains(h) \/ reapLooksAt(h)

Next ==
  \/ \E c \in Call, h \in Host : Deregister(c, h) \/ \E k \in Capacities : Register(c, h, k)
  \/ \E c \in Call : Handler(c)
  \/ Sweeper
  \/ \E h \in Host : Heartbeat(h) \/ Crash(h)
  \/ \E v \in VM : Place(v) \/ Release(v)
  \/ Tick

Spec == Init /\ [][Next]_vars

\* Handlers finish, the sweep goes on and its ticker fires, and time passes between
\* two sweeps in the end.
Fairness == (\A c \in Call : WF_vars(Handler(c))) /\ WF_vars(Sweeper) /\ SF_vars(Tick)

FairSpec == Spec /\ Fairness

-----------------------------------------------------------------------------
\* Registry and scheduler agree on a host with which nobody is busy.  Tracked, it is
\* ready: an agent whose heartbeats are accepted is given microVMs, whatever happens
\* to other hosts meanwhile and whatever calls came before.  The exceptions are hosts of
\* which two operations overlapped (registry.go:195, 139).
TrackedIsReady ==
  \A h \in Host \ raced : Tracked(h) /\ ~Busy(h) => hostState[h] = "Ready"

\* Not tracked, it drains, with a date from which its grace period counts, or is
\* unknown to the scheduler: nobody that has stopped heartbeating is given a microVM.
\* Hosts of which two operations overlapped are the exception again.
UntrackedIsDraining ==
  \A h \in Host \ raced :
    ~Tracked(h) /\ ~Busy(h) /\ hostState[h] # "Absent" =>
      hostState[h] = "Draining" /\ drainingSince[h] # None

\* A host whose agent is gone is removed in the end, and the slots its microVMs
\* held with it: nothing is left of it to leak (ForceRemoveAfter).  A host of which two
\* operations overlapped may stay, ready and not tracked, so that no sweep finds it: its
\* registration ended after it was deregistered or swept (registry.go:139).
DeadHostsAreRemoved ==
  \A h \in Host :
    h \in dead ~> \/ h \in raced
                  \/ [](hostState[h] = "Absent" /\ \A v \in VM : assigned[v] # h)

\* A host with microVMs is removed only when it has been out of service for
\* ForceRemoveAfter, so that its agent may report those that end (registry.go:223),
\* although the reaper works on a snapshot of Used while hosts join and leave.  For its
\* first drain: the date of an earlier one stays in drainingSince when the host comes
\* back and cuts the next grace short; and for hosts of which no two operations
\* overlapped, as reapForgets may take the date of a later drain (registry.go:239).
GracePeriodGiven ==
  [][\A h \in Host \ raced :
       hostState[h] # "Absent" /\ hostState'[h] = "Absent" /\ used[h] > 0 =>
         draining[h] \in {ForceRemoveAfter, Returned}]_vars

\* TrackedIsReady without its exception, between calls: a host whose heartbeats are
\* accepted is ready.
AcceptedIsReady ==
  spc = "idle" /\ (\A c \in Call : call[c] = Idle) =>
    \A h \in Host : Tracked(h) => hostState[h] = "Ready"
=============================================================================
