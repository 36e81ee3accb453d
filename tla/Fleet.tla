------------------------------- MODULE Fleet -------------------------------
(***************************************************************************)
(* internal/sim/fleet.go: the simulator's stand-in for Kubernetes.  One     *)
(* goroutine reconciles the fleet with the count the autoscaler asks for;   *)
(* the start timer of each host runs in a goroutine of its own; microVMs    *)
(* come and go meanwhile.  A step is one scheduler call or one critical     *)
(* section of the fleet's lock.  Hosts are numbered as fleet.next does.     *)
(***************************************************************************)
EXTENDS Integers, FiniteSets

CONSTANTS VM, NoHost,
          slotsPerHost,
          MaxHosts,       \* bound: hosts ever started
          MaxDesired,     \* bound on what the autoscaler asks for
          MaxChanges      \* bound: how often it changes its mind

Host == 0 .. MaxHosts - 1

ASSUME FleetAssumption ==
  /\ slotsPerHost \in Nat \ {0, 1}
  /\ MaxHosts \in Nat /\ MaxDesired \in Nat /\ MaxChanges \in Nat
  /\ NoHost \notin Host

VARIABLES hostState, capacity, used, assigned, buckets, maxCap,  \* the scheduler
          next,        \* f.next
          draining,    \* f.draining
          starting,    \* where the start timer of each host is
          desired,     \* what the autoscaler asks for
          changes,     \* how often it has changed (bound)
          rpc,         \* where reconcile is
          snap,        \* the Hosts() snapshot reapDrained or reconcile works on: Used
          todo,        \* the hosts reapDrained or drainHosts has yet to look at
          toStart,     \* the hosts startHosts has yet to add
          cur          \* the host that is drained and not yet recorded

sched == <<hostState, capacity, used, assigned, buckets, maxCap>>
recon == <<rpc, snap, todo, toStart, cur>>
vars == <<sched, next, draining, starting, desired, changes, recon>>

S == INSTANCE Scheduler WITH Capacities <- {slotsPerHost}, Policy <- "BestFit"

Init ==
  /\ S!Init
  /\ next = 0 /\ draining = {} /\ starting = [h \in Host |-> "no"]
  /\ desired = 0 /\ changes = 0
  /\ rpc = "idle" /\ snap = [h \in {} |-> 0] /\ todo = {} /\ toStart = 0 /\ cur = NoHost

-----------------------------------------------------------------------------
(* reconcile, in the goroutine that samples. *)

Snapshot(hs) == snap' = [h \in hs |-> used[h]]

reconcile(d) ==
  /\ rpc = "idle" /\ rpc' = "reap"
  /\ \/ d = desired /\ UNCHANGED changes
     \/ d # desired /\ changes < MaxChanges /\ changes' = changes + 1
  /\ desired' = d
  /\ todo' = draining /\ Snapshot(S!Known)
  /\ UNCHANGED <<sched, next, draining, starting, toStart, cur>>

\* Wrong forms for the mutation runs: a host with microVMs is removed, or one without
\* is kept.
reapDrainedOccupied(h) ==
  /\ rpc \in {"reap", "reapAgain"} /\ h \in todo /\ todo' = todo \ {h}
  /\ IF h \in S!Known THEN S!RemoveHost(h) ELSE UNCHANGED sched
  /\ draining' = draining \ {h}
  /\ UNCHANGED <<next, starting, desired, changes, rpc, snap, toStart, cur>>

reapDrainedNever(h) ==
  /\ rpc \in {"reap", "reapAgain"} /\ h \in todo /\ todo' = todo \ {h}
  /\ UNCHANGED <<sched, draining, next, starting, desired, changes, rpc, snap, toStart, cur>>

\* A draining host goes once the snapshot has it without microVMs.  Its entry goes
\* with it: only markReady reads it, and does nothing for either.
reapDrained(h) ==
  /\ rpc \in {"reap", "reapAgain"} /\ h \in todo /\ todo' = todo \ {h}
  /\ IF h \in DOMAIN snap /\ snap[h] > 0 THEN UNCHANGED <<sched, draining>>
     ELSE /\ IF h \in DOMAIN snap THEN S!RemoveHost(h) ELSE UNCHANGED sched
          /\ draining' = draining \ {h}
  /\ UNCHANGED <<next, starting, desired, changes, rpc, snap, toStart, cur>>

\* The n ready hosts that drainHosts picks: emptiest first, then by identifier.
Before(h, g) == used[h] < used[g] \/ (used[h] = used[g] /\ h < g)

\* A wrong form for the mutation runs: hosts that are still starting are picked too.
ToDrainLive(live, n) ==
  {h \in live : Cardinality({g \in live : Before(g, h)}) < n}

\* Another: one host too many.
ToDrainOneMore(live, n) ==
  LET ready == {h \in live : hostState[h] = "Ready"}
  IN  {h \in ready : Cardinality({g \in ready : Before(g, h)}) <= n}

ToDrain(live, n) ==
  LET ready == {h \in live : hostState[h] = "Ready"}
  IN  {h \in ready : Cardinality({g \in ready : Before(g, h)}) < n}

\* The second snapshot: start what is missing or drain what is too much.
Compare ==
  LET live == {h \in S!Known : hostState[h] # "Draining"}
      n == Cardinality(live)
  IN  /\ rpc = "reap" /\ todo = {}
      /\ IF n < desired THEN rpc' = "start" /\ toStart' = desired - n /\ UNCHANGED todo
         ELSE IF n > desired
         THEN rpc' = "drain" /\ todo' = ToDrain(live, n - desired) /\ UNCHANGED toStart
         ELSE rpc' = "idle" /\ UNCHANGED <<todo, toStart>>
      /\ UNCHANGED <<sched, next, draining, starting, desired, changes, snap, cur>>

startHosts ==
  /\ rpc = "start"
  /\ \/ /\ toStart > 0 /\ next < MaxHosts /\ toStart' = toStart - 1 /\ next' = next + 1
        /\ S!AddHost(next, slotsPerHost)
        /\ starting' = [starting EXCEPT ![next] = "timer"] /\ UNCHANGED rpc
     \/ toStart = 0 /\ rpc' = "idle" /\ UNCHANGED <<sched, toStart, next, starting>>
  /\ UNCHANGED <<draining, desired, changes, snap, todo, cur>>

\* A host that is gone by then makes drainHosts go on with the next.
drainHosts(h) ==
  /\ rpc = "drain" /\ cur = NoHost /\ h \in todo /\ todo' = todo \ {h}
  /\ IF S!HostErr(h) = "ok" THEN S!SetHostState(h, "Draining") /\ cur' = h
                            ELSE UNCHANGED <<sched, cur>>
  /\ UNCHANGED <<next, draining, starting, desired, changes, rpc, snap, toStart>>

drainHostsRecords ==
  /\ rpc = "drain" /\ cur # NoHost /\ draining' = draining \cup {cur} /\ cur' = NoHost
  /\ UNCHANGED <<sched, next, starting, desired, changes, rpc, snap, todo, toStart>>

\* drainHosts ends with a reapDrained of its own.
drainHostsReaps ==
  /\ rpc = "drain" /\ cur = NoHost /\ todo = {}
  /\ rpc' = "reapAgain" /\ todo' = draining /\ Snapshot(S!Known)
  /\ UNCHANGED <<sched, next, draining, starting, desired, changes, toStart, cur>>

reconcileEnds ==
  /\ rpc = "reapAgain" /\ todo = {} /\ rpc' = "idle"
  /\ UNCHANGED <<sched, next, draining, starting, desired, changes, snap, todo, toStart, cur>>

-----------------------------------------------------------------------------
(* markReady, in the goroutine of the start timer, and the microVMs. *)

markReadyChecks(h) ==
  /\ starting[h] = "timer"
  /\ starting' = [starting EXCEPT ![h] = IF h \in draining THEN "done" ELSE "set"]
  /\ UNCHANGED <<sched, next, draining, desired, changes, recon>>

\* SetHostState on a host that is gone fails, and is ignored.
markReadySets(h) ==
  /\ starting[h] = "set" /\ starting' = [starting EXCEPT ![h] = "done"]
  /\ IF S!HostErr(h) = "ok" THEN S!SetHostState(h, "Ready") ELSE UNCHANGED sched
  /\ UNCHANGED <<next, draining, desired, changes, recon>>

\* runner.issue: a microVM is admitted and, when its TTL is over, released.
Place(v) ==
  /\ \E h \in Host : S!Place(v, h)
  /\ UNCHANGED <<next, draining, starting, desired, changes, recon>>

Release(v) ==
  /\ S!Release(v)
  /\ UNCHANGED <<next, draining, starting, desired, changes, recon>>

\* runner.step: a sample, and whatever the autoscaler answers to it.
step == \E d \in 0 .. MaxDesired : reconcile(d)

Reconciler ==
  \/ step
  \/ \E h \in Host : reapDrained(h) \/ drainHosts(h)
  \/ Compare \/ startHosts \/ drainHostsRecords \/ drainHostsReaps \/ reconcileEnds

Next ==
  \/ Reconciler
  \/ \E h \in Host : markReadyChecks(h) \/ markReadySets(h)
  \/ \E v \in VM : Place(v) \/ Release(v)

Spec == Init /\ [][Next]_vars

\* The sampler keeps reconciling, timers fire, and every microVM expires.
Fairness == /\ WF_vars(Reconciler)
            /\ \A h \in Host : WF_vars(markReadyChecks(h) \/ markReadySets(h))
            /\ \A v \in VM : WF_vars(Release(v))

FairSpec == Spec /\ Fairness

-----------------------------------------------------------------------------
InState(s) == {h \in Host : hostState[h] = s}

\* scheduler.go:33: a draining host "keeps serving the ones it has so scale-down
\* never orphans a guest": a host the fleet removes has no microVM left, although
\* Used was read before and microVMs are placed and released all the time.
ScaleDownOrphansNothing ==
  [][\A h \in Host : h \in S!Known /\ hostState'[h] = "Absent" => used[h] = 0]_vars

\* A host that is on its way out never serves again: markReady, which looks at the
\* draining set and then sets the state, cannot undo a drain that comes between.
DrainIsFinal ==
  [][\A h \in Host : hostState[h] = "Draining" => hostState'[h] # "Ready"]_vars

\* Once the autoscaler has made up its mind, the fleet comes to consist of as many
\* ready hosts as it asks for, and stays so.
FleetConverges ==
  <>[](changes = MaxChanges) =>
    <>[](Cardinality(InState("Ready")) = desired /\ S!Known = InState("Ready"))

\* Draining hosts never takes the fleet below the desired count (fleet.go:29), as
\* long as the hosts that are still starting count as part of it: reconcile counts
\* them, but drains ready ones in their place.
DrainsTowardsDesired ==
  [][Cardinality(InState("Ready")') < Cardinality(InState("Ready")) =>
       Cardinality((InState("Ready") \cup InState("Pending"))') >= desired]_vars
=============================================================================
