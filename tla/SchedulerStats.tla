--------------------------- MODULE SchedulerStats ---------------------------
(***************************************************************************)
(* Scheduler.Stats: the fleet summary that metrics, the readiness probe and *)
(* the autoscaling signal read.  It is computed under the scheduler's lock. *)
(***************************************************************************)
EXTENDS Scheduler, Functions

InState(s) == {h \in Host : hostState[h] = s}

SlotsUsed(hs) == SumFunctionOnSet(used, hs)

\* A wrong form for the mutation runs: only ready hosts' slots are summed.
StatsReadyOnly ==
  [Hosts |-> Cardinality(Known),
   InflightVMs |-> Cardinality({v \in VM : assigned[v] # NoHost}),
   Used |-> SlotsUsed(InState("Ready")),
   ReadyHosts |-> Cardinality(InState("Ready")),
   Capacity |-> SumFunctionOnSet(capacity, InState("Ready")),
   IdleHosts |-> Cardinality({h \in InState("Ready") : used[h] = 0}),
   UnderfilledHosts |-> Cardinality({h \in InState("Ready") : used[h] = 1}),
   DrainingHosts |-> Cardinality(InState("Draining"))]

Stats ==
  [Hosts |-> Cardinality(Known),
   InflightVMs |-> Cardinality({v \in VM : assigned[v] # NoHost}),
   Used |-> SlotsUsed(Known),
   ReadyHosts |-> Cardinality(InState("Ready")),
   Capacity |-> SumFunctionOnSet(capacity, InState("Ready")),
   IdleHosts |-> Cardinality({h \in InState("Ready") : used[h] = 0}),
   UnderfilledHosts |-> Cardinality({h \in InState("Ready") : used[h] = 1}),
   DrainingHosts |-> Cardinality(InState("Draining"))]

\* The two ways Stats counts occupied slots agree: the sum of the per-host used
\* counters and the number of assigned microVMs, whatever hosts were drained or
\* removed with microVMs on them.
UsedIsInflight == Stats.Used = Stats.InflightVMs
=============================================================================
