----------------------------- MODULE Scheduler -----------------------------
(***************************************************************************)
(* internal/scheduler/scheduler.go: which vmhost a microVM is placed on.    *)
(*                                                                          *)
(* Every exported method holds Scheduler.mu from its first read to its      *)
(* return, so each is one action.  A method that returns an error leaves    *)
(* the state alone; what it returns is an operator (PlaceErr, ...), which   *)
(* the modules that call it use.  A bucket is a set of hosts: HostSet.tla   *)
(* implements it, and hostSet.any() may answer with any member.             *)
(***************************************************************************)
EXTENDS Integers, FiniteSets

CONSTANTS Host,            \* host identifiers
          VM,              \* microVM identifiers
          NoHost,          \* "not assigned"
          Capacities,      \* the slot counts hosts declare, invalid ones included
          Policy           \* "BestFit" or "WorstFit"

MinSlotsPerHost == 2

ASSUME SchedulerAssumption ==
  /\ NoHost \notin Host
  /\ Capacities \subseteq Int
  /\ Policy \in {"BestFit", "WorstFit"}

VARIABLES hostState,       \* host.state; "Absent" when s.hosts has no entry
          capacity,        \* host.capacity, 0 when absent
          used,            \* host.used, 0 when absent
          assigned,        \* s.assigned; NoHost when it has no entry
          buckets,         \* s.buckets: free-slot count -> the ready hosts with it
          maxCap           \* s.maxCap

vars == <<hostState, capacity, used, assigned, buckets, maxCap>>

States == {"Pending", "Ready", "Draining"}

free(h) == capacity[h] - used[h]

Known == {h \in Host : hostState[h] # "Absent"}

\* New
Init ==
  /\ hostState = [h \in Host |-> "Absent"]
  /\ capacity = [h \in Host |-> 0]
  /\ used = [h \in Host |-> 0]
  /\ assigned = [v \in VM |-> NoHost]
  /\ buckets = [k \in {} |-> {}]
  /\ maxCap = 0

-----------------------------------------------------------------------------
(* What the methods return. *)

AddHostErr(h, c) ==
  IF c < MinSlotsPerHost THEN "ErrInvalidCapacity"
  ELSE IF hostState[h] # "Absent" THEN "ErrDuplicateHost" ELSE "ok"

HostErr(h) == IF hostState[h] = "Absent" THEN "ErrUnknownHost" ELSE "ok"

\* A wrong form for the mutation runs: the search stops one bucket short.
selectHostShort ==
  LET nonEmpty == {k \in 1 .. maxCap - 1 : buckets[k] # {}} IN
  UNION {buckets[k] : k \in {i \in nonEmpty : \A j \in nonEmpty :
           IF Policy = "WorstFit" THEN j <= i ELSE i <= j}}

\* Another: the policies are swapped.
selectHostSwapped ==
  LET nonEmpty == {k \in 1 .. maxCap : buckets[k] # {}} IN
  UNION {buckets[k] : k \in {i \in nonEmpty : \A j \in nonEmpty :
           IF Policy = "WorstFit" THEN i <= j ELSE j <= i}}

\* The hosts the policy's loop over the buckets may answer with: the members of
\* the first non-empty bucket, counting up from 1 (BestFit) or down from maxCap.
selectHost ==
  LET nonEmpty == {k \in 1 .. maxCap : buckets[k] # {}} IN
  UNION {buckets[k] : k \in {i \in nonEmpty : \A j \in nonEmpty :
           IF Policy = "WorstFit" THEN j <= i ELSE i <= j}}

\* A wrong form for the mutation runs: an identifier may be placed twice.
PlaceErrUnchecked(v) == IF selectHost = {} THEN "ErrNoCapacity" ELSE "ok"

PlaceErr(v) ==
  IF assigned[v] # NoHost THEN "ErrDuplicateVM"
  ELSE IF selectHost = {} THEN "ErrNoCapacity" ELSE "ok"

ReleaseErr(v) == IF assigned[v] = NoHost THEN "ErrUnknownVM" ELSE "ok"

-----------------------------------------------------------------------------
(* The methods. *)

growBuckets(c) ==
  /\ buckets' = [k \in DOMAIN buckets \cup 0 .. c |->
                   IF k \in DOMAIN buckets THEN buckets[k] ELSE {}]
  /\ maxCap' = IF c > maxCap THEN c ELSE maxCap

AddHost(h, c) ==
  /\ AddHostErr(h, c) = "ok"
  /\ growBuckets(c)
  /\ hostState' = [hostState EXCEPT ![h] = "Pending"]
  /\ capacity' = [capacity EXCEPT ![h] = c]
  /\ used' = [used EXCEPT ![h] = 0]
  /\ UNCHANGED assigned

\* Wrong forms of the methods, for the mutation runs: a host that leaves "Ready" stays in
\* its bucket, a removed host keeps its microVMs.
SetHostStateKeepsBucket(h, s) ==
  /\ HostErr(h) = "ok"
  /\ hostState[h] # s
  /\ hostState' = [hostState EXCEPT ![h] = s]
  /\ buckets' = IF s = "Ready" THEN [buckets EXCEPT ![free(h)] = @ \cup {h}] ELSE buckets
  /\ UNCHANGED <<capacity, used, assigned, maxCap>>

SetHostState(h, s) ==
  /\ HostErr(h) = "ok"
  /\ hostState[h] # s
  /\ hostState' = [hostState EXCEPT ![h] = s]
  /\ buckets' = IF hostState[h] = "Ready" THEN [buckets EXCEPT ![free(h)] = @ \ {h}]
                ELSE IF s = "Ready" THEN [buckets EXCEPT ![free(h)] = @ \cup {h}]
                ELSE buckets
  /\ UNCHANGED <<capacity, used, assigned, maxCap>>

RemoveHostKeepsVMs(h) ==
  /\ HostErr(h) = "ok"
  /\ buckets' = IF hostState[h] = "Ready" THEN [buckets EXCEPT ![free(h)] = @ \ {h}]
                ELSE buckets
  /\ hostState' = [hostState EXCEPT ![h] = "Absent"]
  /\ capacity' = [capacity EXCEPT ![h] = 0]
  /\ used' = [used EXCEPT ![h] = 0]
  /\ UNCHANGED <<assigned, maxCap>>

RemoveHost(h) ==
  /\ HostErr(h) = "ok"
  /\ buckets' = IF hostState[h] = "Ready" THEN [buckets EXCEPT ![free(h)] = @ \ {h}]
                ELSE buckets
  /\ hostState' = [hostState EXCEPT ![h] = "Absent"]
  /\ capacity' = [capacity EXCEPT ![h] = 0]
  /\ used' = [used EXCEPT ![h] = 0]
  /\ assigned' = [v \in VM |-> IF assigned[v] = h THEN NoHost ELSE assigned[v]]
  /\ UNCHANGED maxCap

\* The microVMs RemoveHost(h) returns.
Orphans(h) == {v \in VM : assigned[v] = h}

Place(v, h) ==
  /\ PlaceErr(v) = "ok"
  /\ h \in selectHost
  /\ buckets' = [buckets EXCEPT ![free(h)] = @ \ {h}, ![free(h) - 1] = @ \cup {h}]
  /\ used' = [used EXCEPT ![h] = @ + 1]
  /\ assigned' = [assigned EXCEPT ![v] = h]
  /\ UNCHANGED <<hostState, capacity, maxCap>>

\* Release on a host the scheduler no longer knows only forgets the microVM.
Release(v) ==
  LET h == assigned[v] IN
  /\ ReleaseErr(v) = "ok"
  /\ assigned' = [assigned EXCEPT ![v] = NoHost]
  /\ IF hostState[h] = "Absent"
     THEN UNCHANGED <<used, buckets>>
     ELSE /\ used' = [used EXCEPT ![h] = @ - 1]
          /\ buckets' = IF hostState[h] = "Ready"
                        THEN [buckets EXCEPT ![free(h)] = @ \ {h},
                                             ![free(h) + 1] = @ \cup {h}]
                        ELSE buckets
  /\ UNCHANGED <<hostState, capacity, maxCap>>

Next ==
  \/ \E h \in Host, c \in Capacities : AddHost(h, c)
  \/ \E h \in Host, s \in States : SetHostState(h, s)
  \/ \E h \in Host : RemoveHost(h)
  \/ \E v \in VM, h \in Host : Place(v, h)
  \/ \E v \in VM : Release(v)

Spec == Init /\ [][Next]_vars

-----------------------------------------------------------------------------
TypeOK ==
  /\ hostState \in [Host -> States \cup {"Absent"}]
  /\ capacity \in [Host -> Nat]
  /\ used \in [Host -> Nat]
  /\ assigned \in [VM -> Host \cup {NoHost}]
  /\ maxCap \in Nat
  /\ DOMAIN buckets = IF maxCap = 0 THEN {} ELSE 0 .. maxCap
  /\ buckets \in [DOMAIN buckets -> SUBSET Host]

\* The microVMs that hold a slot of h.
VMsOn(h) == {v \in VM : assigned[v] = h}

\* Slot accounting: no microVM is assigned to a host the scheduler forgot, every
\* host's used counter (scheduler.go h.used++ and h.used--) is the number of
\* microVMs assigned to it, and never exceeds the slots the host declared.
\* checkInvariants of scheduler_test.go asks the same after single calls.
SlotAccounting ==
  /\ \A v \in VM : assigned[v] # NoHost => assigned[v] \in Known
  /\ \A h \in Host : /\ IsFiniteSet(VMsOn(h))
                     /\ used[h] = Cardinality(VMsOn(h))
                     /\ used[h] <= capacity[h]

\* The free-slot buckets are exact: a host is in the bucket of its free-slot
\* count if it is known and ready, and in no other.  A stale entry would send a
\* microVM to a full, draining or forgotten host (a nil dereference in Place);
\* a missing one hides capacity for ever.  And no bucket a method indexes is
\* beyond the slice: every known capacity is at most maxCap.
BucketsExact ==
  /\ \A k \in DOMAIN buckets : \A h \in Host :
       h \in buckets[k] <=> hostState[h] = "Ready" /\ free(h) = k
  /\ \A h \in Known : capacity[h] >= MinSlotsPerHost /\ capacity[h] <= maxCap

\* Place answers ErrNoCapacity exactly when no ready host has a free slot: the
\* bucket search neither misses a slot nor invents one.
NoCapacityIsTrue ==
  selectHost = {} <=> ~ \E h \in Host : hostState[h] = "Ready" /\ free(h) > 0

\* A step that assigns a microVM takes a slot of a host that was ready and had
\* one left, and best fit packs: no open host was strictly fuller (worst fit:
\* strictly emptier).  Only Place assigns; no step moves a microVM to another host.
PlacementsFollowPolicy ==
  [][\A v \in VM :
       assigned'[v] # assigned[v] /\ assigned'[v] # NoHost =>
         LET h == assigned'[v] IN
         /\ assigned[v] = NoHost
         /\ hostState[h] = "Ready" /\ free(h) > 0
         /\ \A g \in Host : hostState[g] = "Ready" /\ free(g) > 0 =>
              IF Policy = "WorstFit" THEN free(g) <= free(h) ELSE free(h) <= free(g)]_vars

\* The scheduler's counters and buckets implement the slot pool that counts.
Pool == INSTANCE SlotPool
ImplementsSlotPool == Pool!Spec
=============================================================================
