----------------------------- MODULE SlotPool -----------------------------
(***************************************************************************)
(* What the scheduler promises, without its counters and free-slot buckets: *)
(* hosts that come and go, each with a number of slots and a lifecycle      *)
(* state, and microVMs that each hold one slot of one host.  How full a     *)
(* host is is counted, not stored.  Scheduler.tla implements this.          *)
(***************************************************************************)
EXTENDS Integers, FiniteSets

CONSTANTS Host, VM, NoHost, Policy, MinSlotsPerHost

VARIABLES hostState,    \* [Host -> {"Absent", "Pending", "Ready", "Draining"}]
          capacity,     \* [Host -> Nat], 0 for an absent host
          assigned      \* [VM -> Host \cup {NoHost}]

vars == <<hostState, capacity, assigned>>

Free(h) == capacity[h] - Cardinality({v \in VM : assigned[v] = h})

\* Hosts that may take a microVM: ready, with a slot nobody holds.
Open == {h \in Host : hostState[h] = "Ready" /\ Free(h) >= 1}

\* The hosts the policy may choose: of the open ones, the fullest (BestFit)
\* or the emptiest (WorstFit), counted in free slots.
Eligible ==
  {h \in Open : \A g \in Open :
     IF Policy = "WorstFit" THEN Free(g) <= Free(h) ELSE Free(h) <= Free(g)}

Init == /\ hostState = [h \in Host |-> "Absent"]
        /\ capacity = [h \in Host |-> 0]
        /\ assigned = [v \in VM |-> NoHost]

AddHost(h) == /\ hostState[h] = "Absent"
              /\ hostState' = [hostState EXCEPT ![h] = "Pending"]
              /\ capacity'[h] \in Nat /\ capacity'[h] >= MinSlotsPerHost
              /\ capacity' = [capacity EXCEPT ![h] = capacity'[h]]
              /\ UNCHANGED assigned

SetHostState(h, s) == /\ hostState[h] # "Absent"
                      /\ hostState' = [hostState EXCEPT ![h] = s]
                      /\ UNCHANGED <<capacity, assigned>>

RemoveHost(h) ==
  /\ hostState[h] # "Absent"
  /\ hostState' = [hostState EXCEPT ![h] = "Absent"]
  /\ capacity' = [capacity EXCEPT ![h] = 0]
  /\ assigned' = [v \in VM |-> IF assigned[v] = h THEN NoHost ELSE assigned[v]]

Place(v) == /\ assigned[v] = NoHost
            /\ \E h \in Eligible : assigned' = [assigned EXCEPT ![v] = h]
            /\ UNCHANGED <<hostState, capacity>>

Release(v) == /\ assigned[v] # NoHost
              /\ assigned' = [assigned EXCEPT ![v] = NoHost]
              /\ UNCHANGED <<hostState, capacity>>

Next == \/ \E h \in Host : AddHost(h) \/ RemoveHost(h)
        \/ \E h \in Host, s \in {"Pending", "Ready", "Draining"} : SetHostState(h, s)
        \/ \E v \in VM : Place(v) \/ Release(v)

Spec == Init /\ [][Next]_vars
=============================================================================
