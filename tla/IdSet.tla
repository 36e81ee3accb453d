------------------------------- MODULE IdSet -------------------------------
(***************************************************************************)
(* What the scheduler expects of a bucket: a set of host identifiers with   *)
(* add, remove and "pick some member".  HostSet.tla is shown to implement   *)
(* it; Scheduler.tla uses this view (a bucket is a TLA+ set).               *)
(***************************************************************************)
CONSTANTS HostID,       \* the identifiers a set may hold
          NoHost        \* what a pick of the empty set returns

VARIABLES members,      \* the set
          call          \* the latest call: its argument, or the answer of a pick

Called(op, id) == call' = [op |-> op, id |-> id]

Init == members = {} /\ call = [op |-> "any", id |-> NoHost]

Add(id) == members' = members \cup {id} /\ Called("add", id)

Remove(id) == members' = members \ {id} /\ Called("remove", id)

Pick == /\ \E id \in IF members = {} THEN {NoHost} ELSE members : Called("any", id)
        /\ UNCHANGED members

Next == (\E id \in HostID : Add(id) \/ Remove(id)) \/ Pick

Spec == Init /\ [][Next]_<<members, call>>
=============================================================================
