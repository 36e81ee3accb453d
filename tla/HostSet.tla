------------------------------ MODULE HostSet ------------------------------
(***************************************************************************)
(* internal/scheduler/hostset.go: an unordered set of host identifiers with *)
(* O(1) add, remove and pick, kept as a slice (ids) and a map from each     *)
(* identifier to its position in the slice (index).  Positions are Go's,    *)
(* counted from 0: the element at position i is ids[i + 1].                 *)
(***************************************************************************)
EXTENDS Integers, Sequences

CONSTANTS HostID, NoHost

ASSUME NoHostAssumption == NoHost \notin HostID

VARIABLES ids,          \* the slice
          index,        \* the map, its keys are DOMAIN index
          call          \* the latest call: its argument, or what any() answered

vars == <<ids, index, call>>

last == Len(ids) - 1

newHostSet == ids = <<>> /\ index = [x \in {} |-> 0]

Called(op, id) == call' = [op |-> op, id |-> id]

Init == newHostSet /\ call = [op |-> "any", id |-> NoHost]

insert(id) ==
  /\ id \notin DOMAIN index
  /\ index' = [x \in DOMAIN index \cup {id} |-> IF x = id THEN Len(ids) ELSE index[x]]
  /\ ids' = Append(ids, id)

\* An identifier that is there already is left where it is.
add(id) ==
  /\ Called("add", id)
  /\ insert(id) \/ (id \in DOMAIN index /\ UNCHANGED <<ids, index>>)

\* Wrong forms of swapRemove, for the mutation runs: the moved element's position
\* is left stale, or the last element is cut off instead of moved.
swapRemoveUnindexed(id) ==
  /\ id \in DOMAIN index
  /\ ids' = SubSeq([ids EXCEPT ![index[id] + 1] = ids[last + 1]], 1, last)
  /\ index' = [x \in DOMAIN index \ {id} |-> index[x]]

swapRemoveUnmoved(id) ==
  /\ id \in DOMAIN index
  /\ ids' = SubSeq(ids, 1, last)
  /\ index' = [x \in DOMAIN index \ {id} |->
                 IF x = ids[last + 1] THEN index[id] ELSE index[x]]

\* The last element overwrites id's position, then the slice is cut.
swapRemove(id) ==
  /\ id \in DOMAIN index
  /\ ids' = SubSeq([ids EXCEPT ![index[id] + 1] = ids[last + 1]], 1, last)
  /\ index' = [x \in DOMAIN index \ {id} |->
                 IF x = ids[last + 1] THEN index[id] ELSE index[x]]

remove(id) ==
  /\ Called("remove", id)
  /\ swapRemove(id) \/ (id \notin DOMAIN index /\ UNCHANGED <<ids, index>>)

any ==
  /\ Called("any", IF Len(ids) = 0 THEN NoHost ELSE ids[last + 1])
  /\ UNCHANGED <<ids, index>>

Next == (\E id \in HostID : add(id) \/ remove(id)) \/ any

Spec == Init /\ [][Next]_vars

-----------------------------------------------------------------------------
TypeOK ==
  /\ ids \in Seq(HostID)
  /\ index \in [DOMAIN index -> Nat]
  /\ DOMAIN index \subseteq HostID
  /\ call \in [op : {"add", "remove", "any"}, id : HostID \cup {NoHost}]

\* The slice and the map describe the same set: the map sends every identifier
\* to the position where the slice holds it, and every position of the slice
\* holds an identifier the map sends back there.  The swap in remove is where
\* it can go wrong: a position the map forgot makes a later remove overwrite
\* another host's entry.
IndexMatchesIds ==
  /\ \A x \in DOMAIN index : index[x] \in 0 .. last /\ ids[index[x] + 1] = x
  /\ \A i \in 0 .. last : ids[i + 1] \in DOMAIN index /\ index[ids[i + 1]] = i

\* A hostSet behaves as a set of identifiers: add and remove change the members
\* by exactly the identifier of the call, and any() answers with a member, or
\* with nothing exactly when the set is empty.
Abstract == INSTANCE IdSet WITH members <- {ids[i] : i \in 1 .. Len(ids)}
ImplementsIdSet == Abstract!Spec
=============================================================================
