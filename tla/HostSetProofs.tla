--------------------------- MODULE HostSetProofs ---------------------------
(* Proofs about HostSet, for any set of identifiers. *)
EXTENDS HostSet, TLAPS

Inv == TypeOK /\ IndexMatchesIds

\* An empty set has an empty slice and an empty index.
LEMMA HostSetInit == Init => Inv
BY NoHostAssumption DEF Init, newHostSet, Inv, TypeOK, IndexMatchesIds, last

\* add appends, so that only the new member's index is new.
LEMMA InsertPreserves ==
  ASSUME Inv, NEW id \in HostID, insert(id), Called("add", id)
  PROVE  Inv'
<1>1. ids' \in Seq(HostID) /\ Len(ids') = Len(ids) + 1
  BY DEF Inv, TypeOK, insert
<1>2. \A i \in 1 .. Len(ids) + 1 : ids'[i] = IF i <= Len(ids) THEN ids[i] ELSE id
  BY DEF Inv, TypeOK, insert
<1>3. TypeOK'
  BY <1>1 DEF Inv, TypeOK, insert, Called
<1>4. \A x \in DOMAIN index' : index'[x] \in 0 .. last' /\ ids'[index'[x] + 1] = x
  <2> SUFFICES ASSUME NEW x \in DOMAIN index'
               PROVE  index'[x] \in 0 .. last' /\ ids'[index'[x] + 1] = x
    OBVIOUS
  <2>1. CASE x = id
    BY <2>1, <1>1, <1>2 DEF Inv, TypeOK, insert, last
  <2>2. CASE x # id
    BY <2>2, <1>1, <1>2 DEF Inv, TypeOK, IndexMatchesIds, insert, last
  <2> QED BY <2>1, <2>2
<1>5. \A i \in 0 .. last' : ids'[i + 1] \in DOMAIN index' /\ index'[ids'[i + 1]] = i
  <2> SUFFICES ASSUME NEW i \in 0 .. last'
               PROVE  ids'[i + 1] \in DOMAIN index' /\ index'[ids'[i + 1]] = i
    OBVIOUS
  <2>1. CASE i = Len(ids)
    BY <2>1, <1>1, <1>2 DEF Inv, TypeOK, insert, last
  <2>2. CASE i # Len(ids)
    BY <2>2, <1>1, <1>2 DEF Inv, TypeOK, IndexMatchesIds, insert, last
  <2> QED BY <2>1, <2>2
<1> QED BY <1>3, <1>4, <1>5 DEF Inv, IndexMatchesIds

\* The slice after a remove: one shorter, with the last element in id's place.
LEMMA RemoveSlice ==
  ASSUME Inv, NEW id \in HostID, swapRemove(id)
  PROVE  /\ index[id] \in 0 .. last
         /\ ids' \in Seq(HostID)
         /\ Len(ids') = last
         /\ \A i \in 1 .. last :
              ids'[i] = IF i = index[id] + 1 THEN ids[last + 1] ELSE ids[i]
<1>1. index[id] \in 0 .. last
  BY DEF Inv, IndexMatchesIds, swapRemove
<1> DEFINE s == [ids EXCEPT ![index[id] + 1] = ids[last + 1]]
<1>2. s \in Seq(HostID) /\ Len(s) = Len(ids)
  BY <1>1 DEF Inv, TypeOK, last
<1>3. \A i \in 1 .. Len(ids) : s[i] = IF i = index[id] + 1 THEN ids[last + 1] ELSE ids[i]
  BY <1>1 DEF Inv, TypeOK, last
<1>4. last \in Nat /\ last <= Len(ids)
  BY <1>1 DEF Inv, TypeOK, last
<1>5. ids' = SubSeq(s, 1, last)
  BY DEF swapRemove
<1> HIDE DEF s
<1>6. ids' \in Seq(HostID) /\ Len(ids') = last /\ \A i \in 1 .. last : ids'[i] = s[i]
  BY <1>2, <1>4, <1>5 DEF last
<1> QED BY <1>1, <1>3, <1>4, <1>6

\* remove moves one member, and corrects the index of that one.
LEMMA SwapRemovePreserves ==
  ASSUME Inv, NEW id \in HostID, swapRemove(id), Called("remove", id)
  PROVE  Inv'
<1>1. /\ index[id] \in 0 .. last
      /\ ids' \in Seq(HostID)
      /\ Len(ids') = last
      /\ \A i \in 1 .. last :
           ids'[i] = IF i = index[id] + 1 THEN ids[last + 1] ELSE ids[i]
  BY RemoveSlice
<1>2. /\ DOMAIN index' = DOMAIN index \ {id}
      /\ \A x \in DOMAIN index' : index'[x] = IF x = ids[last + 1] THEN index[id] ELSE index[x]
  BY DEF swapRemove
<1>3. /\ \A x \in DOMAIN index : index[x] \in 0 .. last /\ ids[index[x] + 1] = x
      /\ \A i \in 0 .. last : ids[i + 1] \in DOMAIN index /\ index[ids[i + 1]] = i
      /\ last \in Nat
      /\ id \in DOMAIN index
  BY <1>1 DEF Inv, TypeOK, IndexMatchesIds, swapRemove, last
<1>4. TypeOK'
  BY <1>1, <1>2 DEF Inv, TypeOK, swapRemove, Called
<1> DEFINE n == last
           j == index[id]
           moved == ids[last + 1]
<1>5. 0 .. last' = 0 .. n - 1 /\ n \in Nat /\ j \in 0 .. n
  BY <1>1, <1>3 DEF last
<1>6. \A x \in DOMAIN index' : index'[x] \in 0 .. n - 1 /\ ids'[index'[x] + 1] = x
  <2> SUFFICES ASSUME NEW x \in DOMAIN index'
               PROVE  index'[x] \in 0 .. n - 1 /\ ids'[index'[x] + 1] = x
    OBVIOUS
  <2>1. x \in DOMAIN index /\ x # id
    BY <1>2
  <2>2. index[x] \in 0 .. n /\ index[x] # j /\ ids[index[x] + 1] = x
    BY <2>1, <1>3
  <2>3. CASE x = moved
    <3>1. index'[x] = j /\ index[x] = n
      BY <2>3, <1>2, <1>3
    <3>2. j \in 0 .. n - 1 /\ j + 1 \in 1 .. n
      BY <3>1, <2>2, <1>5
    <3> QED BY <3>1, <3>2, <2>3, <1>1
  <2>4. CASE x # moved
    <3>1. index'[x] = index[x] /\ index[x] # n
      BY <2>2, <2>4, <1>2
    <3>2. index[x] \in 0 .. n - 1 /\ index[x] + 1 \in 1 .. n /\ index[x] + 1 # j + 1
      BY <3>1, <2>2, <1>5
    <3> QED BY <3>1, <3>2, <2>2, <1>1
  <2> QED BY <2>3, <2>4
<1>7. \A i \in 0 .. n - 1 : ids'[i + 1] \in DOMAIN index' /\ index'[ids'[i + 1]] = i
  <2> SUFFICES ASSUME NEW i \in 0 .. n - 1
               PROVE  ids'[i + 1] \in DOMAIN index' /\ index'[ids'[i + 1]] = i
    OBVIOUS
  <2>1. i \in 0 .. n /\ i + 1 \in 1 .. n /\ i # n /\ n \in 0 .. n
    BY <1>5
  <2>2. moved \in DOMAIN index /\ index[moved] = n
    BY <2>1, <1>3
  <2>3. CASE i = j
    <3>1. ids'[i + 1] = moved
      BY <2>1, <2>3, <1>1
    <3>2. moved # id
      BY <2>1, <2>2, <2>3
    <3> QED BY <3>1, <3>2, <2>2, <2>3, <1>2
  <2>4. CASE i # j
    <3>1. ids'[i + 1] = ids[i + 1]
      BY <2>1, <2>4, <1>1, <1>5
    <3>2. ids[i + 1] \in DOMAIN index /\ index[ids[i + 1]] = i
      BY <2>1, <1>3
    <3> QED BY <3>1, <3>2, <2>1, <2>2, <2>4, <1>2
  <2> QED BY <2>3, <2>4
<1> QED BY <1>4, <1>5, <1>6, <1>7 DEF Inv, IndexMatchesIds

\* A call that finds nothing to do: any(), add of a member, remove of a stranger.
LEMMA ReadPreserves ==
  ASSUME Inv, UNCHANGED <<ids, index>>,
         NEW op \in {"add", "remove", "any"}, NEW id \in HostID \cup {NoHost}, Called(op, id)
  PROVE  Inv'
BY DEF Inv, TypeOK, IndexMatchesIds, Called, last

\* any reads the last element, and changes nothing.
LEMMA AnyPreserves ==
  ASSUME Inv, any
  PROVE  Inv'
<1>1. CASE Len(ids) = 0
  BY <1>1, ReadPreserves DEF any
<1>2. CASE Len(ids) # 0
  <2>1. ids[last + 1] \in HostID
    BY <1>2 DEF Inv, TypeOK, last
  <2> QED BY <2>1, <1>2, ReadPreserves DEF any
<1> QED BY <1>1, <1>2

\* The inductive invariant: in every reachable state of the bucket, slice and map
\* are inverse to each other (hostset.go add, remove and any).
THEOREM IndexCorrect == Spec => [](TypeOK /\ IndexMatchesIds)
<1>1. Inv /\ [Next]_vars => Inv'
  <2> SUFFICES ASSUME Inv, [Next]_vars
               PROVE  Inv'
    OBVIOUS
  <2>1. CASE \E id \in HostID : add(id)
    BY <2>1, InsertPreserves, ReadPreserves DEF add
  <2>2. CASE \E id \in HostID : remove(id)
    BY <2>2, SwapRemovePreserves, ReadPreserves DEF remove
  <2>3. CASE any
    BY <2>3, AnyPreserves
  <2>4. CASE UNCHANGED vars
    BY <2>4 DEF Inv, TypeOK, IndexMatchesIds, vars, last
  <2> QED BY <2>1, <2>2, <2>3, <2>4 DEF Next
<1>2. Inv <=> TypeOK /\ IndexMatchesIds
  BY DEF Inv
<1> QED BY <1>1, <1>2, HostSetInit, PTL DEF Spec

-----------------------------------------------------------------------------
Members == {ids[i] : i \in 1 .. Len(ids)}

\* The members of the slice are the keys of the map.
LEMMA MembersAreKeys == Inv => Members = DOMAIN index
<1> SUFFICES ASSUME Inv
             PROVE  Members = DOMAIN index
  OBVIOUS
<1>1. Len(ids) \in Nat /\ last = Len(ids) - 1
  BY DEF Inv, TypeOK, last
<1>2. ASSUME NEW i \in 1 .. Len(ids)
      PROVE  ids[i] \in DOMAIN index
  <2>1. i - 1 \in 0 .. last /\ (i - 1) + 1 = i
    BY <1>1
  <2> QED BY <2>1 DEF Inv, IndexMatchesIds
<1>3. ASSUME NEW x \in DOMAIN index
      PROVE  x \in Members
  <2>1. index[x] \in 0 .. last /\ ids[index[x] + 1] = x
    BY DEF Inv, IndexMatchesIds
  <2>2. index[x] + 1 \in 1 .. Len(ids)
    BY <2>1, <1>1
  <2> QED BY <2>1, <2>2 DEF Members
<1> QED BY <1>2, <1>3 DEF Members

\* Each call changes the members as the abstract set's call does.
LEMMA StepRefines ==
  ASSUME Inv, Members = DOMAIN index, (Members = DOMAIN index)', [Next]_vars
  PROVE  [Abstract!Next]_<<Members, call>>
<1>1. Members = DOMAIN index
  OBVIOUS
<1>2. Members' = DOMAIN index'
  OBVIOUS
<1>3. ASSUME NEW id \in HostID, add(id) PROVE Abstract!Add(id)
  BY <1>1, <1>2, <1>3 DEF add, insert, Called, Abstract!Add, Abstract!Called, Members
<1>4. ASSUME NEW id \in HostID, remove(id) PROVE Abstract!Remove(id)
  BY <1>1, <1>2, <1>4 DEF remove, swapRemove, Called, Abstract!Remove, Abstract!Called, Members
<1>5. ASSUME any PROVE Abstract!Pick
  <2>1. Members' = Members
    BY <1>5 DEF any, Members
  <2>2. CASE Len(ids) = 0
    BY <2>1, <2>2, <1>5 DEF any, Called, Abstract!Pick, Abstract!Called, Members
  <2>3. CASE Len(ids) # 0
    <3>1. last + 1 \in 1 .. Len(ids)
      BY <2>3 DEF Inv, TypeOK, last
    <3> QED BY <3>1, <2>1, <2>3, <1>5 DEF any, Called, Abstract!Pick, Abstract!Called, Members
  <2> QED BY <2>2, <2>3
<1>6. ASSUME UNCHANGED vars PROVE UNCHANGED <<Members, call>>
  BY <1>6 DEF vars, Members
<1> QED BY <1>3, <1>4, <1>5, <1>6 DEF Next, Abstract!Next

\* The slice-and-map bucket implements a set of identifiers for any identifiers:
\* what Scheduler.tla assumes of a bucket is what hostset.go provides.
THEOREM HostSetImplementsIdSet == Spec => ImplementsIdSet
<1>1. Init => Abstract!Init
  BY DEF Init, newHostSet, Abstract!Init
<1>2. /\ Inv
      /\ Members = DOMAIN index
      /\ (Members = DOMAIN index)'
      /\ [Next]_vars
      => [Abstract!Next]_<<Members, call>>
  BY StepRefines
<1>3. Inv <=> TypeOK /\ IndexMatchesIds
  BY DEF Inv
<1> QED BY <1>1, <1>2, <1>3, IndexCorrect, MembersAreKeys, PTL
   DEF Spec, ImplementsIdSet, Abstract!Spec, Members
=============================================================================
