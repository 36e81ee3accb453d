---------------------------- MODULE SystemProofs ----------------------------
(***************************************************************************)
(* Proofs about System, for any sets of hosts, microVMs and requests, any   *)
(* number of slots, attempts and faults, and any clock: guests and slots    *)
(* belong together, and registry, scheduler and agents agree on the hosts.  *)
(***************************************************************************)
EXTENDS System, FiniteSetTheorems, TLAPS

\* Host h has at most one notice of v.
Once(h, v) == \A i, j \in 1 .. Len(notices[h]) : notices[h][i] = v /\ notices[h][j] = v => i = j

\* What gets as far as an agent has been validated.
Validated(v) ==
  \/ pc[v] \in {"call", "boot", "release", "retry"}
  \/ \E c \in calls : c.vm = v
  \/ \E h \in Host : v \in guests[h]
  => Valid(ask[v])

\* The calls of an identifier have the numbers of its requests and of their attempts,
\* one call each; the call the handler waits for is the last one, and only that one is
\* answered.
CallsInOrder(v) ==
  /\ \A c \in calls : c.vm = v =>
       /\ c.req <= reqs[v]
       /\ c.req = reqs[v] => /\ pc[v] # "idle"
                             /\ pc[v] = "call" => c.try < tries[v]
                             /\ pc[v] \in {"boot", "release", "retry"} => c.try <= tries[v]
       /\ pc[v] = "boot" /\ Own(v, c) => c.host = at[v]
       /\ c.answer # "none" => pc[v] = "boot" /\ Own(v, c)
  /\ \A c, d \in calls : c.vm = v /\ d.vm = v /\ c.req = d.req /\ c.try = d.try => c = d

\* Between attempts a handler has no slot, during one it has the slot of the host
\* it calls unless that was taken; once the agent has answered, the guest is there
\* or its end can be accounted for, until the next request is placed.
SlotAccounted(v) ==
  /\ pc[v] = "retry" => assigned[v] = NoHost
  /\ pc[v] \in {"call", "boot"} => assigned[v] \in {at[v], NoHost}
  /\ pc[v] \in {"idle", "done"} \/ (\E c \in calls : c.vm = v /\ c.answer = "created") =>
       assigned[v] = NoHost \/ Trace(assigned[v], v) \/ v \in leaked

\* Of a microVM outside cut and disowned no call is left behind; only the host whose slot
\* it has knows of it, and only once the boot is answered; until then its slot is the one
\* the call is for; and it leaves one trace at a time, so that the report of its end is
\* the last of it.
GuestOwned(v) ==
  v \notin cut /\ v \notin disowned =>
    /\ \A c \in calls : c.vm = v => pc[v] = "boot" /\ Own(v, c)
    /\ \A h \in Host : Trace(h, v) =>
         /\ assigned[v] = h
         /\ pc[v] \in {"idle", "done"} \/ \E c \in calls : c.vm = v /\ c.answer = "created"
    /\ pc[v] = "call" \/ (\E c \in calls : c.vm = v /\ c.answer = "none") =>
         assigned[v] = at[v]
    /\ \A h \in Host : /\ v \in guests[h] => <<h, v>> \notin reports /\ ~Noticed(h, v)
                       /\ <<h, v>> \in reports => ~Noticed(h, v)
                       /\ Once(h, v)

\* The two invariants of slots and guests are about what is left when several calls,
\* notices and reports have met; the rest is what each of these may be.
VMInv(v) == Validated(v) /\ CallsInOrder(v) /\ SlotAccounted(v) /\ GuestOwned(v)

IInv == TypeOK /\ \A v \in VM : VMInv(v)

\* A step that does not concern v.
Untouched(v) ==
  /\ pc'[v] = pc[v] /\ at'[v] = at[v] /\ tries'[v] = tries[v] /\ reqs'[v] = reqs[v]
  /\ assigned'[v] = assigned[v]
  /\ {c \in calls' : c.vm = v} = {c \in calls : c.vm = v}
  /\ \A h \in Host : /\ v \in guests'[h] <=> v \in guests[h]
                     /\ <<h, v>> \in reports' <=> <<h, v>> \in reports
                     /\ Noticed(h, v)' <=> Noticed(h, v)
                     /\ Once(h, v) => Once(h, v)'
  /\ (v \in cut' <=> v \in cut) /\ (v \in disowned' <=> v \in disowned)
  /\ (v \in leaked' <=> v \in leaked) /\ ask' = ask
-----------------------------------------------------------------------------
(* The TTL on its way. *)

\* Division by a positive number, as Duration.Milliseconds does it.
LEMMA DivisionFacts ==
  ASSUME NEW d \in Nat, NEW m \in Nat \ {0}
  PROVE  /\ d \div m \in Nat /\ (d \div m) * m <= d
         /\ m <= d => d \div m >= 1
         /\ (d * m) \div m = d
OBVIOUS

\* A count of milliseconds whose product with Milli fits is not wrapped.
LEMMA NoWrap ==
  ASSUME NEW n \in Nat, n <= Word \div 2 - 1
  PROVE  Wrap(n) = n
<1>1. Word \in Nat \ {0} /\ Word \div 2 \in Nat /\ 2 * (Word \div 2) <= Word
  BY SystemAssumption
<1>2. n + Word \div 2 \in 0 .. Word - 1
  BY <1>1
<1>3. (n + Word \div 2) % Word = n + Word \div 2
  BY <1>1, <1>2
<1> QED BY <1>1, <1>3 DEF Wrap

\* What a hypervisor makes of a validated TTL whose product did not overflow: the
\* conversions to milliseconds and back cost less than a millisecond.
LEMMA ValidTTL ==
  ASSUME TypeOK, NEW v \in VM, Valid(ask[v]), ~Overflows(v)
  PROVE  GuestTTL(v) > 0 /\ GuestTTL(v) <= MaxTTL
<1>1. /\ Milli \in Nat \ {0} /\ MaxTTL \in Nat /\ MaxTTL <= Word \div 2 - 1
      /\ DefaultTTL \in Nat /\ Milli <= DefaultTTL /\ DefaultTTL <= MaxTTL
      /\ Word \div 2 \in Nat
  BY SystemAssumption
<1>2. ask[v] \in [vcpus : Int, mem : Int, ttl : Int]
  BY SystemAssumption DEF TypeOK
<1> DEFINE t == TTL(ask[v])
<1>3. t \in Nat /\ Milli <= t /\ t <= MaxTTL
  <2>1. CASE ask[v].ttl > 0
    <3>1. ask[v].ttl \in Nat \ {0}
      BY <1>2, <2>1
    <3>2. ask[v].ttl <= (Word \div 2 - 1) \div Milli /\ Word \div 2 - 1 \in Nat
      BY <1>1, <3>1 DEF Overflows
    <3>3. ask[v].ttl * Milli <= Word \div 2 - 1
      <4> DEFINE q == (Word \div 2 - 1) \div Milli
      <4>1. q \in Nat /\ q * Milli <= Word \div 2 - 1
        BY <1>1, <3>2, DivisionFacts
      <4>2. ask[v].ttl <= q
        BY <3>2
      <4> HIDE DEF q
      <4>3. ask[v].ttl * Milli <= q * Milli
        BY <1>1, <3>1, <4>1, <4>2
      <4> QED BY <1>1, <3>1, <3>2, <4>1, <4>3
    <3>4. ask[v].ttl * Milli \in Nat /\ Milli <= ask[v].ttl * Milli
      BY <1>1, <3>1
    <3>5. t = ask[v].ttl * Milli
      BY <2>1, <3>3, <3>4, NoWrap DEF TTL, FromMillis
    <3> QED BY <3>4, <3>5 DEF Valid
  <2>2. CASE ~(ask[v].ttl > 0)
    BY <1>1, <2>2 DEF TTL
  <2> QED BY <2>1, <2>2
<1> HIDE DEF t
<1> DEFINE ms == t \div Milli
<1>4. ms \in Nat /\ ms >= 1 /\ ms * Milli <= t
  BY <1>1, <1>3, DivisionFacts
<1>5. GuestTTL(v) = Wrap(ms * Milli)
  BY <1>3 DEF GuestTTL, FromMillis, Milliseconds, t
<1> HIDE DEF ms
<1>6. ms * Milli \in Nat /\ ms * Milli > 0
  BY <1>1, <1>4
<1>7. GuestTTL(v) = ms * Milli
  BY <1>1, <1>3, <1>4, <1>5, <1>6, NoWrap
<1> QED BY <1>1, <1>3, <1>4, <1>6, <1>7
-----------------------------------------------------------------------------
(* The expired channel. *)

\* A send adds one notice ...
LEMMA AppendedNotice ==
  ASSUME NEW s \in Seq(VM), NEW v \in VM, NEW w \in VM
  PROVE  /\ (\E i \in 1 .. Len(Append(s, w)) : Append(s, w)[i] = v)
              <=> v = w \/ \E i \in 1 .. Len(s) : s[i] = v
         /\ (\A i, j \in 1 .. Len(s) : s[i] = v /\ s[j] = v => i = j)
            /\ (v = w => \A i \in 1 .. Len(s) : s[i] # v)
              => \A i, j \in 1 .. Len(Append(s, w)) :
                   Append(s, w)[i] = v /\ Append(s, w)[j] = v => i = j
<1>1. Len(Append(s, w)) = Len(s) + 1 /\ Append(s, w)[Len(s) + 1] = w /\ Len(s) \in Nat
  OBVIOUS
<1>2. \A i \in 1 .. Len(s) : Append(s, w)[i] = s[i]
  OBVIOUS
<1>3. 1 .. Len(s) + 1 = (1 .. Len(s)) \cup {Len(s) + 1}
  BY <1>1
<1> QED BY <1>1, <1>2, <1>3

\* ... and a receive takes the first one off.
LEMMA TakenNotice ==
  ASSUME NEW s \in Seq(VM), s # <<>>, NEW v \in VM
  PROVE  /\ Head(s) \in VM /\ Tail(s) \in Seq(VM)
         /\ (\E i \in 1 .. Len(s) : s[i] = v)
              <=> v = Head(s) \/ \E i \in 1 .. Len(Tail(s)) : Tail(s)[i] = v
         /\ (\A i, j \in 1 .. Len(s) : s[i] = v /\ s[j] = v => i = j) =>
              /\ \A i, j \in 1 .. Len(Tail(s)) : Tail(s)[i] = v /\ Tail(s)[j] = v => i = j
              /\ v = Head(s) => \A i \in 1 .. Len(Tail(s)) : Tail(s)[i] # v
<1>1. Len(s) \in Nat \ {0} /\ Len(Tail(s)) = Len(s) - 1 /\ Head(s) = s[1]
  OBVIOUS
<1>2. \A i \in 1 .. Len(Tail(s)) : Tail(s)[i] = s[i + 1]
  OBVIOUS
<1>3. Head(s) \in VM /\ Tail(s) \in Seq(VM)
  OBVIOUS
<1>4. ASSUME NEW i \in 1 .. Len(s), i # 1
      PROVE  i - 1 \in 1 .. Len(Tail(s)) /\ Tail(s)[i - 1] = s[i]
  BY <1>1, <1>2, <1>4
<1>5. ASSUME NEW i \in 1 .. Len(Tail(s)) PROVE i + 1 \in 1 .. Len(s) /\ i + 1 # 1
  BY <1>1
<1>6. ASSUME NEW i \in 1 .. Len(s), s[i] = v
      PROVE  v = Head(s) \/ \E j \in 1 .. Len(Tail(s)) : Tail(s)[j] = v
  BY <1>1, <1>4, <1>6
<1>7. ASSUME v = Head(s) PROVE \E i \in 1 .. Len(s) : s[i] = v
  <2>1. 1 \in 1 .. Len(s) /\ s[1] = v
    BY <1>1, <1>7
  <2> QED BY <2>1
<1>8. ASSUME NEW j \in 1 .. Len(Tail(s)), Tail(s)[j] = v
      PROVE  \E i \in 1 .. Len(s) : s[i] = v
  <2>1. j + 1 \in 1 .. Len(s) /\ s[j + 1] = v
    BY <1>2, <1>5, <1>8
  <2> QED BY <2>1
<1>9. ASSUME \A i, j \in 1 .. Len(s) : s[i] = v /\ s[j] = v => i = j
      PROVE  /\ \A i, j \in 1 .. Len(Tail(s)) : Tail(s)[i] = v /\ Tail(s)[j] = v => i = j
             /\ v = Head(s) => \A i \in 1 .. Len(Tail(s)) : Tail(s)[i] # v
  <2>1. ASSUME NEW i \in 1 .. Len(Tail(s)), NEW j \in 1 .. Len(Tail(s)),
               Tail(s)[i] = v, Tail(s)[j] = v
        PROVE  i = j
    <3>1. i + 1 = j + 1
      BY <1>2, <1>5, <1>9, <2>1
    <3> QED BY <3>1
  <2>2. ASSUME v = Head(s), NEW i \in 1 .. Len(Tail(s)) PROVE Tail(s)[i] # v
    <3>1. 1 \in 1 .. Len(s) /\ s[1] = v
      BY <1>1, <2>2
    <3> QED BY <1>2, <1>5, <1>9, <3>1
  <2> QED BY <2>1, <2>2
<1> QED BY <1>3, <1>6, <1>7, <1>8, <1>9
-----------------------------------------------------------------------------
(* The steps, one lemma for each. *)

\* At the start nothing is known of any microVM.
LEMMA SystemInit == Init => IInv
<1> SUFFICES ASSUME Init PROVE IInv
  OBVIOUS
<1> USE DEF Init, S!Init
<1>1. TypeOK
  <2>1. notices \in [Host -> Seq(VM)] /\ ctl \in [Host -> [Stage -> Nat]]
    OBVIOUS
  <2> QED BY <2>1 DEF TypeOK
<1>2. \A h \in Host, v \in VM : v \notin guests[h] /\ ~Trace(h, v) /\ ~Noticed(h, v) /\ Once(h, v)
  BY DEF Trace, Noticed, Once
<1>3. ASSUME NEW v \in VM PROVE VMInv(v)
  BY <1>2 DEF VMInv, Validated, CallsInOrder, Own, SlotAccounted, GuestOwned
<1> QED BY <1>1, <1>3 DEF IInv

\* What is known of a microVM stays true when a step does not concern it.
LEMMA UntouchedKeeps ==
  ASSUME IInv, TypeOK', NEW v \in VM, Untouched(v)
  PROVE  VMInv(v)'
<1>1. \A c : c \in calls' /\ c.vm = v <=> c \in calls /\ c.vm = v
  BY DEF Untouched
<1>2. \A h \in Host : Trace(h, v)' <=> Trace(h, v)
  BY DEF Untouched, Trace
<1>3. VMInv(v)
  BY DEF IInv
<1>4. assigned[v] \in Host \cup {NoHost}
  BY DEF IInv, TypeOK
<1>5. Validated(v)'
  BY <1>1, <1>3 DEF VMInv, Untouched, Validated
<1>6. CallsInOrder(v)'
  BY <1>1, <1>3 DEF VMInv, Untouched, CallsInOrder, Own
<1>7. SlotAccounted(v)'
  <2>1. assigned[v] # NoHost => (Trace(assigned[v], v)' <=> Trace(assigned[v], v))
    BY <1>2, <1>4 DEF Untouched, Trace, Noticed
  <2> QED BY <1>1, <2>1, <1>3 DEF VMInv, Untouched, SlotAccounted, Trace, Noticed
<1>8. GuestOwned(v)'
  <2> SUFFICES ASSUME v \notin cut, v \notin disowned PROVE GuestOwned(v)'
    BY DEF Untouched, GuestOwned
  <2>1. \A h \in Host : Once(h, v)'
    BY <1>3 DEF VMInv, Untouched, GuestOwned
  <2>2. \A c : Own(v, c)' <=> Own(v, c)
    BY DEF Untouched, Own
  <2> QED BY <1>1, <1>2, <1>3, <2>1, <2>2 DEF VMInv, Untouched, GuestOwned
<1> QED BY <1>5, <1>6, <1>7, <1>8 DEF VMInv

\* A step of the agents and the registry that leaves the handlers, their calls, the
\* guests and the slots alone keeps everything.
LEMMA FrameKeeps ==
  ASSUME IInv, TypeOK', UNCHANGED <<assigned, ask, handler, guests, notices, reports, history>>
  PROVE  IInv'
<1>1. ASSUME NEW v \in VM PROVE VMInv(v)'
  <2>1. Untouched(v)
    BY DEF Untouched, Noticed, Once, handler, history
  <2> QED BY <2>1, UntouchedKeeps
<1> QED BY <1>1 DEF IInv

\* A call to the registry comes, moves on or ends: their numbers stay numbers.
LEMMA CtlTyped ==
  ASSUME TypeOK, NEW h \in Host, NEW p \in Stage, NEW q \in Stage, p # q,
         Goes(h, p, q) \/ Finishes(h, p) \/ ctl' = [ctl EXCEPT ![h][p] = @ + 1]
  PROVE  ctl' \in [Host -> [Stage -> Nat]]
<1>1. ctl \in [Host -> [Stage -> Nat]] /\ ctl[h] \in [Stage -> Nat]
  BY DEF TypeOK
<1>2. CASE Goes(h, p, q)
  <2>1. ctl[h][p] - 1 \in Nat /\ ctl[h][q] + 1 \in Nat
    BY <1>1, <1>2 DEF Goes
  <2>2. ctl' = [ctl EXCEPT ![h] = [ctl[h] EXCEPT ![p] = ctl[h][p] - 1, ![q] = ctl[h][q] + 1]]
    BY <1>1, <1>2 DEF Goes
  <2> QED BY <1>1, <2>1, <2>2
<1>3. CASE Finishes(h, p)
  <2>1. ctl[h][p] - 1 \in Nat /\ ctl' = [ctl EXCEPT ![h] = [ctl[h] EXCEPT ![p] = ctl[h][p] - 1]]
    BY <1>1, <1>3 DEF Finishes
  <2> QED BY <1>1, <2>1
<1>4. CASE ctl' = [ctl EXCEPT ![h][p] = @ + 1]
  <2>1. ctl[h][p] + 1 \in Nat /\ ctl' = [ctl EXCEPT ![h] = [ctl[h] EXCEPT ![p] = ctl[h][p] + 1]]
    BY <1>1, <1>4
  <2> QED BY <1>1, <2>1
<1> QED BY <1>2, <1>3, <1>4

\* What the calls of the agents and the sweep change, at most.
LEMMA RegistryFrame ==
  ASSUME IInv, UNCHANGED <<assigned, ask, handler, agent, guests, notices, reports, history>>,
         hostState' \in [Host -> {"Absent", "Pending", "Ready", "Draining"}],
         capacity' \in [Host -> Nat], tracked' \subseteq Host, raced' \subseteq Host,
         ctl' \in [Host -> [Stage -> Nat]],
         sweeping' \in [Host -> {"no", "drain", "snap", "remove"}],
         registered' \in [Host -> {"no", "sent", "yes"}], faults' \in Nat
  PROVE  IInv'
<1>1. TypeOK'
  BY DEF IInv, TypeOK, handler, history
<1> QED BY <1>1, FrameKeeps

\* The agents' starts and stops, their calls to the registry and the sweep up to the
\* removal of a host are such steps.
LEMMA ControlPreserves ==
  ASSUME IInv, NEW h \in Host,
         \/ SendRegister(h) \/ RegisterArrives(h) \/ RegisterAdds(h) \/ RegisterReadies(h)
         \/ RegisterCut(h) \/ Lost(h) \/ heartbeatFails(h) \/ DeregisterArrives(h)
         \/ DeregisterDrains(h) \/ Sweep(h) \/ SweepDrains(h) \/ reapSnapshot(h)
         \/ reapLooksAt(h)
  PROVE  IInv'
<1> USE DEF sched, registry, hosts, Fault
<1>1. TypeOK /\ Slots \in Nat
  BY SystemAssumption DEF IInv
<1>2. {"register", "add", "ready", "deregister", "drain"} = Stage
  BY DEF Stage
<1>3. UNCHANGED <<assigned, ask, handler, agent, guests, notices, reports, history>>
  BY DEF SendRegister, RegisterArrives, RegisterAdds, RegisterReadies, RegisterCut, Lost,
         heartbeatFails, DeregisterArrives, DeregisterDrains, Sweep, SweepDrains,
         reapSnapshot, reapLooksAt, Drain, S!SetHostState
<1>4. faults' \in Nat
  BY <1>1 DEF SendRegister, RegisterArrives, RegisterAdds, RegisterReadies, RegisterCut, Lost,
         heartbeatFails, DeregisterArrives, DeregisterDrains, Sweep, SweepDrains,
         reapSnapshot, reapLooksAt, TypeOK
<1>5. hostState' \in [Host -> {"Absent", "Pending", "Ready", "Draining"}]
  <2>1. \/ UNCHANGED hostState
        \/ \E s \in {"Pending", "Ready", "Draining"} : hostState' = [hostState EXCEPT ![h] = s]
    BY DEF SendRegister, RegisterArrives, RegisterAdds, RegisterReadies, RegisterCut, Lost,
         heartbeatFails, DeregisterArrives, DeregisterDrains, Sweep, SweepDrains,
         reapSnapshot, reapLooksAt, Drain, S!SetHostState
  <2> QED BY <1>1, <2>1 DEF TypeOK
<1>6. capacity' \in [Host -> Nat]
  <2>1. UNCHANGED capacity \/ capacity' = [capacity EXCEPT ![h] = Slots]
    BY DEF SendRegister, RegisterArrives, RegisterAdds, RegisterReadies, RegisterCut, Lost,
         heartbeatFails, DeregisterArrives, DeregisterDrains, Sweep, SweepDrains,
         reapSnapshot, reapLooksAt, Drain, S!SetHostState
  <2> QED BY <1>1, <2>1 DEF TypeOK
<1>7. tracked' \subseteq Host /\ raced' \subseteq Host
  BY <1>1 DEF SendRegister, RegisterArrives, RegisterAdds, RegisterReadies, RegisterCut, Lost,
         heartbeatFails, DeregisterArrives, DeregisterDrains, Sweep, SweepDrains,
         reapSnapshot, reapLooksAt, Begins, TypeOK
<1>8. ctl' \in [Host -> [Stage -> Nat]]
  <2>1. \/ UNCHANGED ctl \/ ctl' = [ctl EXCEPT ![h]["register"] = @ + 1]
        \/ Goes(h, "register", "add") \/ Goes(h, "add", "ready")
        \/ Goes(h, "deregister", "drain") \/ \E p \in Stage : Finishes(h, p)
    BY <1>2 DEF SendRegister, RegisterArrives, RegisterAdds, RegisterReadies, RegisterCut, Lost,
         heartbeatFails, DeregisterArrives, DeregisterDrains, Sweep, SweepDrains,
         reapSnapshot, reapLooksAt
  <2>2. ASSUME NEW p \in Stage, Finishes(h, p) PROVE ctl' \in [Host -> [Stage -> Nat]]
    <3>1. PICK q \in Stage : p # q
      BY <1>2
    <3> QED BY <1>1, <2>2, <3>1, CtlTyped
  <2>3. CASE UNCHANGED ctl
    BY <1>1, <2>3 DEF TypeOK
  <2>4. "register" \in Stage /\ "add" \in Stage /\ "ready" \in Stage /\ "deregister" \in Stage
        /\ "drain" \in Stage
    BY <1>2
  <2>5. CASE ctl' = [ctl EXCEPT ![h]["register"] = @ + 1]
    <3>1. "register" \in Stage /\ "add" \in Stage /\ "register" # "add"
      BY <2>4
    <3> QED BY <1>1, <2>5, <3>1, CtlTyped
  <2>6. CASE Goes(h, "register", "add")
    BY <1>1, <2>4, <2>6, CtlTyped
  <2>7. CASE Goes(h, "add", "ready")
    BY <1>1, <2>4, <2>7, CtlTyped
  <2>8. CASE Goes(h, "deregister", "drain")
    BY <1>1, <2>4, <2>8, CtlTyped
  <2> QED BY <2>1, <2>2, <2>3, <2>5, <2>6, <2>7, <2>8
<1>9. sweeping' \in [Host -> {"no", "drain", "snap", "remove"}]
  <2>1. \/ UNCHANGED sweeping
        \/ \E p \in {"no", "drain", "snap", "remove"} : sweeping' = [sweeping EXCEPT ![h] = p]
    BY DEF SendRegister, RegisterArrives, RegisterAdds, RegisterReadies, RegisterCut, Lost,
         heartbeatFails, DeregisterArrives, DeregisterDrains, Sweep, SweepDrains,
         reapSnapshot, reapLooksAt
  <2> QED BY <1>1, <2>1 DEF TypeOK
<1>10. registered' \in [Host -> {"no", "sent", "yes"}]
  <2>1. \/ UNCHANGED registered
        \/ \E r \in {"no", "sent", "yes"} : registered' = [registered EXCEPT ![h] = r]
    BY DEF SendRegister, RegisterArrives, RegisterAdds, RegisterReadies, RegisterCut, Lost,
         heartbeatFails, DeregisterArrives, DeregisterDrains, Sweep, SweepDrains,
         reapSnapshot, reapLooksAt, Answered
  <2> QED BY <1>1, <2>1 DEF TypeOK
<1> QED BY <1>3, <1>4, <1>5, <1>6, <1>7, <1>8, <1>9, <1>10, RegistryFrame

\* An agent that starts or begins to leave keeps its guests.
LEMMA AgentPreserves ==
  ASSUME IInv, NEW h \in Host, AgentStarts(h) \/ Leave(h)
  PROVE  IInv'
<1> USE DEF sched, registry, Fault
<1>1. UNCHANGED <<sched, assigned, tracked, sweeping, raced, ask, handler, guests, notices,
                  reports, history>>
  BY DEF AgentStarts, Leave
<1>2. agent' \in [Host -> {"up", "leaving", "down"}] /\ faults' \in Nat
      /\ registered' \in [Host -> {"no", "sent", "yes"}]
  <2>1. agent' = [agent EXCEPT ![h] = "up"] \/ agent' = [agent EXCEPT ![h] = "leaving"]
    BY DEF AgentStarts, Leave
  <2>2. UNCHANGED registered \/ registered' = [registered EXCEPT ![h] = "no"]
    BY DEF AgentStarts, Leave
  <2>3. UNCHANGED faults \/ faults' = faults + 1
    BY DEF AgentStarts, Leave
  <2>4. agent' \in [Host -> {"up", "leaving", "down"}]
    BY <2>1 DEF IInv, TypeOK
  <2>5. registered' \in [Host -> {"no", "sent", "yes"}]
    BY <2>2 DEF IInv, TypeOK
  <2>6. faults' \in Nat
    BY <2>3 DEF IInv, TypeOK
  <2> QED BY <2>4, <2>5, <2>6
<1>3. ctl' \in [Host -> [Stage -> Nat]]
  <2>1. "deregister" \in Stage /\ "drain" \in Stage /\ TypeOK
    BY DEF Stage, IInv
  <2>2. UNCHANGED ctl \/ ctl' = [ctl EXCEPT ![h]["deregister"] = @ + 1]
    BY DEF AgentStarts, Leave
  <2>3. CASE UNCHANGED ctl
    BY <2>1, <2>3 DEF TypeOK
  <2> QED BY <2>1, <2>2, <2>3, CtlTyped
<1>4. TypeOK'
  BY <1>1, <1>2, <1>3 DEF IInv, TypeOK, handler, history
<1> QED BY <1>1, <1>4, FrameKeeps

\* A step that concerns one microVM keeps everything if it keeps what is known of it.
LEMMA OnlyOneTouched ==
  ASSUME IInv, TypeOK', NEW v \in VM, \A w \in VM \ {v} : Untouched(w), VMInv(v)'
  PROVE  IInv'
<1>1. ASSUME NEW w \in VM, w # v PROVE VMInv(w)'
  BY <1>1, UntouchedKeeps
<1> QED BY <1>1 DEF IInv

\* A request that is refused or not admitted leaves no slot and no call.
LEMMA RefusedPreserves ==
  ASSUME IInv, NEW v \in VM, Refuse(v) \/ AdmitFails(v)
  PROVE  IInv'
<1> USE DEF sched, registry, handler, hosts, history, Fault
<1>1. /\ pc[v] = "idle" /\ Answer(v)
      /\ UNCHANGED <<sched, registry, ask, reqs, calls, hosts, reports, faults, history>>
  BY DEF Refuse, AdmitFails
<1>2. TypeOK'
  BY <1>1 DEF IInv, TypeOK, Answer
<1>3. \A w \in VM \ {v} : Untouched(w)
  BY <1>1 DEF IInv, TypeOK, Untouched, Noticed, Once, Answer
<1>4. pc[v] = "idle" /\ pc'[v] = "done"
      /\ UNCHANGED <<ask, reqs, assigned, calls, guests, reports, history>>
  BY <1>1 DEF IInv, TypeOK, Answer
<1>5. \A g \in Host : (Noticed(g, v)' <=> Noticed(g, v)) /\ (Once(g, v)' <=> Once(g, v))
  BY <1>1 DEF Noticed, Once
<1>6. /\ VMInv(v) /\ assigned[v] \in Host \cup {NoHost} /\ NoHost \notin Host
      /\ tries[v] \in Nat /\ reqs[v] \in Nat /\ \A k \in calls : k.try \in Nat /\ k.req \in Nat
  BY SystemAssumption DEF IInv, TypeOK
<1>7. Validated(v)'
  BY <1>4, <1>6 DEF VMInv, Validated
<1>8. CallsInOrder(v)'
  BY <1>4, <1>6 DEF VMInv, CallsInOrder, Own
<1>9. SlotAccounted(v)'
  BY <1>4, <1>5, <1>6 DEF VMInv, SlotAccounted, CallsInOrder, Own, Trace
<1>10. GuestOwned(v)'
  BY <1>4, <1>5, <1>6 DEF VMInv, GuestOwned, CallsInOrder, Own, SlotAccounted, Trace
<1> QED BY <1>2, <1>3, <1>7, <1>8, <1>9, <1>10, OnlyOneTouched DEF VMInv

\* A handler that gets a slot, at its first attempt or a later one, calls that host.
\* What was in doubt about earlier guests is settled if nothing is left of them.
LEMMA PlacedPreserves ==
  ASSUME IInv, NEW v \in VM, Placed(v),
         \/ pc[v] = "idle" /\ Valid(ask[v]) /\ tries' = tries
         \/ pc[v] = "retry" /\ tries' = [tries EXCEPT ![v] = tries[v] + 1],
         UNCHANGED <<registry, ask, reqs, calls, hosts, reports, faults>>
  PROVE  IInv'
<1> USE DEF sched, registry, handler, hosts, history, Fault
<1>1. PICK h \in Host :
        /\ pc' = [pc EXCEPT ![v] = "call"] /\ assigned[v] = NoHost
        /\ assigned' = [assigned EXCEPT ![v] = h] /\ at' = [at EXCEPT ![v] = h]
        /\ leaked' = leaked \ {v}
        /\ \/ Fresh(v) /\ cut' = cut \ {v} /\ disowned' = disowned \ {v}
           \/ ~Fresh(v) /\ UNCHANGED <<cut, disowned>>
        /\ UNCHANGED <<hostState, capacity, registry, ask, reqs, calls, hosts, reports, faults>>
  BY DEF Placed, S!Place, S!Eligible, S!Open, IInv, TypeOK
<1>2. TypeOK'
  <2>1. tries' \in [VM -> Nat]
    <3>1. tries \in [VM -> Nat] /\ tries[v] + 1 \in Nat
      BY DEF IInv, TypeOK
    <3>2. tries' = tries \/ tries' = [tries EXCEPT ![v] = tries[v] + 1]
      OBVIOUS
    <3> QED BY <3>1, <3>2
  <2>2. cut' \subseteq VM /\ disowned' \subseteq VM /\ leaked' \subseteq VM
    BY <1>1 DEF IInv, TypeOK
  <2> QED BY <1>1, <2>1, <2>2 DEF IInv, TypeOK
<1>3. \A w \in VM \ {v} : Untouched(w)
  BY <1>1 DEF IInv, TypeOK, Untouched, Noticed, Once
<1>4. /\ pc'[v] = "call" /\ assigned[v] = NoHost /\ assigned'[v] = h /\ at'[v] = h
      /\ \/ pc[v] = "idle" /\ Valid(ask[v]) /\ tries'[v] = tries[v]
         \/ pc[v] = "retry" /\ tries'[v] = tries[v] + 1
      /\ UNCHANGED <<ask, reqs, calls, guests, reports>>
  BY <1>1 DEF IInv, TypeOK
<1>5. \A g \in Host : (Noticed(g, v)' <=> Noticed(g, v)) /\ (Once(g, v)' <=> Once(g, v))
  BY <1>1 DEF Noticed, Once
<1>6. /\ VMInv(v) /\ assigned[v] \in Host \cup {NoHost} /\ NoHost \notin Host
      /\ tries[v] \in Nat /\ reqs[v] \in Nat /\ \A k \in calls : k.try \in Nat /\ k.req \in Nat
  BY SystemAssumption DEF IInv, TypeOK
<1>7. Validated(v)'
  BY <1>4, <1>6 DEF VMInv, Validated
<1>8. CallsInOrder(v)'
  BY <1>4, <1>6 DEF VMInv, CallsInOrder, Own
<1>9. SlotAccounted(v)'
  <2>1. \A c \in calls : c.vm = v => c.answer # "created"
    BY <1>4, <1>6 DEF VMInv, CallsInOrder
  <2> QED BY <1>4, <2>1 DEF SlotAccounted
<1>10. GuestOwned(v)'
  <2> SUFFICES ASSUME v \notin cut', v \notin disowned' PROVE GuestOwned(v)'
    BY DEF GuestOwned
  <2>1. Fresh(v)
    <3> SUFFICES ASSUME v \notin cut, v \notin disowned PROVE Fresh(v)
      BY <1>1
    <3>1. \A c \in calls : c.vm # v
      BY <1>4, <1>6 DEF VMInv, GuestOwned
    <3>2. \A g \in Host : ~Trace(g, v)
      BY <1>4, <1>6 DEF VMInv, GuestOwned
    <3> QED BY <3>1, <3>2 DEF Fresh
  <2>2. \A g \in Host : ~Trace(g, v)' /\ ~Noticed(g, v)'
    BY <1>4, <1>5, <2>1 DEF Fresh, Trace
  <2>3. \A g \in Host : Once(g, v)' /\ v \notin guests'[g] /\ <<g, v>> \notin reports'
    BY <2>2 DEF Once, Noticed, Trace
  <2> QED BY <1>4, <2>1, <2>2, <2>3 DEF GuestOwned, Fresh
<1> QED BY <1>2, <1>3, <1>7, <1>8, <1>9, <1>10, OnlyOneTouched DEF VMInv

\* Both ways to a slot are such steps.
LEMMA AdmitPreserves ==
  ASSUME IInv, NEW v \in VM, Admit(v) \/ Retry(v)
  PROVE  IInv'
BY PlacedPreserves DEF Admit, Retry

\* The next request of an identifier has a number no call has yet.
LEMMA AskAgainPreserves ==
  ASSUME IInv, NEW v \in VM, AskAgain(v)
  PROVE  IInv'
<1> USE DEF sched, registry, handler, hosts, history, Fault
<1>1. /\ pc[v] = "done" /\ pc' = [pc EXCEPT ![v] = "idle"]
      /\ reqs' = [reqs EXCEPT ![v] = reqs[v] + 1] /\ faults' \in Nat
      /\ UNCHANGED <<sched, registry, ask, at, tries, calls, hosts, reports, history>>
  BY DEF AskAgain, IInv, TypeOK
<1>2. TypeOK'
  BY <1>1 DEF IInv, TypeOK
<1>3. \A w \in VM \ {v} : Untouched(w)
  BY <1>1 DEF IInv, TypeOK, Untouched, Noticed, Once
<1>4. /\ pc[v] = "done" /\ pc'[v] = "idle" /\ reqs'[v] = reqs[v] + 1
      /\ UNCHANGED <<ask, assigned, at, tries, calls, guests, reports, history>>
  BY <1>1 DEF IInv, TypeOK
<1>5. \A g \in Host : (Noticed(g, v)' <=> Noticed(g, v)) /\ (Once(g, v)' <=> Once(g, v))
  BY <1>1 DEF Noticed, Once
<1>6. /\ VMInv(v) /\ assigned[v] \in Host \cup {NoHost} /\ NoHost \notin Host
      /\ tries[v] \in Nat /\ reqs[v] \in Nat /\ \A k \in calls : k.try \in Nat /\ k.req \in Nat
  BY SystemAssumption DEF IInv, TypeOK
<1>7. Validated(v)'
  BY <1>4, <1>6 DEF VMInv, Validated
<1>8. CallsInOrder(v)'
  BY <1>4, <1>6 DEF VMInv, CallsInOrder, Own
<1>9. SlotAccounted(v)'
  BY <1>4, <1>5, <1>6 DEF VMInv, SlotAccounted, CallsInOrder, Own, Trace
<1>10. GuestOwned(v)'
  BY <1>4, <1>5, <1>6 DEF VMInv, GuestOwned, CallsInOrder, Own, SlotAccounted, Trace
<1> QED BY <1>2, <1>3, <1>7, <1>8, <1>9, <1>10, OnlyOneTouched DEF VMInv

\* Boot sends a call with the number of the attempt, which no call has yet.
LEMMA BootPreserves ==
  ASSUME IInv, NEW v \in VM, Boot(v)
  PROVE  IInv'
<1> USE DEF sched, registry, handler, hosts, history, Fault
<1>1. /\ pc[v] = "call"
      /\ \/ /\ at[v] \in tracked /\ calls' = calls \cup {Call(v)}
            /\ pc' = [pc EXCEPT ![v] = "boot"]
         \/ calls' = calls /\ pc' = [pc EXCEPT ![v] = "release"]
      /\ UNCHANGED <<sched, registry, ask, reqs, at, tries, hosts, reports, faults, history>>
  BY DEF Boot
<1>2. TypeOK'
  <2>1. at[v] \in tracked => Call(v) \in [vm : VM, host : Host, req : Nat, try : Nat,
                                         answer : {"none", "created", "error"}]
    BY DEF IInv, TypeOK, Call
  <2>2. pc' \in [VM -> {"idle", "call", "boot", "release", "retry", "done"}]
    <3>1. pc' = [pc EXCEPT ![v] = "boot"] \/ pc' = [pc EXCEPT ![v] = "release"]
      BY <1>1
    <3> QED BY <3>1 DEF IInv, TypeOK
  <2> HIDE DEF Call
  <2>3. calls' \subseteq [vm : VM, host : Host, req : Nat, try : Nat, answer : {"none", "created", "error"}]
    BY <1>1, <2>1 DEF IInv, TypeOK
  <2> QED BY <1>1, <2>2, <2>3 DEF IInv, TypeOK
<1>3. \A w \in VM \ {v} : Untouched(w)
  BY <1>1 DEF IInv, TypeOK, Untouched, Noticed, Once, Call
<1>4. /\ pc[v] = "call"
      /\ \/ calls' = calls \cup {Call(v)} /\ pc'[v] = "boot"
         \/ calls' = calls /\ pc'[v] = "release"
      /\ UNCHANGED <<ask, reqs, assigned, at, tries, guests, reports, history>>
  BY <1>1 DEF IInv, TypeOK, Call
<1>5. \A g \in Host : (Noticed(g, v)' <=> Noticed(g, v)) /\ (Once(g, v)' <=> Once(g, v))
  BY <1>1 DEF Noticed, Once
<1>6. /\ VMInv(v) /\ assigned[v] \in Host \cup {NoHost} /\ NoHost \notin Host
      /\ tries[v] \in Nat /\ reqs[v] \in Nat /\ \A k \in calls : k.try \in Nat /\ k.req \in Nat
  BY SystemAssumption DEF IInv, TypeOK
<1>7. Validated(v)'
  BY <1>4, <1>5, <1>6 DEF VMInv, Validated, Call
<1>8. CallsInOrder(v)'
  BY <1>4, <1>5, <1>6 DEF VMInv, CallsInOrder, Own, Call
<1>9. SlotAccounted(v)'
  BY <1>4, <1>5, <1>6 DEF VMInv, SlotAccounted, Call, CallsInOrder, Own, Trace
<1>10. GuestOwned(v)'
  BY <1>4, <1>5, <1>6 DEF VMInv, GuestOwned, Call, CallsInOrder, Own, SlotAccounted, Trace
<1> QED BY <1>2, <1>3, <1>7, <1>8, <1>9, <1>10, OnlyOneTouched DEF VMInv

\* The handler takes the answer it waits for, and no other is there.
LEMMA BootReturnsPreserves ==
  ASSUME IInv, NEW v \in VM, BootReturns(v)
  PROVE  IInv'
<1> USE DEF sched, registry, handler, hosts, history, Fault
<1>1. PICK c \in calls :
        /\ pc[v] = "boot" /\ Own(v, c) /\ calls' = calls \ {c}
        /\ \/ c.answer = "created" /\ Answer(v)
           \/ c.answer = "error" /\ pc' = [pc EXCEPT ![v] = "release"] /\ UNCHANGED <<at, tries>>
        /\ UNCHANGED <<sched, registry, ask, reqs, hosts, reports, faults, history>>
  BY DEF BootReturns
<1>2. TypeOK'
  <2>1. pc' \in [VM -> {"idle", "call", "boot", "release", "retry", "done"}]
    <3>1. pc' = [pc EXCEPT ![v] = "done"] \/ pc' = [pc EXCEPT ![v] = "release"]
      BY <1>1 DEF Answer
    <3> QED BY <3>1 DEF IInv, TypeOK
  <2>2. at' = [at EXCEPT ![v] = NoHost] \/ at' = at
    BY <1>1 DEF Answer
  <2>3. tries' = [tries EXCEPT ![v] = 0] \/ tries' = tries
    BY <1>1 DEF Answer
  <2>4. at' \in [VM -> Host \cup {NoHost}]
    BY <2>2 DEF IInv, TypeOK
  <2>5. tries' \in [VM -> Nat]
    <3>1. tries \in [VM -> Nat]
      BY DEF IInv, TypeOK
    <3> QED BY <2>3, <3>1
  <2> QED BY <1>1, <2>1, <2>4, <2>5 DEF IInv, TypeOK
<1>3. \A w \in VM \ {v} : Untouched(w)
  <2> SUFFICES ASSUME NEW w \in VM, w # v PROVE Untouched(w)
    OBVIOUS
  <2>1. pc'[w] = pc[w] /\ at'[w] = at[w] /\ tries'[w] = tries[w]
    BY <1>1 DEF IInv, TypeOK, Answer
  <2>2. {k \in calls' : k.vm = w} = {k \in calls : k.vm = w}
    BY <1>1 DEF Own
  <2> QED BY <1>1, <2>1, <2>2 DEF Untouched, Noticed, Once
<1>4. /\ pc[v] = "boot" /\ Own(v, c) /\ calls' = calls \ {c}
      /\ \/ c.answer = "created" /\ pc'[v] = "done"
         \/ c.answer = "error" /\ pc'[v] = "release" /\ tries'[v] = tries[v]
      /\ UNCHANGED <<ask, reqs, assigned, guests, reports, history>>
  BY <1>1 DEF IInv, TypeOK, Answer
<1>5. \A g \in Host : (Noticed(g, v)' <=> Noticed(g, v)) /\ (Once(g, v)' <=> Once(g, v))
  BY <1>1 DEF Noticed, Once
<1>6. /\ VMInv(v) /\ assigned[v] \in Host \cup {NoHost} /\ NoHost \notin Host
      /\ tries[v] \in Nat /\ reqs[v] \in Nat /\ \A k \in calls : k.try \in Nat /\ k.req \in Nat
  BY SystemAssumption DEF IInv, TypeOK
<1>7. Validated(v)'
  BY <1>4, <1>6 DEF VMInv, Validated
<1>8. CallsInOrder(v)'
  BY <1>4, <1>6 DEF VMInv, CallsInOrder, Own
<1>9. SlotAccounted(v)'
  BY <1>4, <1>5, <1>6 DEF VMInv, SlotAccounted, CallsInOrder, Own, Trace
<1>10. GuestOwned(v)'
  BY <1>4, <1>5, <1>6 DEF VMInv, GuestOwned, CallsInOrder, Own, SlotAccounted, Trace
<1> QED BY <1>2, <1>3, <1>7, <1>8, <1>9, <1>10, OnlyOneTouched DEF VMInv

\* A call that ends in doubt stays behind, and its microVM is cut.
LEMMA BootCutPreserves ==
  ASSUME IInv, NEW v \in VM, BootCut(v)
  PROVE  IInv'
<1> USE DEF sched, registry, handler, hosts, history, Fault
<1>1. /\ pc[v] = "boot" /\ pc' = [pc EXCEPT ![v] = "release"]
      /\ calls' = {c \in calls : Own(v, c) => c.answer = "none"}
      /\ cut' = cut \cup {v} /\ faults' \in Nat
      /\ UNCHANGED <<sched, registry, ask, reqs, at, tries, hosts, reports, disowned, leaked>>
  BY DEF BootCut, IInv, TypeOK
<1>2. TypeOK'
  BY <1>1 DEF IInv, TypeOK
<1>3. \A w \in VM \ {v} : Untouched(w)
  <2> SUFFICES ASSUME NEW w \in VM, w # v PROVE Untouched(w)
    OBVIOUS
  <2>1. pc'[w] = pc[w]
    BY <1>1 DEF IInv, TypeOK
  <2>2. {k \in calls' : k.vm = w} = {k \in calls : k.vm = w}
    BY <1>1 DEF Own
  <2> QED BY <1>1, <2>1, <2>2 DEF Untouched, Noticed, Once
<1>4. /\ pc[v] = "boot" /\ pc'[v] = "release" /\ v \in cut'
      /\ calls' = {c \in calls : Own(v, c) => c.answer = "none"}
      /\ UNCHANGED <<ask, reqs, assigned, at, tries, guests, reports, disowned, leaked>>
  BY <1>1 DEF IInv, TypeOK
<1>5. \A g \in Host : (Noticed(g, v)' <=> Noticed(g, v)) /\ (Once(g, v)' <=> Once(g, v))
  BY <1>1 DEF Noticed, Once
<1>6. /\ VMInv(v) /\ assigned[v] \in Host \cup {NoHost} /\ NoHost \notin Host
      /\ tries[v] \in Nat /\ reqs[v] \in Nat /\ \A k \in calls : k.try \in Nat /\ k.req \in Nat
  BY SystemAssumption DEF IInv, TypeOK
<1>7. Validated(v)'
  BY <1>4, <1>6 DEF VMInv, Validated
<1>8. CallsInOrder(v)'
  BY <1>4, <1>6 DEF VMInv, CallsInOrder, Own
<1>9. SlotAccounted(v)'
  BY <1>4, <1>5, <1>6 DEF VMInv, SlotAccounted, CallsInOrder, Own, Trace
<1>10. GuestOwned(v)'
  BY <1>4, <1>5, <1>6 DEF VMInv, GuestOwned, CallsInOrder, Own, SlotAccounted, Trace
<1> QED BY <1>2, <1>3, <1>7, <1>8, <1>9, <1>10, OnlyOneTouched DEF VMInv

\* After an error the slot goes back, and no guest has it.
LEMMA ReleasePreserves ==
  ASSUME IInv, NEW v \in VM, Release(v)
  PROVE  IInv'
<1> USE DEF sched, registry, handler, hosts, history, Fault
<1>1. /\ pc[v] = "release" /\ pc' = [pc EXCEPT ![v] = "retry"]
      /\ assigned' = [assigned EXCEPT ![v] = NoHost]
      /\ UNCHANGED <<hostState, capacity, registry, ask, reqs, at, tries, calls, hosts, reports, faults, history>>
  BY DEF Release, S!Release, IInv, TypeOK
<1>2. TypeOK'
  BY <1>1 DEF IInv, TypeOK
<1>3. \A w \in VM \ {v} : Untouched(w)
  BY <1>1 DEF IInv, TypeOK, Untouched, Noticed, Once
<1>4. /\ pc[v] = "release" /\ pc'[v] = "retry" /\ assigned'[v] = NoHost
      /\ UNCHANGED <<ask, reqs, at, tries, calls, guests, reports, history>>
  BY <1>1 DEF IInv, TypeOK
<1>5. \A g \in Host : (Noticed(g, v)' <=> Noticed(g, v)) /\ (Once(g, v)' <=> Once(g, v))
  BY <1>1 DEF Noticed, Once
<1>6. /\ VMInv(v) /\ assigned[v] \in Host \cup {NoHost} /\ NoHost \notin Host
      /\ tries[v] \in Nat /\ reqs[v] \in Nat /\ \A k \in calls : k.try \in Nat /\ k.req \in Nat
  BY SystemAssumption DEF IInv, TypeOK
<1>7. Validated(v)'
  BY <1>4, <1>6 DEF VMInv, Validated
<1>8. CallsInOrder(v)'
  BY <1>4, <1>6 DEF VMInv, CallsInOrder, Own
<1>9. SlotAccounted(v)'
  BY <1>4, <1>5, <1>6 DEF VMInv, SlotAccounted, CallsInOrder, Own, Trace
<1>10. GuestOwned(v)'
  BY <1>4, <1>5, <1>6 DEF VMInv, GuestOwned, CallsInOrder, Own, SlotAccounted, Trace
<1> QED BY <1>2, <1>3, <1>7, <1>8, <1>9, <1>10, OnlyOneTouched DEF VMInv

\* A handler that gives up has no slot.
LEMMA GiveUpPreserves ==
  ASSUME IInv, NEW v \in VM, GiveUp(v)
  PROVE  IInv'
<1> USE DEF sched, registry, handler, hosts, history, Fault
<1>1. /\ pc[v] = "retry" /\ Answer(v)
      /\ UNCHANGED <<sched, registry, ask, reqs, calls, hosts, reports, faults, history>>
  BY DEF GiveUp
<1>2. TypeOK'
  BY <1>1 DEF IInv, TypeOK, Answer
<1>3. \A w \in VM \ {v} : Untouched(w)
  BY <1>1 DEF IInv, TypeOK, Untouched, Noticed, Once, Answer
<1>4. /\ pc[v] = "retry" /\ pc'[v] = "done"
      /\ UNCHANGED <<ask, reqs, assigned, calls, guests, reports, history>>
  BY <1>1 DEF IInv, TypeOK, Answer
<1>5. \A g \in Host : (Noticed(g, v)' <=> Noticed(g, v)) /\ (Once(g, v)' <=> Once(g, v))
  BY <1>1 DEF Noticed, Once
<1>6. /\ VMInv(v) /\ assigned[v] \in Host \cup {NoHost} /\ NoHost \notin Host
      /\ tries[v] \in Nat /\ reqs[v] \in Nat /\ \A k \in calls : k.try \in Nat /\ k.req \in Nat
  BY SystemAssumption DEF IInv, TypeOK
<1>7. Validated(v)'
  BY <1>4, <1>6 DEF VMInv, Validated
<1>8. CallsInOrder(v)'
  BY <1>4, <1>6 DEF VMInv, CallsInOrder, Own
<1>9. SlotAccounted(v)'
  BY <1>4, <1>5, <1>6 DEF VMInv, SlotAccounted, CallsInOrder, Own, Trace
<1>10. GuestOwned(v)'
  BY <1>4, <1>5, <1>6 DEF VMInv, GuestOwned, CallsInOrder, Own, SlotAccounted, Trace
<1> QED BY <1>2, <1>3, <1>7, <1>8, <1>9, <1>10, OnlyOneTouched DEF VMInv

\* A client's delete takes the slot from under the guest.
LEMMA DeletePreserves ==
  ASSUME IInv, NEW v \in VM, handleDeleteVM(v)
  PROVE  IInv'
<1> USE DEF sched, registry, handler, hosts, history, Fault
<1>1. /\ assigned' = [assigned EXCEPT ![v] = NoHost] /\ disowned' = disowned \cup {v}
      /\ UNCHANGED <<hostState, capacity, registry, ask, handler, hosts, reports, faults, cut, leaked>>
  BY DEF handleDeleteVM, S!Release
<1>2. TypeOK'
  BY <1>1 DEF IInv, TypeOK
<1>3. \A w \in VM \ {v} : Untouched(w)
  BY <1>1 DEF IInv, TypeOK, Untouched, Noticed, Once
<1>4. /\ assigned'[v] = NoHost /\ v \in disowned'
      /\ UNCHANGED <<ask, reqs, pc, at, tries, calls, guests, reports, cut, leaked>>
  BY <1>1 DEF IInv, TypeOK
<1>5. \A g \in Host : (Noticed(g, v)' <=> Noticed(g, v)) /\ (Once(g, v)' <=> Once(g, v))
  BY <1>1 DEF Noticed, Once
<1>6. /\ VMInv(v) /\ assigned[v] \in Host \cup {NoHost} /\ NoHost \notin Host
      /\ tries[v] \in Nat /\ reqs[v] \in Nat /\ \A k \in calls : k.try \in Nat /\ k.req \in Nat
  BY SystemAssumption DEF IInv, TypeOK
<1>7. Validated(v)'
  BY <1>4, <1>6 DEF VMInv, Validated
<1>8. CallsInOrder(v)'
  BY <1>4, <1>6 DEF VMInv, CallsInOrder, Own
<1>9. SlotAccounted(v)'
  BY <1>4, <1>5, <1>6 DEF VMInv, SlotAccounted, CallsInOrder, Own, Trace
<1>10. GuestOwned(v)'
  BY <1>4, <1>5, <1>6 DEF VMInv, GuestOwned, CallsInOrder, Own, SlotAccounted, Trace
<1> QED BY <1>2, <1>3, <1>7, <1>8, <1>9, <1>10, OnlyOneTouched DEF VMInv

\* The call c of v, answered, is the same call.
LEMMA AnsweredCall ==
  ASSUME IInv, NEW c \in calls, NEW a \in {"created", "error"}
  PROVE  /\ [c EXCEPT !.answer = a] \in
              [vm : VM, host : Host, req : Nat, try : Nat, answer : {"none", "created", "error"}]
         /\ [c EXCEPT !.answer = a].vm = c.vm /\ [c EXCEPT !.answer = a].try = c.try
         /\ [c EXCEPT !.answer = a].req = c.req
         /\ [c EXCEPT !.answer = a].host = c.host /\ [c EXCEPT !.answer = a].answer = a
<1>1. c \in [vm : VM, host : Host, req : Nat, try : Nat, answer : {"none", "created", "error"}]
  BY DEF IInv, TypeOK
<1> QED BY <1>1

\* A guest that starts answers its call if the handler still waits; a microVM
\* outside cut has left no other trace.
LEMMA StartedPreserves ==
  ASSUME IInv, NEW v \in VM, NEW c \in calls, c.vm = v, c.answer = "none",
         NEW d, d = [c EXCEPT !.answer = "created"],
         calls' = (calls \ {c}) \cup (IF Awaited(c) THEN {d} ELSE {}),
         ~StartErr(c.host, v), guests' = [guests EXCEPT ![c.host] = @ \cup {v}],
         UNCHANGED <<sched, registry, ask, reqs, pc, at, tries, agent, registered, notices, reports, faults, history>>
  PROVE  IInv'
<1> USE DEF sched, registry, handler, hosts, history, Fault
<1>1. /\ d.vm = v /\ d.req = c.req /\ d.try = c.try /\ d.host = c.host /\ d.answer = "created" /\ c.host \in Host
      /\ d \in [vm : VM, host : Host, req : Nat, try : Nat, answer : {"none", "created", "error"}]
      /\ c.try \in Nat /\ c.req \in Nat
  BY AnsweredCall DEF IInv, TypeOK
<1>1a. \A h \in Host : guests'[h] = IF h = c.host THEN guests[h] \cup {v} ELSE guests[h]
  <2>1. guests \in [Host -> SUBSET VM]
    BY DEF IInv, TypeOK
  <2> QED BY <1>1, <2>1
<1>2. TypeOK'
  <2>1. guests' \in [Host -> SUBSET VM]
    <3>1. guests \in [Host -> SUBSET VM]
      BY DEF IInv, TypeOK
    <3> QED BY <1>1, <3>1
  <2>2. calls' \subseteq calls \cup {d}
    OBVIOUS
  <2>3. calls' \subseteq [vm : VM, host : Host, req : Nat, try : Nat,
                         answer : {"none", "created", "error"}]
    BY <1>1, <2>2 DEF IInv, TypeOK
  <2> QED BY <2>1, <2>3 DEF IInv, TypeOK
<1>3. \A w \in VM \ {v} : Untouched(w)
  <2> SUFFICES ASSUME NEW w \in VM, w # v PROVE Untouched(w)
    OBVIOUS
  <2>1. {k \in calls' : k.vm = w} = {k \in calls : k.vm = w}
    BY <1>1
  <2>2. \A h \in Host : w \in guests'[h] <=> w \in guests[h]
    BY <1>1a
  <2> QED BY <2>1, <2>2 DEF Untouched, Noticed, Once
<1>4. /\ \/ pc[v] = "boot" /\ Own(v, c) /\ calls' = (calls \ {c}) \cup {d}
         \/ ~(pc[v] = "boot" /\ Own(v, c)) /\ calls' = calls \ {c}
      /\ UNCHANGED <<ask, reqs, assigned, pc, at, tries, reports, history>>
      /\ \A h \in Host : guests'[h] = IF h = c.host THEN guests[h] \cup {v} ELSE guests[h]
  BY <1>1, <1>1a DEF Awaited
<1>5. \A g \in Host : (Noticed(g, v)' <=> Noticed(g, v)) /\ (Once(g, v)' <=> Once(g, v))
  BY DEF Noticed, Once
<1>6. /\ VMInv(v) /\ assigned[v] \in Host \cup {NoHost} /\ NoHost \notin Host
      /\ tries[v] \in Nat /\ reqs[v] \in Nat /\ \A k \in calls : k.try \in Nat /\ k.req \in Nat
  BY SystemAssumption DEF IInv, TypeOK
<1>7. Validated(v)'
  BY <1>1, <1>4, <1>5, <1>6 DEF VMInv, Validated
<1>8. CallsInOrder(v)'
  BY <1>1, <1>4, <1>5, <1>6 DEF VMInv, CallsInOrder, Own
<1>9. SlotAccounted(v)'
  <2>1. \A h \in Host : Trace(h, v) => Trace(h, v)'
    BY <1>4, <1>5 DEF Trace
  <2>2. /\ pc[v] = "retry" => assigned[v] = NoHost
        /\ pc[v] \in {"call", "boot"} => assigned[v] \in {at[v], NoHost}
    BY <1>6 DEF VMInv, SlotAccounted
  <2>3. ASSUME pc[v] \in {"idle", "done"} \/ \E e \in calls : e.vm = v /\ e.answer = "created"
        PROVE  assigned[v] = NoHost \/ Trace(assigned[v], v)' \/ v \in leaked
    BY <1>6, <2>1, <2>3 DEF VMInv, SlotAccounted
  <2>4. ASSUME pc[v] = "boot", Own(v, c)
        PROVE  assigned[v] = NoHost \/ Trace(assigned[v], v)'
    <3>1. c.host = at[v]
      BY <1>6, <2>4 DEF VMInv, CallsInOrder
    <3>2. v \in guests'[at[v]]
      BY <1>1, <1>4, <3>1
    <3> QED BY <2>2, <2>4, <3>2 DEF Trace
  <2>5. assigned'[v] = assigned[v] /\ pc'[v] = pc[v] /\ at'[v] = at[v] /\ leaked' = leaked
    BY <1>4
  <2>6. ASSUME NEW e \in calls', e.vm = v, e.answer = "created"
        PROVE  e \in calls \/ (pc[v] = "boot" /\ Own(v, c))
    BY <1>4, <2>6
  <2> QED BY <2>2, <2>3, <2>4, <2>5, <2>6 DEF SlotAccounted
<1>10. GuestOwned(v)'
  <2> SUFFICES ASSUME v \notin cut, v \notin disowned PROVE GuestOwned(v)'
    BY <1>4 DEF GuestOwned
  <2>1. pc[v] = "boot" /\ Own(v, c) /\ calls' = (calls \ {c}) \cup {d}
    BY <1>4, <1>6 DEF VMInv, GuestOwned
  <2>2. \A e \in calls : e.vm = v => e = c
    BY <1>6, <2>1 DEF VMInv, GuestOwned, CallsInOrder, Own
  <2>3. \A h \in Host : ~Trace(h, v)
    BY <1>6, <2>1, <2>2 DEF VMInv, GuestOwned
  <2>4. c.host = at[v] /\ assigned[v] = at[v]
    BY <1>6, <2>1 DEF VMInv, GuestOwned, CallsInOrder
  <2>5. d \in calls' /\ \A e \in calls' : e.vm = v => e = d
    BY <2>1, <2>2
  <2>6. \A h \in Host : v \notin guests[h] /\ <<h, v>> \notin reports /\ ~Noticed(h, v)
    BY <2>3 DEF Trace
  <2>7. \A h \in Host : /\ v \in guests'[h] => h = at[v]
                       /\ <<h, v>> \notin reports' /\ ~Noticed(h, v)' /\ Once(h, v)'
    BY <1>4, <1>5, <1>6, <2>4, <2>6 DEF VMInv, GuestOwned
  <2>8. pc'[v] = "boot" /\ Own(v, d)'
    BY <1>1, <1>4, <2>1 DEF Own
  <2>9. at'[v] = at[v] /\ assigned'[v] = assigned[v]
    BY <1>4
  <2> QED BY <1>1, <2>4, <2>5, <2>7, <2>8, <2>9 DEF GuestOwned, Trace
<1> QED BY <1>2, <1>3, <1>7, <1>8, <1>9, <1>10, OnlyOneTouched DEF VMInv

\* A guest that does not start leaves no trace.
LEMMA StartFailsPreserves ==
  ASSUME IInv, NEW v \in VM, NEW c \in calls, c.vm = v, c.answer = "none",
         NEW d, d = [c EXCEPT !.answer = "error"],
         calls' = (calls \ {c}) \cup (IF Awaited(c) THEN {d} ELSE {}),
         UNCHANGED guests,
         UNCHANGED <<sched, registry, ask, reqs, pc, at, tries, agent, registered, notices, reports, faults, history>>
  PROVE  IInv'
<1> USE DEF sched, registry, handler, hosts, history, Fault
<1>1. /\ d.vm = v /\ d.req = c.req /\ d.try = c.try /\ d.host = c.host /\ d.answer = "error" /\ c.host \in Host
      /\ d \in [vm : VM, host : Host, req : Nat, try : Nat, answer : {"none", "created", "error"}]
      /\ c.try \in Nat /\ c.req \in Nat
  BY AnsweredCall DEF IInv, TypeOK
<1>2. TypeOK'
  BY <1>1 DEF IInv, TypeOK
<1>3. \A w \in VM \ {v} : Untouched(w)
  <2> SUFFICES ASSUME NEW w \in VM, w # v PROVE Untouched(w)
    OBVIOUS
  <2>1. {k \in calls' : k.vm = w} = {k \in calls : k.vm = w}
    BY <1>1
  <2> QED BY <2>1 DEF Untouched, Noticed, Once
<1>4. /\ \/ pc[v] = "boot" /\ Own(v, c) /\ calls' = (calls \ {c}) \cup {d}
         \/ ~(pc[v] = "boot" /\ Own(v, c)) /\ calls' = calls \ {c}
      /\ UNCHANGED <<ask, reqs, assigned, pc, at, tries, reports, history>>
      /\ UNCHANGED guests
  BY <1>1 DEF IInv, TypeOK, Awaited
<1>5. \A g \in Host : (Noticed(g, v)' <=> Noticed(g, v)) /\ (Once(g, v)' <=> Once(g, v))
  BY DEF Noticed, Once
<1>6. /\ VMInv(v) /\ assigned[v] \in Host \cup {NoHost} /\ NoHost \notin Host
      /\ tries[v] \in Nat /\ reqs[v] \in Nat /\ \A k \in calls : k.try \in Nat /\ k.req \in Nat
  BY SystemAssumption DEF IInv, TypeOK
<1>7. Validated(v)'
  BY <1>1, <1>4, <1>5, <1>6 DEF VMInv, Validated
<1>8. CallsInOrder(v)'
  BY <1>1, <1>4, <1>5, <1>6 DEF VMInv, CallsInOrder, Own
<1>9. SlotAccounted(v)'
  BY <1>1, <1>4, <1>5, <1>6 DEF VMInv, SlotAccounted, CallsInOrder, Own, Trace
<1>10. GuestOwned(v)'
  BY <1>1, <1>4, <1>5, <1>6 DEF VMInv, GuestOwned, CallsInOrder, Own, SlotAccounted, Trace
<1> QED BY <1>2, <1>3, <1>7, <1>8, <1>9, <1>10, OnlyOneTouched DEF VMInv

\* The agent's handler does one or the other.
LEMMA StartVMPreserves ==
  ASSUME IInv, NEW c \in calls, handleStartVM(c)
  PROVE  IInv'
<1>1. c.vm \in VM
  BY DEF IInv, TypeOK
<1> QED BY <1>1, StartedPreserves, StartFailsPreserves DEF handleStartVM, Reply

\* A stop on the agent leaks the slot.
LEMMA StopVMPreserves ==
  ASSUME IInv, NEW h \in Host, NEW v \in VM, handleStopVM(h, v)
  PROVE  IInv'
<1> USE DEF sched, registry, handler, hosts, history, Fault
<1>1. /\ v \in guests[h] /\ guests' = [guests EXCEPT ![h] = @ \ {v}]
      /\ leaked' = leaked \cup {v} /\ faults' \in Nat
      /\ UNCHANGED <<sched, registry, ask, handler, agent, registered, notices, reports, cut, disowned>>
  BY DEF handleStopVM, Ends, IInv, TypeOK
<1>2. TypeOK'
  BY <1>1 DEF IInv, TypeOK
<1>3. \A w \in VM \ {v} : Untouched(w)
  BY <1>1 DEF IInv, TypeOK, Untouched, Noticed, Once
<1>4. /\ v \in guests[h] /\ v \in leaked'
      /\ \A g \in Host : guests'[g] = IF g = h THEN guests[g] \ {v} ELSE guests[g]
      /\ UNCHANGED <<ask, reqs, assigned, pc, at, tries, calls, reports, cut, disowned>>
  BY <1>1 DEF IInv, TypeOK
<1>5. \A g \in Host : (Noticed(g, v)' <=> Noticed(g, v)) /\ (Once(g, v)' <=> Once(g, v))
  BY <1>1 DEF Noticed, Once
<1>6. /\ VMInv(v) /\ assigned[v] \in Host \cup {NoHost} /\ NoHost \notin Host
      /\ tries[v] \in Nat /\ reqs[v] \in Nat /\ \A k \in calls : k.try \in Nat /\ k.req \in Nat
  BY SystemAssumption DEF IInv, TypeOK
<1>7. Validated(v)'
  BY <1>4, <1>6 DEF VMInv, Validated
<1>8. CallsInOrder(v)'
  BY <1>4, <1>6 DEF VMInv, CallsInOrder, Own
<1>9. SlotAccounted(v)'
  BY <1>4, <1>5, <1>6 DEF VMInv, SlotAccounted, CallsInOrder, Own, Trace
<1>10. GuestOwned(v)'
  BY <1>4, <1>5, <1>6 DEF VMInv, GuestOwned, CallsInOrder, Own, SlotAccounted, Trace
<1> QED BY <1>2, <1>3, <1>7, <1>8, <1>9, <1>10, OnlyOneTouched DEF VMInv

\* An expiry turns the guest into a notice, or leaks its slot.
LEMMA ExpirePreserves ==
  ASSUME IInv, NEW h \in Host, NEW v \in VM, Expire(h, v)
  PROVE  IInv'
<1> USE DEF sched, registry, handler, hosts, history, Fault
<1>1. /\ v \in guests[h] /\ guests' = [guests EXCEPT ![h] = @ \ {v}]
      /\ \/ notices' = [notices EXCEPT ![h] = Append(notices[h], v)] /\ leaked' = leaked
         \/ notices' = notices /\ leaked' = leaked \cup {v}
      /\ UNCHANGED <<sched, registry, ask, handler, agent, registered, reports, faults, cut, disowned>>
  BY DEF Expire, Ends
<1>1a. ASSUME NEW g \in Host, NEW w \in VM, notices' = [notices EXCEPT ![h] = Append(notices[h], v)]
       PROVE  /\ Noticed(g, w)' <=> Noticed(g, w) \/ (g = h /\ w = v)
              /\ Once(g, w) /\ (g = h /\ w = v => ~Noticed(g, w)) => Once(g, w)'
  <2>1. CASE g = h
    <3>1. notices[h] \in Seq(VM) /\ notices'[h] = Append(notices[h], v)
      BY <1>1a DEF IInv, TypeOK
    <3> DEFINE s == notices[h]
    <3>2. s \in Seq(VM)
      BY <3>1
    <3> HIDE DEF s
    <3>3. /\ (\E i \in 1 .. Len(Append(s, v)) : Append(s, v)[i] = w)
               <=> w = v \/ \E i \in 1 .. Len(s) : s[i] = w
          /\ (\A i, j \in 1 .. Len(s) : s[i] = w /\ s[j] = w => i = j)
             /\ (w = v => \A i \in 1 .. Len(s) : s[i] # w)
               => \A i, j \in 1 .. Len(Append(s, v)) :
                    Append(s, v)[i] = w /\ Append(s, v)[j] = w => i = j
      BY <3>2, AppendedNotice
    <3>4. /\ Noticed(g, w) <=> \E i \in 1 .. Len(s) : s[i] = w
          /\ Once(g, w) <=> \A i, j \in 1 .. Len(s) : s[i] = w /\ s[j] = w => i = j
      BY <2>1 DEF Noticed, Once, s
    <3>5. /\ Noticed(g, w)' <=> \E i \in 1 .. Len(Append(s, v)) : Append(s, v)[i] = w
          /\ Once(g, w)' <=> \A i, j \in 1 .. Len(Append(s, v)) :
                               Append(s, v)[i] = w /\ Append(s, v)[j] = w => i = j
      BY <2>1, <3>1 DEF Noticed, Once, s
    <3> QED BY <2>1, <3>3, <3>4, <3>5
  <2>2. CASE g # h
    BY <1>1a, <2>2 DEF IInv, TypeOK, Noticed, Once
  <2> QED BY <2>1, <2>2
<1>1b. ASSUME NEW g \in Host, NEW w \in VM, notices' = notices
       PROVE  (Noticed(g, w)' <=> Noticed(g, w)) /\ (Once(g, w)' <=> Once(g, w))
  BY <1>1b DEF Noticed, Once
<1>2. TypeOK'
  <2>1. notices' \in [Host -> Seq(VM)]
    <3>1. Append(notices[h], v) \in Seq(VM)
      BY DEF IInv, TypeOK
    <3> QED BY <1>1, <3>1 DEF IInv, TypeOK
  <2>2. guests' \in [Host -> SUBSET VM] /\ leaked' \subseteq VM
    BY <1>1 DEF IInv, TypeOK
  <2> QED BY <1>1, <2>1, <2>2 DEF IInv, TypeOK
<1>3. \A w \in VM \ {v} : Untouched(w)
  <2> SUFFICES ASSUME NEW w \in VM, w # v PROVE Untouched(w)
    OBVIOUS
  <2>1. \A g \in Host : (Noticed(g, w)' <=> Noticed(g, w)) /\ (Once(g, w) => Once(g, w)')
    BY <1>1, <1>1a, <1>1b
  <2> QED BY <1>1, <2>1 DEF IInv, TypeOK, Untouched
<1>4. /\ v \in guests[h] /\ leaked \subseteq leaked'
      /\ \A g \in Host : guests'[g] = IF g = h THEN guests[g] \ {v} ELSE guests[g]
      /\ UNCHANGED <<ask, reqs, assigned, pc, at, tries, calls, reports, cut, disowned>>
  BY <1>1 DEF IInv, TypeOK
<1>5. /\ \A g \in Host : Noticed(g, v)' => Noticed(g, v) \/ g = h
      /\ \A g \in Host : Noticed(g, v) => Noticed(g, v)'
      /\ Noticed(h, v)' \/ v \in leaked'
      /\ \A g \in Host : Once(g, v) /\ (g = h => ~Noticed(g, v)) => Once(g, v)'
  BY <1>1, <1>1a, <1>1b
<1>6. /\ VMInv(v) /\ assigned[v] \in Host \cup {NoHost} /\ NoHost \notin Host
      /\ tries[v] \in Nat /\ reqs[v] \in Nat /\ \A k \in calls : k.try \in Nat /\ k.req \in Nat
  BY SystemAssumption DEF IInv, TypeOK
<1>7. Validated(v)'
  BY <1>4, <1>6 DEF VMInv, Validated
<1>8. CallsInOrder(v)'
  BY <1>4, <1>6 DEF VMInv, CallsInOrder, Own
<1>9. SlotAccounted(v)'
  BY <1>4, <1>5, <1>6 DEF VMInv, SlotAccounted, CallsInOrder, Own, Trace
<1>10. GuestOwned(v)'
  BY <1>4, <1>5, <1>6 DEF VMInv, GuestOwned, CallsInOrder, Own, SlotAccounted, Trace
<1> QED BY <1>2, <1>3, <1>7, <1>8, <1>9, <1>10, OnlyOneTouched DEF VMInv

\* A notice becomes a report.
LEMMA WatchPreserves ==
  ASSUME IInv, NEW h \in Host, NEW v \in VM, v = Head(notices[h]), watchExpiries(h)
  PROVE  IInv'
<1> USE DEF sched, registry, handler, hosts, history, Fault
<1>1. /\ notices[h] # <<>> /\ notices' = [notices EXCEPT ![h] = Tail(notices[h])]
      /\ reports' = reports \cup {<<h, v>>}
      /\ UNCHANGED <<sched, registry, ask, handler, agent, registered, guests, faults, history>>
  BY DEF watchExpiries
<1>1a. notices[h] \in Seq(VM) /\ notices'[h] = Tail(notices[h]) /\ Tail(notices[h]) \in Seq(VM)
  BY <1>1, TakenNotice DEF IInv, TypeOK
<1>1b. ASSUME NEW g \in Host, NEW w \in VM
       PROVE  /\ Noticed(g, w)' => Noticed(g, w)
              /\ Noticed(g, w) => Noticed(g, w)' \/ (g = h /\ w = v)
              /\ Once(g, w) => Once(g, w)' /\ (g = h /\ w = v => ~Noticed(g, w)')
  <2>1. CASE g = h
    <3> DEFINE s == notices[h]
    <3>1. s \in Seq(VM) /\ s # <<>>
      BY <1>1, <1>1a
    <3> HIDE DEF s
    <3>2. /\ (\E i \in 1 .. Len(s) : s[i] = w)
               <=> w = Head(s) \/ \E i \in 1 .. Len(Tail(s)) : Tail(s)[i] = w
          /\ (\A i, j \in 1 .. Len(s) : s[i] = w /\ s[j] = w => i = j) =>
               /\ \A i, j \in 1 .. Len(Tail(s)) : Tail(s)[i] = w /\ Tail(s)[j] = w => i = j
               /\ w = Head(s) => \A i \in 1 .. Len(Tail(s)) : Tail(s)[i] # w
      BY <3>1, TakenNotice
    <3>3. /\ Noticed(g, w) <=> \E i \in 1 .. Len(s) : s[i] = w
          /\ Once(g, w) <=> \A i, j \in 1 .. Len(s) : s[i] = w /\ s[j] = w => i = j
      BY <2>1 DEF Noticed, Once, s
    <3>4. /\ Noticed(g, w)' <=> \E i \in 1 .. Len(Tail(s)) : Tail(s)[i] = w
          /\ Once(g, w)' <=> \A i, j \in 1 .. Len(Tail(s)) :
                               Tail(s)[i] = w /\ Tail(s)[j] = w => i = j
      <4>1. notices'[g] = Tail(s)
        BY <1>1a, <2>1 DEF s
      <4> QED BY <4>1 DEF Noticed, Once
    <3>5. v = Head(s)
      BY DEF s
    <3> QED BY <2>1, <3>2, <3>3, <3>4, <3>5
  <2>2. CASE g # h
    BY <1>1, <2>2 DEF IInv, TypeOK, Noticed, Once
  <2> QED BY <2>1, <2>2
<1>1c. Noticed(h, v)
  BY <1>1, <1>1a, TakenNotice DEF Noticed
<1>2. TypeOK'
  <2>1. notices' \in [Host -> Seq(VM)]
    BY <1>1, <1>1a DEF IInv, TypeOK
  <2>2. reports' \subseteq Host \X VM
    BY <1>1 DEF IInv, TypeOK
  <2> QED BY <1>1, <2>1, <2>2 DEF IInv, TypeOK
<1>3. \A w \in VM \ {v} : Untouched(w)
  <2> SUFFICES ASSUME NEW w \in VM, w # v PROVE Untouched(w)
    OBVIOUS
  <2>1. \A g \in Host : (Noticed(g, w)' <=> Noticed(g, w)) /\ (Once(g, w) => Once(g, w)')
    BY <1>1b
  <2>2. \A g \in Host : <<g, w>> \in reports' <=> <<g, w>> \in reports
    BY <1>1
  <2> QED BY <1>1, <2>1, <2>2 DEF Untouched
<1>4. /\ \A g \in Host : <<g, v>> \in reports' <=> <<g, v>> \in reports \/ g = h
      /\ UNCHANGED <<ask, reqs, assigned, pc, at, tries, calls, guests, history>>
  BY <1>1 DEF IInv, TypeOK
<1>5. /\ \A g \in Host : Noticed(g, v)' => Noticed(g, v)
      /\ \A g \in Host : Noticed(g, v) => Noticed(g, v)' \/ g = h
      /\ Noticed(h, v)
      /\ \A g \in Host : Once(g, v) => Once(g, v)' /\ (g = h => ~Noticed(g, v)')
  BY <1>1b, <1>1c
<1>6. /\ VMInv(v) /\ assigned[v] \in Host \cup {NoHost} /\ NoHost \notin Host
      /\ tries[v] \in Nat /\ reqs[v] \in Nat /\ \A k \in calls : k.try \in Nat /\ k.req \in Nat
  BY SystemAssumption DEF IInv, TypeOK
<1>7. Validated(v)'
  BY <1>4, <1>6 DEF VMInv, Validated
<1>8. CallsInOrder(v)'
  BY <1>4, <1>6 DEF VMInv, CallsInOrder, Own
<1>9. SlotAccounted(v)'
  BY <1>4, <1>5, <1>6 DEF VMInv, SlotAccounted, CallsInOrder, Own, Trace
<1>10. GuestOwned(v)'
  BY <1>4, <1>5, <1>6 DEF VMInv, GuestOwned, CallsInOrder, Own, SlotAccounted, Trace
<1> QED BY <1>2, <1>3, <1>7, <1>8, <1>9, <1>10, OnlyOneTouched DEF VMInv

\* A report frees the slot of a microVM whose guest is gone.
LEMMA ReportArrivesPreserves ==
  ASSUME IInv, NEW h \in Host, NEW v \in VM, ReportArrives(h, v)
  PROVE  IInv'
<1> USE DEF sched, registry, handler, hosts, history, Fault
<1>1. /\ <<h, v>> \in reports /\ reports' = reports \ {<<h, v>>}
      /\ assigned' = [assigned EXCEPT ![v] = NoHost]
      /\ UNCHANGED <<hostState, capacity, registry, ask, handler, hosts, faults, history>>
  BY DEF ReportArrives, S!Release, IInv, TypeOK
<1>2. TypeOK'
  BY <1>1 DEF IInv, TypeOK
<1>3. \A w \in VM \ {v} : Untouched(w)
  BY <1>1 DEF IInv, TypeOK, Untouched, Noticed, Once
<1>4. /\ <<h, v>> \in reports /\ assigned'[v] = NoHost /\ reports' \subseteq reports
      /\ <<h, v>> \notin reports'
      /\ UNCHANGED <<ask, reqs, pc, at, tries, calls, guests, history>>
  BY <1>1 DEF IInv, TypeOK
<1>5. \A g \in Host : (Noticed(g, v)' <=> Noticed(g, v)) /\ (Once(g, v)' <=> Once(g, v))
  BY <1>1 DEF Noticed, Once
<1>6. /\ VMInv(v) /\ assigned[v] \in Host \cup {NoHost} /\ NoHost \notin Host
      /\ tries[v] \in Nat /\ reqs[v] \in Nat /\ \A k \in calls : k.try \in Nat /\ k.req \in Nat
  BY SystemAssumption DEF IInv, TypeOK
<1>7. Validated(v)'
  BY <1>4, <1>6 DEF VMInv, Validated
<1>8. CallsInOrder(v)'
  BY <1>4, <1>6 DEF VMInv, CallsInOrder, Own
<1>9. SlotAccounted(v)'
  BY <1>4, <1>5, <1>6 DEF VMInv, SlotAccounted, CallsInOrder, Own, Trace
<1>10. GuestOwned(v)'
  BY <1>4, <1>5, <1>6 DEF VMInv, GuestOwned, CallsInOrder, Own, SlotAccounted, Trace
<1> QED BY <1>2, <1>3, <1>7, <1>8, <1>9, <1>10, OnlyOneTouched DEF VMInv

\* A report that is lost leaks the slot.
LEMMA ReportLostPreserves ==
  ASSUME IInv, NEW h \in Host, NEW v \in VM, ReportLost(h, v)
  PROVE  IInv'
<1> USE DEF sched, registry, handler, hosts, history, Fault
<1>1. /\ <<h, v>> \in reports /\ reports' = reports \ {<<h, v>>} /\ leaked' = leaked \cup {v}
      /\ faults' \in Nat /\ UNCHANGED <<sched, registry, ask, handler, hosts, cut, disowned>>
  BY DEF ReportLost, IInv, TypeOK
<1>2. TypeOK'
  BY <1>1 DEF IInv, TypeOK
<1>3. \A w \in VM \ {v} : Untouched(w)
  BY <1>1 DEF IInv, TypeOK, Untouched, Noticed, Once
<1>4. /\ v \in leaked' /\ reports' \subseteq reports
      /\ UNCHANGED <<ask, reqs, assigned, pc, at, tries, calls, guests, cut, disowned>>
  BY <1>1 DEF IInv, TypeOK
<1>5. \A g \in Host : (Noticed(g, v)' <=> Noticed(g, v)) /\ (Once(g, v)' <=> Once(g, v))
  BY <1>1 DEF Noticed, Once
<1>6. /\ VMInv(v) /\ assigned[v] \in Host \cup {NoHost} /\ NoHost \notin Host
      /\ tries[v] \in Nat /\ reqs[v] \in Nat /\ \A k \in calls : k.try \in Nat /\ k.req \in Nat
  BY SystemAssumption DEF IInv, TypeOK
<1>7. Validated(v)'
  BY <1>4, <1>6 DEF VMInv, Validated
<1>8. CallsInOrder(v)'
  BY <1>4, <1>6 DEF VMInv, CallsInOrder, Own
<1>9. SlotAccounted(v)'
  BY <1>4, <1>5, <1>6 DEF VMInv, SlotAccounted, CallsInOrder, Own, Trace
<1>10. GuestOwned(v)'
  BY <1>4, <1>5, <1>6 DEF VMInv, GuestOwned, CallsInOrder, Own, SlotAccounted, Trace
<1> QED BY <1>2, <1>3, <1>7, <1>8, <1>9, <1>10, OnlyOneTouched DEF VMInv

\* The removal of a host disowns its microVMs.
LEMMA ReapPreserves ==
  ASSUME IInv, NEW h \in Host, reapRemoves(h)
  PROVE  IInv'
<1> USE DEF sched, registry, handler, hosts, history, Fault
<1>1. /\ \/ /\ hostState' = [hostState EXCEPT ![h] = "Absent"]
            /\ capacity' = [capacity EXCEPT ![h] = 0]
            /\ assigned' = [v \in VM |-> IF assigned[v] = h THEN NoHost ELSE assigned[v]]
            /\ disowned' = disowned \cup {v \in VM : assigned[v] = h}
         \/ UNCHANGED <<sched, disowned>>
      /\ sweeping' = [sweeping EXCEPT ![h] = "no"] /\ raced' \subseteq raced
      /\ UNCHANGED <<tracked, ctl, ask, handler, hosts, reports, faults, cut, leaked>>
  BY DEF reapRemoves, S!RemoveHost
<1>2. TypeOK'
  <2>1. assigned' \in [VM -> Host \cup {NoHost}] /\ disowned' \subseteq VM
    BY <1>1 DEF IInv, TypeOK
  <2>2. hostState' \in [Host -> {"Absent", "Pending", "Ready", "Draining"}]
        /\ capacity' \in [Host -> Nat]
    <3>1. /\ UNCHANGED hostState \/ hostState' = [hostState EXCEPT ![h] = "Absent"]
          /\ UNCHANGED capacity \/ capacity' = [capacity EXCEPT ![h] = 0]
      BY <1>1
    <3>2. 0 \in Nat
      OBVIOUS
    <3>3. hostState \in [Host -> {"Absent", "Pending", "Ready", "Draining"}]
          /\ capacity \in [Host -> Nat]
      BY DEF IInv, TypeOK
    <3>4. hostState' \in [Host -> {"Absent", "Pending", "Ready", "Draining"}]
      BY <3>1, <3>3
    <3>5. capacity' \in [Host -> Nat]
      BY <3>1, <3>2, <3>3
    <3> QED BY <3>4, <3>5
  <2> QED BY <1>1, <2>1, <2>2 DEF IInv, TypeOK
<1>3. ASSUME NEW v \in VM PROVE VMInv(v)'
  <2>1. /\ \/ assigned'[v] = assigned[v]
           \/ assigned'[v] = NoHost /\ v \in disowned'
        /\ disowned \subseteq disowned'
        /\ UNCHANGED <<ask, reqs, pc, at, tries, calls, guests, reports, cut, leaked>>
    BY <1>1 DEF IInv, TypeOK
  <2>2. \A g \in Host : (Noticed(g, v)' <=> Noticed(g, v)) /\ (Once(g, v)' <=> Once(g, v))
    BY <1>1 DEF Noticed, Once
  <2>3. /\ VMInv(v) /\ assigned[v] \in Host \cup {NoHost} /\ NoHost \notin Host
        /\ tries[v] \in Nat /\ reqs[v] \in Nat /\ \A k \in calls : k.try \in Nat /\ k.req \in Nat
    BY SystemAssumption DEF IInv, TypeOK
  <2>4. Validated(v)'
    BY <2>1, <2>2, <2>3 DEF VMInv, Validated
  <2>5. CallsInOrder(v)'
    BY <2>1, <2>2, <2>3 DEF VMInv, CallsInOrder, Own
  <2>6. SlotAccounted(v)'
    BY <2>1, <2>2, <2>3 DEF VMInv, SlotAccounted, CallsInOrder, Own, Trace
  <2>7. GuestOwned(v)'
    BY <2>1, <2>2, <2>3 DEF VMInv, GuestOwned, CallsInOrder, Own, SlotAccounted, Trace
  <2> QED BY <2>4, <2>5, <2>6, <2>7 DEF VMInv
<1> QED BY <1>2, <1>3 DEF IInv

\* With an agent its guests, its notices and the calls it has not answered go.
LEMMA GonePreserves ==
  ASSUME IInv, NEW h \in Host, Gone(h), faults' \in Nat
  PROVE  IInv'
<1> USE DEF sched, registry, handler, hosts, history, Fault
<1>2. TypeOK'
  <2>1. notices' \in [Host -> Seq(VM)] /\ guests' \in [Host -> SUBSET VM]
    BY DEF Gone, IInv, TypeOK
  <2>2. leaked' \subseteq VM
    <3>1. notices[h] \in Seq(VM)
      BY DEF IInv, TypeOK
    <3>2. {notices[h][i] : i \in 1 .. Len(notices[h])} \subseteq VM
      BY <3>1
    <3> QED BY <3>2 DEF Gone, IInv, TypeOK
  <2>3. agent' \in [Host -> {"up", "leaving", "down"}] /\ registered' \in [Host -> {"no", "sent", "yes"}]
    BY DEF Gone, IInv, TypeOK
  <2> QED BY <2>1, <2>2, <2>3 DEF Gone, IInv, TypeOK
<1>3. ASSUME NEW v \in VM PROVE VMInv(v)'
  <2>1. /\ \A g \in Host : guests'[g] = IF g = h THEN {} ELSE guests[g]
        /\ v \in guests[h] => v \in leaked'
        /\ leaked \subseteq leaked' /\ calls' = {c \in calls : c.host = h => c.answer # "none"}
        /\ UNCHANGED <<ask, reqs, assigned, pc, at, tries, reports, cut, disowned>>
    BY DEF Gone, IInv, TypeOK
  <2>2. /\ \A g \in Host : Noticed(g, v)' => Noticed(g, v)
        /\ \A g \in Host : Noticed(g, v) => Noticed(g, v)' \/ g = h
        /\ Noticed(h, v) => v \in leaked'
        /\ \A g \in Host : Once(g, v) => Once(g, v)'
    <3>1. ASSUME NEW g \in Host, g # h
          PROVE  (Noticed(g, v)' <=> Noticed(g, v)) /\ (Once(g, v)' <=> Once(g, v))
      BY <3>1 DEF Gone, IInv, TypeOK, Noticed, Once
    <3>2. ~Noticed(h, v)' /\ Once(h, v)'
      BY DEF Gone, IInv, TypeOK, Noticed, Once
    <3>3. Noticed(h, v) => v \in leaked'
      BY DEF Gone, Noticed
    <3> QED BY <3>1, <3>2, <3>3
  <2>3. /\ VMInv(v) /\ assigned[v] \in Host \cup {NoHost} /\ NoHost \notin Host
        /\ tries[v] \in Nat /\ reqs[v] \in Nat /\ \A k \in calls : k.try \in Nat /\ k.req \in Nat
    BY SystemAssumption DEF IInv, TypeOK
  <2>4. Validated(v)'
    BY <2>1, <2>2, <2>3 DEF VMInv, Validated
  <2>5. CallsInOrder(v)'
    BY <2>1, <2>2, <2>3 DEF VMInv, CallsInOrder, Own
  <2>6. SlotAccounted(v)'
    BY <2>1, <2>2, <2>3 DEF VMInv, SlotAccounted, CallsInOrder, Own, Trace
  <2>7. GuestOwned(v)'
    BY <2>1, <2>2, <2>3 DEF VMInv, GuestOwned, CallsInOrder, Own, SlotAccounted, Trace
  <2> QED BY <2>4, <2>5, <2>6, <2>7 DEF VMInv
<1> QED BY <1>2, <1>3 DEF IInv

\* A restart of the API forgets all slots, and cuts the calls it waited for.
LEMMA RestartPreserves ==
  ASSUME IInv, ApiRestarts
  PROVE  IInv'
<1> USE DEF sched, registry, handler, hosts, history, Fault
<1>2. TypeOK'
  <2>1. pc' \in [VM -> {"idle", "call", "boot", "release", "retry", "done"}]
    BY DEF ApiRestarts, IInv, TypeOK
  <2>2. hostState' \in [Host -> {"Absent", "Pending", "Ready", "Draining"}]
    BY DEF ApiRestarts, IInv, TypeOK
  <2>3. ctl' \in [Host -> [Stage -> Nat]] /\ sweeping' \in [Host -> {"no", "drain", "snap", "remove"}]
    BY DEF ApiRestarts
  <2>4. registered' \in [Host -> {"no", "sent", "yes"}]
    BY DEF ApiRestarts, IInv, TypeOK
  <2>5. /\ capacity' \in [Host -> Nat] /\ assigned' \in [VM -> Host \cup {NoHost}]
        /\ at' \in [VM -> Host \cup {NoHost}] /\ tries' \in [VM -> Nat]
    BY DEF ApiRestarts
  <2>6. /\ calls' \subseteq calls /\ tracked' = {} /\ reports' = {} /\ raced' = {}
        /\ faults' \in Nat /\ cut' \subseteq VM /\ disowned' \subseteq VM
        /\ UNCHANGED <<ask, reqs, agent, guests, notices, leaked>>
    BY DEF ApiRestarts, IInv, TypeOK
  <2> QED BY <2>1, <2>2, <2>3, <2>4, <2>5, <2>6 DEF IInv, TypeOK
<1>3. ASSUME NEW v \in VM PROVE VMInv(v)'
  <2>1. /\ pc'[v] = IF pc[v] = "idle" THEN "idle" ELSE "done"
        /\ assigned'[v] = NoHost /\ calls' = {c \in calls : c.answer = "none"} /\ reports' = {}
        /\ v \in cut' <=> v \in cut \/ pc[v] = "boot"
        /\ v \in disowned' <=> v \in disowned \/ assigned[v] # NoHost
        /\ UNCHANGED <<ask, reqs, guests, leaked>>
    BY DEF ApiRestarts, IInv, TypeOK
  <2>2. \A g \in Host : (Noticed(g, v)' <=> Noticed(g, v)) /\ (Once(g, v)' <=> Once(g, v))
    BY DEF ApiRestarts, Noticed, Once
  <2>3. /\ VMInv(v) /\ assigned[v] \in Host \cup {NoHost} /\ NoHost \notin Host
        /\ tries[v] \in Nat /\ reqs[v] \in Nat /\ \A k \in calls : k.try \in Nat /\ k.req \in Nat
    BY SystemAssumption DEF IInv, TypeOK
  <2>4. Validated(v)'
    BY <2>1, <2>2, <2>3 DEF VMInv, Validated
  <2>5. CallsInOrder(v)'
    BY <2>1, <2>2, <2>3 DEF VMInv, CallsInOrder, Own
  <2>6. SlotAccounted(v)'
    BY <2>1, <2>2, <2>3 DEF VMInv, SlotAccounted, CallsInOrder, Own, Trace
  <2>7. GuestOwned(v)'
    BY <2>1, <2>2, <2>3 DEF VMInv, GuestOwned, CallsInOrder, Own, SlotAccounted, Trace
  <2> QED BY <2>4, <2>5, <2>6, <2>7 DEF VMInv
<1> QED BY <1>2, <1>3 DEF IInv

\* The inductive invariant holds throughout.
LEMMA SystemInvariant == Spec => []IInv
<1>1. IInv /\ [Next]_vars => IInv'
  <2> SUFFICES ASSUME IInv, [Next]_vars PROVE IInv'
    OBVIOUS
  <2>1. ASSUME NEW v \in VM,
               \/ Refuse(v) \/ AdmitFails(v) \/ Admit(v) \/ AskAgain(v) \/ Handler(v)
               \/ handleDeleteVM(v)
        PROVE  IInv'
    BY <2>1, RefusedPreserves, AdmitPreserves, AskAgainPreserves, BootPreserves,
       BootReturnsPreserves, BootCutPreserves, ReleasePreserves, GiveUpPreserves,
       DeletePreserves DEF Handler
  <2>2. ASSUME NEW c \in calls, handleStartVM(c) PROVE IInv'
    BY <2>2, StartVMPreserves
  <2>3. ASSUME NEW h \in Host, NEW v \in VM,
               handleStopVM(h, v) \/ Expire(h, v) \/ ReportArrives(h, v) \/ ReportLost(h, v)
        PROVE  IInv'
    BY <2>3, StopVMPreserves, ExpirePreserves, ReportArrivesPreserves, ReportLostPreserves
  <2>4. ASSUME NEW h \in Host, watchExpiries(h) PROVE IInv'
    <3>1. Head(notices[h]) \in VM
      BY <2>4 DEF watchExpiries, IInv, TypeOK
    <3> QED BY <2>4, <3>1, WatchPreserves
  <2>5. ASSUME NEW h \in Host, Exit(h) \/ Crash(h) PROVE IInv'
    <3>1. Gone(h) /\ faults' \in Nat
      BY <2>5 DEF Exit, Crash, Fault, IInv, TypeOK
    <3> QED BY <3>1, GonePreserves
  <2>6. ASSUME UNCHANGED vars PROVE IInv'
    <3>1. TypeOK'
      BY <2>6 DEF vars, sched, registry, handler, hosts, history, IInv, TypeOK
    <3> QED BY <2>6, <3>1, FrameKeeps DEF vars, sched, hosts
  <2> QED BY <2>1, <2>2, <2>3, <2>4, <2>5, <2>6, ControlPreserves, AgentPreserves,
             ReapPreserves, RestartPreserves DEF Next, Registering
<1> QED BY <1>1, SystemInit, PTL DEF Spec
-----------------------------------------------------------------------------
\* Every reachable state of the processes and their messages is well typed.
THEOREM TypeCorrect == Spec => []TypeOK
<1>1. IInv => TypeOK
  BY DEF IInv
<1> QED BY <1>1, SystemInvariant, PTL

\* However crashes, restarts, lost calls, retries, expiries and further requests of
\* its identifier interleave, a guest runs on the host whose slot its microVM has, and on
\* no other, unless a boot call of it ended in doubt or its slot was taken from under
\* it, and something is left of that since.
THEOREM GuestsHoldTheirSlots == Spec => []RunningHoldsSlot
<1>1. IInv => RunningHoldsSlot
  <2> SUFFICES ASSUME IInv, NEW h \in Host, NEW v \in guests[h] \ (cut \cup disowned)
               PROVE  /\ assigned[v] = h
                      /\ \A g \in Host \ {h} : v \notin guests[g]
    BY DEF RunningHoldsSlot
  <2>1. v \in VM
    BY DEF IInv, TypeOK
  <2>2. \A g \in Host : v \in guests[g] => assigned[v] = g
    BY <2>1 DEF IInv, VMInv, GuestOwned, Trace
  <2> QED BY <2>2
<1> QED BY <1>1, SystemInvariant, PTL

\* No slot is held without a reason: its request is being handled, its guest runs,
\* word of its end is on the way, or that word is known to have been lost.
THEOREM NoSlotWithoutGuest == Spec => []SlotHasGuest
<1>1. IInv => SlotHasGuest
  BY DEF IInv, VMInv, SlotAccounted, Trace, Noticed, SlotHasGuest
<1> QED BY <1>1, SystemInvariant, PTL

\* For every machine word, unit and bound, a guest's TTL is positive and at most
\* MaxTTL after validate, the booter's conversion to milliseconds and the agent's
\* conversion back, as long as the product in validate does not overflow.
THEOREM NoGuestOutlivesMaxTTL == Spec => []PinnedAtMostMaxTTL
<1>1. IInv => PinnedAtMostMaxTTL
  <2> SUFFICES ASSUME IInv, NEW h \in Host, NEW v \in guests[h], ~Overflows(v)
               PROVE  GuestTTL(v) > 0 /\ GuestTTL(v) <= MaxTTL
    BY DEF PinnedAtMostMaxTTL
  <2>1. v \in VM /\ TypeOK
    BY DEF IInv, TypeOK
  <2>2. Valid(ask[v])
    BY <2>1 DEF IInv, VMInv, Validated
  <2> QED BY <2>1, <2>2, ValidTTL
<1> QED BY <1>1, SystemInvariant, PTL
-----------------------------------------------------------------------------
(* The scheduler and the registry as the processes use them. *)

Holders(h) == {v \in VM : assigned[v] = h}

\* Every host the scheduler knows has the slots its agent registers, and no more of them
\* are taken than there are.  Their number is that of the microVMs, so that it is finite
\* has to be kept with it.
Slotted(h) ==
  /\ capacity[h] = IF hostState[h] = "Absent" THEN 0 ELSE Slots
  /\ IsFiniteSet(Holders(h)) /\ Cardinality(Holders(h)) <= capacity[h]

\* The scheduler serves a host when the registry tracks it, and only then, as long as no
\* operation of the registry is at work on the host and no two have met there.
FleetInv ==
  \A h \in Host :
    /\ Slotted(h)
    /\ h \notin raced /\ ~Busy(h) => (h \in tracked <=> hostState[h] = "Ready")

\* A restart leaves a scheduler that knows nothing.
Forgotten == /\ hostState' = [h \in Host |-> "Absent"] /\ capacity' = [h \in Host |-> 0]
             /\ assigned' = [v \in VM |-> NoHost]

\* AddHost with the slots of the agent.
Added(h) == /\ hostState[h] = "Absent" /\ hostState' = [hostState EXCEPT ![h] = "Pending"]
            /\ capacity' = [capacity EXCEPT ![h] = Slots] /\ UNCHANGED assigned

\* What a step does to the scheduler.
PoolStep ==
  \/ UNCHANGED sched
  \/ \E v \in VM : S!Place(v) \/ S!Release(v)
  \/ \E h \in Host : \/ Added(h) \/ S!RemoveHost(h)
                     \/ S!SetHostState(h, "Ready") \/ S!SetHostState(h, "Draining")
  \/ Forgotten

\* The steps that leave what the scheduler and the registry know of the hosts alone.
Bystander ==
  /\ UNCHANGED <<hostState, capacity, tracked, sweeping, raced>>
  /\ \A h \in Host : \A p \in {"add", "ready", "drain"} : ctl'[h][p] = ctl[h][p]

\* A call to the registry moves on, ends or comes in, and leaves all the others.
LEMMA CtlAt ==
  ASSUME TypeOK, NEW h \in Host, NEW p \in Stage, NEW q \in Stage, p # q
  PROVE  /\ Goes(h, p, q) =>
              /\ ctl[h][p] > 0 /\ ctl'[h][p] = ctl[h][p] - 1 /\ ctl'[h][q] = ctl[h][q] + 1
              /\ \A g \in Host, s \in Stage : g # h \/ s \notin {p, q} => ctl'[g][s] = ctl[g][s]
         /\ Finishes(h, p) =>
              /\ ctl[h][p] > 0 /\ ctl'[h][p] = ctl[h][p] - 1
              /\ \A g \in Host, s \in Stage : g # h \/ s # p => ctl'[g][s] = ctl[g][s]
         /\ ctl' = [ctl EXCEPT ![h][p] = @ + 1] =>
              \A g \in Host, s \in Stage : g # h \/ s # p => ctl'[g][s] = ctl[g][s]
<1>1. ctl \in [Host -> [Stage -> Nat]] /\ ctl[h] \in [Stage -> Nat]
  BY DEF TypeOK
<1>2. ASSUME Goes(h, p, q)
      PROVE  /\ ctl[h][p] > 0 /\ ctl'[h][p] = ctl[h][p] - 1 /\ ctl'[h][q] = ctl[h][q] + 1
             /\ \A g \in Host, s \in Stage : g # h \/ s \notin {p, q} => ctl'[g][s] = ctl[g][s]
  <2>1. ctl' = [ctl EXCEPT ![h] = [ctl[h] EXCEPT ![p] = ctl[h][p] - 1, ![q] = ctl[h][q] + 1]]
    BY <1>1, <1>2 DEF Goes
  <2>2. ctl'[h] = [ctl[h] EXCEPT ![p] = ctl[h][p] - 1, ![q] = ctl[h][q] + 1]
    BY <1>1, <2>1
  <2>3. \A g \in Host : g # h => ctl'[g] = ctl[g]
    BY <1>1, <2>1
  <2>4. ctl[h][p] > 0
    BY <1>2 DEF Goes
  <2> QED BY <1>1, <2>2, <2>3, <2>4
<1>3. ASSUME NEW k, ctl' = [ctl EXCEPT ![h] = [ctl[h] EXCEPT ![p] = k]]
      PROVE  /\ ctl'[h][p] = k
             /\ \A g \in Host, s \in Stage : g # h \/ s # p => ctl'[g][s] = ctl[g][s]
  BY <1>1, <1>3
<1>4. ASSUME Finishes(h, p)
      PROVE  /\ ctl[h][p] > 0 /\ ctl'[h][p] = ctl[h][p] - 1
             /\ \A g \in Host, s \in Stage : g # h \/ s # p => ctl'[g][s] = ctl[g][s]
  <2>1. ctl' = [ctl EXCEPT ![h] = [ctl[h] EXCEPT ![p] = ctl[h][p] - 1]] /\ ctl[h][p] > 0
    BY <1>1, <1>4 DEF Finishes
  <2> QED BY <1>3, <2>1
<1>5. ASSUME ctl' = [ctl EXCEPT ![h][p] = @ + 1]
      PROVE  \A g \in Host, s \in Stage : g # h \/ s # p => ctl'[g][s] = ctl[g][s]
  <2>1. ctl' = [ctl EXCEPT ![h] = [ctl[h] EXCEPT ![p] = ctl[h][p] + 1]]
    BY <1>1, <1>5
  <2> QED BY <1>3, <2>1
<1> QED BY <1>2, <1>4, <1>5

\* Handlers, guests, reports and the agents' own steps leave the hosts alone, but for
\* the slots that handlers and reports take and give back.
LEMMA Bystanders ==
  ASSUME TypeOK,
         \/ \E v \in VM : \/ Refuse(v) \/ AdmitFails(v) \/ Admit(v) \/ AskAgain(v)
                          \/ Handler(v) \/ handleDeleteVM(v)
         \/ \E c \in calls : handleStartVM(c)
         \/ \E h \in Host, v \in VM : \/ handleStopVM(h, v) \/ Expire(h, v)
                                      \/ ReportArrives(h, v) \/ ReportLost(h, v)
         \/ \E h \in Host : \/ watchExpiries(h) \/ SendRegister(h) \/ RegisterCut(h) \/ Lost(h)
                            \/ heartbeatFails(h) \/ AgentStarts(h) \/ Leave(h) \/ Exit(h)
                            \/ Crash(h)
         \/ UNCHANGED vars
  PROVE  Bystander /\ PoolStep
<1> USE DEF sched, registry
<1>0. {"register", "add", "ready", "deregister", "drain"} = Stage
  BY DEF Stage
<1>1. ASSUME NEW v \in VM,
             \/ Refuse(v) \/ AdmitFails(v) \/ Admit(v) \/ AskAgain(v)
             \/ Handler(v) \/ handleDeleteVM(v)
      PROVE  Bystander /\ PoolStep
  <2>1. CASE \/ Refuse(v) \/ AdmitFails(v) \/ AskAgain(v) \/ Boot(v) \/ BootReturns(v)
             \/ BootCut(v) \/ GiveUp(v)
    BY <2>1 DEF Refuse, AdmitFails, AskAgain, Boot, BootReturns, BootCut, GiveUp, Bystander,
                PoolStep
  <2>2. CASE Admit(v) \/ Retry(v)
    <3>1. S!Place(v) /\ UNCHANGED registry
      BY <2>2 DEF Admit, Retry, Placed
    <3>2. UNCHANGED <<hostState, capacity>>
      BY <3>1 DEF S!Place
    <3> QED BY <3>1, <3>2 DEF Bystander, PoolStep
  <2>3. CASE Release(v) \/ handleDeleteVM(v)
    <3>1. UNCHANGED registry /\ (S!Release(v) \/ UNCHANGED sched)
      BY <2>3 DEF Release, handleDeleteVM
    <3>2. UNCHANGED <<hostState, capacity>>
      BY <3>1 DEF S!Release
    <3> QED BY <3>1, <3>2 DEF Bystander, PoolStep
  <2> QED BY <1>1, <2>1, <2>2, <2>3 DEF Handler
<1>2. ASSUME NEW c \in calls, handleStartVM(c) PROVE Bystander /\ PoolStep
  BY <1>2 DEF handleStartVM, Bystander, PoolStep
<1>3. ASSUME NEW h \in Host, NEW v \in VM,
             handleStopVM(h, v) \/ Expire(h, v) \/ ReportArrives(h, v) \/ ReportLost(h, v)
      PROVE  Bystander /\ PoolStep
  <2>1. CASE ReportArrives(h, v)
    <3>1. UNCHANGED registry /\ (S!Release(v) \/ UNCHANGED sched)
      BY <2>1 DEF ReportArrives
    <3>2. UNCHANGED <<hostState, capacity>>
      BY <3>1 DEF S!Release
    <3> QED BY <3>1, <3>2 DEF Bystander, PoolStep
  <2>2. CASE handleStopVM(h, v) \/ Expire(h, v) \/ ReportLost(h, v)
    BY <2>2 DEF handleStopVM, Expire, ReportLost, Bystander, PoolStep
  <2> QED BY <1>3, <2>1, <2>2
<1>4. ASSUME NEW h \in Host,
             \/ watchExpiries(h) \/ RegisterCut(h) \/ heartbeatFails(h) \/ AgentStarts(h)
             \/ Exit(h) \/ Crash(h)
      PROVE  Bystander /\ PoolStep
  BY <1>4 DEF watchExpiries, RegisterCut, heartbeatFails, AgentStarts, Exit, Crash, Gone,
              Bystander, PoolStep
<1>5. ASSUME NEW h \in Host, SendRegister(h) \/ Lost(h) \/ Leave(h)
      PROVE  Bystander /\ PoolStep
  <2>1. UNCHANGED <<sched, tracked, sweeping, raced>>
    BY <1>5 DEF SendRegister, Lost, Leave
  <2>2. \E p \in {"register", "deregister"} :
          Finishes(h, p) \/ ctl' = [ctl EXCEPT ![h][p] = @ + 1]
    BY <1>5 DEF SendRegister, Lost, Leave
  <2>3. \A g \in Host : \A p \in {"add", "ready", "drain"} : ctl'[g][p] = ctl[g][p]
    <3>1. PICK p \in {"register", "deregister"} :
            Finishes(h, p) \/ ctl' = [ctl EXCEPT ![h][p] = @ + 1]
      BY <2>2
    <3>2. p \in Stage /\ "add" \in Stage /\ p # "add"
      BY <1>0
    <3>3. \A g \in Host, s \in Stage : g # h \/ s # p => ctl'[g][s] = ctl[g][s]
      BY <3>1, <3>2, CtlAt
    <3> QED BY <1>0, <3>3
  <2> QED BY <2>1, <2>3 DEF Bystander, PoolStep
<1>6. ASSUME UNCHANGED vars PROVE Bystander /\ PoolStep
  BY <1>6 DEF vars, Bystander, PoolStep
<1> QED BY <1>1, <1>2, <1>3, <1>4, <1>5, <1>6

\* The pool counts as this module does.
LEMMA SameFree == \A h : S!Free(h) = capacity[h] - Cardinality(Holders(h))
<1>1. \A T : S!Cardinality(T) = Cardinality(T)
  BY DEF S!Cardinality, Cardinality
<1> QED BY <1>1 DEF S!Free, Holders

\* A microVM gets a slot of an open host, which had one to give.
LEMMA PlacedKeepsSlots ==
  ASSUME TypeOK, \A h \in Host : Slotted(h), NEW v \in VM, S!Place(v)
  PROVE  \A h \in Host : Slotted(h)'
<1>1. PICK g \in Host : /\ hostState[g] = "Ready" /\ S!Free(g) >= 1
                        /\ assigned' = [assigned EXCEPT ![v] = g]
  BY DEF S!Place, S!Eligible, S!Open
<1>2. assigned[v] = NoHost /\ UNCHANGED <<hostState, capacity>>
  BY DEF S!Place
<1>3. Holders(g)' = Holders(g) \cup {v} /\ v \notin Holders(g)
  BY <1>1, <1>2, SystemAssumption DEF Holders, TypeOK
<1>4. ASSUME NEW h \in Host, h # g PROVE Holders(h)' = Holders(h)
  BY <1>1, <1>2, <1>4, SystemAssumption DEF Holders, TypeOK
<1>5. IsFiniteSet(Holders(g)') /\ Cardinality(Holders(g)') <= capacity[g]
  <2>1. PICK k \in Nat : k = Cardinality(Holders(g)) /\ k <= capacity[g] /\ IsFiniteSet(Holders(g))
    BY FS_CardinalityType DEF Slotted
  <2>2. k + 1 <= capacity[g]
    BY <1>1, <2>1, SameFree DEF TypeOK
  <2>3. /\ IsFiniteSet(Holders(g) \cup {v})
        /\ Cardinality(Holders(g) \cup {v}) = Cardinality(Holders(g)) + 1
    BY <1>3, <2>1, FS_AddElement
  <2> QED BY <1>3, <2>1, <2>2, <2>3
<1> SUFFICES ASSUME NEW h \in Host PROVE Slotted(h)'
  OBVIOUS
<1>6. CASE h = g
  BY <1>2, <1>5, <1>6 DEF Slotted
<1>7. CASE h # g
  BY <1>2, <1>4, <1>7 DEF Slotted
<1> QED BY <1>6, <1>7

\* Where slots are given back, no more are taken than before.
LEMMA FewerHolders ==
  ASSUME NEW h \in Host, Slotted(h), Holders(h)' \subseteq Holders(h), capacity[h] \in Nat
  PROVE  IsFiniteSet(Holders(h)') /\ Cardinality(Holders(h)') <= capacity[h]
<1>1. IsFiniteSet(Holders(h)) /\ Cardinality(Holders(h)) <= capacity[h]
  BY DEF Slotted
<1>2. IsFiniteSet(Holders(h)') /\ Cardinality(Holders(h)') <= Cardinality(Holders(h))
  BY <1>1, FS_Subset
<1>3. Cardinality(Holders(h)') \in Nat /\ Cardinality(Holders(h)) \in Nat
  BY <1>1, <1>2, FS_CardinalityType
<1> QED BY <1>1, <1>2, <1>3

\* A host the scheduler does not know holds nothing.
LEMMA NoHolders ==
  ASSUME NEW h \in Host, Holders(h)' = {}, hostState'[h] = "Absent", capacity'[h] = 0
  PROVE  Slotted(h)'
<1>1. IsFiniteSet({}) /\ Cardinality({}) = 0
  BY FS_EmptySet
<1> QED BY <1>1 DEF Slotted

\* Every use of the scheduler keeps within the slots.
LEMMA PoolStepKeepsSlots ==
  ASSUME TypeOK, \A h \in Host : Slotted(h), PoolStep
  PROVE  \A h \in Host : Slotted(h)'
<1>0. \A h \in Host : capacity[h] \in Nat /\ h # NoHost /\ Slots \in Nat
  BY SystemAssumption DEF TypeOK
<1> SUFFICES ASSUME NEW h \in Host, \A v \in VM : ~S!Place(v) PROVE Slotted(h)'
  BY PlacedKeepsSlots
<1>1. CASE UNCHANGED sched
  BY <1>1 DEF sched, Slotted, Holders
<1>2. ASSUME NEW v \in VM, S!Release(v) PROVE Slotted(h)'
  <2>1. Holders(h)' \subseteq Holders(h) /\ UNCHANGED <<hostState, capacity>>
    BY <1>0, <1>2 DEF S!Release, Holders, TypeOK
  <2>2. IsFiniteSet(Holders(h)') /\ Cardinality(Holders(h)') <= capacity[h]
    BY <1>0, <2>1, FewerHolders
  <2> QED BY <2>1, <2>2 DEF Slotted
<1>3. ASSUME NEW g \in Host, Added(g) PROVE Slotted(h)'
  <2>1. Holders(h)' = Holders(h)
    BY <1>3 DEF Added, Holders
  <2>2. capacity'[h] = IF hostState'[h] = "Absent" THEN 0 ELSE Slots
    BY <1>3 DEF Added, Slotted, TypeOK
  <2>3. capacity[h] <= capacity'[h] /\ capacity'[h] \in Nat
    BY <1>0, <1>3 DEF Added, Slotted, TypeOK
  <2>4. IsFiniteSet(Holders(h)) /\ Cardinality(Holders(h)) <= capacity[h] /\ Cardinality(Holders(h)) \in Nat
    BY FS_CardinalityType DEF Slotted
  <2> QED BY <1>0, <2>1, <2>2, <2>3, <2>4 DEF Slotted
<1>4. ASSUME NEW g \in Host, NEW s \in {"Ready", "Draining"}, S!SetHostState(g, s)
      PROVE  Slotted(h)'
  <2>1. /\ hostState[g] # "Absent" /\ hostState' = [hostState EXCEPT ![g] = s]
        /\ UNCHANGED <<capacity, assigned>>
    BY <1>4 DEF S!SetHostState
  <2>2. hostState'[h] = "Absent" <=> hostState[h] = "Absent"
    BY <2>1 DEF TypeOK
  <2> QED BY <2>1, <2>2 DEF Slotted, Holders
<1>5. ASSUME NEW g \in Host, S!RemoveHost(g) PROVE Slotted(h)'
  <2>1. /\ hostState' = [hostState EXCEPT ![g] = "Absent"] /\ capacity' = [capacity EXCEPT ![g] = 0]
        /\ assigned' = [v \in VM |-> IF assigned[v] = g THEN NoHost ELSE assigned[v]]
    BY <1>5 DEF S!RemoveHost
  <2>2. CASE h = g
    <3>1. Holders(h)' = {} /\ capacity'[h] = 0 /\ hostState'[h] = "Absent"
      BY <1>0, <2>1, <2>2 DEF Holders, TypeOK
    <3> QED BY <3>1, NoHolders
  <2>3. CASE h # g
    <3>1. /\ Holders(h)' \subseteq Holders(h)
          /\ capacity'[h] = capacity[h] /\ hostState'[h] = hostState[h]
      BY <1>0, <2>1, <2>3 DEF Holders, TypeOK
    <3>2. IsFiniteSet(Holders(h)') /\ Cardinality(Holders(h)') <= capacity[h]
      BY <1>0, <3>1, FewerHolders
    <3> QED BY <3>1, <3>2 DEF Slotted
  <2> QED BY <2>2, <2>3
<1>6. ASSUME Forgotten PROVE Slotted(h)'
  <2>1. hostState'[h] = "Absent" /\ capacity'[h] = 0 /\ Holders(h)' = {}
    BY <1>0, <1>6 DEF Forgotten, Holders
  <2> QED BY <2>1, NoHolders
<1> QED BY <1>1, <1>2, <1>3, <1>4, <1>5, <1>6 DEF PoolStep

\* How many calls to the registry are at work on h, and whether the sweep is.
Working(h) == ctl[h]["add"] + ctl[h]["ready"] + ctl[h]["drain"]
Sweeping(h) == sweeping[h] \in {"drain", "remove"}

\* Where no two operations met there is one at a time, a registration finds the host
\* tracked until it is done, a deregistration and the sweep find it untracked, and it is
\* known to the scheduler when it is to be made ready.
Alone(h) ==
  h \notin raced =>
    /\ Working(h) <= 1 /\ (Sweeping(h) => Working(h) = 0)
    /\ ctl[h]["add"] > 0 \/ ctl[h]["ready"] > 0 => h \in tracked
    /\ ctl[h]["ready"] > 0 => hostState[h] # "Absent"
    /\ ctl[h]["drain"] > 0 \/ Sweeping(h) => h \notin tracked
    /\ Working(h) = 0 /\ ~Sweeping(h) => (h \in tracked <=> hostState[h] = "Ready")

\* Busy in numbers.
LEMMA BusyMeans ==
  ASSUME TypeOK, NEW h \in Host
  PROVE  /\ \A p \in {"add", "ready", "drain", "register", "deregister"} : ctl[h][p] \in Nat
         /\ InHand(h) <=> Working(h) > 0
         /\ Busy(h) <=> Working(h) > 0 \/ Sweeping(h)
<1>1. \A p \in {"add", "ready", "drain", "register", "deregister"} : ctl[h][p] \in Nat
  BY DEF TypeOK, Stage
<1>2. InHand(h) <=> Working(h) > 0
  BY <1>1 DEF InHand, Working
<1> QED BY <1>1, <1>2 DEF Busy, Sweeping

\* An operation that begins finds h idle, or is noted in raced.
LEMMA BeginsAlone ==
  ASSUME TypeOK, NEW h \in Host, Begins(h), h \notin raced'
  PROVE  h \notin raced /\ Working(h) = 0 /\ ~Sweeping(h)
<1>1. h \notin raced /\ ~Busy(h)
  BY DEF Begins
<1>2. ~(Working(h) > 0) /\ ~Sweeping(h)
  BY <1>1, BusyMeans
<1>3. Working(h) \in Nat
  BY BusyMeans DEF Working
<1> QED BY <1>1, <1>2, <1>3

\* A host keeps what no step changes.
LEMMA AloneKeeps ==
  ASSUME NEW h \in Host, Alone(h), hostState'[h] = hostState[h], h \in tracked' <=> h \in tracked,
         \A p \in {"add", "ready", "drain"} : ctl'[h][p] = ctl[h][p],
         sweeping'[h] = sweeping[h], h \in raced' <=> h \in raced
  PROVE  Alone(h)'
BY DEF Alone, Working, Sweeping

\* A registration, step by step.
LEMMA RegisterAlone ==
  ASSUME TypeOK, NEW h \in Host, Alone(h),
         RegisterArrives(h) \/ RegisterAdds(h) \/ RegisterReadies(h)
  PROVE  /\ Alone(h)' /\ PoolStep
         /\ \A g \in Host : g # h =>
              /\ hostState'[g] = hostState[g] /\ (g \in tracked' <=> g \in tracked)
              /\ \A p \in {"add", "ready", "drain"} : ctl'[g][p] = ctl[g][p]
              /\ sweeping'[g] = sweeping[g] /\ (g \in raced' <=> g \in raced)
<1> USE DEF sched
<1>0. {"register", "add", "ready", "deregister", "drain"} = Stage
  BY DEF Stage
<1>1. CASE RegisterArrives(h) /\ h \in tracked
  <2>1. /\ Finishes(h, "register") /\ tracked' = tracked
        /\ UNCHANGED <<sched, sweeping, raced>>
    BY <1>1 DEF RegisterArrives
  <2>2. \A g \in Host, s \in Stage : g # h \/ s # "register" => ctl'[g][s] = ctl[g][s]
    BY <1>0, <2>1, CtlAt
  <2>3. \A g \in Host : \A p \in {"add", "ready", "drain"} : ctl'[g][p] = ctl[g][p]
    BY <1>0, <2>2
  <2> QED BY <2>1, <2>3, AloneKeeps DEF PoolStep
<1>2. CASE RegisterArrives(h) /\ h \notin tracked
  <2>1. /\ Goes(h, "register", "add") /\ Begins(h) /\ tracked' = tracked \cup {h}
        /\ UNCHANGED <<sched, sweeping>>
    BY <1>2 DEF RegisterArrives
  <2>2. /\ ctl'[h]["add"] = ctl[h]["add"] + 1
        /\ \A g \in Host, s \in Stage : g # h \/ s \notin {"register", "add"} => ctl'[g][s] = ctl[g][s]
    BY <1>0, <2>1, CtlAt
  <2>3. /\ ctl'[h]["ready"] = ctl[h]["ready"] /\ ctl'[h]["drain"] = ctl[h]["drain"]
        /\ \A g \in Host : g # h => \A p \in {"add", "ready", "drain"} : ctl'[g][p] = ctl[g][p]
    BY <1>0, <2>2
  <2>4. h \notin raced' => h \notin raced /\ Working(h) = 0 /\ ~Sweeping(h)
    BY <2>1, BeginsAlone
  <2>5. Alone(h)'
    <3> SUFFICES ASSUME h \notin raced' PROVE Alone(h)'
      BY DEF Alone
    <3>1. ctl'[h]["add"] = 1 /\ ctl'[h]["ready"] = 0 /\ ctl'[h]["drain"] = 0
      BY <2>2, <2>3, <2>4, BusyMeans DEF Working
    <3>2. h \in tracked' /\ ~Sweeping(h)'
      BY <2>1, <2>4 DEF Sweeping
    <3> QED BY <3>1, <3>2 DEF Alone, Working
  <2> QED BY <2>1, <2>3, <2>5 DEF PoolStep, Begins
<1>3. CASE RegisterAdds(h)
  <2>1. /\ Goes(h, "add", "ready") /\ UNCHANGED <<tracked, sweeping, raced>>
        /\ Added(h) \/ (hostState[h] # "Absent" /\ UNCHANGED sched)
    BY <1>3 DEF RegisterAdds, Added
  <2>2. /\ ctl[h]["add"] > 0
        /\ ctl'[h]["add"] = ctl[h]["add"] - 1 /\ ctl'[h]["ready"] = ctl[h]["ready"] + 1
        /\ \A g \in Host, s \in Stage : g # h \/ s \notin {"ready", "add"} => ctl'[g][s] = ctl[g][s]
    BY <1>0, <2>1, CtlAt
  <2>3. /\ ctl'[h]["drain"] = ctl[h]["drain"]
        /\ \A g \in Host : g # h => \A p \in {"add", "ready", "drain"} : ctl'[g][p] = ctl[g][p]
    BY <1>0, <2>2
  <2>4. hostState'[h] # "Absent" /\ \A g \in Host : g # h => hostState'[g] = hostState[g]
    BY <2>1 DEF Added, TypeOK
  <2>5. Alone(h)'
    <3> SUFFICES ASSUME h \notin raced PROVE Alone(h)'
      BY <2>1 DEF Alone
    <3>0. /\ ctl[h]["add"] \in Nat /\ ctl[h]["ready"] \in Nat /\ ctl[h]["drain"] \in Nat
          /\ ctl[h]["add"] + ctl[h]["ready"] + ctl[h]["drain"] <= 1
      BY BusyMeans DEF Alone, Working
    <3>1. /\ h \in tracked /\ ~Sweeping(h)
          /\ ctl'[h]["add"] = 0 /\ ctl'[h]["ready"] = 1 /\ ctl'[h]["drain"] = 0
      <4>1. ctl'[h]["add"] = 0 /\ ctl'[h]["ready"] = 1 /\ ctl'[h]["drain"] = 0
        BY <2>2, <2>3, <3>0
      <4> QED BY <2>2, <3>0, <4>1 DEF Alone, Working
    <3>2. h \in tracked' /\ ~Sweeping(h)'
      BY <2>1, <3>1 DEF Sweeping
    <3> QED BY <2>4, <3>1, <3>2 DEF Alone, Working
  <2> QED BY <2>1, <2>3, <2>4, <2>5 DEF PoolStep
<1>4. CASE RegisterReadies(h)
  <2>1. /\ Finishes(h, "ready") /\ UNCHANGED <<tracked, sweeping, raced>>
        /\ \/ hostState[h] # "Absent" /\ S!SetHostState(h, "Ready")
           \/ hostState[h] = "Absent" /\ UNCHANGED sched
    BY <1>4 DEF RegisterReadies
  <2>2. /\ ctl[h]["ready"] > 0 /\ ctl'[h]["ready"] = ctl[h]["ready"] - 1
        /\ \A g \in Host, s \in Stage : g # h \/ s # "ready" => ctl'[g][s] = ctl[g][s]
    BY <1>0, <2>1, CtlAt
  <2>3. /\ ctl'[h]["drain"] = ctl[h]["drain"] /\ ctl'[h]["add"] = ctl[h]["add"]
        /\ \A g \in Host : g # h => \A p \in {"add", "ready", "drain"} : ctl'[g][p] = ctl[g][p]
    BY <1>0, <2>2
  <2>4. /\ hostState[h] # "Absent" => hostState'[h] = "Ready"
        /\ \A g \in Host : g # h => hostState'[g] = hostState[g]
    BY <2>1 DEF S!SetHostState, TypeOK
  <2>5. Alone(h)'
    <3> SUFFICES ASSUME h \notin raced PROVE Alone(h)'
      BY <2>1 DEF Alone
    <3>0. /\ ctl[h]["add"] \in Nat /\ ctl[h]["ready"] \in Nat /\ ctl[h]["drain"] \in Nat
          /\ ctl[h]["add"] + ctl[h]["ready"] + ctl[h]["drain"] <= 1
      BY BusyMeans DEF Alone, Working
    <3>1. ctl'[h]["add"] = 0 /\ ctl'[h]["ready"] = 0 /\ ctl'[h]["drain"] = 0
      BY <2>2, <2>3, <3>0
    <3>2. h \in tracked /\ hostState[h] # "Absent" /\ ~Sweeping(h)
      BY <2>2, <3>0 DEF Alone, Working
    <3>3. h \in tracked' /\ ~Sweeping(h)' /\ hostState'[h] = "Ready"
      BY <2>1, <2>4, <3>1, <3>2 DEF Sweeping
    <3> QED BY <3>1, <3>3 DEF Alone, Working
  <2> QED BY <2>1, <2>3, <2>4, <2>5 DEF PoolStep
<1> QED BY <1>1, <1>2, <1>3, <1>4

\* A deregistration, step by step.
LEMMA DeregisterAlone ==
  ASSUME TypeOK, NEW h \in Host, Alone(h), DeregisterArrives(h) \/ DeregisterDrains(h)
  PROVE  /\ Alone(h)' /\ PoolStep
         /\ \A g \in Host : g # h =>
              /\ hostState'[g] = hostState[g] /\ (g \in tracked' <=> g \in tracked)
              /\ \A p \in {"add", "ready", "drain"} : ctl'[g][p] = ctl[g][p]
              /\ sweeping'[g] = sweeping[g] /\ (g \in raced' <=> g \in raced)
<1> USE DEF sched
<1>0. {"register", "add", "ready", "deregister", "drain"} = Stage
  BY DEF Stage
<1>1. CASE DeregisterArrives(h) /\ h \notin tracked
  <2>1. /\ Finishes(h, "deregister") /\ tracked' = tracked
        /\ UNCHANGED <<sched, sweeping, raced>>
    BY <1>1 DEF DeregisterArrives
  <2>2. \A g \in Host, s \in Stage : g # h \/ s # "deregister" => ctl'[g][s] = ctl[g][s]
    BY <1>0, <2>1, CtlAt
  <2>3. \A g \in Host : \A p \in {"add", "ready", "drain"} : ctl'[g][p] = ctl[g][p]
    BY <1>0, <2>2
  <2> QED BY <2>1, <2>3, AloneKeeps DEF PoolStep
<1>2. CASE DeregisterArrives(h) /\ h \in tracked
  <2>1. /\ Goes(h, "deregister", "drain") /\ Begins(h) /\ tracked' = tracked \ {h}
        /\ UNCHANGED <<sched, sweeping>>
    BY <1>2 DEF DeregisterArrives
  <2>2. /\ ctl'[h]["drain"] = ctl[h]["drain"] + 1
        /\ \A g \in Host, s \in Stage : g # h \/ s \notin {"deregister", "drain"} => ctl'[g][s] = ctl[g][s]
    BY <1>0, <2>1, CtlAt
  <2>3. /\ ctl'[h]["ready"] = ctl[h]["ready"] /\ ctl'[h]["add"] = ctl[h]["add"]
        /\ \A g \in Host : g # h => \A p \in {"add", "ready", "drain"} : ctl'[g][p] = ctl[g][p]
    BY <1>0, <2>2
  <2>4. h \notin raced' => h \notin raced /\ Working(h) = 0 /\ ~Sweeping(h)
    BY <2>1, BeginsAlone
  <2>5. Alone(h)'
    <3> SUFFICES ASSUME h \notin raced' PROVE Alone(h)'
      BY DEF Alone
    <3>1. ctl'[h]["add"] = 0 /\ ctl'[h]["ready"] = 0 /\ ctl'[h]["drain"] = 1
      BY <2>2, <2>3, <2>4, BusyMeans DEF Working
    <3>2. h \notin tracked' /\ ~Sweeping(h)'
      BY <2>1, <2>4 DEF Sweeping
    <3> QED BY <3>1, <3>2 DEF Alone, Working
  <2> QED BY <2>1, <2>3, <2>5 DEF PoolStep, Begins
<1>3. CASE DeregisterDrains(h)
  <2>1. /\ Finishes(h, "drain") /\ Drain(h) /\ UNCHANGED <<tracked, sweeping, raced>>
    BY <1>3 DEF DeregisterDrains
  <2>2. /\ ctl[h]["drain"] > 0 /\ ctl'[h]["drain"] = ctl[h]["drain"] - 1
        /\ \A g \in Host, s \in Stage : g # h \/ s # "drain" => ctl'[g][s] = ctl[g][s]
    BY <1>0, <2>1, CtlAt
  <2>3. /\ ctl'[h]["ready"] = ctl[h]["ready"] /\ ctl'[h]["add"] = ctl[h]["add"]
        /\ \A g \in Host : g # h => \A p \in {"add", "ready", "drain"} : ctl'[g][p] = ctl[g][p]
    BY <1>0, <2>2
  <2>4. hostState'[h] # "Ready" /\ \A g \in Host : g # h => hostState'[g] = hostState[g]
    BY <2>1 DEF Drain, S!SetHostState, TypeOK
  <2>5. Alone(h)'
    <3> SUFFICES ASSUME h \notin raced PROVE Alone(h)'
      BY <2>1 DEF Alone
    <3>1. /\ h \notin tracked
          /\ ctl'[h]["add"] = 0 /\ ctl'[h]["ready"] = 0 /\ ctl'[h]["drain"] = 0
      BY <2>2, <2>3, BusyMeans DEF Alone, Working
    <3>2. ~Sweeping(h)
      BY <2>2, BusyMeans DEF Alone, Working
    <3>3. h \notin tracked' /\ ~Sweeping(h)'
      BY <2>1, <3>1, <3>2 DEF Sweeping
    <3> QED BY <2>4, <3>1, <3>3 DEF Alone, Working
  <2> QED BY <2>1, <2>3, <2>4, <2>5 DEF PoolStep, Drain
<1> QED BY <1>1, <1>2, <1>3

\* The sweep, step by step; with the host it removes, what two operations left of it goes.
LEMMA SweepAlone ==
  ASSUME TypeOK, NEW h \in Host, Alone(h),
         \/ Sweep(h) \/ SweepDrains(h) \/ reapSnapshot(h) \/ reapLooksAt(h) \/ reapRemoves(h)
  PROVE  /\ Alone(h)' /\ PoolStep
         /\ \A g \in Host : g # h =>
              /\ hostState'[g] = hostState[g] /\ (g \in tracked' <=> g \in tracked)
              /\ \A p \in {"add", "ready", "drain"} : ctl'[g][p] = ctl[g][p]
              /\ sweeping'[g] = sweeping[g] /\ (g \in raced' <=> g \in raced)
<1> USE DEF sched
<1>1. /\ ctl' = ctl /\ Working(h)' = Working(h)
      /\ \A g \in Host : g # h => sweeping'[g] = sweeping[g]
  BY DEF Sweep, SweepDrains, reapSnapshot, reapLooksAt, reapRemoves, Working, TypeOK
<1>2. CASE Sweep(h)
  <2>1. /\ tracked' = tracked \ {h} /\ Begins(h) /\ UNCHANGED sched /\ sweeping'[h] = "drain"
    BY <1>2 DEF Sweep, TypeOK
  <2>2. h \notin raced' => h \notin raced /\ Working(h) = 0
    BY <2>1, BeginsAlone
  <2>3. Alone(h)'
    BY <1>1, <2>1, <2>2, BusyMeans DEF Alone, Sweeping, Working
  <2> QED BY <1>1, <2>1, <2>3 DEF PoolStep, Begins
<1>3. CASE SweepDrains(h)
  <2>1. /\ sweeping[h] = "drain" /\ Drain(h) /\ UNCHANGED <<tracked, raced>> /\ sweeping'[h] = "no"
    BY <1>3 DEF SweepDrains, TypeOK
  <2>2. hostState'[h] # "Ready" /\ \A g \in Host : g # h => hostState'[g] = hostState[g]
    BY <2>1 DEF Drain, S!SetHostState, TypeOK
  <2>3. Alone(h)'
    BY <1>1, <2>1, <2>2, BusyMeans DEF Alone, Sweeping, Working
  <2> QED BY <1>1, <2>1, <2>2, <2>3 DEF PoolStep, Drain
<1>4. CASE reapSnapshot(h)
  <2>1. /\ sweeping[h] = "no" /\ UNCHANGED <<sched, tracked, raced>> /\ sweeping'[h] = "snap"
    BY <1>4 DEF reapSnapshot, TypeOK
  <2>2. Alone(h)'
    BY <1>1, <2>1 DEF Alone, Sweeping
  <2> QED BY <1>1, <2>1, <2>2 DEF PoolStep
<1>5. CASE reapLooksAt(h)
  <2>1. /\ sweeping[h] = "snap" /\ UNCHANGED <<sched, tracked>>
        /\ \/ h \in tracked /\ sweeping'[h] = "no" /\ UNCHANGED raced
           \/ h \notin tracked /\ sweeping'[h] = "remove" /\ Begins(h)
    BY <1>5 DEF reapLooksAt, TypeOK
  <2>2. h \notin tracked /\ h \notin raced' => h \notin raced /\ Working(h) = 0
    BY <2>1, BeginsAlone
  <2>3. Alone(h)'
    BY <1>1, <2>1, <2>2, BusyMeans DEF Alone, Sweeping, Working
  <2> QED BY <1>1, <2>1, <2>3 DEF PoolStep, Begins
<1>6. CASE reapRemoves(h)
  <2>1. /\ sweeping[h] = "remove" /\ UNCHANGED tracked /\ sweeping'[h] = "no"
        /\ \/ S!RemoveHost(h) \/ (hostState[h] = "Absent" /\ UNCHANGED sched)
        /\ raced' = IF h \in tracked \/ InHand(h) THEN raced ELSE raced \ {h}
    BY <1>6 DEF reapRemoves, TypeOK
  <2>2. hostState'[h] = "Absent" /\ \A g \in Host : g # h => hostState'[g] = hostState[g]
    BY <2>1 DEF S!RemoveHost, TypeOK
  <2>3. h \notin raced' => h \notin tracked /\ Working(h) = 0
    BY <2>1, BusyMeans DEF Alone, Sweeping, Working
  <2>4. Alone(h)'
    <3> SUFFICES ASSUME h \notin raced' PROVE Alone(h)'
      BY DEF Alone
    <3>1. ctl[h]["add"] = 0 /\ ctl[h]["ready"] = 0 /\ ctl[h]["drain"] = 0
      BY <2>3, BusyMeans DEF Working
    <3> QED BY <1>1, <2>1, <2>2, <2>3, <3>1 DEF Alone, Sweeping, Working
  <2> QED BY <1>1, <2>1, <2>2, <2>4 DEF PoolStep
<1> QED BY <1>2, <1>3, <1>4, <1>5, <1>6

\* A restart leaves nothing in hand.
LEMMA RestartAlone ==
  ASSUME TypeOK, ApiRestarts
  PROVE  Forgotten /\ \A h \in Host : Alone(h)'
<1>1. Forgotten
  BY DEF ApiRestarts, Forgotten
<1>2. ASSUME NEW h \in Host PROVE Alone(h)'
  <2>1. ctl'[h]["add"] = 0 /\ ctl'[h]["ready"] = 0 /\ ctl'[h]["drain"] = 0
    BY DEF ApiRestarts, Stage
  <2>2. h \notin tracked' /\ hostState'[h] = "Absent" /\ sweeping'[h] = "no"
    BY DEF ApiRestarts
  <2> QED BY <2>1, <2>2 DEF Alone, Sweeping, Working
<1> QED BY <1>1, <1>2

\* Every step keeps both halves.
LEMMA StepsOfTheFleet ==
  ASSUME TypeOK, \A h \in Host : Alone(h), [Next]_vars
  PROVE  PoolStep /\ \A h \in Host : Alone(h)'
<1>1. CASE Bystander /\ PoolStep
  <2>1. ASSUME NEW h \in Host PROVE Alone(h)'
    BY <1>1, AloneKeeps DEF Bystander
  <2> QED BY <1>1, <2>1
<1>2. ASSUME NEW h \in Host,
             \/ Registering(h) \/ Sweep(h) \/ reapSnapshot(h) \/ reapLooksAt(h)
      PROVE  PoolStep /\ \A g \in Host : Alone(g)'
  <2>1. /\ Alone(h)' /\ PoolStep
        /\ \A g \in Host : g # h =>
             /\ hostState'[g] = hostState[g] /\ (g \in tracked' <=> g \in tracked)
             /\ \A p \in {"add", "ready", "drain"} : ctl'[g][p] = ctl[g][p]
             /\ sweeping'[g] = sweeping[g] /\ (g \in raced' <=> g \in raced)
    <3>1. CASE RegisterArrives(h) \/ RegisterAdds(h) \/ RegisterReadies(h)
      BY <3>1, RegisterAlone
    <3>2. CASE DeregisterArrives(h) \/ DeregisterDrains(h)
      BY <3>2, DeregisterAlone
    <3>3. CASE \/ Sweep(h) \/ SweepDrains(h) \/ reapSnapshot(h) \/ reapLooksAt(h)
               \/ reapRemoves(h)
      BY <3>3, SweepAlone
    <3> QED BY <1>2, <3>1, <3>2, <3>3 DEF Registering
  <2>2. ASSUME NEW g \in Host, g # h PROVE Alone(g)'
    <3>1. /\ hostState'[g] = hostState[g] /\ (g \in tracked' <=> g \in tracked)
          /\ \A p \in {"add", "ready", "drain"} : ctl'[g][p] = ctl[g][p]
          /\ sweeping'[g] = sweeping[g] /\ (g \in raced' <=> g \in raced)
      BY <2>1, <2>2
    <3> QED BY <3>1, AloneKeeps
  <2> QED BY <2>1, <2>2
<1>3. CASE ApiRestarts
  BY <1>3, RestartAlone DEF PoolStep
<1>4. \/ (Bystander /\ PoolStep) \/ ApiRestarts
      \/ \E h \in Host : Registering(h) \/ Sweep(h) \/ reapSnapshot(h) \/ reapLooksAt(h)
  <2> SUFFICES ASSUME ~ApiRestarts,
                      \A h \in Host : ~(Registering(h) \/ Sweep(h) \/ reapSnapshot(h)
                                        \/ reapLooksAt(h))
               PROVE  Bystander /\ PoolStep
    OBVIOUS
  <2> QED BY Bystanders DEF Next
<1> QED BY <1>1, <1>2, <1>3, <1>4

\* The inductive invariant of the fleet: slots within bounds, operations one at a time.
LEMMA FleetInvariant == Spec => [](\A h \in Host : Slotted(h) /\ Alone(h))
<1>1. Init => \A h \in Host : Slotted(h) /\ Alone(h)
  <2> SUFFICES ASSUME Init, NEW h \in Host PROVE Slotted(h) /\ Alone(h)
    OBVIOUS
  <2>1. hostState[h] = "Absent" /\ capacity[h] = 0 /\ Holders(h) = {}
    BY SystemAssumption DEF Init, S!Init, Holders
  <2>2. IsFiniteSet({}) /\ Cardinality({}) = 0
    BY FS_EmptySet
  <2>3. ctl[h]["add"] = 0 /\ ctl[h]["ready"] = 0 /\ ctl[h]["drain"] = 0
    BY DEF Init, Stage
  <2>4. h \notin tracked /\ sweeping[h] = "no"
    BY DEF Init
  <2> QED BY <2>1, <2>2, <2>3, <2>4 DEF Slotted, Alone, Sweeping, Working
<1>2. TypeOK /\ (\A h \in Host : Slotted(h) /\ Alone(h)) /\ [Next]_vars =>
        (\A h \in Host : Slotted(h) /\ Alone(h))'
  BY StepsOfTheFleet, PoolStepKeepsSlots
<1> QED BY <1>1, <1>2, TypeCorrect, PTL DEF Spec

\* However registrations, deregistrations, sweeps and restarts of the API alternate with
\* lost and late calls, the scheduler has for every host it knows the slots its agent has,
\* and never places more microVMs there; one that is removed or forgotten holds none.
\* And between operations it serves exactly the hosts whose heartbeats the registry
\* counts, but for a host of which two operations overlapped: no lock spans the critical
\* sections of one (registry.go:118-146, 160-174, 178-205, 209-242).
THEOREM ServedHostsAreTracked == Spec => []FleetInv
<1>1. TypeOK /\ (\A h \in Host : Slotted(h) /\ Alone(h)) => FleetInv
  <2> SUFFICES ASSUME TypeOK, NEW h \in Host, Slotted(h), Alone(h), h \notin raced, ~Busy(h)
               PROVE  h \in tracked <=> hostState[h] = "Ready"
    BY DEF FleetInv
  <2>1. ~(Working(h) > 0) /\ ~Sweeping(h) /\ Working(h) \in Nat
    BY BusyMeans DEF Working
  <2> QED BY <2>1 DEF Alone
<1> QED BY <1>1, FleetInvariant, TypeCorrect, PTL

\* The composed system uses the scheduler by its methods only: a step is one step of the
\* SlotPool, or the restart of the API.
THEOREM SystemUsesTheSlotPool == Spec => [][S!Next \/ Forgotten]_sched
<1>1. TypeOK /\ (\A h \in Host : Slotted(h) /\ Alone(h)) /\ [Next]_vars =>
        [S!Next \/ Forgotten]_sched
  <2> SUFFICES ASSUME TypeOK, PoolStep PROVE S!Next \/ Forgotten \/ UNCHANGED sched
    BY StepsOfTheFleet
  <2>1. ASSUME NEW h \in Host, Added(h) PROVE S!AddHost(h)
    <3>1. capacity'[h] = Slots /\ Slots \in Nat /\ Slots >= 2
      BY <2>1, SystemAssumption DEF Added, TypeOK
    <3> QED BY <2>1, <3>1 DEF Added, S!AddHost
  <2> QED BY <2>1 DEF PoolStep, S!Next
<1> QED BY <1>1, TypeCorrect, FleetInvariant, PTL DEF Spec
-----------------------------------------------------------------------------
(* The agents' own side. *)

\* An agent runs no more guests than it has slots, and one that is down runs nothing and
\* has nothing to report: what a crash leaves behind is with the API alone.
AgentInv ==
  \A h \in Host :
    /\ IsFiniteSet(guests[h]) /\ Cardinality(guests[h]) <= Slots
    /\ agent[h] = "down" => guests[h] = {} /\ notices[h] = <<>>

\* Where guests end, an agent keeps within its slots.
LEMMA FewerGuests ==
  ASSUME AgentInv, NEW h \in Host, guests'[h] \subseteq guests[h]
  PROVE  IsFiniteSet(guests'[h]) /\ Cardinality(guests'[h]) <= Slots
<1>1. IsFiniteSet(guests[h]) /\ Cardinality(guests[h]) <= Slots /\ Slots \in Nat
  BY SystemAssumption DEF AgentInv
<1>2. IsFiniteSet(guests'[h]) /\ Cardinality(guests'[h]) <= Cardinality(guests[h])
  BY <1>1, FS_Subset
<1>3. Cardinality(guests'[h]) \in Nat /\ Cardinality(guests[h]) \in Nat
  BY <1>1, <1>2, FS_CardinalityType
<1> QED BY <1>1, <1>2, <1>3

\* handleStartVM adds a guest only below the number of slots, on an agent that is there.
LEMMA StartKeepsAgents ==
  ASSUME TypeOK, AgentInv, NEW c \in calls, handleStartVM(c)
  PROVE  AgentInv'
<1>1. /\ c.host \in Host /\ c.vm \in VM /\ agent[c.host] # "down" /\ UNCHANGED <<agent, notices>>
      /\ \/ /\ ~StartErr(c.host, c.vm)
            /\ guests' = [guests EXCEPT ![c.host] = guests[c.host] \cup {c.vm}]
         \/ UNCHANGED guests
  BY DEF handleStartVM, TypeOK
<1>2. PICK g \in Host, v \in VM : g = c.host /\ v = c.vm
  BY <1>1
<1>3. CASE UNCHANGED guests
  BY <1>1, <1>3 DEF AgentInv
<1>4. CASE ~StartErr(g, v) /\ guests' = [guests EXCEPT ![g] = guests[g] \cup {v}]
  <2>1. PICK k \in Nat : k = Cardinality(guests[g]) /\ IsFiniteSet(guests[g])
    BY FS_CardinalityType DEF AgentInv
  <2>2. v \notin guests[g] /\ k + 1 <= Slots
    BY <1>4, <2>1, SystemAssumption DEF StartErr
  <2>3. IsFiniteSet(guests[g] \cup {v}) /\ Cardinality(guests[g] \cup {v}) = k + 1
    BY <2>1, <2>2, FS_AddElement
  <2>4. ASSUME NEW h \in Host
        PROVE  /\ IsFiniteSet(guests'[h]) /\ Cardinality(guests'[h]) <= Slots
               /\ agent[h] = "down" => guests'[h] = {} /\ notices[h] = <<>>
    <3>1. CASE h = g
      <4>1. guests'[h] = guests[g] \cup {v} /\ agent[h] # "down"
        BY <1>1, <1>2, <1>4, <3>1 DEF TypeOK
      <4> QED BY <2>2, <2>3, <4>1
    <3>2. CASE h # g
      <4>1. guests'[h] = guests[h]
        BY <1>4, <3>2 DEF TypeOK
      <4> QED BY <4>1 DEF AgentInv
    <3> QED BY <3>1, <3>2
  <2> QED BY <1>1, <2>4 DEF AgentInv
<1> QED BY <1>1, <1>2, <1>3, <1>4

\* A guest ends: on an agent that is not down, since it was there.
LEMMA EndKeepsAgents ==
  ASSUME TypeOK, AgentInv, NEW g \in Host, NEW v \in VM, handleStopVM(g, v) \/ Expire(g, v)
  PROVE  AgentInv'
<1>1. /\ v \in guests[g] /\ guests' = [guests EXCEPT ![g] = guests[g] \ {v}] /\ UNCHANGED agent
      /\ \/ UNCHANGED notices
         \/ notices' = [notices EXCEPT ![g] = Append(notices[g], v)]
  BY DEF handleStopVM, Expire, Ends
<1>2. agent[g] # "down"
  BY <1>1 DEF AgentInv
<1> SUFFICES ASSUME NEW h \in Host
             PROVE  /\ IsFiniteSet(guests'[h]) /\ Cardinality(guests'[h]) <= Slots
                    /\ agent[h] = "down" => guests'[h] = {} /\ notices'[h] = <<>>
  BY <1>1 DEF AgentInv
<1>3. guests'[h] \subseteq guests[h] /\ (h # g => notices'[h] = notices[h])
  BY <1>1 DEF TypeOK
<1>4. IsFiniteSet(guests'[h]) /\ Cardinality(guests'[h]) <= Slots
  BY <1>3, FewerGuests
<1>5. agent[h] = "down" => guests'[h] = {} /\ notices'[h] = <<>>
  BY <1>2, <1>3 DEF AgentInv
<1> QED BY <1>4, <1>5

\* The process ends and takes everything with it.
LEMMA GoneKeepsAgents ==
  ASSUME TypeOK, AgentInv, NEW g \in Host, Gone(g)
  PROVE  AgentInv'
<1>1. /\ guests' = [guests EXCEPT ![g] = {}] /\ notices' = [notices EXCEPT ![g] = <<>>]
      /\ agent' = [agent EXCEPT ![g] = "down"]
  BY DEF Gone
<1> SUFFICES ASSUME NEW h \in Host
             PROVE  /\ IsFiniteSet(guests'[h]) /\ Cardinality(guests'[h]) <= Slots
                    /\ agent'[h] = "down" => guests'[h] = {} /\ notices'[h] = <<>>
  BY DEF AgentInv
<1>2. guests'[h] \subseteq guests[h] /\ guests'[h] \in {{}, guests[h]}
  BY <1>1 DEF TypeOK
<1>3. IsFiniteSet(guests'[h]) /\ Cardinality(guests'[h]) <= Slots
  BY <1>2, FewerGuests
<1>4. agent'[h] = "down" => guests'[h] = {} /\ notices'[h] = <<>>
  BY <1>1 DEF AgentInv, TypeOK
<1> QED BY <1>3, <1>4

\* The other steps start and stop no guest.
LEMMA OthersKeepAgents ==
  ASSUME TypeOK, AgentInv, UNCHANGED guests,
         \A h \in Host : /\ agent'[h] = "down" => agent[h] = "down"
                         /\ notices[h] = <<>> => notices'[h] = <<>>
  PROVE  AgentInv'
BY DEF AgentInv

\* Through starts, expiries, crashes and boot calls that arrive late, an agent keeps
\* within its slots, and a process that has ended leaves neither a guest nor a notice.
THEOREM AgentsKeepWithinSlots == Spec => []AgentInv
<1>1. Init => AgentInv
  <2>1. IsFiniteSet({}) /\ Cardinality({}) = 0
    BY FS_EmptySet
  <2> QED BY <2>1, SystemAssumption DEF Init, AgentInv
<1>2. TypeOK /\ AgentInv /\ [Next]_vars => AgentInv'
  <2> SUFFICES ASSUME TypeOK, AgentInv, [Next]_vars PROVE AgentInv'
    OBVIOUS
  <2>1. ASSUME UNCHANGED <<guests, agent, notices>> PROVE AgentInv'
    BY <2>1, OthersKeepAgents
  <2>2. ASSUME NEW v \in VM,
               \/ Refuse(v) \/ AdmitFails(v) \/ Admit(v) \/ AskAgain(v) \/ Handler(v)
               \/ handleDeleteVM(v)
        PROVE  UNCHANGED <<guests, agent, notices>>
    BY <2>2 DEF Refuse, AdmitFails, Admit, AskAgain, Handler, Boot, BootReturns, BootCut,
                Release, Retry, GiveUp, handleDeleteVM, hosts
  <2>3. ASSUME NEW h \in Host, NEW v \in VM, ReportArrives(h, v) \/ ReportLost(h, v)
        PROVE  UNCHANGED <<guests, agent, notices>>
    BY <2>3 DEF ReportArrives, ReportLost, hosts
  <2>4. ASSUME NEW h \in Host,
               \/ SendRegister(h) \/ RegisterCut(h) \/ Lost(h) \/ heartbeatFails(h)
               \/ Registering(h) \/ Sweep(h) \/ reapSnapshot(h) \/ reapLooksAt(h)
        PROVE  UNCHANGED <<guests, agent, notices>>
    BY <2>4 DEF SendRegister, RegisterCut, Lost, heartbeatFails, Registering, RegisterArrives,
                RegisterAdds, RegisterReadies, DeregisterArrives, DeregisterDrains, Sweep,
                SweepDrains, reapSnapshot, reapLooksAt, reapRemoves, hosts
  <2>5. ASSUME NEW h \in Host, AgentStarts(h) \/ Leave(h) PROVE AgentInv'
    <3>1. /\ UNCHANGED <<guests, notices>>
          /\ agent' = [agent EXCEPT ![h] = "up"] \/ agent' = [agent EXCEPT ![h] = "leaving"]
      BY <2>5 DEF AgentStarts, Leave
    <3>2. \A g \in Host : agent'[g] = "down" => agent[g] = "down"
      BY <3>1 DEF TypeOK
    <3> QED BY <3>1, <3>2, OthersKeepAgents
  <2>6. ASSUME NEW h \in Host, watchExpiries(h) PROVE AgentInv'
    <3>1. /\ UNCHANGED <<guests, agent>> /\ notices[h] # <<>>
          /\ notices' = [notices EXCEPT ![h] = Tail(notices[h])]
      BY <2>6 DEF watchExpiries
    <3>2. \A g \in Host : notices[g] = <<>> => notices'[g] = <<>>
      BY <3>1 DEF TypeOK
    <3> QED BY <3>1, <3>2, OthersKeepAgents
  <2>7. ASSUME NEW h \in Host, Exit(h) \/ Crash(h) PROVE AgentInv'
    BY <2>7, GoneKeepsAgents DEF Exit, Crash
  <2>8. ASSUME ApiRestarts \/ UNCHANGED vars PROVE UNCHANGED <<guests, agent, notices>>
    BY <2>8 DEF ApiRestarts, vars, hosts
  <2> QED BY <2>1, <2>2, <2>3, <2>4, <2>5, <2>6, <2>7, <2>8, StartKeepsAgents, EndKeepsAgents
          DEF Next
<1> QED BY <1>1, <1>2, TypeCorrect, PTL DEF Spec
=============================================================================
