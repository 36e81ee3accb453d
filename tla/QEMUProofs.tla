----------------------------- MODULE QEMUProofs -----------------------------
(***************************************************************************)
(* Proofs about QEMU, for any set of calls and identifiers, any number of   *)
(* slots, and any room on the expired channel: it implements the fake, so   *)
(* that what is proved of the fake holds of it, it loses no process, and    *)
(* what terminate and Close return after is gone for good.                  *)
(***************************************************************************)
EXTENDS QEMU, TLAPS

Phases == {"idle", "reserved", "launching", "booting", "failed", "ready", "started",
           "ErrBootFailed", "ErrClosed", "ErrDuplicateVM", "ErrNoCapacity"}

Types ==
  /\ phase \in [Call -> Phases]
  /\ running \in [VM -> Call \cup {NoCall}]
  /\ closeList \subseteq Call /\ cut \subseteq Call /\ cancelled \subseteq Call
  /\ guest \in [Call -> {"none", "alive", "dead"}]
  /\ term \in [Call -> {"none", "cancel", "wait", "done"}]
  /\ closed \in BOOLEAN

\* A microVM is listed under its identifier until somebody takes it out, and only then
\* terminated; one that boots is listed unless it was cut or Close came; a process
\* whose terminate has returned is gone, but for those that were not up by then.
GuestInv(c) ==
  /\ \A v \in VM : running[v] = c => ID[c] = v /\ phase[c] # "idle" /\ term[c] = "none"
  /\ Booting(c) => running[ID[c]] = c \/ c \in cut \/ closed
  /\ phase[c] = "idle" => term[c] = "none" /\ c \notin closeList
  /\ phase[c] \in {"idle", "reserved", "launching"} => guest[c] = "none"
  /\ phase[c] = "failed" => guest[c] # "alive"
  /\ guest[c] = "alive" /\ term[c] = "done" => Booting(c) \/ c \in cut

\* Close has taken every microVM over.
CloseInv == IF closed THEN \A v \in VM : running[v] = NoCall ELSE closeList = {}

\* NoStrayGuest is not inductive: when terminate returns or a boot ends, who is left to
\* answer for the process follows from GuestInv.
IInv == Types /\ NoStrayGuest /\ CloseInv /\ \A c \in Call : GuestInv(c)
-----------------------------------------------------------------------------
\* NewQEMU starts with no microVM and no process.
LEMMA QEMUInit == Init => IInv
<1> SUFFICES ASSUME Init PROVE IInv
  OBVIOUS
<1>1. closed \in BOOLEAN
  BY DEF Init
<1>2. Types
  BY <1>1, HypervisorAssumption DEF Init, Types, Phases
<1> QED BY <1>2, HypervisorAssumption
        DEF Init, IInv, NoStrayGuest, CloseInv, GuestInv, Booting

\* The steps of one call's boot that touch no bookkeeping: the process is there only
\* while the call is Booting.
LEMMA BootPreserves ==
  ASSUME IInv, NEW c \in Call,
         SetsCancel(c) \/ Launches(c) \/ GuestReady(c) \/ BootFails(c)
  PROVE  IInv'
<1>1. /\ Booting(c) /\ phase' = [phase EXCEPT ![c] = phase'[c]]
      /\ phase'[c] \in {"launching", "booting", "ready", "failed"}
      /\ guest' = [guest EXCEPT ![c] = guest'[c]] /\ guest'[c] \in {"none", "alive", "dead"}
      /\ phase'[c] = "failed" => guest'[c] # "alive"
      /\ phase'[c] = "launching" => guest'[c] = "none"
      /\ cancelled' \subseteq Call
      /\ UNCHANGED <<cut, running, closed, closeList, term>>
  <2>1. CASE SetsCancel(c)
    BY <2>1 DEF SetsCancel, Goto, Booting, process, IInv, Types, GuestInv
  <2>2. CASE Launches(c)
    BY <2>2 DEF Launches, Goto, Booting, cancel, IInv, Types, GuestInv
  <2>3. CASE GuestReady(c)
    BY <2>3 DEF GuestReady, Goto, Booting, process, IInv, Types, GuestInv
  <2>4. CASE BootFails(c)
    BY <2>4 DEF BootFails, Goto, Booting, cancel, IInv, Types, GuestInv
  <2> QED BY <2>1, <2>2, <2>3, <2>4
<1>2. Types' /\ CloseInv'
  BY <1>1 DEF IInv, Types, Phases, CloseInv
<1>3. ASSUME NEW d \in Call PROVE (Booting(d))' <=> Booting(d)
  BY <1>1 DEF Booting, IInv, Types
<1>4. NoStrayGuest'
  BY <1>1, <1>3 DEF IInv, Types, NoStrayGuest, Booting
<1>5. ASSUME NEW d \in Call PROVE GuestInv(d)'
  BY <1>1, <1>3 DEF IInv, Types, GuestInv, Booting
<1> QED BY <1>2, <1>4, <1>5 DEF IInv

\* A Start lists its microVM, or returns without having touched anything.
LEMMA StartPreserves ==
  ASSUME IInv, NEW c \in Call, Start(c)
  PROVE  IInv'
<1>1. ID[c] \in VM /\ c # NoCall
  BY HypervisorAssumption
<1>2. phase[c] = "idle" /\ UNCHANGED <<cut, closed, closeList, guest, cancelled, term>>
  BY DEF Start, process
<1>3. CASE StartErr(c) = "ok"
  <2>1. ~closed /\ running[ID[c]] = NoCall
    BY <1>3 DEF StartErr
  <2>2. /\ phase' = [phase EXCEPT ![c] = "reserved"]
        /\ running' = [running EXCEPT ![ID[c]] = c]
    BY <1>3 DEF Start, Goto
  <2> QED BY <1>1, <1>2, <2>1, <2>2, HypervisorAssumption
          DEF IInv, Types, Phases, CloseInv, NoStrayGuest, GuestInv, Booting
<1>4. CASE StartErr(c) # "ok"
  <2>1. StartErr(c) \in {"ErrClosed", "ErrDuplicateVM", "ErrNoCapacity"}
    BY <1>4 DEF StartErr
  <2>2. phase' = [phase EXCEPT ![c] = StartErr(c)] /\ UNCHANGED running
    BY <1>4 DEF Start, Goto
  <2> QED BY <1>1, <1>2, <2>1, <2>2, HypervisorAssumption
          DEF IInv, Types, Phases, CloseInv, NoStrayGuest, GuestInv, Booting
<1> QED BY <1>3, <1>4

\* A failed Start has no process, and the entry it deletes is its own or is cut.
LEMMA ReleasedPreserves ==
  ASSUME IInv, NEW c \in Call, Released(c)
  PROVE  IInv'
<1>1. ID[c] \in VM /\ c # NoCall
  BY HypervisorAssumption
<1>2. /\ phase[c] = "failed" /\ phase' = [phase EXCEPT ![c] = "ErrBootFailed"]
      /\ running' = [running EXCEPT ![ID[c]] = NoCall]
      /\ cut' = cut \cup ({running[ID[c]]} \ {c, NoCall})
      /\ UNCHANGED <<closed, closeList, guest, cancelled, term>>
  BY DEF Released, Goto, process
<1>3. Types' /\ CloseInv'
  BY <1>1, <1>2 DEF IInv, Types, Phases, CloseInv
<1>4. NoStrayGuest'
  BY <1>1, <1>2, HypervisorAssumption DEF IInv, Types, NoStrayGuest, GuestInv, Booting
<1>5. ASSUME NEW d \in Call PROVE GuestInv(d)'
  BY <1>1, <1>2, HypervisorAssumption DEF IInv, Types, GuestInv, Booting
<1> QED BY <1>3, <1>4, <1>5 DEF IInv

\* A guest that comes up after Close is killed by its own Start; one that comes up
\* before it is listed, or was cut.
LEMMA StartedPreserves ==
  ASSUME IInv, NEW c \in Call, Started(c)
  PROVE  IInv'
<1>1. ID[c] \in VM /\ c # NoCall
  BY HypervisorAssumption
<1>2. /\ phase[c] = "ready" /\ phase' = [phase EXCEPT ![c] = phase'[c]]
      /\ phase'[c] \in {"ErrClosed", "started"}
      /\ guest' = [guest EXCEPT ![c] = guest'[c]] /\ guest'[c] \in {guest[c], "dead"}
      /\ closed => guest'[c] # "alive"
      /\ cancelled' \subseteq Call
      /\ UNCHANGED <<cut, running, closed, closeList, term>>
  BY DEF Started, Goto, cancel, IInv, Types
<1>3. Types' /\ CloseInv'
  BY <1>1, <1>2 DEF IInv, Types, Phases, CloseInv
<1>4. NoStrayGuest'
  BY <1>1, <1>2 DEF IInv, Types, NoStrayGuest, GuestInv, Booting
<1>5. ASSUME NEW d \in Call PROVE GuestInv(d)'
  BY <1>1, <1>2 DEF IInv, Types, GuestInv, Booting
<1> QED BY <1>3, <1>4, <1>5 DEF IInv

\* A guest that exits by itself leaves less to answer for.
LEMMA GuestExitsPreserves ==
  ASSUME IInv, NEW c \in Call, GuestExits(c)
  PROVE  IInv'
<1>1. /\ guest[c] = "alive" /\ guest' = [guest EXCEPT ![c] = "dead"]
      /\ UNCHANGED <<phase, cut, running, closed, closeList, cancelled, term>>
  BY DEF GuestExits, book
<1>2. Types' /\ CloseInv'
  BY <1>1 DEF IInv, Types, CloseInv
<1>3. NoStrayGuest'
  BY <1>1 DEF IInv, Types, NoStrayGuest, Booting
<1>4. ASSUME NEW d \in Call PROVE GuestInv(d)'
  BY <1>1 DEF IInv, Types, GuestInv, Booting
<1> QED BY <1>2, <1>3, <1>4 DEF IInv

\* terminate returns once the process is gone, or when boot has not set vm.cmd yet.
LEMMA TerminatePreserves ==
  ASSUME IInv, NEW c \in Call, Terminate(c)
  PROVE  IInv'
<1>1. CASE TermCancels(c)
  <2>1. /\ term[c] = "cancel" /\ term' = [term EXCEPT ![c] = "wait"]
        /\ guest' = [guest EXCEPT ![c] = guest'[c]] /\ guest'[c] \in {guest[c], "dead"}
        /\ guest'[c] = guest[c] \/ guest[c] = "alive"
        /\ cancelled' \subseteq Call
        /\ UNCHANGED <<phase, cut, running, closed, closeList>>
    BY <1>1 DEF TermCancels, cancel, book, IInv, Types
  <2>2. Types' /\ CloseInv'
    BY <2>1 DEF IInv, Types, CloseInv
  <2>3. NoStrayGuest'
    BY <2>1 DEF IInv, Types, NoStrayGuest, Booting
  <2>4. ASSUME NEW d \in Call PROVE GuestInv(d)'
    BY <2>1 DEF IInv, Types, GuestInv, Booting
  <2> QED BY <2>2, <2>3, <2>4 DEF IInv
<1>2. CASE TermWaits(c)
  <2>1. /\ term[c] = "wait" /\ term' = [term EXCEPT ![c] = "done"]
        /\ Booting(c) \/ guest[c] # "alive"
        /\ UNCHANGED <<phase, cut, running, closed, closeList, guest, cancelled>>
    BY <1>2 DEF TermWaits, Booting, book
  <2>2. Types' /\ CloseInv'
    BY <2>1 DEF IInv, Types, CloseInv
  <2>3. NoStrayGuest'
    BY <2>1 DEF IInv, Types, NoStrayGuest, Booting
  <2>4. ASSUME NEW d \in Call PROVE GuestInv(d)'
    BY <2>1 DEF IInv, Types, GuestInv, Booting
  <2> QED BY <2>2, <2>3, <2>4 DEF IInv
<1>3. CASE CloseTerminates(c)
  <2>1. /\ c \in closeList
        /\ \/ term[c] = "none" /\ term' = [term EXCEPT ![c] = "cancel"] /\ UNCHANGED closeList
           \/ term[c] = "done" /\ closeList' = closeList \ {c} /\ UNCHANGED term
        /\ UNCHANGED <<phase, cut, running, closed, guest, cancelled>>
    BY <1>3 DEF CloseTerminates
  <2>2. closed /\ c # NoCall /\ \A v \in VM : running[v] = NoCall
    BY <2>1, HypervisorAssumption DEF IInv, CloseInv
  <2>3. Types' /\ CloseInv'
    BY <2>1, <2>2 DEF IInv, Types, CloseInv
  <2>4. NoStrayGuest'
    BY <2>1 DEF IInv, Types, NoStrayGuest, GuestInv, Booting
  <2>5. ASSUME NEW d \in Call PROVE GuestInv(d)'
    BY <2>1, <2>2, HypervisorAssumption DEF IInv, Types, GuestInv, Booting
  <2> QED BY <2>3, <2>4, <2>5 DEF IInv
<1> QED BY <1>1, <1>2, <1>3 DEF Terminate

\* What Stop and reap do alike: one microVM leaves running, to be terminated.
LEMMA TakenOutPreserves ==
  ASSUME IInv, NEW v \in VM, ~closed, running[v] # NoCall,
         running' = [running EXCEPT ![v] = NoCall],
         term' = [term EXCEPT ![running[v]] = "cancel"],
         cut' = cut \cup {d \in {running[v]} : Booting(d)},
         UNCHANGED <<phase, closed, closeList, guest, cancelled>>
  PROVE  IInv'
<1>1. PICK c \in Call : c = running[v]
  BY DEF IInv, Types
<1>2. c # NoCall /\ ID[c] = v /\ phase[c] # "idle" /\ term[c] = "none"
  BY <1>1 DEF IInv, GuestInv
<1>3. /\ term' = [term EXCEPT ![c] = "cancel"] /\ cut \subseteq cut' /\ cut' \subseteq cut \cup {c}
      /\ Booting(c) => c \in cut'
  BY <1>1
<1>4. Types' /\ CloseInv'
  BY <1>3 DEF IInv, Types, CloseInv
<1>5. NoStrayGuest'
  BY <1>1, <1>2, <1>3, HypervisorAssumption DEF IInv, Types, NoStrayGuest, Booting
<1>6. ASSUME NEW d \in Call PROVE GuestInv(d)'
  BY <1>1, <1>2, <1>3, HypervisorAssumption DEF IInv, Types, GuestInv, Booting
<1> QED BY <1>4, <1>5, <1>6 DEF IInv

\* Close takes all of running over in one critical section.
LEMMA ClosePreserves ==
  ASSUME IInv, Close
  PROVE  IInv'
<1>1. /\ ~closed /\ closed' = TRUE /\ closeList' = {running[v] : v \in Running}
      /\ running' = [v \in VM |-> NoCall]
      /\ UNCHANGED <<phase, cut, guest, cancelled, term>>
  BY DEF Close, process
<1>2. closeList' \subseteq Call /\ \A v \in VM : running[v] # NoCall => running[v] \in closeList'
  BY <1>1 DEF Running, IInv, Types
<1>3. Types' /\ CloseInv'
  BY <1>1, <1>2 DEF IInv, Types, CloseInv
<1>4. NoStrayGuest'
  BY <1>1, <1>2, HypervisorAssumption DEF IInv, Types, CloseInv, NoStrayGuest, Booting
<1>5. \A c \in closeList' : phase[c] # "idle"
  BY <1>1 DEF Running, IInv, Types, GuestInv
<1>6. ASSUME NEW d \in Call PROVE GuestInv(d)'
  BY <1>1, <1>5, HypervisorAssumption DEF IInv, Types, GuestInv, Booting
<1> QED BY <1>3, <1>4, <1>6 DEF IInv

\* A step of the timers, the channel or Close's return touches no microVM.
LEMMA OthersPreserve ==
  ASSUME IInv, UNCHANGED <<phase, running, closed, closeList, cut, process>>
  PROVE  IInv'
<1>1. UNCHANGED <<phase, running, closed, closeList, cut, guest, cancelled, term>>
  BY DEF process
<1> QED BY <1>1 DEF IInv, Types, NoStrayGuest, CloseInv, GuestInv, Booting

\* The inductive invariant holds throughout.
LEMMA QEMUInvariant == Spec => []IInv
<1>1. IInv /\ [Next]_vars => IInv'
  <2> SUFFICES ASSUME IInv, [Next]_vars PROVE IInv'
    OBVIOUS
  <2>1. ASSUME NEW c \in Call, Start(c) \/ Boot(c) \/ GuestExits(c) \/ Terminate(c) PROVE IInv'
    BY <2>1, StartPreserves, BootPreserves, ReleasedPreserves, StartedPreserves,
       GuestExitsPreserves, TerminatePreserves DEF Boot
  <2>2. ASSUME NEW c \in Call, reap(c) PROVE IInv'
    <3>1. ID[c] \in VM
      BY HypervisorAssumption
    <3>2. CASE closed \/ running[ID[c]] = NoCall
      BY <2>2, <3>2, OthersPreserve DEF reap, process
    <3>3. CASE ~(closed \/ running[ID[c]] = NoCall)
      BY <2>2, <3>1, <3>3, TakenOutPreserves DEF reap
    <3> QED BY <3>2, <3>3
  <2>3. ASSUME NEW c \in Call, Fires(c) \/ Notify(c) PROVE IInv'
    BY <2>3, OthersPreserve DEF Fires, Notify
  <2>4. ASSUME NEW v \in VM, Stop(v) PROVE IInv'
    BY <2>4, TakenOutPreserves DEF Stop, Running
  <2>5. ASSUME CloseReturns \/ Consume \/ UNCHANGED vars PROVE IInv'
    BY <2>5, OthersPreserve DEF CloseReturns, Consume, vars, book
  <2> QED BY <2>1, <2>2, <2>3, <2>4, <2>5, ClosePreserves DEF Next, Timer
<1> QED BY <1>1, QEMUInit, PTL DEF Spec

\* Whatever interleaving of boots, Stops, expiries and Close, no QEMU process is left
\* behind unlisted, apart from those cut while they booted.
THEOREM NoGuestIsLost == Spec => []NoStrayGuest
<1>1. IInv => NoStrayGuest
  BY DEF IInv
<1> QED BY <1>1, QEMUInvariant, PTL
-----------------------------------------------------------------------------
\* What the fake's phase and closing are here.
abstractPhase == [c \in Call |-> IF Booting(c) THEN "boot" ELSE phase[c]]
abstractClosing == IF closing = "terminating" THEN "waiting" ELSE closing

\* The two modules mean the same by Cardinality.
LEMMA SameCardinality == \A T : F!Cardinality(T) = Cardinality(T)
BY DEF F!Cardinality, Cardinality

\* A call that goes to another stage moves in the fake to the image of that stage.
LEMMA AbstractPhase ==
  ASSUME Types, NEW c \in Call, NEW p \in Phases, Goto(c, p)
  PROVE  abstractPhase' = [abstractPhase EXCEPT ![c] =
           IF p \in {"reserved", "launching", "booting", "failed", "ready"} THEN "boot" ELSE p]
BY DEF Types, Goto, abstractPhase, Booting

\* Start decides alike in both.
LEMMA SameStartErr == \A c \in Call : F!StartErr(c) = StartErr(c)
BY SameCardinality DEF F!StartErr, StartErr, F!Running, Running

\* Stop and Close disarm timers alike in both.
LEMMA SameDisarm == ASSUME NEW cs, Disarm(cs) PROVE F!Disarm(cs)
BY SameCardinality DEF F!Disarm, Disarm

\* Start is the fake's Start.
LEMMA StartImplements ==
  ASSUME Types, NEW c \in Call, Start(c)
  PROVE  F!Start(c)
<1>1. abstractPhase[c] = "idle"
  BY DEF Start, abstractPhase, Booting
<1>2. F!StartErr(c) = StartErr(c)
  BY SameStartErr
<1>3. UNCHANGED <<timer, closed, abstractClosing, wg, expired, cut>>
  BY DEF Start, abstractClosing
<1>4. CASE StartErr(c) = "ok"
  <2>1. Goto(c, "reserved") /\ running' = [running EXCEPT ![ID[c]] = c]
    BY <1>4 DEF Start
  <2>2. abstractPhase' = [abstractPhase EXCEPT ![c] = "boot"]
    BY <2>1, AbstractPhase DEF Phases
  <2> QED BY <1>1, <1>2, <1>3, <1>4, <2>1, <2>2 DEF F!Start, abstractPhase, abstractClosing
<1>5. CASE StartErr(c) # "ok"
  <2>1. StartErr(c) \in {"ErrClosed", "ErrDuplicateVM", "ErrNoCapacity"}
    BY <1>5 DEF StartErr
  <2>2. Goto(c, StartErr(c)) /\ UNCHANGED running
    BY <1>5 DEF Start
  <2>3. abstractPhase' = [abstractPhase EXCEPT ![c] = StartErr(c)]
    BY <2>1, <2>2, AbstractPhase DEF Phases
  <2> QED BY <1>1, <1>2, <1>3, <1>5, <2>2, <2>3 DEF F!Start, abstractPhase, abstractClosing
<1> QED BY <1>4, <1>5

\* The release after a failed boot is the fake's failed boot.
LEMMA ReleasedImplements ==
  ASSUME Types, NEW c \in Call, Released(c)
  PROVE  F!BootFails(c)
<1>1. abstractPhase[c] = "boot"
  BY DEF Released, abstractPhase, Booting
<1>2. abstractPhase' = [abstractPhase EXCEPT ![c] = "ErrBootFailed"]
  BY AbstractPhase DEF Released, Phases
<1> QED BY <1>1, <1>2 DEF Released, F!BootFails, abstractPhase, abstractClosing

\* The second critical section of Start is where the fake's boot ends.
LEMMA StartedImplements ==
  ASSUME Types, NEW c \in Call, Started(c)
  PROVE  F!Boots(c)
<1>1. abstractPhase[c] = "boot"
  BY DEF Started, abstractPhase, Booting
<1>2. Goto(c, IF closed THEN "ErrClosed" ELSE "started")
  BY DEF Started
<1>3. abstractPhase' = [abstractPhase EXCEPT ![c] = IF closed THEN "ErrClosed" ELSE "started"]
  BY <1>2, AbstractPhase DEF Phases
<1> QED BY <1>1, <1>3 DEF Started, F!Boots, abstractPhase, abstractClosing

\* What happens inside a boot, to the processes or to the list that Close works
\* through is nothing to the fake.
LEMMA InnerStutters ==
  ASSUME Types, NEW c \in Call,
         \/ SetsCancel(c) \/ Launches(c) \/ GuestReady(c) \/ BootFails(c)
         \/ GuestExits(c) \/ Terminate(c)
  PROVE  UNCHANGED F!vars
<1>1. UNCHANGED <<running, timer, closed, closing, wg, expired, cut>>
  BY DEF SetsCancel, Launches, GuestReady, BootFails, GuestExits, Terminate, TermCancels,
         TermWaits, CloseTerminates, book
<1>2. CASE SetsCancel(c) \/ Launches(c) \/ GuestReady(c) \/ BootFails(c)
  <2>1. PICK p \in {"launching", "booting", "ready", "failed"} : Goto(c, p)
    BY <1>2 DEF SetsCancel, Launches, GuestReady, BootFails
  <2>2. Booting(c)
    BY <1>2 DEF SetsCancel, Launches, GuestReady, BootFails, Booting
  <2>3. abstractPhase' = [abstractPhase EXCEPT ![c] = "boot"]
    BY <2>1, AbstractPhase DEF Phases
  <2>4. abstractPhase' = abstractPhase
    BY <2>2, <2>3 DEF abstractPhase
  <2> QED BY <1>1, <2>4 DEF F!vars, abstractPhase
<1>3. CASE GuestExits(c) \/ Terminate(c)
  <2>1. UNCHANGED phase
    BY <1>3 DEF GuestExits, Terminate, TermCancels, TermWaits, CloseTerminates, book
  <2>2. abstractPhase' = abstractPhase
    BY <2>1 DEF abstractPhase, Booting
  <2> QED BY <1>1, <2>2 DEF F!vars, abstractPhase
<1> QED BY <1>2, <1>3

\* The timer's goroutine is the fake's but for the termination before its notice.
LEMMA TimerImplements ==
  ASSUME Types, NEW c \in Call, Timer(c)
  PROVE  F!Fires(c) \/ F!reap(c) \/ F!Notify(c)
<1>1. UNCHANGED <<phase, closing>>
  BY DEF Timer, Fires, reap, Notify
<1>2. abstractPhase' = abstractPhase /\ abstractClosing' = abstractClosing
  BY <1>1 DEF abstractPhase, abstractClosing, Booting
<1>3. CASE Fires(c)
  BY <1>2, <1>3 DEF Fires, F!Fires, abstractPhase, abstractClosing
<1>4. CASE reap(c)
  <2>1. running[ID[c]] \in Call \cup {NoCall}
    BY HypervisorAssumption DEF Types
  <2>2. running[ID[c]] # NoCall =>
          {d \in {running[ID[c]]} : Booting(d)}
            = {d \in {running[ID[c]]} : abstractPhase[d] = "boot"}
    BY <2>1 DEF abstractPhase, Booting, Types, Phases
  <2> QED BY <1>2, <1>4, <2>2 DEF reap, F!reap, abstractPhase, abstractClosing
<1>5. CASE Notify(c)
  BY <1>2, <1>5 DEF Notify, F!Notify, abstractPhase, abstractClosing
<1> QED BY <1>3, <1>4, <1>5 DEF Timer

\* Stop is the fake's Stop: who is terminated after it is not seen there.
LEMMA StopImplements ==
  ASSUME Types, NEW v \in VM, Stop(v)
  PROVE  F!Stop(v)
<1>1. running[v] \in Call /\ UNCHANGED <<phase, closing>> /\ F!Running = Running
  BY DEF Stop, Types, Running, F!Running
<1>2. abstractPhase' = abstractPhase /\ abstractClosing' = abstractClosing
  BY <1>1 DEF abstractPhase, abstractClosing, Booting
<1>3. {d \in {running[v]} : Booting(d)} = {d \in {running[v]} : abstractPhase[d] = "boot"}
  BY <1>1 DEF abstractPhase, Booting, Types, Phases
<1>4. F!Disarm({running[v]})
  BY SameDisarm DEF Stop
<1> QED BY <1>1, <1>2, <1>3, <1>4 DEF Stop, F!Stop, abstractPhase, abstractClosing

\* The critical section of Close is the fake's; the terminations come before its end.
LEMMA CloseImplements ==
  ASSUME Close
  PROVE  F!Close
<1>1. UNCHANGED phase /\ F!Running = Running
  BY DEF Close, Running, F!Running
<1>2. abstractPhase' = abstractPhase /\ abstractClosing' = "waiting"
  BY <1>1 DEF Close, abstractPhase, abstractClosing, Booting
<1>3. F!Disarm({running[v] : v \in F!Running})
  BY <1>1, SameDisarm DEF Close
<1> QED BY <1>1, <1>2, <1>3 DEF Close, F!Close, abstractPhase, abstractClosing

\* The QEMU hypervisor is a refinement of the fake, so the simulator and the tests,
\* which run on the fake, meet every bookkeeping that the real one can show: the
\* property ImplementsFake, for every value of the constants.
THEOREM QEMUImplementsFake == Spec => ImplementsFake
<1>1. Init => F!Init
  BY DEF Init, F!Init, Booting
<1>2. Types /\ [Next]_vars => [F!Next]_(F!vars)
  <2> SUFFICES ASSUME Types, [Next]_vars PROVE [F!Next]_(F!vars)
    OBVIOUS
  <2>1. ASSUME NEW c \in Call, Start(c) \/ Boot(c) \/ GuestExits(c) \/ Timer(c) \/ Terminate(c)
        PROVE  [F!Next]_(F!vars)
    BY <2>1, StartImplements, ReleasedImplements, StartedImplements, InnerStutters,
       TimerImplements DEF Boot, F!Next
  <2>2. ASSUME NEW v \in VM, Stop(v) PROVE F!Next
    BY <2>2, StopImplements DEF F!Next
  <2>3. ASSUME Close PROVE F!Next
    BY <2>3, CloseImplements DEF F!Next
  <2>4. ASSUME CloseReturns \/ Consume PROVE F!Next
    <3>1. abstractPhase' = abstractPhase
      BY <2>4 DEF CloseReturns, Consume, abstractPhase, Booting
    <3> QED BY <2>4, <3>1 DEF CloseReturns, Consume, F!CloseReturns, F!Consume, F!Next,
                             abstractPhase
  <2>5. ASSUME UNCHANGED vars PROVE UNCHANGED F!vars
    <3>1. abstractPhase' = abstractPhase
      BY <2>5 DEF vars, book, abstractPhase, Booting
    <3> QED BY <2>5, <3>1 DEF vars, book, F!vars, abstractPhase
  <2> QED BY <2>1, <2>2, <2>3, <2>4, <2>5 DEF Next
<1>3. IInv => Types
  BY DEF IInv
<1> QED BY <1>1, <1>2, <1>3, QEMUInvariant, PTL DEF Spec, F!Spec, ImplementsFake

\* The proofs about the fake, for the variables that QEMU shows it.
FP == INSTANCE FakeProofs WITH
        phase <- [c \in Call |-> IF Booting(c) THEN "boot" ELSE phase[c]],
        closing <- IF closing = "terminating" THEN "waiting" ELSE closing

\* The fake's invariant holds of QEMU, which implements it.
LEMMA FakeInvariantHolds == Spec => []FP!IInv
<1>1. FP!HypervisorAssumption
  BY HypervisorAssumption DEF FP!HypervisorAssumption
<1>2. F!Init => FP!Init
  BY DEF F!Init, FP!Init
<1>3. F!Running = FP!Running /\ \A T : F!Cardinality(T) = FP!Cardinality(T)
  BY DEF F!Running, FP!Running, F!Cardinality, FP!Cardinality
<1>4. \A c \in Call : F!StartErr(c) = FP!StartErr(c)
  BY <1>3 DEF F!StartErr, FP!StartErr
<1>5. \A cs : F!Disarm(cs) => FP!Disarm(cs)
  BY <1>3 DEF F!Disarm, FP!Disarm
<1>6. [F!Next]_(F!vars) => [FP!Next]_(FP!vars)
  BY <1>3, <1>4, <1>5
     DEF F!vars, FP!vars, F!Next, FP!Next, F!Start, FP!Start, F!BootFails, FP!BootFails,
         F!Boots, FP!Boots, F!Fires, FP!Fires, F!reap, FP!reap, F!Notify, FP!Notify,
         F!Stop, FP!Stop, F!Close, FP!Close, F!CloseReturns, FP!CloseReturns,
         F!Consume, FP!Consume
<1>7. FP!Spec => []FP!IInv
  BY <1>1, FP!FakeInvariant
<1> QED BY <1>2, <1>6, <1>7, QEMUImplementsFake, PTL DEF ImplementsFake, F!Spec, FP!Spec

\* What is proved of the fake is so of QEMU as well, where a notice waits for a process
\* to die: wg is exact, nobody sends on the closed expired channel, and no more than
\* Slots microVMs boot or run, apart from those cut while they booted.
THEOREM QEMUKeepsTheFakesPromises ==
  Spec => [](F!WaitGroupExact /\ F!NoSendOnClosed /\ F!SlotsRespected)
<1>1. \A T : F!Cardinality(T) = FP!Cardinality(T)
  BY DEF F!Cardinality, FP!Cardinality
<1>2. FP!IInv => F!WaitGroupExact /\ F!NoSendOnClosed
  BY <1>1 DEF FP!IInv, FP!Counts, FP!LiveTimers, FP!NoSendOnClosed, F!WaitGroupExact,
              F!NoSendOnClosed
<1>3. FP!IInv => F!SlotsRespected
  BY <1>1 DEF FP!IInv, FP!Counts, FP!Holders, F!SlotsRespected
<1> QED BY <1>2, <1>3, FakeInvariantHolds, PTL
-----------------------------------------------------------------------------
(* What a caller may conclude when terminate, a timer or Close is through. *)

\* A timer that has taken a microVM out found one that was up, or cut it; and Close
\* returns when it has terminated its list.
EndInv ==
  /\ timer \in [Call -> {"none", "armed", "stopped", "fired", "reaped", "ended"}]
  /\ victim \in [Call -> Call \cup {NoCall}]
  /\ \A c \in Call : timer[c] = "reaped" =>
       /\ victim[c] \in Call /\ phase[victim[c]] # "idle"
       /\ Booting(victim[c]) => victim[c] \in cut
  /\ closing # "no" <=> closed
  /\ closing = "returned" => closeList = {}

\* terminate(vm) has returned only if the process of vm is gone, unless vm was cut while
\* it booted, or Close took it while it boots, which its Start will find out.
TerminatedIsDead ==
  \A c \in Call : term[c] = "done" /\ guest[c] = "alive" => c \in cut \/ (closed /\ Booting(c))

\* The notice of an expiry is sent when the process that expired is gone: the slot that
\* the placement API frees on it is free on the host too.
NoticeAfterDeath ==
  [][\A c \in Call : Notify(c) => guest[victim[c]] # "alive" \/ victim[c] \in cut]_vars

\* When Close has returned, a process outside cut that is still alive is one whose Start
\* has yet to see that it came too late, or one a Stop is about to kill.
CloseLeavesOnlyLateGuests ==
  closing = "returned" =>
    \A c \in Call \ cut : guest[c] = "alive" => Booting(c) \/ term[c] \in {"cancel", "wait"}

\* The hypervisor is closed and no process outside cut is left, nor a Start that could
\* bring one up.
Ended == closed /\ \A c \in Call \ cut : guest[c] # "alive" /\ ~Booting(c)

\* A Start boots once, and who was cut remains so.
LEMMA BootsOnce ==
  ASSUME Types, [Next]_vars
  PROVE  /\ cut \subseteq cut'
         /\ \A d \in Call : phase[d] # "idle" => phase'[d] # "idle" /\ (Booting(d)' => Booting(d))
<1> DEFINE Once == \A d \in Call : phase[d] # "idle" => phase'[d] # "idle" /\ (Booting(d)' => Booting(d))
<1>1. ASSUME NEW c \in Call, NEW p \in Phases \ {"idle"}, Goto(c, p),
             phase[c] = "idle" \/ Booting(c)
      PROVE  Once
  BY <1>1 DEF Goto, Types, Booting
<1>2. ASSUME UNCHANGED phase PROVE Once
  BY <1>2 DEF Booting
<1> HIDE DEF Once
<1>3. ASSUME NEW c \in Call, Start(c) PROVE Once /\ cut \subseteq cut'
  <2>1. StartErr(c) \in {"ok", "ErrClosed", "ErrDuplicateVM", "ErrNoCapacity"}
    BY DEF StartErr
  <2>2. PICK p \in Phases \ {"idle"} : Goto(c, p)
    BY <1>3, <2>1 DEF Start, Phases
  <2> QED BY <1>1, <1>3, <2>2 DEF Start
<1>4. ASSUME NEW c \in Call, Boot(c) PROVE Once /\ cut \subseteq cut'
  <2>1. /\ Booting(c) /\ cut \subseteq cut'
        /\ \E p \in {"launching", "booting", "failed", "ready", "ErrBootFailed", "ErrClosed", "started"} :
              Goto(c, p)
    BY <1>4 DEF Boot, SetsCancel, Launches, GuestReady, BootFails, Released, Started, Booting
  <2>2. PICK p \in Phases \ {"idle"} : Goto(c, p)
    BY <2>1 DEF Phases
  <2> QED BY <1>1, <2>1, <2>2
<1>5. ASSUME NEW c \in Call, GuestExits(c) \/ Timer(c) \/ Terminate(c)
      PROVE  UNCHANGED phase /\ cut \subseteq cut'
  BY <1>5 DEF GuestExits, Timer, Fires, reap, Notify, Terminate, TermCancels, TermWaits,
              CloseTerminates, book
<1>6. ASSUME NEW v \in VM, Stop(v) PROVE UNCHANGED phase /\ cut \subseteq cut'
  BY <1>6 DEF Stop
<1>7. ASSUME Close \/ CloseReturns \/ Consume \/ UNCHANGED vars
      PROVE  UNCHANGED phase /\ cut \subseteq cut'
  BY <1>7 DEF Close, CloseReturns, Consume, vars, book
<1>8. Once /\ cut \subseteq cut'
  BY <1>2, <1>3, <1>4, <1>5, <1>6, <1>7 DEF Next
<1> QED BY <1>8 DEF Once

\* Timers that do not take a microVM out leave what is known of the ones that did.
LEMMA TimersKeepEndInv ==
  ASSUME Types, EndInv, [Next]_vars,
         timer' \in [Call -> {"none", "armed", "stopped", "fired", "reaped", "ended"}],
         victim' \in [Call -> Call \cup {NoCall}],
         \A c \in Call : timer'[c] = "reaped" => timer[c] = "reaped" /\ victim'[c] = victim[c],
         closing' # "no" <=> closed', closing' = "returned" => closeList' = {}
  PROVE  EndInv'
<1>1. ASSUME NEW c \in Call, timer'[c] = "reaped"
      PROVE  /\ victim'[c] \in Call /\ phase'[victim'[c]] # "idle"
             /\ Booting(victim[c])' => victim'[c] \in cut'
  <2>1. PICK d \in Call : d = victim[c] /\ d = victim'[c] /\ phase[d] # "idle" /\ (Booting(d) => d \in cut)
    BY <1>1 DEF EndInv
  <2>2. phase'[d] # "idle" /\ (Booting(d)' => Booting(d)) /\ cut \subseteq cut'
    BY <2>1, BootsOnce
  <2>3. Booting(victim[c])' <=> Booting(d)'
    BY <2>1 DEF Booting
  <2> QED BY <2>1, <2>2, <2>3
<1> QED BY <1>1 DEF EndInv

\* Nor does Disarm, which only stops timers.
LEMMA DisarmedTimers ==
  ASSUME EndInv, NEW cs, Disarm(cs)
  PROVE  /\ timer' \in [Call -> {"none", "armed", "stopped", "fired", "reaped", "ended"}]
         /\ \A c \in Call : timer'[c] = "reaped" => timer[c] = "reaped"
BY DEF EndInv, Disarm

\* reap takes out what running has under its identifier, which is a Start's microVM.
LEMMA ReapKeepsEndInv ==
  ASSUME IInv, EndInv, NEW c \in Call, reap(c)
  PROVE  EndInv'
<1>0. Types /\ ID[c] \in VM /\ [Next]_vars /\ UNCHANGED <<closing, closed, closeList, phase>>
  BY HypervisorAssumption DEF IInv, reap, Next, Timer
<1>1. CASE closed \/ running[ID[c]] = NoCall
  <2>1. timer' = [timer EXCEPT ![c] = "ended"] /\ UNCHANGED victim
    BY <1>1 DEF reap
  <2>2. /\ timer' \in [Call -> {"none", "armed", "stopped", "fired", "reaped", "ended"}]
        /\ victim' \in [Call -> Call \cup {NoCall}]
        /\ \A d \in Call : timer'[d] = "reaped" => timer[d] = "reaped" /\ victim'[d] = victim[d]
    BY <2>1 DEF EndInv
  <2>3. (closing' # "no" <=> closed') /\ (closing' = "returned" => closeList' = {})
    BY <1>0 DEF EndInv
  <2> QED BY <1>0, <2>2, <2>3, TimersKeepEndInv
<1>2. CASE ~(closed \/ running[ID[c]] = NoCall)
  <2>1. PICK e \in Call : e = running[ID[c]] /\ phase[e] # "idle"
    BY <1>0, <1>2 DEF IInv, Types, GuestInv
  <2>2. /\ timer[c] = "fired" /\ timer' = [timer EXCEPT ![c] = "reaped"]
        /\ victim' = [victim EXCEPT ![c] = e] /\ cut' = cut \cup {d \in {e} : Booting(d)}
    BY <1>2, <2>1 DEF reap
  <2>3. ASSUME NEW d \in Call, timer'[d] = "reaped"
        PROVE  /\ victim'[d] \in Call /\ phase[victim'[d]] # "idle"
               /\ victim'[d] \in {x \in Call : Booting(x)} => victim'[d] \in cut'
    <3>1. CASE d = c
      BY <2>1, <2>2, <3>1 DEF EndInv
    <3>2. CASE d # c
      BY <2>2, <2>3, <3>2 DEF EndInv
    <3> QED BY <3>1, <3>2
  <2>4. /\ timer' \in [Call -> {"none", "armed", "stopped", "fired", "reaped", "ended"}]
        /\ victim' \in [Call -> Call \cup {NoCall}]
    BY <2>2 DEF EndInv
  <2> QED BY <1>0, <2>3, <2>4 DEF EndInv, Booting
<1> QED BY <1>1, <1>2

\* Every other step leaves the timers that have reaped, and Close's stages, in order.
LEMMA OthersKeepEndInv ==
  ASSUME IInv, EndInv, [Next]_vars,
         UNCHANGED <<timer, victim>>,
         closing' # "no" <=> closed', closing' = "returned" => closeList' = {}
  PROVE  EndInv'
<1>1. Types
  BY DEF IInv
<1>2. /\ timer' \in [Call -> {"none", "armed", "stopped", "fired", "reaped", "ended"}]
      /\ victim' \in [Call -> Call \cup {NoCall}]
      /\ \A c \in Call : timer'[c] = "reaped" => timer[c] = "reaped" /\ victim'[c] = victim[c]
  BY DEF EndInv
<1> QED BY <1>1, <1>2, TimersKeepEndInv

\* Who arms, fires, ends or disarms a timer does not reap.
LEMMA OtherTimersKeepEndInv ==
  ASSUME IInv, EndInv, [Next]_vars, UNCHANGED victim,
         timer' \in [Call -> {"none", "armed", "stopped", "fired", "reaped", "ended"}],
         \A c \in Call : timer'[c] = "reaped" => timer[c] = "reaped",
         closing' # "no" <=> closed', closing' = "returned" => closeList' = {}
  PROVE  EndInv'
<1>1. Types
  BY DEF IInv
<1>2. /\ victim' \in [Call -> Call \cup {NoCall}]
      /\ \A c \in Call : timer'[c] = "reaped" => timer[c] = "reaped" /\ victim'[c] = victim[c]
  BY DEF EndInv
<1> QED BY <1>1, <1>2, TimersKeepEndInv

\* So EndInv holds throughout.
LEMMA EndInvariant == Spec => []EndInv
<1>1. Init => EndInv
  BY DEF Init, EndInv
<1>2. IInv /\ EndInv /\ [Next]_vars => EndInv'
  <2> SUFFICES ASSUME IInv, EndInv, [Next]_vars PROVE EndInv'
    OBVIOUS
  <2>1. ASSUME UNCHANGED <<timer, victim, closing, closed, closeList>> PROVE EndInv'
    <3>1. (closing' # "no" <=> closed') /\ (closing' = "returned" => closeList' = {})
      BY <2>1 DEF EndInv
    <3> QED BY <2>1, <3>1, OthersKeepEndInv
  <2>2. ASSUME NEW c \in Call,
               \/ Start(c) \/ SetsCancel(c) \/ Launches(c) \/ GuestReady(c) \/ BootFails(c)
               \/ Released(c) \/ GuestExits(c) \/ TermCancels(c) \/ TermWaits(c)
        PROVE  UNCHANGED <<timer, victim, closing, closed, closeList>>
    BY <2>2 DEF Start, SetsCancel, Launches, GuestReady, BootFails, Released, GuestExits,
                TermCancels, TermWaits, book
  <2>3. ASSUME NEW c \in Call, Started(c) \/ Fires(c) \/ Notify(c) PROVE EndInv'
    <3>1. /\ UNCHANGED <<victim, closing, closed, closeList>>
          /\ \/ UNCHANGED timer
             \/ \E x \in {"armed", "fired", "ended"} : timer' = [timer EXCEPT ![c] = x]
      BY <2>3 DEF Started, Fires, Notify
    <3>2. /\ timer' \in [Call -> {"none", "armed", "stopped", "fired", "reaped", "ended"}]
          /\ \A d \in Call : timer'[d] = "reaped" => timer[d] = "reaped"
      BY <3>1 DEF EndInv
    <3>3. (closing' # "no" <=> closed') /\ (closing' = "returned" => closeList' = {})
      BY <3>1 DEF EndInv
    <3> QED BY <3>1, <3>2, <3>3, OtherTimersKeepEndInv
  <2>4. ASSUME NEW c \in Call, CloseTerminates(c) PROVE EndInv'
    <3>1. closing = "terminating" /\ UNCHANGED <<timer, victim, closing, closed>>
      BY <2>4 DEF CloseTerminates
    <3>2. (closing' # "no" <=> closed') /\ (closing' = "returned" => closeList' = {})
      BY <3>1 DEF EndInv
    <3> QED BY <3>1, <3>2, OthersKeepEndInv
  <2>5. ASSUME NEW v \in VM, Stop(v) PROVE EndInv'
    <3>1. UNCHANGED <<victim, closing, closed, closeList>> /\ Disarm({running[v]})
      BY <2>5 DEF Stop
    <3>2. (closing' # "no" <=> closed') /\ (closing' = "returned" => closeList' = {})
      BY <3>1 DEF EndInv
    <3> QED BY <3>1, <3>2, DisarmedTimers, OtherTimersKeepEndInv
  <2>6. ASSUME Close PROVE EndInv'
    <3>1. /\ UNCHANGED victim /\ closing' = "terminating" /\ closed' = TRUE
          /\ Disarm({running[v] : v \in Running})
      BY <2>6 DEF Close
    <3>2. (closing' # "no" <=> closed') /\ (closing' = "returned" => closeList' = {})
      BY <3>1
    <3> QED BY <3>1, <3>2, DisarmedTimers, OtherTimersKeepEndInv
  <2>7. ASSUME CloseReturns PROVE EndInv'
    <3>1. /\ UNCHANGED <<timer, victim, closed, closeList>> /\ closeList = {}
          /\ closing = "terminating" /\ closing' = "returned"
      BY <2>7 DEF CloseReturns
    <3>2. (closing' # "no" <=> closed') /\ (closing' = "returned" => closeList' = {})
      BY <3>1 DEF EndInv
    <3> QED BY <3>1, <3>2, OthersKeepEndInv
  <2>8. ASSUME Consume \/ UNCHANGED vars
        PROVE  UNCHANGED <<timer, victim, closing, closed, closeList>>
    BY <2>8 DEF Consume, vars, book
  <2> QED BY <2>1, <2>2, <2>3, <2>4, <2>5, <2>6, <2>7, <2>8, ReapKeepsEndInv
          DEF Next, Boot, Timer, Terminate
<1> QED BY <1>1, <1>2, QEMUInvariant, PTL DEF Spec

\* terminate, which Stop, Close and the timers wait for, returns when the process is gone,
\* for any number of Starts, in the exact terms of TerminatedIsDead.
THEOREM TerminateReturnsWhenDead == Spec => []TerminatedIsDead
<1>1. IInv => TerminatedIsDead
  <2> SUFFICES ASSUME IInv, NEW c \in Call, term[c] = "done", guest[c] = "alive", c \notin cut
               PROVE  closed /\ Booting(c)
    BY DEF TerminatedIsDead
  <2>1. Booting(c) /\ (running[ID[c]] = c \/ closed)
    BY DEF IInv, GuestInv
  <2>2. running[ID[c]] # c
    BY HypervisorAssumption DEF IInv, GuestInv
  <2> QED BY <2>1, <2>2
<1> QED BY <1>1, QEMUInvariant, PTL

\* No expiry is reported before the guest has stopped, unless a stale timer took the next
\* microVM of that identifier while it booted.
THEOREM NoticesTellOfDeadGuests == Spec => NoticeAfterDeath
<1>1. IInv /\ EndInv /\ [Next]_vars =>
        [\A c \in Call : Notify(c) => guest[victim[c]] # "alive" \/ victim[c] \in cut]_vars
  <2> SUFFICES ASSUME IInv, EndInv, NEW c \in Call, Notify(c)
               PROVE  guest[victim[c]] # "alive" \/ victim[c] \in cut
    OBVIOUS
  <2>1. PICK d \in Call : d = victim[c] /\ (Booting(d) => d \in cut) /\ term[d] = "done"
    BY DEF Notify, EndInv
  <2> QED BY <2>1 DEF IInv, GuestInv
<1> QED BY <1>1, QEMUInvariant, EndInvariant, PTL DEF Spec, NoticeAfterDeath

\* What Close leaves: nothing that runs for long.
THEOREM CloseLeavesNothingElse == Spec => []CloseLeavesOnlyLateGuests
<1>1. IInv /\ EndInv => CloseLeavesOnlyLateGuests
  <2> SUFFICES ASSUME IInv, EndInv, closing = "returned", NEW c \in Call \ cut, guest[c] = "alive"
               PROVE  Booting(c) \/ term[c] \in {"cancel", "wait"}
    BY DEF CloseLeavesOnlyLateGuests
  <2>1. closed /\ closeList = {} /\ running[ID[c]] # c
    BY HypervisorAssumption DEF EndInv, IInv, CloseInv
  <2> QED BY <2>1 DEF IInv, NoStrayGuest
<1> QED BY <1>1, QEMUInvariant, EndInvariant, PTL

\* The safety half of CloseKillsAll: once the hypervisor is closed and its processes are
\* gone, none comes back, whatever Starts, timers and Stops are still at work.
THEOREM NoGuestAfterTheEnd == Spec => [](Ended => []Ended)
<1>1. IInv /\ Ended /\ [Next]_vars => Ended'
  <2> SUFFICES ASSUME IInv, Ended, [Next]_vars PROVE Ended'
    OBVIOUS
  <2>0. Types /\ closed /\ cut \subseteq cut' /\ \A d \in Call \ cut : guest[d] # "alive" /\ ~Booting(d)
    BY BootsOnce DEF IInv, Ended
  <2>1. ASSUME closed', \A d \in Call \ cut : guest'[d] # "alive" /\ (Booting(d)' => Booting(d))
        PROVE  Ended'
    BY <2>0, <2>1 DEF Ended
  <2>2. ASSUME NEW c \in Call, Start(c) PROVE Ended'
    <3>1. StartErr(c) = "ErrClosed"
      BY <2>0 DEF StartErr
    <3>2. phase' = [phase EXCEPT ![c] = "ErrClosed"] /\ UNCHANGED <<closed, guest>>
      BY <2>2, <3>1 DEF Start, Goto, process
    <3>3. \A d \in Call : Booting(d)' => Booting(d)
      BY <2>0, <3>2 DEF Types, Booting
    <3> QED BY <2>0, <2>1, <3>2, <3>3
  <2>3. ASSUME \A d \in Call \ cut : guest'[d] # "alive", closed', UNCHANGED phase PROVE Ended'
    BY <2>1, <2>3 DEF Booting
  <2>4. ASSUME NEW c \in Call, Boot(c) PROVE Ended'
    <3>1. Booting(c) /\ c \in cut /\ UNCHANGED closed
      BY <2>0, <2>4 DEF Boot, SetsCancel, Launches, GuestReady, BootFails, Released, Started, Booting
    <3>2. \A d \in Call : d # c => guest'[d] = guest[d] /\ phase'[d] = phase[d]
      BY <2>0, <2>4 DEF Boot, SetsCancel, Launches, GuestReady, BootFails, Released, Started,
                        Goto, cancel, process, Types
    <3> QED BY <2>0, <2>1, <3>1, <3>2 DEF Booting
  <2>5. ASSUME NEW c \in Call, GuestExits(c) \/ TermCancels(c) PROVE Ended'
    <3>1. UNCHANGED <<phase, closed>> /\ \A d \in Call : guest'[d] \in {guest[d], "dead"}
      BY <2>0, <2>5 DEF GuestExits, TermCancels, cancel, book, Types
    <3> QED BY <2>0, <2>3, <3>1
  <2>6. ASSUME NEW c \in Call, Timer(c) \/ TermWaits(c) \/ CloseTerminates(c)
        PROVE  UNCHANGED <<phase, guest, closed>>
    BY <2>6 DEF Timer, Fires, reap, Notify, TermWaits, CloseTerminates, book, process
  <2>7. ASSUME NEW v \in VM, Stop(v) PROVE FALSE
    BY <2>0, <2>7 DEF Stop
  <2>8. ASSUME Close PROVE FALSE
    BY <2>0, <2>8 DEF Close
  <2>9. ASSUME CloseReturns \/ Consume \/ UNCHANGED vars PROVE UNCHANGED <<phase, guest, closed>>
    BY <2>9 DEF CloseReturns, Consume, vars, book, process
  <2>10. ASSUME UNCHANGED <<phase, guest, closed>> PROVE Ended'
    BY <2>0, <2>3, <2>10
  <2> QED BY <2>2, <2>4, <2>5, <2>6, <2>7, <2>8, <2>9, <2>10 DEF Next, Terminate
<1> QED BY <1>1, QEMUInvariant, PTL DEF Spec
=============================================================================
