------------------------------- MODULE System -------------------------------
(***************************************************************************)
(* The processes together: the placement API (internal/httpapi, the booter  *)
(* of cmd/placement-api), the agents (cmd/vmhostd) and the calls between    *)
(* them, which may be cut, lost or late.  An agent may be told to stop, may *)
(* crash and come back under its name; the API may restart with nothing.    *)
(*                                                                          *)
(* The parts have modules of their own, so here they take few steps.        *)
(* The scheduler is the SlotPool it implements; admission (Placement) finds *)
(* a slot or fails, and an identifier has one request at a time; a handler  *)
(* of the registry (Registry) takes a step per critical section, and so     *)
(* does the sweep, as if each host had a sweeper; time is any time, so a    *)
(* guest may expire and a grace period end at any moment; a hypervisor      *)
(* (Fake, QEMU) is the set of its guests and its channel.                   *)
(***************************************************************************)
EXTENDS Integers, Sequences, FiniteSets

CONSTANTS Host, VM, NoHost, Policy,    \* as in Scheduler; a request is its identifier
          Slots,       \* vmhostd -slots, also the capacity the agent registers
          Notices,     \* room in a hypervisor's expired channel
          Asks,        \* the requests' bodies: functions from VM to records
          Milli,       \* time.Millisecond, in units of a Duration
          Word,        \* 2^64: a Duration is a signed machine word
          DefaultTTL, MaxTTL,          \* Durations
          maxBootAttempts,             \* 3 in the code
          MaxFaults    \* bound: processes that end, silences, calls that are lost
                       \* or cut, calls to stop a guest, identifiers used again

FixedVCPUs == 1
FixedMemMiB == 1024

ASSUME SystemAssumption ==
  /\ NoHost \notin Host
  /\ Slots \in Nat /\ Slots >= 2 /\ Notices \in Nat \ {0} /\ MaxFaults \in Nat
  /\ Milli \in Nat \ {0} /\ Word \in Nat \ {0}
  /\ DefaultTTL \in Nat /\ MaxTTL \in Nat
  /\ Milli <= DefaultTTL /\ DefaultTTL <= MaxTTL /\ MaxTTL < Word \div 2
  /\ Asks \subseteq [VM -> [vcpus : Int, mem : Int, ttl : Int]]

VARIABLES hostState, capacity, assigned,  \* the scheduler
          tracked,     \* hosts the registry knows to be alive, and their addresses
          ask,         \* CreateVMRequest of each identifier
          pc, at, tries,               \* its handler, gone when "done"
          reqs,        \* how often it has been asked for again
          calls,       \* POST /vms in flight: [vm, host, req, try, answer]
          agent,       \* "up", "leaving" (SIGTERM) or "down"
          registered,  \* the local of registerAndHeartbeat, or "sent" while it registers
          guests,      \* the microVMs each hypervisor runs
          notices,     \* its expired channel
          reports,     \* DELETE /v1/vms/{id} of an agent in flight: <<host, vm>>
          ctl,         \* its calls to the registry: how many are where
          sweeping,    \* where the sweep is with each host
          faults,
          raced,       \* hosts of which two operations of the registry overlapped, until
                       \* nothing is left of the host (history)
          cut,         \* microVMs one of whose boot calls ended in doubt, until they are
                       \* placed with nothing left of that (history)
          disowned,    \* microVMs whose slot was taken from under them, until then (history)
          leaked       \* microVMs a guest of which ended unreported (history)

sched == <<hostState, capacity, assigned>>
registry == <<tracked, ctl, sweeping, raced>>
handler == <<pc, at, tries, reqs, calls>>
hosts == <<agent, registered, guests, notices>>
history == <<cut, disowned, leaked>>
vars == <<sched, registry, ask, handler, hosts, reports, faults, history>>

S == INSTANCE SlotPool WITH MinSlotsPerHost <- 2

\* Where a call to the registry may be: on its way, or between two critical sections.
Stage == {"register", "add", "ready", "deregister", "drain"}

Init ==
  /\ S!Init /\ tracked = {} /\ ask \in Asks
  /\ pc = [v \in VM |-> "idle"] /\ at = [v \in VM |-> NoHost]
  /\ tries = [v \in VM |-> 0] /\ reqs = [v \in VM |-> 0] /\ calls = {}
  /\ agent = [h \in Host |-> "down"] /\ registered = [h \in Host |-> "no"]
  /\ guests = [h \in Host |-> {}] /\ notices = [h \in Host |-> <<>>]
  /\ reports = {} /\ ctl = [h \in Host |-> [p \in Stage |-> 0]]
  /\ sweeping = [h \in Host |-> "no"] /\ faults = 0
  /\ raced = {} /\ cut = {} /\ disowned = {} /\ leaked = {}

Fault == faults < MaxFaults /\ faults' = faults + 1

-----------------------------------------------------------------------------
(* The body of a request: httpapi's validate, and the TTL on its way. *)

\* A product of int64s wraps around.
Wrap(n) == ((n + Word \div 2) % Word) - Word \div 2

FromMillis(ms) == Wrap(ms * Milli)

\* Duration.Milliseconds cuts towards zero.
Milliseconds(d) == IF d >= 0 THEN d \div Milli ELSE -((-d) \div Milli)

TTL(q) == IF q.ttl > 0 THEN FromMillis(q.ttl) ELSE DefaultTTL

\* A wrong form for the mutation runs: the TTL has no upper bound.
ValidUnbounded(q) == q.vcpus \in {0, FixedVCPUs} /\ q.mem \in {0, FixedMemMiB} /\ q.ttl >= 0

Valid(q) == /\ q.vcpus \in {0, FixedVCPUs} /\ q.mem \in {0, FixedMemMiB}
            /\ q.ttl >= 0 /\ TTL(q) <= MaxTTL

\* What the agent makes of the milliseconds the booter sent.
GuestTTL(v) == FromMillis(Milliseconds(TTL(ask[v])))

-----------------------------------------------------------------------------
(* POST /v1/vms: handleCreateVM, and bootWithRetry with the HTTP booter. *)

\* The handler answers and is gone, its variables with it.
Answer(v) == /\ pc' = [pc EXCEPT ![v] = "done"]
             /\ at' = [at EXCEPT ![v] = NoHost] /\ tries' = [tries EXCEPT ![v] = 0]

Refuse(v) ==
  /\ pc[v] = "idle" /\ ~Valid(ask[v]) /\ Answer(v)
  /\ UNCHANGED <<sched, registry, ask, reqs, calls, hosts, reports, faults, history>>

\* Admission fails: timeout, queue full, shutdown, or the identifier has a slot.
AdmitFails(v) ==
  /\ pc[v] = "idle" /\ Valid(ask[v]) /\ Answer(v)
  /\ UNCHANGED <<sched, registry, ask, reqs, calls, hosts, reports, faults, history>>

\* Host h knows of v: its guest, a notice of its end, or a report on its way.
Noticed(h, v) == \E i \in 1 .. Len(notices[h]) : notices[h][i] = v
Trace(h, v) == v \in guests[h] \/ <<h, v>> \in reports \/ Noticed(h, v)

\* Nothing is left of earlier guests of v and their calls.
Fresh(v) == (\A c \in calls : c.vm # v) /\ \A h \in Host : ~Trace(h, v)

\* The handler gets a slot; what happened to earlier ones no longer matters if nothing
\* is left of it.
Placed(v) ==
  /\ S!Place(v) /\ at' = [at EXCEPT ![v] = assigned'[v]]
  /\ pc' = [pc EXCEPT ![v] = "call"]
  /\ leaked' = leaked \ {v}
  /\ IF Fresh(v) THEN cut' = cut \ {v} /\ disowned' = disowned \ {v}
                 ELSE UNCHANGED <<cut, disowned>>

Admit(v) ==
  /\ pc[v] = "idle" /\ Valid(ask[v]) /\ Placed(v)
  /\ UNCHANGED <<registry, ask, tries, reqs, calls, hosts, reports, faults>>

\* A client chooses its identifiers: it may repeat an answered request.
AskAgain(v) ==
  /\ Fault /\ pc[v] = "done" /\ pc' = [pc EXCEPT ![v] = "idle"]
  /\ reqs' = [reqs EXCEPT ![v] = @ + 1]
  /\ UNCHANGED <<sched, registry, ask, at, tries, calls, hosts, reports, history>>

\* The call of the present attempt.
Own(v, c) == c.vm = v /\ c.req = reqs[v] /\ c.try = tries[v]

Call(v) == [vm |-> v, host |-> at[v], req |-> reqs[v], try |-> tries[v],
            answer |-> "none"]

\* The address of a host goes with its heartbeats.
Boot(v) ==
  /\ pc[v] = "call"
  /\ IF at[v] \in tracked
     THEN calls' = calls \cup {Call(v)} /\ pc' = [pc EXCEPT ![v] = "boot"]
     ELSE pc' = [pc EXCEPT ![v] = "release"] /\ UNCHANGED calls
  /\ UNCHANGED <<sched, registry, ask, at, tries, reqs, hosts, reports, faults, history>>

\* A wrong form for the mutation runs: any answer of the agent will do.
BootReturnsUnchecked(v) ==
  /\ pc[v] = "boot"
  /\ \E c \in calls :
       /\ Own(v, c) /\ c.answer # "none" /\ calls' = calls \ {c}
       /\ Answer(v)
  /\ UNCHANGED <<sched, registry, ask, reqs, hosts, reports, faults, history>>

BootReturns(v) ==
  /\ pc[v] = "boot"
  /\ \E c \in calls :
       /\ Own(v, c) /\ c.answer # "none" /\ calls' = calls \ {c}
       /\ \/ c.answer = "created" /\ Answer(v)
          \/ /\ c.answer = "error" /\ pc' = [pc EXCEPT ![v] = "release"]
             /\ UNCHANGED <<at, tries>>
  /\ UNCHANGED <<sched, registry, ask, reqs, hosts, reports, faults, history>>

\* Boot returns an error although the agent may have started the guest, or start it
\* yet: its process is not there, or the connection is cut, the client times out or
\* the caller is gone.
BootCut(v) ==
  /\ pc[v] = "boot" /\ pc' = [pc EXCEPT ![v] = "release"]
  /\ calls' = {c \in calls : Own(v, c) => c.answer = "none"}
  /\ cut' = cut \cup {v}
  /\ IF \E c \in calls : Own(v, c) /\ agent[c.host] # "down"
     THEN Fault ELSE UNCHANGED faults
  /\ UNCHANGED <<sched, registry, ask, at, tries, reqs, hosts, reports, disowned, leaked>>

Release(v) ==
  /\ pc[v] = "release" /\ pc' = [pc EXCEPT ![v] = "retry"]
  /\ IF assigned[v] # NoHost THEN S!Release(v) ELSE UNCHANGED sched
  /\ UNCHANGED <<registry, ask, at, tries, reqs, calls, hosts, reports, faults, history>>

Retry(v) ==
  /\ pc[v] = "retry" /\ tries[v] + 1 < maxBootAttempts /\ Placed(v)
  /\ tries' = [tries EXCEPT ![v] = @ + 1]
  /\ UNCHANGED <<registry, ask, reqs, calls, hosts, reports, faults>>

\* Out of attempts, past the deadline or without a slot; ErrBootFailed is a 500.
GiveUp(v) ==
  /\ pc[v] = "retry" /\ Answer(v)
  /\ UNCHANGED <<sched, registry, ask, reqs, calls, hosts, reports, faults, history>>

\* DELETE /v1/vms/{id} by a client gives the slot back, and the guest runs on.
handleDeleteVM(v) ==
  /\ S!Release(v) /\ disowned' = disowned \cup {v}
  /\ UNCHANGED <<registry, ask, handler, hosts, reports, faults, cut, leaked>>

-----------------------------------------------------------------------------
(* The agent: its hypervisor's guests and the reports of their end. *)

\* The handler is still waiting for the answer to call c.
Awaited(c) == pc[c.vm] = "boot" /\ Own(c.vm, c)

Reply(c, a) == calls' = (calls \ {c}) \cup (IF Awaited(c) THEN {[c EXCEPT !.answer = a]}
                                            ELSE {})

\* Spec.Validate.  An identifier it refuses makes the boot fail like any other reason.
SpecErr(v) == GuestTTL(v) < 0

StartErr(h, v) == SpecErr(v) \/ v \in guests[h] \/ Cardinality(guests[h]) >= Slots

\* A wrong form for the mutation runs: the booter does not get the status it wants.
handleStartVMMisread(c) ==
  /\ c.answer = "none" /\ agent[c.host] # "down"
  /\ ~StartErr(c.host, c.vm) /\ Reply(c, "error")
  /\ guests' = [guests EXCEPT ![c.host] = @ \cup {c.vm}]
  /\ UNCHANGED <<sched, registry, ask, pc, at, tries, reqs, agent, registered, notices,
                 reports, faults, history>>

\* A boot may fail for reasons of its own, a cancelled context among them.
handleStartVM(c) ==
  /\ c.answer = "none" /\ agent[c.host] # "down"
  /\ \/ /\ ~StartErr(c.host, c.vm) /\ Reply(c, "created")
        /\ guests' = [guests EXCEPT ![c.host] = @ \cup {c.vm}]
     \/ Reply(c, "error") /\ UNCHANGED guests
  /\ UNCHANGED <<sched, registry, ask, pc, at, tries, reqs, agent, registered, notices,
                 reports, faults, history>>

Ends(h, v) == v \in guests[h] /\ guests' = [guests EXCEPT ![h] = @ \ {v}]

\* A stop by the agent's own interface tells nobody.
handleStopVM(h, v) ==
  /\ Fault /\ agent[h] # "down" /\ Ends(h, v) /\ leaked' = leaked \cup {v}
  /\ UNCHANGED <<sched, registry, ask, handler, agent, registered, notices, reports, cut, disowned>>

\* The TTL is over.  A TTL of zero arms no timer, a full channel takes no notice.
Expire(h, v) ==
  /\ GuestTTL(v) > 0 /\ Ends(h, v)
  /\ \/ /\ Len(notices[h]) < Notices
        /\ notices' = [notices EXCEPT ![h] = Append(@, v)] /\ UNCHANGED leaked
     \/ Len(notices[h]) = Notices /\ leaked' = leaked \cup {v} /\ UNCHANGED notices
  /\ UNCHANGED <<sched, registry, ask, handler, agent, registered, reports, faults, cut, disowned>>

\* One report at a time.
watchExpiries(h) ==
  /\ agent[h] = "up" /\ notices[h] # <<>> /\ ~ \E v \in VM : <<h, v>> \in reports
  /\ notices' = [notices EXCEPT ![h] = Tail(@)]
  /\ reports' = reports \cup {<<h, Head(notices[h])>>}
  /\ UNCHANGED <<sched, registry, ask, handler, agent, registered, guests, faults, history>>

\* releaseVM arrives at handleDeleteVM, which may know no such microVM ...
ReportArrives(h, v) ==
  /\ <<h, v>> \in reports /\ reports' = reports \ {<<h, v>>}
  /\ IF assigned[v] # NoHost THEN S!Release(v) ELSE UNCHANGED sched
  /\ UNCHANGED <<registry, ask, handler, hosts, faults, history>>

\* ... or is lost, and not repeated.
ReportLost(h, v) ==
  /\ Fault /\ <<h, v>> \in reports /\ reports' = reports \ {<<h, v>>}
  /\ leaked' = leaked \cup {v}
  /\ UNCHANGED <<sched, registry, ask, handler, hosts, cut, disowned>>

-----------------------------------------------------------------------------
(* The agent and the registry: registerAndHeartbeat, deregister, Sweep. *)

Goes(h, p, q) == /\ ctl[h][p] > 0
                 /\ ctl' = [ctl EXCEPT ![h][p] = @ - 1, ![h][q] = @ + 1]

Finishes(h, p) == ctl[h][p] > 0 /\ ctl' = [ctl EXCEPT ![h][p] = @ - 1]

\* An operation of the registry on h is between two of its critical sections.
InHand(h) == \E p \in {"add", "ready", "drain"} : ctl[h][p] > 0
Busy(h) == InHand(h) \/ sweeping[h] \in {"drain", "remove"}

Begins(h) == raced' = IF Busy(h) THEN raced \cup {h} ELSE raced

SendRegister(h) ==
  /\ agent[h] = "up" /\ registered[h] = "no"
  /\ registered' = [registered EXCEPT ![h] = "sent"]
  /\ ctl' = [ctl EXCEPT ![h]["register"] = @ + 1]
  /\ UNCHANGED <<sched, tracked, sweeping, raced, ask, handler, agent, guests, notices,
                 reports, faults, history>>

\* The answer to a registration reaches the agent, unless it is to one whose agent
\* has stopped waiting.
Answered(h, r) ==
  \/ registered[h] = "sent" /\ registered' = [registered EXCEPT ![h] = r]
  \/ /\ registered[h] = "sent" => \E p \in {"register", "add", "ready"} : ctl'[h][p] > 0
     /\ UNCHANGED registered

\* A host the registry tracks is only refreshed, another is added to the scheduler,
\* which may know it still, and made ready.
RegisterArrives(h) ==
  /\ tracked' = tracked \cup {h}
  /\ \/ h \in tracked /\ Finishes(h, "register") /\ Answered(h, "yes") /\ UNCHANGED raced
     \/ h \notin tracked /\ Goes(h, "register", "add") /\ Begins(h) /\ UNCHANGED registered
  /\ UNCHANGED <<sched, sweeping, ask, handler, agent, guests, notices, reports, faults,
                 history>>

RegisterAdds(h) ==
  /\ Goes(h, "add", "ready")
  /\ IF hostState[h] = "Absent"
     THEN /\ hostState' = [hostState EXCEPT ![h] = "Pending"]
          /\ capacity' = [capacity EXCEPT ![h] = Slots]
     ELSE UNCHANGED <<hostState, capacity>>
  /\ UNCHANGED <<assigned, tracked, sweeping, raced, ask, handler, hosts, reports, faults,
                 history>>

\* The host may be gone again, which is an error; it stays tracked then.
RegisterReadies(h) ==
  /\ Finishes(h, "ready")
  /\ IF hostState[h] # "Absent" THEN S!SetHostState(h, "Ready") /\ Answered(h, "yes")
                                ELSE UNCHANGED sched /\ Answered(h, "no")
  /\ UNCHANGED <<tracked, sweeping, raced, ask, handler, agent, guests, notices, reports,
                 faults, history>>

\* The connection is cut and register returns an error while the call goes on (the agent's
\* client has no timeout) ...
RegisterCut(h) ==
  /\ Fault /\ registered[h] = "sent" /\ registered' = [registered EXCEPT ![h] = "no"]
  /\ UNCHANGED <<sched, registry, ask, handler, agent, guests, notices, reports, history>>

\* ... or a call does not arrive.
Lost(h) ==
  /\ Fault
  /\ \/ Finishes(h, "register") /\ Answered(h, "no")
     \/ Finishes(h, "deregister") /\ UNCHANGED registered
  /\ UNCHANGED <<sched, tracked, sweeping, raced, ask, handler, agent, guests, notices,
                 reports, history>>

HeartbeatErr(h) == h \notin tracked

\* A wrong form for the mutation runs: only a lost heartbeat counts, not a refused one.
heartbeatRefusedIgnored(h) ==
  /\ registered[h] = "yes" /\ ~HeartbeatErr(h) /\ Fault
  /\ registered' = [registered EXCEPT ![h] = "no"]
  /\ UNCHANGED <<sched, registry, ask, handler, agent, guests, notices, reports, history>>

\* A heartbeat is lost, or refused since the registry does not know the host.
heartbeatFails(h) ==
  /\ registered[h] = "yes" /\ registered' = [registered EXCEPT ![h] = "no"]
  /\ IF HeartbeatErr(h) THEN UNCHANGED faults ELSE Fault
  /\ UNCHANGED <<sched, registry, ask, handler, agent, guests, notices, reports, history>>

Drain(h) == IF hostState[h] # "Absent" THEN S!SetHostState(h, "Draining") ELSE UNCHANGED sched

DeregisterArrives(h) ==
  /\ tracked' = tracked \ {h}
  /\ \/ h \in tracked /\ Goes(h, "deregister", "drain") /\ Begins(h)
     \/ h \notin tracked /\ Finishes(h, "deregister") /\ UNCHANGED raced
  /\ UNCHANGED <<sched, sweeping, ask, handler, hosts, reports, faults, history>>

DeregisterDrains(h) ==
  /\ Finishes(h, "drain") /\ Drain(h)
  /\ UNCHANGED <<tracked, sweeping, raced, ask, handler, hosts, reports, faults, history>>

\* Sweep forgets a host that is silent, since its agent is gone or cannot be heard ...
Sweep(h) ==
  /\ sweeping[h] = "no" /\ sweeping' = [sweeping EXCEPT ![h] = "drain"]
  /\ h \in tracked /\ tracked' = tracked \ {h} /\ Begins(h)
  /\ IF agent[h] = "up" THEN Fault ELSE UNCHANGED faults
  /\ UNCHANGED <<sched, ctl, ask, handler, hosts, reports, history>>

\* ... and drains it;
SweepDrains(h) ==
  /\ sweeping[h] = "drain" /\ sweeping' = [sweeping EXCEPT ![h] = "no"] /\ Drain(h)
  /\ UNCHANGED <<tracked, ctl, raced, ask, handler, hosts, reports, faults, history>>

\* reapEmptyDrainingHosts finds the host draining in its snapshot, empty or with its
\* grace period over, ...
reapSnapshot(h) ==
  /\ sweeping[h] = "no" /\ hostState[h] = "Draining"
  /\ sweeping' = [sweeping EXCEPT ![h] = "snap"]
  /\ UNCHANGED <<sched, tracked, ctl, raced, ask, handler, hosts, reports, faults, history>>

\* ... leaves it if it is tracked again ...
reapLooksAt(h) ==
  /\ sweeping[h] = "snap"
  /\ sweeping' = [sweeping EXCEPT ![h] = IF h \in tracked THEN "no" ELSE "remove"]
  /\ IF h \in tracked THEN UNCHANGED raced ELSE Begins(h)
  /\ UNCHANGED <<sched, tracked, ctl, ask, handler, hosts, reports, faults, history>>

\* A wrong form for the mutation runs: only an empty host is removed.
reapRemovesOnlyEmpty(h) ==
  /\ sweeping[h] = "remove" /\ S!Free(h) = capacity[h]
  /\ sweeping' = [sweeping EXCEPT ![h] = "no"]
  /\ hostState[h] # "Absent" /\ S!RemoveHost(h)
  /\ UNCHANGED <<tracked, ctl, raced, ask, handler, hosts, reports, faults, history>>

\* ... and removes it otherwise.
reapRemoves(h) ==
  /\ sweeping[h] = "remove" /\ sweeping' = [sweeping EXCEPT ![h] = "no"]
  /\ IF hostState[h] # "Absent"
     THEN S!RemoveHost(h) /\ disowned' = disowned \cup {v \in VM : assigned[v] = h}
     ELSE UNCHANGED <<sched, disowned>>
  /\ raced' = IF h \in tracked \/ InHand(h) THEN raced ELSE raced \ {h}
  /\ UNCHANGED <<tracked, ctl, ask, handler, hosts, reports, faults, cut, leaked>>

-----------------------------------------------------------------------------
(* Processes come and go. *)

AgentStarts(h) ==
  /\ agent[h] = "down" /\ agent' = [agent EXCEPT ![h] = "up"]
  /\ UNCHANGED <<sched, registry, ask, handler, registered, guests, notices, reports,
                 faults, history>>

\* SIGTERM cancels the context of watchExpiries and of the heartbeats, whose calls may
\* still be on their way; the agent deregisters.
Leave(h) ==
  /\ Fault /\ agent[h] = "up" /\ agent' = [agent EXCEPT ![h] = "leaving"]
  /\ registered' = [registered EXCEPT ![h] = "no"]
  /\ ctl' = [ctl EXCEPT ![h]["deregister"] = @ + 1]
  /\ UNCHANGED <<sched, tracked, sweeping, raced, ask, handler, guests, notices, reports,
                 history>>

\* The process ends, its guests and open connections with it.
Gone(h) ==
  /\ agent' = [agent EXCEPT ![h] = "down"]
  /\ registered' = [registered EXCEPT ![h] = "no"]
  /\ guests' = [guests EXCEPT ![h] = {}] /\ notices' = [notices EXCEPT ![h] = <<>>]
  /\ leaked' = leaked \cup guests[h] \cup {notices[h][i] : i \in 1 .. Len(notices[h])}
  /\ calls' = {c \in calls : c.host = h => c.answer # "none"}
  /\ UNCHANGED <<sched, registry, ask, pc, at, tries, reqs, reports, cut, disowned>>

\* deregister has returned or timed out, the server is shut down, hv.Close.
Exit(h) ==
  /\ agent[h] = "leaving" /\ Gone(h)
  /\ IF \E p \in {"deregister", "drain"} : ctl[h][p] > 0 THEN Fault ELSE UNCHANGED faults

Crash(h) == agent[h] # "down" /\ Fault /\ Gone(h)

\* The API keeps everything in memory, and its connections die with it.
ApiRestarts ==
  /\ Fault /\ tracked' = {}
  /\ hostState' = [h \in Host |-> "Absent"] /\ capacity' = [h \in Host |-> 0]
  /\ assigned' = [v \in VM |-> NoHost]
  /\ pc' = [v \in VM |-> IF pc[v] = "idle" THEN "idle" ELSE "done"]
  /\ at' = [v \in VM |-> NoHost] /\ tries' = [v \in VM |-> 0]
  /\ calls' = {c \in calls : c.answer = "none"} /\ reports' = {}
  /\ ctl' = [h \in Host |-> [p \in Stage |-> 0]] /\ sweeping' = [h \in Host |-> "no"]
  /\ registered' = [h \in Host |-> IF registered[h] = "yes" THEN "yes" ELSE "no"]
  /\ raced' = {} /\ cut' = cut \cup {v \in VM : pc[v] = "boot"}
  /\ disowned' = disowned \cup {v \in VM : assigned[v] # NoHost}
  /\ UNCHANGED <<ask, reqs, agent, guests, notices, leaked>>

-----------------------------------------------------------------------------
Handler(v) == \/ Boot(v) \/ BootReturns(v) \/ BootCut(v) \/ Release(v) \/ Retry(v)
              \/ GiveUp(v)

\* The registry and its sweep at work on h.
Registering(h) == \/ RegisterArrives(h) \/ RegisterAdds(h) \/ RegisterReadies(h)
                  \/ DeregisterArrives(h) \/ DeregisterDrains(h)
                  \/ SweepDrains(h) \/ reapRemoves(h)

Next ==
  \/ \E v \in VM : \/ Refuse(v) \/ AdmitFails(v) \/ Admit(v) \/ AskAgain(v) \/ Handler(v)
                   \/ handleDeleteVM(v)
  \/ \E c \in calls : handleStartVM(c)
  \/ \E h \in Host, v \in VM : \/ handleStopVM(h, v) \/ Expire(h, v)
                               \/ ReportArrives(h, v) \/ ReportLost(h, v)
  \/ \E h \in Host : \/ watchExpiries(h) \/ SendRegister(h) \/ RegisterCut(h) \/ Lost(h)
                     \/ heartbeatFails(h) \/ Registering(h)
                     \/ Sweep(h) \/ reapSnapshot(h) \/ reapLooksAt(h)
                     \/ AgentStarts(h) \/ Leave(h) \/ Exit(h) \/ Crash(h)
  \/ ApiRestarts

Spec == Init /\ [][Next]_vars

\* Handlers and loops run, calls end one way or the other, guests with a TTL end,
\* silent hosts are swept.  Nothing is assumed of requests, deletions, faults and agents
\* that start.  With the faults bounded no run of these steps is endless, so that it
\* is enough to ask for one of them as long as there is one; only the reaper may look at
\* a host again and again.
Progress ==
  \/ \E v \in VM : Handler(v)
  \/ \E c \in calls : handleStartVM(c)
  \/ \E h \in Host, v \in VM : Expire(h, v) \/ ReportArrives(h, v)
  \/ \E h \in Host : \/ watchExpiries(h) \/ SendRegister(h)
                     \/ HeartbeatErr(h) /\ heartbeatFails(h)
                     \/ agent[h] # "up" /\ Sweep(h)
                     \/ h \notin tracked /\ reapSnapshot(h)
                     \/ Registering(h) \/ Exit(h)

Fairness == WF_vars(Progress) /\ \A h \in Host : WF_vars(reapLooksAt(h))

FairSpec == Spec /\ Fairness

-----------------------------------------------------------------------------
\* Hosts, microVMs and what travels between the processes are of their kinds.
TypeOK ==
  /\ hostState \in [Host -> {"Absent", "Pending", "Ready", "Draining"}]
  /\ capacity \in [Host -> Nat] /\ assigned \in [VM -> Host \cup {NoHost}]
  /\ tracked \subseteq Host /\ ask \in Asks
  /\ pc \in [VM -> {"idle", "call", "boot", "release", "retry", "done"}]
  /\ at \in [VM -> Host \cup {NoHost}] /\ tries \in [VM -> Nat]
  /\ reqs \in [VM -> Nat]
  /\ calls \subseteq [vm : VM, host : Host, req : Nat, try : Nat,
                      answer : {"none", "created", "error"}]
  /\ agent \in [Host -> {"up", "leaving", "down"}] 
  /\ registered \in [Host -> {"no", "sent", "yes"}]
  /\ guests \in [Host -> SUBSET VM] /\ notices \in [Host -> Seq(VM)]
  /\ reports \subseteq Host \X VM /\ ctl \in [Host -> [Stage -> Nat]]
  /\ sweeping \in [Host -> {"no", "drain", "snap", "remove"}]
  /\ faults \in Nat /\ raced \subseteq Host
  /\ cut \subseteq VM /\ disowned \subseteq VM /\ leaked \subseteq VM

\* A guest that runs on a host has that host's slot: the end of a guest, a failed boot
\* and the removal of a host free a slot only when its guest is gone; and although
\* retries boot a microVM on several hosts, and clients use identifiers again, it runs
\* on one.  The exceptions: a boot call of that microVM ended in doubt, so that its guest
\* runs although the slot went elsewhere, and its end frees the slot of the next attempt
\* (booter.go:56); or its slot was taken from under it, by a client's delete, with its
\* host or by a restart, so that the identifier may be placed and booted again beside
\* the guest (server.go:186, 268).  They end where the microVM is placed with no call,
\* guest, notice or report left of it.
RunningHoldsSlot ==
  \A h \in Host : \A v \in guests[h] \ (cut \cup disowned) :
    /\ assigned[v] = h
    /\ \A g \in Host \ {h} : v \notin guests[g]

\* A slot whose request has been answered belongs to a guest that runs, or whose end
\* is on its way in the channel or in a report, unless that guest is known to have
\* ended unreported: its report was lost (vmhostd main.go:361), the channel was full
\* (fake.go:198), it was stopped on the agent, or the agent went away with it.
SlotHasGuest ==
  \A v \in VM : LET h == assigned[v] IN
    h # NoHost /\ pc[v] \in {"idle", "done"} => Trace(h, v) \/ v \in leaked

Overflows(v) == ask[v].ttl > (Word \div 2 - 1) \div Milli

\* "MaxTTL bounds how long a caller may pin a slot" (server.go:31): the TTL with which
\* a hypervisor runs a guest is positive and at most MaxTTL.  The exception is a ttl_ms
\* whose product overflows (server.go:224): it may come out as zero, which never ends.
PinnedAtMostMaxTTL ==
  \A h \in Host : \A v \in guests[h] :
    \/ GuestTTL(v) > 0 /\ GuestTTL(v) <= MaxTTL
    \/ Overflows(v)

\* An agent that runs serves: after a lost or late registration, a silence, its own
\* restart or one of the API the registry tracks its host again and the scheduler uses
\* it.  The exception is a host of which two operations of the registry overlapped: a
\* sweep may drain it, or remove it, when it has registered again (registry.go:195, 229),
\* and with its heartbeats accepted it stays so.
LiveAgentServes ==
  \A h \in Host :
    agent[h] = "up" ~> \/ agent[h] # "up"
                       \/ h \in tracked /\ hostState[h] = "Ready"
                       \/ h \in raced

\* Every slot comes back, through expiry or through the removal of its host.  Not one
\* whose ttl_ms overflows, as its guest may never expire, nor one that leaked on a host
\* whose agent lives on, or is back before the host was removed: registry.go:126 finds
\* such a host known and does not reset what the scheduler has of it.  Nor one on a
\* host of which two operations overlapped: a registration that ends after it was
\* deregistered or swept leaves it ready and not tracked, and no sweep finds it
\* (registry.go:139).
SlotsComeBack ==
  \A v \in VM :
    assigned[v] # NoHost ~>
      \/ assigned[v] = NoHost \/ Overflows(v)
      \/ v \in leaked /\ agent[assigned[v]] = "up"
      \/ assigned[v] \in raced
=============================================================================
