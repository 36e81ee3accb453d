# Verification of microvm-placement

TLA+ models of the placement system in `src/`, checked with TLC on small
instances; every safety property the runs check is also proved with TLAPS, for every
instance. `PROJECT.json` lists the runs, the source lines behind every definition,
the mutants that show each property can fail, the hazards and the theorems.

## The system

A request asks for a microVM. The **placement service** admits it through a
bounded queue; one dispatcher takes a slot for it from the **scheduler**; the
**booter** asks the **agent** on the chosen host to start the guest; the agent's
**hypervisor** (QEMU, or an in-process fake) runs it until its TTL ends or somebody
stops it, and the agent reports the end so that the slot is freed. Hosts join, heartbeat and leave through
the **registry**. The **autoscaler** turns load into a host count, which Kubernetes
(or, in the simulator, the **fleet**) brings about.

| component | state | operations | correct means |
|---|---|---|---|
| host set (`scheduler/hostset.go`) | a slice and an index into it | add, remove (swap with the last), any | it is a set |
| scheduler (`scheduler/scheduler.go`) | hosts with state, capacity and a used counter; assignment of microVMs; free-slot buckets; `maxCap` | AddHost, SetHostState, RemoveHost, Place, Release, Stats; one mutex | counters and buckets are exact; a slot is found iff there is one; the policy is followed |
| placement service (`placement/service.go`) | queue, per-request answer channel, one wakeup token, counters | Admit, dispatcher, boot retries, Release, Stop and drain | every request is answered once, in order; no slot leaks; no wakeup is lost |
| registry (`registry/registry.go`) | lastSeen, drainingSince | Register, Heartbeat, Deregister, Sweep; own mutex, not held during scheduler calls | tracked hosts serve, silent ones drain, dead ones are removed after a grace period |
| hypervisors (`hypervisor/fake.go`, `qemu.go`) | running microVMs, timers, a wait group, the expired channel; QEMU: processes | Start (boots without the lock), Stop, expiry, Close | slots respected; Close ends and leaves nothing behind; no send on a closed channel |
| autoscaler (`autoscale/autoscale.go`) | samples in a window, slope, peak | Decide | the slope is right, ramps are covered ahead of time, shrinking is slow |
| simulated fleet (`sim/fleet.go`) | next id, draining set, start timers | reconcile, markReady | scale-down orphans nothing; the fleet converges |
| HTTP API (`httpapi/server.go`), booter (`cmd/placement-api/booter.go`) | a handler and a call per request | create, delete, register, heartbeat, deregister; a boot call with a timeout | what the client is told, the slot and the guest agree |
| agent (`cmd/vmhostd`) | its hypervisor, whether it is registered | start and stop a guest, report expiries, register, heartbeat, deregister | a live agent serves; every slot of an ended guest comes back |
| simulator driver (`sim/sim.go`) | statistics | sample, issue | drives the fleet; otherwise not modelled |
| load generator, metrics, deployment | statistics, I/O, configuration | | not modelled |

How they interact: the placement service, the registry and the fleet call the
scheduler (its mutex makes a call one step); Release and Register leave a token in
the dispatcher's `freed` channel; the hypervisor's timers write to `expired`, which
the agent reads. Booter and agent, agent and API talk HTTP: a call may be cut with its
effect done or not, and neither process keeps anything over a restart. What is hard: the dispatcher, requests, deadlines and shutdown
interleave at every channel operation; the registry decides under one lock and acts
under another; boots run with no lock held while Stop, Close and timers run; timers
and releases act by identifier and may be late; agents crash, calls end in doubt and
reports are not repeated.

## Modules

| module | models | state and actions |
|---|---|---|
| `IdSet` | abstract | a set of identifiers and what `any` last answered |
| `HostSet` | `hostset.go` | `ids`, `index`; `add`, `remove`, `any`. Implements `IdSet` |
| `SlotPool` | abstract | hosts with slots and microVMs that hold them; how full a host is is counted |
| `Scheduler` | `scheduler.go` | one action per exported method (each holds `mu` throughout); error results are operators. Buckets are sets (`HostSet` justifies that). Implements `SlotPool` |
| `SchedulerStats` | `Scheduler.Stats` | an operator on the scheduler's state |
| `Placement` | `service.go`, composed with `Scheduler` | one step per channel operation or scheduler call of a request, of the dispatcher, of a releasing caller and of the registry's calls; Booter is a call that succeeds or fails at any time |
| `Registry` | `registry.go`, composed with `Scheduler` | one step per critical section of a handler or of the sweep |
| `Fake` | `hypervisor/fake.go` | one step per critical section, timer firing, channel send and close |
| `QEMU` | `hypervisor/qemu.go` | the same with boot, processes, cancellation and `terminate`, which read each other's fields without a lock. Implements `Fake` |
| `Autoscaler` | `autoscale.go` and the exporter's tick | one action per tick, exact fractions for floats |
| `Fleet` | `sim/fleet.go`, composed with `Scheduler`, driven as `sim.go` does | one step per scheduler call or critical section |
| `System` | `httpapi/server.go`, `booter.go`, `vmhostd/main.go` and the wire between them, composed with `SlotPool` | one action per handler (per critical section for those of the registry), per loop step of an agent, and per way a call can end; identifiers used again; processes that stop, crash and return |
| `HostSetProofs`, `SchedulerProofs`, `PlacementProofs`, `RegistryProofs`, `FakeProofs`, `QEMUProofs`, `SystemProofs` | | theorems about the module each is named after; `SchedulerProofs` also about `SchedulerStats` |
| `ScalingProofs` | | theorems about `Fleet` and `Autoscaler`, both of which it extends (the autoscaler's specification is `ScalingSpec`, from `New` by `Tick`) |
| `MC*` | | values for CONSTANTS and symmetry |

Definitions named in `map` carry the name of the function they translate where it
is one action, and a name made from it where it is several. Definitions introduced as "A wrong form for the mutation
runs" are deliberate bugs; nothing of a specification uses them.

History variables, which no action reads: `call` (HostSet), `arrivals` and `lost` (Placement),
`draining` and `raced` (Registry), `cut` (Fake, QEMU), `shrunk`, `spacing` (Autoscaler),
`raced`, `cut`, `disowned` and `leaked` (System).

`System` rests on the other modules where it is coarse. Its scheduler is the `SlotPool`
that `Scheduler` is proved to implement. Admission is one step that finds a slot or an
error (`Placement` shows that every request gets one of them), and an identifier has one
request at a time: it may be asked for again, with the same body, once that is answered
(requests of one identifier at the same time are `OneHolderPerID` of `Placement`). A handler
of the registry takes a step per critical section, as in `Registry`, except that the date
of a drain is left out with the clock; the sweep does so too, for each host as if it had a
sweeper of its own, which allows more orders than the one goroutine has. A hypervisor is the set of its guests
and its channel, and a boot either adds a guest or fails (`Fake`, `QEMU`). There is no
clock: a guest with a TTL may end, and a silent or draining host be taken out, at any
moment.

## Runs

Passing runs (states are distinct states found):

| run | instance | shows |
|---|---|---|
| `hostset` | 4 identifiers (complete, 325 states) | index and slice agree; it implements a set |
| `scheduler` | 3 hosts of capacity 1 (refused), 2 or 3, 4 microVMs, BestFit | slot accounting, exact buckets, no false ErrNoCapacity, the policy, the two counts of Stats agree, refinement of `SlotPool` |
| `placement` | 3 requests, queue of 2, one host that joins at any time, drains, returns or is removed, one deletion, deadlines (2.6 M) | FIFO, no lost wakeup |
| `placement_live` | 2 requests with the same identifier or their own, boots that fail and are retried, one host, one deletion, shutdown (0.5 M) | a request is in exactly one place; slots follow requests, a failed one holds none; one holder per identifier; every Admit returns unless it came too late, Stop returns |
| `registry` | one host, one microVM, capacities 1 (refused) and 2, two handlers and the sweep, which overlap freely (0.23 M) | whenever nobody is busy with the host: tracked iff ready, untracked it drains with a date; grace period on the first drain; a dead host is removed; all but for a host of which two operations overlapped |
| `fake` | 4 Starts for 2 slots, two with the same identifier, 3 with TTL (0.1 M) | slots, exact wait group, no send on a closed channel, Close ends |
| `qemu` | 2 Starts with the same identifier, one TTL (29 k) | refinement of `Fake`, no stray process, Close ends and kills all |
| `autoscaler` | rates 0..3, 0 or 5 in flight, gaps 0..2, window 3 (35 k) | least-squares slope, ramps covered, shrinks spaced |
| `fleet` | 6 hosts ever, up to 3 desired, 3 changes of mind, 2 microVMs (0.3 M) | nothing orphaned, drains final, drains stop at the desired count, convergence |
| `system` | 2 agents, one identifier with a TTL that is open, too long, or overflows to a fraction of a millisecond, 2 boot attempts, deletions, one fault: an agent stops or crashes, is silent, loses a heartbeat, a registration or a report, has a guest stopped, a call is cut or ends in doubt, the identifier is used again, or the API restarts (0.4 M) | a guest that runs has its slot and runs once; an answered slot has a guest or the news of its end; TTLs are positive and bounded; a live agent serves; slots come back |

Violation runs, each a disagreement of the code with its own comment:

- `placement_hang`: `drain` returns on an empty queue; a request sent to the queue
  after that is never answered and its deadline is not looked at.
  `EveryAdmitReturns` of `placement_live` shows it is the only way an Admit hangs.
- `registry_overlap`: Sweep forgets a silent host under its lock and drains it
  later. If the agent registers in between, the host ends tracked but draining, and
  every later heartbeat keeps it there. `AcceptedIsReady` is `TrackedIsReady` of `registry`
  without its exception.

### Bounds, and why they suffice

Three requests are one in the dispatcher's hands and two in the queue, the least
for an order to be wrong and for a full queue. `MaxCallers = 1` (callers between
freeing a slot and signalling) lets the token be set, taken and owed at once;
`MaxReleases = 1` is one deletion by somebody else at any point. Shutdown is left to
`placement_live`, and with it the requests that `drain` answers. `maxBootAttempts` is
the code's 3. The registry's clock units are the smallest with
`HeartbeatTimeout < ForceRemoveAfter`; ages stop at the bound they are compared
with, which loses nothing. Two handlers and the sweep are enough for every overlap of two
operations on a host, and for a third to meet what it left; the registry's properties are
about one host each, and hosts share nothing but the sweep, which the proofs treat for any
number of them. `ExpiredPerSlot`
is 1 instead of 4, so that the channel fills, as is `Notices` in `system`. There
`maxBootAttempts` is 2, one retry being enough to have a guest on each host, or a
second boot where the first guest still runs. Every kind of fault happens at every point,
one in a behaviour, besides deletions and calls to agents that are down, which are not
counted; two faults in one behaviour (more than 15 M states) are left to the proofs, so of
the liveness properties nothing is known there. With one microVM the agents are never
full. A Duration is a word of 64 values with 6 to the millisecond, so that a product wraps
to a fraction of a millisecond, which the booter then sends as 0; products that wrap below
zero are covered by the proof. The `qemu` instance has fewer
microVMs than slots and never meets ErrNoCapacity; that check is the fake's, which
its run does meet. The autoscaler's gaps are shorter than both its windows. In `fleet`,
6 hosts are as many as three changes between 0 and 3 can start. Deadlock is not
checked where the modelled system may stop: all requests done, the hypervisor
closed, the fleet's bounds spent.

### Fairness

Weak fairness on the dispatcher, on each request, handler and boot, on timers and
`terminate`: goroutines that can run do run, deadlines pass, and a boot ends because
the booter's client and QEMU's boot have a timeout. Nothing is assumed of arrivals, releases, hosts or guests that exit by themselves
(in `fleet`, microVMs do end: they have a TTL). In `System`, handlers, loops, sweeps and reports proceed and calls end
one way or another (client timeout, cancelled context, closed connection; the agent's
own client has no timeout, there a connection that hangs for ever is excluded); one weak
fairness condition on all of these together is enough, because with faults bounded no
behaviour takes them for ever. Requests, deletions, faults and the start of an agent
owe nothing; the reaper's look at a host has a condition of its own, because it may look
again and again. In `Registry`, handlers and the sweep have weak fairness; the clock has
strong fairness, because a sweep takes no time and disables it: sweeps one after the other
must not stop time.

### Exceptions the properties name

Some properties hold but for a case that is a weakness of the code. They say so, and
the exception is as narrow as TLC allows:

- `EveryAdmitReturns`: the late request above.
- `TrackedIsReady`, `UntrackedIsDraining`, `GracePeriodGiven`, `DeadHostsAreRemoved`,
  `LiveAgentServes`, `SlotsComeBack`: not for a host in `raced`, one of which two operations
  of the registry overlapped, until it is removed with nothing left of it. No lock spans the
  critical sections of an operation, so that a sweep drains or removes a host that has
  registered meanwhile, and its heartbeats keep it so (`registry.go:195`, 229); a
  registration that ends after a deregistration or a sweep of the same host leaves it ready
  and not tracked, where no sweep finds it (`registry.go:139`); and the reaper deletes the
  date of a later drain (`registry.go:239`). An operation counts as overlapping from its
  first critical section to its last; a call that returns after its first one, a heartbeat,
  and the reaper's snapshot before it looks at the host do not count.
- `GracePeriodGiven`: only a host's first drain. `drainingSince` is deleted only on
  removal, so a host that drains, comes back and drains again may be removed with its
  microVMs at once (`registry.go:197`, against the comment at 223).
- `PlacedHoldsItsSlot`, `OneHolderPerID`: not after a deletion or a host's removal
  under a booting request, whose failed boot may then release the slot of the next
  request with its identifier.
- `SlotsRespected`, `NoStrayGuest`, `CloseKillsAll`, `CloseEnds` of the hypervisors:
  not for microVMs in `cut`, those taken out of `running` while they booted (a Stop
  before `boot` has set `vm.cancel` and `vm.cmd` terminates nothing and returns, and
  the guest comes up unlisted, `qemu.go:361`) or by the failure of another call
  with the same identifier, whose `release` deletes by name.
- `DrainsTowardsDesired`: counting hosts that are still starting. `reconcile` counts
  them as live but drains ready ones, so the ready count may fall below the desired
  one for a time (`fleet.go:51`).

- `RunningHoldsSlot`: not for a microVM in `cut`, one of whose boot calls ended in doubt
  (timeout, lost connection, restart): its guest may run without a slot, or twice, and
  its expiry report frees the slot of the next attempt (`booter.go:56`). Nor for one in
  `disowned`: deleted by a client while its guest runs on (`server.go:271`), reclaimed with
  a host whose agent was silent but alive (`registry.go:229`, where the comment at 234 says
  the guests "are already dead"), or forgotten by a restart of the API. Clients choose
  identifiers (`server.go:186`): POST, DELETE and POST of the same one places it again
  beside the guest of the first, which runs on, and then it runs twice. Both exceptions
  end where the microVM is placed with no call, guest, notice or report left of it: the
  property is about every use of an identifier, not about the first.
- `SlotHasGuest`, `SlotsComeBack`: not for a microVM in `leaked`, a guest of which ended
  unreported: the report was lost, the channel was full, it was stopped on the agent,
  or the agent went away. Such a slot comes back with its host only; it never does if
  the agent lives on, or restarts in place and registers before its silence is noticed:
  `registry.go:126` takes it for known, as `docs/decisions/0005-self-registration.md:45`
  intends, and nothing compares its guests with its slots.
- `PinnedAtMostMaxTTL`, `SlotsComeBack`: not for a `ttl_ms` beyond int64 nanoseconds. The
  product wraps before it is compared with `MaxTTL` (`server.go:227`, 229); if it wraps
  to less than a millisecond, the agent gets 0 and the guest never expires, if it wraps
  below zero every boot of it fails.

Each exception of the registry and of the last three entries is needed: without it TLC
finds a counterexample on the instance of `registry` or `system`. Only the hosts in `raced`
of `SlotsComeBack` need two faults, and so a larger instance.

Other differences between code and comments met on the way, without a run of their
own: `Stats.Used` includes draining hosts although `Utilisation` is documented over
ready ones (`scheduler.go:256`, 274); a retry after a failed boot may pick the same
host again (`service.go:257`, 274); `Dropped` omits requests refused for shutdown or
a duplicate (`service.go:87`); a timer that had fired before
Stop ends the next microVM with the same identifier (`fake.go:174`, `qemu.go:219`);
the expired channel drops notices when full (`fake.go:198`); the stabilisation
window is measured from the peak, not from the last higher demand
(`autoscale.go:172`, 185).

## Proofs

Each theorem holds for every value of the constants that satisfies its module's named
assumption: the `NoHost` value is no host, capacities, bounds, TTLs and clock limits are
numbers in the ranges that the code's own validation enforces, the policy is one of the two.

| module | theorem (property) |
|---|---|
| `HostSetProofs` | `IndexCorrect`, `HostSetImplementsIdSet` |
| `SchedulerProofs` | `TypeCorrect`, `SlotsAccounted`, `BucketsAreExact`, `NoCapacityCorrect`, `PolicyFollowed`, `SchedulerImplementsSlotPool`, `StatsAgree` (`UsedIsInflight`) |
| `PlacementProofs` | `PlacementImplementsScheduler`, `TypeCorrect`, `RequestsAreInOnePlace` (`InOnePlace`), `RequestsAreAnsweredInOrder` (`FirstInFirstOut`), `SlotsAreKept` (`PlacedHoldsItsSlot`), `IdentifiersAreExclusive` (`OneHolderPerID`), `FailuresLeakNoSlot` (`FailedHoldsNoSlot`), `NoWakeupIsLost` (`NoLostWakeup`) |
| `RegistryProofs` | `RegistryImplementsScheduler`, `HeartbeatsMeanReady` (`TrackedIsReady`), `SilenceMeansDraining` (`UntrackedIsDraining`), `GraceIsGiven` (`GracePeriodGiven`), `SweptHostsStayOut`, `DeadHostsDoNotReturn`, `NoHostIsLeftPending` |
| `FakeProofs` | `TypeCorrect`, `NeverOverSlots` (`SlotsRespected`), `WaitGroupIsExact`, `NeverSendsOnClosed` |
| `QEMUProofs` | `NoGuestIsLost` (`NoStrayGuest`), `QEMUImplementsFake`, `QEMUKeepsTheFakesPromises`, `TerminateReturnsWhenDead`, `NoticesTellOfDeadGuests`, `CloseLeavesNothingElse`, `NoGuestAfterTheEnd` |
| `SystemProofs` | `TypeCorrect`, `GuestsHoldTheirSlots` (`RunningHoldsSlot`), `NoSlotWithoutGuest` (`SlotHasGuest`), `NoGuestOutlivesMaxTTL` (`PinnedAtMostMaxTTL`), `ServedHostsAreTracked`, `SystemUsesTheSlotPool`, `AgentsKeepWithinSlots` |
| `ScalingProofs` | `FleetImplementsScheduler`, `ScaleDownIsSafe`, `DrainsAreFinal`, `DrainsStopAtDesired`, `StartsStopAtDesired`; `SlopeIsCorrect`, `LeadCoversTheRamp`, `FleetDoesNotRatchetDown`, `DecisionsCoverTheLoad` |

Those of `RegistryProofs` hold for any number of handlers that overlap with each other and with the
sweep. `DeadHostsDoNotReturn`, `NoHostIsLeftPending` and `RegistryImplementsScheduler` have no
exception for hosts in `raced`.

**Refinements.** The placement service, the registry and the fleet each implement
`Scheduler!Spec` (their own state hidden), and the scheduler implements `SlotPool`. So the
invariant of the scheduler is available inside each of them, and none of their proofs looks
into a bucket. QEMU implements `Fake` under `abstractPhase`; `QEMUKeepsTheFakesPromises`
draws the conclusion. `Spec => S!Spec` is false of `System` only because the API may restart
with an empty scheduler; `SystemUsesTheSlotPool` says that its every step is a step of
`SlotPool`, none of it, or that restart.

**Host set.** The invariant is that `index` is the inverse of `ids`; `RemoveSlice` says
what swap and cut leave.

**Scheduler.** `IInv == TypeOK /\ SlotAccounting /\ BucketsExact`. None of its parts is
inductive alone: moving a host between buckets needs its free count to be in range, which is
`used <= capacity <= maxCap`; that a slot is free when a host is picked comes from
the buckets; that `used - 1` is natural comes from counting. `IndexInRange` shows that no
method indexes beyond the buckets; `SelectHostSound` and `SelectHostComplete` relate the
bucket search to the hosts (a least non-empty bucket exists, `LeastElement`) and carry
`NoCapacityCorrect`, `PolicyFollowed` and the refinement. `StatsAgree` is about a sum over
hosts. The library defines sums by a recursive function under CHOOSE; `FoldExists` and
`FoldsAgree` show that there is exactly one such function on a finite set, and `SumFacts`
is all that is used of it afterwards. The induction is over a set of subsets
(`PickInduction`, from `LeastElement`), because the provers cannot instantiate an induction
rule that takes a predicate.

**Placement.** `QueueInv` follows a request through the queue (`Journey`: which step of
which goroutine may have it where), says that the queue has no duplicates and that queue and
dispatcher are in the order of `arrivals` (`Ordered`). `SlotInv` says which steps hold the
slot of their identifier. `NoLostWakeup` is not inductive by itself: a free slot the
sleeping dispatcher does not know of (`Open`) is always promised by a token in `freed` or by
a caller between freeing and signalling (`Promised`), and a new one can appear only in the
steps that make the promise.

**Registry.** `Agreement` is `HostInv` of every host outside `raced`: at most one operation
is busy with it (`Alone`); with none, the registry's map, the scheduler and the dates agree
(`Settled`, `Dated`); and for each step a call or the sweep may be at, what is already done
of the change (`CallInv`, `SweepInv`). An operation that begins while another is busy puts
its host into `raced`, so a step on a host either leaves it as it is, is the next one of
the only operation on it, or takes it out of the claim. What holds of every host rests on
less: `StatesMove` (only a registration brings a host into service) and `CallsMove` (a
registration that is being handled is of a host that lived when it came in). So a host that
is dead, out of service and without a registration under way stays so (`OutStays`): the
safety half of `DeadHostsAreRemoved`. `SweptHostsStayOut` joins the two.

**Hypervisors.** For the fake: `CallsInOrder` (what a call, its timer and `running` may be
together) and `Counts`, from which slots and the wait group follow by counting. For QEMU,
`GuestInv` says who is still responsible for a process at each step of boot, Stop,
`terminate` and Close, and `CloseInv` that Close leaves none listed. `EndInv` adds what a
timer knows of the microVM it ended, since notices are sent for that one and not for the
call that armed the timer; with `BootsOnce`, no Start boots twice, it gives the theorems on
what is left after `terminate` and after Close.

**System.** For each microVM: its TTL was validated (`Validated`); its calls carry the
number of a request and of an attempt that are past or present, and only the present one
is answered (`CallsInOrder`); its slot has a request, a guest, or the news of an end behind
it (`SlotAccounted`); and its guests have a slot or a reason not to (`GuestOwned`). The last
has to say more than the property, because identifiers are used again: outside `cut` and
`disowned` a microVM leaves one trace at a time, guest, notice or report (`Once`), so that
the report that frees its slot is the last of it and the next use starts with nothing left.
Most actions touch one microVM, which `OnlyOneTouched` uses. The hosts have an invariant of
their own: `Slotted`, the slots of a known host are its agent's and its microVMs are
counted against them, which every step of `SlotPool` keeps; and `Alone`, as in `Registry`,
from which `FleetInv` follows: outside `raced`, with nobody busy, tracked is ready.
`AgentInv` counts the guests on the agent's side, which need not be the same.

**Fleet.** What `reconcile` read is stale when it acts. `ReapInv`: a host seen empty while
it drains stays empty. `DrainInv`: the hosts still to be drained serve, and without them
there are enough. `StartInv`: the hosts that count and those still to be started are as
many as desired. `HostInv`: only hosts whose start timer is done are ever drained.
`DrainsAtMost` counts the ranks of the hosts picked, by an injection.

**Autoscaler.** `ScaleInv`: the samples are in strict order of time, the slope is that of
the samples, the decision is the peak that is held, at least what the last sample called
for and within the limits, and no shrink is more recent than the peak. `Moments` is the computational formula of
covariance; `SquareSum` shows that a zero denominator means samples at one time only, and,
with the order of times, that it never happens with two of them. `CentredLine` gives the
slope of a ramp, `CeilFacts` and `MinMax` that rounding and clamping do not go below it.
The arithmetic is exact; rounding of floats is not part of the model.

Only model-checked: liveness (`EveryAdmitReturns`, `StopReturns`, `DeadHostsAreRemoved`,
`CloseEnds`, `CloseKillsAll`, `FleetConverges`, `LiveAgentServes`, `SlotsComeBack`), because
fairness is beyond this prover.

## Not modelled

The characters of an identifier (`Spec.Validate`; one that is refused is a boot that
fails); wait and attempt figures in results; listings, probes and error texts of the
API; QEMU's command line, accelerator and image checks; `Autoscaler.Reset`, which only a
test calls; the graceful shutdown of the API's HTTP server, in whose place it may end at
any point; flags, metrics, manifests and images. Of the simulator its statistics and its
last step, which may overlap the sampler's (`sim.go:292`). The load generator: random
processes over real numbers, and a client that counts answers.

## State

Every component above is modelled as its section says, every safety property that a run
checks is proved, and the safety halves of `CloseKillsAll` and `DeadHostsAreRemoved` are
proved as well. The theorems without a property in the table state facts that no run lists;
each was model-checked on the instance of its module's run before it was proved.

Worth doing with a prover that has fairness: `DeadHostsAreRemoved` and `SlotsComeBack`, for
which `DeadHostsDoNotReturn` and `NoSlotWithoutGuest` are the safety parts.
