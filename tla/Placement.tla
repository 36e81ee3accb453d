----------------------------- MODULE Placement -----------------------------
(***************************************************************************)
(* internal/placement/service.go: the admission path.  Requests (goroutines *)
(* in Admit) meet one dispatcher goroutine through a bounded queue; the     *)
(* dispatcher takes a slot from the scheduler and answers each request on   *)
(* its own channel; the request then boots its guest, giving the slot back  *)
(* and trying again when that fails.  Releases and hosts that come and go   *)
(* happen at any time, and shutdown may come at any point.                  *)
(*                                                                          *)
(* A step is what runs between two points where another goroutine can be    *)
(* seen: one scheduler call (it holds the scheduler's lock), one channel    *)
(* operation.  An atomic counter is updated in the step it belongs to.      *)
(***************************************************************************)
EXTENDS Integers, Sequences, FiniteSets

CONSTANTS Host, VM, NoHost, Capacities, Policy,     \* as in Scheduler
          Req, NoReq,       \* the requests, each admitted at most once, and none
          IDs,              \* the ways in which the requests may choose identifiers
          QueueDepth,       \* Config.QueueDepth
          Booter,           \* TRUE iff WithBooter attached one
          MayStop,          \* TRUE iff the service may be shut down
          FleetChanges,     \* TRUE iff hosts may be drained and removed
          MaxCallers,       \* bound: callers that owe a signal at the same time
          MaxReleases       \* bound: releases by others than the booting request

maxBootAttempts == 3

ASSUME PlacementAssumption ==
  /\ NoHost \notin Host /\ Capacities \subseteq Int /\ Policy \in {"BestFit", "WorstFit"}
  /\ NoReq \notin Req
  /\ IDs \subseteq [Req -> VM]
  /\ QueueDepth \in Nat \ {0} /\ MaxCallers \in Nat /\ MaxReleases \in Nat
  /\ {Booter, MayStop, FleetChanges} \subseteq BOOLEAN

VARIABLES hostState, capacity, used, assigned, buckets, maxCap,  \* the scheduler
          vmID,        \* the identifier each request asks for, fixed from the start
          pc,          \* where each request is in Admit
          expired,     \* requests whose context is done (deadline or client gone)
          at,          \* Admit's local host
          tries,       \* bootWithRetry's i
          outcome,     \* what Admit returned
          queue,       \* s.queue
          result,      \* what was sent on p.result
          freed,       \* TRUE iff s.freed holds its one token
          stopping,    \* ctx is done or s.stopped is closed
          dpc, cur,    \* the dispatcher and the request it is serving
          stats,       \* the atomic counters
          owed,        \* callers between freeing capacity and signalling it
          lost,        \* requests whose slot somebody else gave away (history)
          arrivals     \* the order of the sends on s.queue (history)

sched == <<hostState, capacity, used, assigned, buckets, maxCap>>
admit == <<vmID, pc, at, tries, outcome>>
vars == <<sched, admit, expired, queue, result, freed, stopping, dpc, cur, stats,
          owed, lost, arrivals>>

S == INSTANCE Scheduler

NoResult == [err |-> "none", host |-> NoHost]

\* New
Init ==
  /\ S!Init /\ vmID \in IDs
  /\ pc = [r \in Req |-> "idle"] /\ expired = {}
  /\ at = [r \in Req |-> NoHost] /\ tries = [r \in Req |-> 0]
  /\ outcome = [r \in Req |-> "none"]
  /\ queue = <<>> /\ result = [r \in Req |-> NoResult]
  /\ freed = FALSE /\ stopping = FALSE
  /\ dpc = "select" /\ cur = NoReq
  /\ stats = [accepted |-> 0, placed |-> 0, timedOut |-> 0, queueRejected |-> 0,
              released |-> 0, bootFailed |-> 0, maxQueueLen |-> 0]
  /\ owed = 0 /\ lost = {} /\ arrivals = <<>>

Count(c) == stats' = [stats EXCEPT ![c] = @ + 1]

Goto(r, p) == pc' = [pc EXCEPT ![r] = p]

Return(r, o) == Goto(r, "done") /\ outcome' = [outcome EXCEPT ![r] = o]

\* A request that was given a slot and has not given it back.
Holding(r) == \/ outcome[r] = "placed" \/ pc[r] \in {"boot", "release"}
              \/ pc[r] \in {"record", "await"} /\ result[r].err = "ok"

Holders(v) == {r \in Req : vmID[r] = v /\ Holding(r)}

\* A wrong form for the mutation runs: the token is never left.
signalLost == UNCHANGED freed

\* A send that finds the token already there is dropped.
signalCapacity == freed' = TRUE

-----------------------------------------------------------------------------
(* A request in Admit. *)

Admit(r) ==
  /\ pc[r] = "idle"
  /\ Goto(r, "enqueue") /\ Count("accepted")
  /\ UNCHANGED <<vmID, sched, expired, at, tries, outcome, queue, result, freed,
                 stopping, dpc, cur, owed, lost, arrivals>>

\* The request's context is done: its deadline passed or its client went away.
Expire(r) ==
  /\ pc[r] \notin {"idle", "done"} /\ r \notin expired
  /\ expired' = expired \cup {r}
  /\ UNCHANGED <<sched, admit, queue, result, freed, stopping, dpc, cur, stats, owed,
                 lost, arrivals>>

Enqueue(r) ==
  /\ pc[r] = "enqueue" /\ Len(queue) < QueueDepth
  /\ queue' = Append(queue, r) /\ arrivals' = Append(arrivals, r)
  /\ Goto(r, "record")
  /\ UNCHANGED <<vmID, sched, expired, at, tries, outcome, result, freed, stopping, dpc,
                 cur, stats, owed, lost>>

QueueFull(r) ==
  /\ pc[r] = "enqueue" /\ r \in expired
  /\ Count("queueRejected") /\ Return(r, "ErrQueueFull")
  /\ UNCHANGED <<vmID, sched, expired, at, tries, queue, result, freed, stopping, dpc,
                 cur, owed, lost, arrivals>>

\* The compare-and-swap loop leaves the larger of the two values.
recordQueueDepth(r) ==
  /\ pc[r] = "record" /\ Goto(r, "await")
  /\ stats' = [stats EXCEPT !.maxQueueLen = IF Len(queue) <= @ THEN @ ELSE Len(queue)]
  /\ UNCHANGED <<vmID, sched, expired, at, tries, outcome, queue, result, freed,
                 stopping, dpc, cur, owed, lost, arrivals>>

\* A wrong form for the mutation runs: the request does not keep the host.
ReceiveHostless(r) ==
  /\ pc[r] = "await" /\ result[r].err = "ok" /\ Booter /\ Goto(r, "boot")
  /\ UNCHANGED <<vmID, sched, expired, at, tries, outcome, queue, result, freed, stopping,
                 dpc, cur, stats, owed, lost, arrivals>>

Receive(r) ==
  /\ pc[r] = "await" /\ result[r] # NoResult
  /\ at' = [at EXCEPT ![r] = result[r].host]
  /\ \/ result[r].err # "ok" /\ Return(r, result[r].err) /\ UNCHANGED stats
     \/ result[r].err = "ok" /\ Booter /\ Goto(r, "boot") /\ UNCHANGED <<outcome, stats>>
     \/ result[r].err = "ok" /\ ~Booter /\ Return(r, "placed") /\ Count("placed")
  /\ UNCHANGED <<vmID, sched, expired, tries, queue, result, freed, stopping, dpc, cur,
                 owed, lost, arrivals>>

\* Booter.Boot is a call to another pod: it succeeds or fails as it likes.
BootSucceeds(r) ==
  /\ pc[r] = "boot"
  /\ Return(r, "placed") /\ Count("placed")
  /\ UNCHANGED <<vmID, sched, expired, at, tries, queue, result, freed, stopping, dpc,
                 cur, owed, lost, arrivals>>

BootFails(r) ==
  /\ pc[r] = "boot" /\ Goto(r, "release")
  /\ UNCHANGED <<vmID, sched, expired, at, tries, outcome, queue, result, freed,
                 stopping, dpc, cur, stats, owed, lost, arrivals>>

\* A wrong form for the mutation runs: a failed boot keeps its slot.
BootReleaseSkipped(r) ==
  /\ pc[r] = "release" /\ Goto(r, "signal")
  /\ UNCHANGED <<vmID, sched, lost, expired, at, tries, outcome, queue, result, freed,
                 stopping, dpc, cur, stats, owed, arrivals>>

\* The error of the release (the microVM is gone already) is ignored.
BootRelease(r) ==
  /\ pc[r] = "release" /\ Goto(r, "signal")
  /\ IF S!ReleaseErr(vmID[r]) = "ok"
     THEN S!Release(vmID[r]) /\ lost' = lost \cup (Holders(vmID[r]) \ {r})
     ELSE UNCHANGED <<sched, lost>>
  /\ UNCHANGED <<vmID, expired, at, tries, outcome, queue, result, freed,
                 stopping, dpc, cur, stats, owed, arrivals>>

BootSignal(r) ==
  /\ pc[r] = "signal" /\ signalCapacity
  /\ IF tries[r] + 1 >= maxBootAttempts \/ r \in expired
     THEN Count("bootFailed") /\ Return(r, "ErrBootFailed")
     ELSE Goto(r, "replace") /\ UNCHANGED <<stats, outcome>>
  /\ UNCHANGED <<vmID, sched, expired, at, tries, queue, result, stopping, dpc, cur,
                 owed, lost, arrivals>>

BootReplace(r) ==
  /\ pc[r] = "replace"
  /\ \/ \E h \in Host :
          /\ S!Place(vmID[r], h)
          /\ at' = [at EXCEPT ![r] = h] /\ tries' = [tries EXCEPT ![r] = @ + 1]
          /\ lost' = lost \ {r}
          /\ Goto(r, "boot") /\ UNCHANGED <<stats, outcome>>
     \/ /\ S!PlaceErr(vmID[r]) # "ok"
        /\ Count("bootFailed") /\ Return(r, "ErrBootFailed")
        /\ UNCHANGED <<sched, at, tries, lost>>
  /\ UNCHANGED <<vmID, expired, queue, result, freed, stopping, dpc, cur, owed,
                 arrivals>>

-----------------------------------------------------------------------------
(* The dispatcher: Start, dispatch and drain. *)

\* The send on p.result cannot block, the channel has room for one.
Answer(r, err, h) == result' = [result EXCEPT ![r] = [err |-> err, host |-> h]]

\* A wrong form for the mutation runs: the newest request first.
TakeNewest ==
  /\ dpc = "select" /\ queue # <<>>
  /\ cur' = queue[Len(queue)] /\ queue' = SubSeq(queue, 1, Len(queue) - 1)
  /\ dpc' = "check"
  /\ UNCHANGED <<sched, admit, expired, result, freed, stopping, stats, owed, lost,
                 arrivals>>

Take ==
  /\ dpc = "select" /\ queue # <<>>
  /\ cur' = Head(queue) /\ queue' = Tail(queue) /\ dpc' = "check"
  /\ UNCHANGED <<sched, admit, expired, result, freed, stopping, stats, owed, lost,
                 arrivals>>

Quit ==
  /\ dpc = "select" /\ stopping /\ dpc' = "drain"
  /\ UNCHANGED <<sched, admit, expired, queue, result, freed, stopping, cur, stats, owed,
                 lost, arrivals>>

\* A wrong form for the mutation runs: the receive blocks on an empty queue.
drainBlocks ==
  /\ dpc = "drain" /\ queue # <<>> /\ queue' = Tail(queue)
  /\ Answer(Head(queue), "ErrShuttingDown", NoHost)
  /\ UNCHANGED <<sched, admit, expired, freed, stopping, dpc, cur, stats, owed, lost,
                 arrivals>>

drain ==
  /\ dpc = "drain"
  /\ \/ /\ queue # <<>> /\ queue' = Tail(queue)
        /\ Answer(Head(queue), "ErrShuttingDown", NoHost) /\ UNCHANGED dpc
     \/ queue = <<>> /\ dpc' = "exited" /\ UNCHANGED <<queue, result>>
  /\ UNCHANGED <<sched, admit, expired, freed, stopping, cur, stats, owed, lost,
                 arrivals>>

TimeOut == /\ Count("timedOut") /\ Answer(cur, "ErrAdmissionTimeout", NoHost)
           /\ dpc' = "select" /\ cur' = NoReq

CheckDeadline ==
  /\ dpc = "check"
  /\ IF cur \in expired THEN TimeOut
     ELSE dpc' = "place" /\ UNCHANGED <<stats, result, cur>>
  /\ UNCHANGED <<sched, admit, expired, queue, freed, stopping, owed, lost, arrivals>>

\* A wrong form for the mutation runs: the dispatcher forgets a request it cannot
\* place at once instead of waiting for capacity.
dispatchPlaceOnce ==
  /\ dpc = "place"
  /\ \/ \E h \in Host : /\ S!Place(vmID[cur], h) /\ Answer(cur, "ok", h)
     \/ /\ S!PlaceErr(vmID[cur]) # "ok"
        /\ UNCHANGED <<sched, result>>
  /\ dpc' = "select" /\ cur' = NoReq
  /\ UNCHANGED <<admit, expired, queue, freed, stopping, stats, owed, lost, arrivals>>

dispatchPlace ==
  /\ dpc = "place"
  /\ \/ \E h \in Host : /\ S!Place(vmID[cur], h) /\ Answer(cur, "ok", h)
                        /\ dpc' = "select" /\ cur' = NoReq
     \/ /\ S!PlaceErr(vmID[cur]) = "ErrDuplicateVM"
        /\ Answer(cur, "ErrDuplicateVM", NoHost)
        /\ dpc' = "select" /\ cur' = NoReq
        /\ UNCHANGED sched
     \/ /\ S!PlaceErr(vmID[cur]) = "ErrNoCapacity" /\ dpc' = "wait"
        /\ UNCHANGED <<sched, result, cur>>
  /\ UNCHANGED <<admit, expired, queue, freed, stopping, stats, owed, lost, arrivals>>

WaitFreed ==
  /\ dpc = "wait" /\ freed /\ freed' = FALSE /\ dpc' = "check"
  /\ UNCHANGED <<sched, admit, expired, queue, result, stopping, cur, stats, owed, lost,
                 arrivals>>

WaitTimer ==
  /\ dpc = "wait" /\ dpc' = "check"
  /\ UNCHANGED <<sched, admit, expired, queue, result, freed, stopping, cur, stats, owed,
                 lost, arrivals>>

WaitExpired ==
  /\ dpc = "wait" /\ cur \in expired /\ TimeOut
  /\ UNCHANGED <<sched, admit, expired, queue, freed, stopping, owed, lost, arrivals>>

WaitStopped ==
  /\ dpc = "wait" /\ stopping
  /\ Answer(cur, "ErrShuttingDown", NoHost) /\ dpc' = "select" /\ cur' = NoReq
  /\ UNCHANGED <<sched, admit, expired, queue, freed, stopping, stats, owed, lost,
                 arrivals>>

-----------------------------------------------------------------------------
(* Everybody else. *)

\* ctx cancelled by a signal, or Stop closing s.stopped.
Stop ==
  /\ MayStop /\ ~stopping /\ stopping' = TRUE
  /\ UNCHANGED <<sched, admit, expired, queue, result, freed, dpc, cur, stats, owed,
                 lost, arrivals>>

\* Service.Release, from a DELETE or an expiry report: the scheduler call, and
\* the signal that follows it as a step of its own.
Release(v) ==
  /\ owed < MaxCallers /\ stats.released < MaxReleases
  /\ S!Release(v) /\ Count("released")
  /\ owed' = owed + 1 /\ lost' = lost \cup Holders(v)
  /\ UNCHANGED <<admit, expired, queue, result, freed, stopping, dpc, cur, arrivals>>

SignalCapacity ==
  /\ owed > 0 /\ owed' = owed - 1 /\ signalCapacity
  /\ UNCHANGED <<sched, admit, expired, queue, result, stopping, dpc, cur, stats, lost,
                 arrivals>>

\* The registry adds a host, makes it (or a draining one that came back) ready and
\* then signals.
HostJoins(h) ==
  /\ \E c \in Capacities : S!AddHost(h, c)
  /\ UNCHANGED <<admit, expired, queue, result, freed, stopping, dpc, cur, stats, owed,
                 lost, arrivals>>

HostReady(h) ==
  /\ owed < MaxCallers
  /\ S!SetHostState(h, "Ready") /\ owed' = owed + 1
  /\ UNCHANGED <<admit, expired, queue, result, freed, stopping, dpc, cur, stats, lost,
                 arrivals>>

HostDrains(h) ==
  /\ FleetChanges /\ hostState[h] = "Ready" /\ S!SetHostState(h, "Draining")
  /\ UNCHANGED <<admit, expired, queue, result, freed, stopping, dpc, cur, stats, owed,
                 lost, arrivals>>

HostRemoved(h) ==
  /\ hostState[h] = "Draining" /\ S!RemoveHost(h)
  /\ lost' = lost \cup UNION {Holders(v) : v \in S!Orphans(h)}
  /\ UNCHANGED <<admit, expired, queue, result, freed, stopping, dpc, cur, stats, owed,
                 arrivals>>

-----------------------------------------------------------------------------
Requests(r) ==
  \/ Enqueue(r) \/ QueueFull(r) \/ recordQueueDepth(r) \/ Receive(r)
  \/ BootSucceeds(r) \/ BootFails(r) \/ BootRelease(r) \/ BootSignal(r) \/ BootReplace(r)

Dispatcher ==
  \/ Take \/ Quit \/ drain \/ CheckDeadline \/ dispatchPlace
  \/ WaitFreed \/ WaitTimer \/ WaitExpired \/ WaitStopped

Next ==
  \/ \E r \in Req : Admit(r) \/ Expire(r) \/ Requests(r)
  \/ Dispatcher
  \/ Stop \/ SignalCapacity
  \/ \E v \in VM : Release(v)
  \/ \E h \in Host : HostJoins(h) \/ HostReady(h) \/ HostDrains(h) \/ HostRemoved(h)

Spec == Init /\ [][Next]_vars

\* Goroutines that can run do run, a deadline passes, a boot call returns (the
\* client has a timeout).  Nothing is assumed of arrivals, releases or hosts.
Fairness == /\ WF_vars(Dispatcher)
            /\ \A r \in Req : WF_vars(Requests(r)) /\ WF_vars(Expire(r))

FairSpec == Spec /\ Fairness

-----------------------------------------------------------------------------
Errors == {"ErrQueueFull", "ErrAdmissionTimeout", "ErrShuttingDown", "ErrDuplicateVM",
           "ErrBootFailed"}

Counters == {"accepted", "placed", "timedOut", "queueRejected", "released", "bootFailed",
             "maxQueueLen"}

\* The service's own state.
Types ==
  /\ vmID \in [Req -> VM]
  /\ pc \in [Req -> {"idle", "enqueue", "record", "await", "boot", "release", "signal",
                     "replace", "done"}]
  /\ expired \subseteq Req
  /\ at \in [Req -> Host \cup {NoHost}]
  /\ tries \in [Req -> 0 .. maxBootAttempts - 1]
  /\ \A r \in Req : pc[r] = "replace" => tries[r] + 1 < maxBootAttempts
  /\ outcome \in [Req -> Errors \cup {"none", "placed"}]
  /\ queue \in Seq(Req) /\ Len(queue) <= QueueDepth
  /\ result \in [Req -> [err : Errors \cup {"none", "ok"}, host : Host \cup {NoHost}]]
  /\ freed \in BOOLEAN /\ stopping \in BOOLEAN
  /\ dpc \in {"select", "check", "place", "wait", "drain", "exited"}
  /\ cur \in Req \cup {NoReq}
  /\ cur = NoReq <=> dpc \in {"select", "drain", "exited"}
  /\ stats \in [Counters -> Nat]
  /\ owed \in Nat /\ lost \subseteq Req
  /\ arrivals \in Seq(Req)

TypeOK == S!TypeOK /\ Types

Occurrences(r) == Cardinality({i \in 1 .. Len(queue) : queue[i] = r})

\* From the moment it is queued until it reads its answer, a request is in exactly
\* one place: once in the queue, in the dispatcher's hands, or answered.  So no
\* request is lost, none is served twice, and the dispatcher's send on p.result
\* (capacity 1) never blocks, through timeouts and shutdown (dispatch, drain).
InOnePlace ==
  \A r \in Req :
    LET places == Occurrences(r) + (IF cur = r THEN 1 ELSE 0)
                  + (IF result[r] # NoResult THEN 1 ELSE 0)
    IN  IF pc[r] \in {"idle", "enqueue"} \/ outcome[r] = "ErrQueueFull"
        THEN places = 0 ELSE places = 1

\* "Serialising admission is what makes the queue strictly first in, first out"
\* (Start): a request is answered only when all that were queued before it are.
FirstInFirstOut ==
  \A i, j \in 1 .. Len(arrivals) :
    i < j /\ result[arrivals[j]] # NoResult => result[arrivals[i]] # NoResult

\* No wakeup is lost: while the dispatcher waits for capacity and a ready host has
\* a free slot, the token is there or somebody is about to leave it, so the slot
\* is found without waiting for the retry timer (dispatch, signalCapacity).
NoLostWakeup ==
  dpc = "wait" /\ S!selectHost # {} =>
    freed \/ owed > 0 \/ \E r \in Req : pc[r] = "signal"

\* No slot is leaked by a request that failed (timeout, shutdown, queue full,
\* duplicate, boot failures): once Admit has returned an error its microVM holds no
\* slot, unless it is that of another request for the same identifier.
FailedHoldsNoSlot ==
  \A r \in Req :
    outcome[r] \in Errors =>
      \/ assigned[vmID[r]] = NoHost
      \/ \E s \in Req \ {r} : vmID[s] = vmID[r] /\ Holding(s)

\* No slot is given away: unless somebody else released its microVM or removed its
\* host, a request that was answered with a host, boots there or was told it is
\* placed there, has that host's slot.
PlacedHoldsItsSlot ==
  \A r \in Req :
    Holding(r) /\ r \notin lost =>
      assigned[vmID[r]] = IF pc[r] \in {"record", "await"} THEN result[r].host ELSE at[r]

\* Every Admit returns, through timeouts, duplicates, failed boots and shutdown: in the
\* end none is under way.  The exception is a request that got into the queue when the
\* dispatcher had left it.
EveryAdmitReturns ==
  <>[](\A r \in Req : \/ pc[r] \in {"idle", "done"}
                      \/ dpc = "exited" /\ Occurrences(r) = 1)

\* The scheduler refuses an identifier that is placed already, so of the requests
\* that ask for the same one at most one holds the slot, through boot retries that
\* give it up and take it again.  Unless the microVM is deleted or its host removed
\* under the first: then a second may get the identifier while the first still boots.
OneHolderPerID == \A v \in VM : Cardinality(Holders(v) \ lost) <= 1

\* service.go:200: "drain fails every queued request during shutdown rather than
\* leaving callers blocked on a channel nobody will ever write to": once the only
\* writer has exited, every request that waits for its answer has one.
NoCallerLeftBlocked ==
  dpc = "exited" =>
    \A r \in Req : pc[r] \in {"record", "await"} => result[r] # NoResult

\* Stop, which waits for the dispatcher to close s.done, returns.
StopReturns == <>[](stopping => dpc = "exited")
=============================================================================
