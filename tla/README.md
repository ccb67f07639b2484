# A TLA+ model of joy-pi-health

joy-pi-health is a small Linux service that answers one HTTP endpoint with a
JSON snapshot of a Raspberry Pi's health. It keeps no data on disk and caches
nothing; what is hard about it is concurrency: requests that share one
collection, kernel calls that cannot be cancelled, deadlines at four levels,
defects that must take the process down from any goroutine, and a shutdown that
must be prompt. That is what these modules model and check with TLC; their
safety, and most of what must eventually happen, is proved with TLAPS.

Paths are relative to `src/internal/` unless they begin with `docs/`, which is
`src/docs/`. `PROJECT.json` maps every definition to its lines.

## Inventory

| Component | State | Operations | Hard behaviour | What makes it correct |
|---|---|---|---|---|
| Snapshot coordinator, `observe/coordinator.go` | `active`, `failed`, `fatalOnce`; per cycle `done`, `encoded`, `err` | `Snapshot`, `run`, `collect`, `copyCPU`, `finalize`, `fail` | callers join, detach and start cycles while one is being published; cycle and domain deadlines; defects | one collection at a time, no caching, honoured deadlines, ordered failure, utilization of the CPUs that are counted |
| Firmware executor, `observe/firmware_executor.go` | `started`, `stopping`, `busy`, `failed`, two channels, `done` | `Start`, `Ready`, `Observe`, `run`, `Close` | an ioctl that blocks for ever or panics; timeouts; stop with a request queued | the single slot is neither leaked nor shared, no send blocks |
| Trailing CPU observer, `observe/cpu.go` | baseline, publication pointer, schedule | `Start`, `run`, `observe`, `Close`, `latestCPU` | late wake-ups, slow or failed reads, reader against writer, stop during a read | only adjacent valid samples are compared, no drift, nothing after stop |
| Process lifecycle, `app/app.go`, `app/runtime.go`, `app/readiness.go` | where `run` is, fatal channel, readiness gate | startup, readiness, selects, `shutDown` | signals, defects and server ends at once; half-done startup; late components | truthful exit status, no cleanup list forgets a component, bounded stop |
| Request handler, `httpapi/handler.go` | admission channel, `failed`, `fatalOnce` | `ServeHTTP` | panics after the header, failures of other requests, disconnects | one answer per request, no lost slot, failure announced once |
| HTTP server and listener, `httpapi/server.go` | slot channel, `closed` channel | `Accept`, `Close` of listener and connection | double close, close with all slots taken | slots accounted for, `Close` ends `Accept` |
| Degradation reporter, `observe/degradation.go` | active set, reminder times | `Report` | exactly 204 possible events, each with a path of its own; changing reasons | never refuses, accurate and steady journal |
| Network collector, `observe/network.go`, `platform/netlink*.go`, `Links` of `platform/source_linux.go` | per collection: the links, `resolved`, `visiting`, the call stack | netlink dump, sysfs lookups, topology, search | links that change during the dump, cycles, results kept between searches | exactly the links that reach a physical device, only real cycles refused, the search ends |
| Generic and Raspberry Pi collectors, `observe/generic.go`, `observe/raspberrypi.go`, `observe/readiness.go`; outcome algebra, `observe/outcome.go` | none | acquire, parse, classify | arithmetic at 64 bits, partial answers | quantities exact or absent |
| Snapshot document, `finalize` and `snapshot/snapshot.go` | the document of a cycle | fields, issues, encoding | two independent derivations of the order of issues; a mismatch ends the process | the encoder accepts every document, served when useful, honest |
| Platform adapters, `platform/` | none | reads, statfs, ioctl | fallback between devices | their answers are the inputs above |
| Configuration, `config/config.go`; logger, `main` | none | flags and environment, formatting | | not modelled |

How they interact. `run` (lifecycle) creates the observer, the executor, the
coordinator and the server, then starts Serve. The listener hands connections to
net/http, which calls the handler in a goroutine per request; an admitted
request calls `Coordinator.Snapshot` with a one-second context. The cycle runs
in its own goroutine; it calls the collectors, among them
`FirmwareExecutor.Observe`, and copies the CPU publication through an atomic
pointer. Any of them reports a defect through the callback `notifyFatal`, which
`run` receives. Shutdown goes the other way: server, observer, executor.

## Modules

| Module | Models |
|---|---|
| `Coordinator` | `Snapshot` in the goroutine of each request, `run`/`collect`/`copyCPU`/`finalize` in the goroutine of each cycle, the fatal callback. A section under `Coordinator.mu` is one action. A cycle is named after the request that started it. A document is the set of metrics that are present, with the topology its CPU count came with and that of the publication it copied; `validate*` is a choice between `DomainReturn` and `DomainDefect`. |
| `SingleFlight` | What the coordinator promises: at most one flight; a caller is answered by a flight that was under way at some moment of its call, by its own context, or by the defect that closed admission. No goroutines, domains, deadlines or channels. |
| `FirmwareExecutor` | `Start`, `Observe`, the worker `run` and `Close`; channels of capacity one; the ioctl returns (`TransactionReturn`), panics (`TransactionPanic`) or stays away for ever. |
| `CPUObserver` | `Start`, `run`, `observe`, `Close`, `latestCPU` and the age check of `copyCPU` on a clock. A read of the counters ends after any delay and finds an epoch (boot ID, uptime that does not go back, topology) and eight counters, whose deltas are summed with the width of a counter. |
| `Lifecycle` | `run`, `startHTTP`, `readinessGate`, `shutDown`, `Runtime.Shutdown` and `Runtime.Close`. Each way out has the list of stopping calls the code makes there, and each call is a step. Time is counted in these calls only; each component has a moment `freeAt` at which it comes to rest. |
| `RequestHandler` | `ServeHTTP` with `recover`, admission, the failure flag and `fatalOnce`. The path, method, query and body checks are one refusal; every reply is a header and, in a step of its own, a body. |
| `LimitedListener` | `Accept` as the Serve loop calls it, `Close` of the listener and of connections, by several goroutines. |
| `Degradation` | The issues `finalize` builds from the observations of a cycle, each named by the call that appends it (`Sites`), and `DegradationReporter.Report` with its three reasons to refuse a list, as one action: cycles report one after the other. |
| `Outcome` | Reasons and `acquisitionFailure`, shared by the collectors. |
| `NetworkCollector` | `readLinks`, `Links`, `newLinkTopology`, `externallyCapable` and the loop of `collectNetwork`. A call of `externallyCapable` is an entry of `stack`; every call that returns has stored its result in `resolved` (here `external` and `internal`), so a caller that goes on reads it there. |
| `Collectors` | `parseCPUTopology`, `parseMemory`, `collectRootFilesystem`, `collectSoCTemperature`, `GetThrottled` as operators on integers that wrap after `MaxUint`. |
| `SnapshotDocument` | One cycle from the answers of the platform to the bytes: the domains in order, each collected or late, `copyCPU`, `finalize`, `Encode` with its checks of values and of issues; and what `ProbeReadiness` asks for. |
| `MCCoordinator`, `MCCPUObserver`, `MCLifecycle`, `MCRequestHandler`, `MCNetworkCollector`, `MCSnapshotDocument` | Definitions the configurations need: units of the domains, counter readings, times of rest, symmetry, the links of a dump, the answers of the platform. |
| `CoordinatorProofs`, `FirmwareExecutorProofs`, `CPUObserverProofs`, `LifecycleProofs`, `DegradationProofs`, `HTTPProofs` (handler and listener), `NetworkProofs`, `SnapshotProofs` (collectors and document) | The theorems. |

Operators whose name ends in `Mutant` are plausible slips of the operator that
follows them (a lost reset, an off-by-one, a dropped guard). They are used by no
specification; replacing the real operator by its mutant breaks the property
named in `PROJECT.json`, which is how each property is known to say something.

Points of correspondence worth knowing:

* `Coordinator`: the slot is freed (`RunPublish`) before `done` is closed
  (`RunClose`), as the deferred function of `run` does, and between the two the
  fatal callback runs. A waiter whose cycle is done and whose context is done
  may take either branch of the select. In the loop of `collect` the check of
  the lifecycle, that of the cycle's deadline and the call of the collector are
  a step each, so that a cancellation or a deadline may come between them: a
  collector can be called after shutdown has begun, but at most one
  (`lateCalls`).
* `FirmwareExecutor`: the send of `Observe` does not look at its context and the
  send after a panic has no default branch; both are modelled as blocking.
  `Close` reports no lateness: an ioctl still under way is left to process exit.
  After a panic the callback (`WorkerAnnounce`) and the closing of `done`
  (`WorkerEnd`) are two steps.
* `CPUObserver`: `at` is the time passed to `observe`, taken before the read;
  `readAt` is history. While the reader's clock is read after the pointer, a
  writer may publish again. A publication remembers the epochs of both its
  samples. After a panic the failure is stored, the callback runs
  (`FailAnnounce`) and `done` is closed (`RunEnd`) in three steps, and `Close`
  may begin between any two of them.
* `Lifecycle`: the first select of `run` has a default branch, the second has
  none; a select with several ready branches takes any. `markFatal` sets an
  atomic before it waits for the lock that `notify` holds while it sends.
  `Cleanup`, `ShutdownList` and `CloseList` are the lists of the paths through
  `startHTTP`, `shutDown` and `unexpectedServeExit`; `EverythingStopped`
  compares each with what had been started by then. Every call of startup may
  fail, including some whose error the code returns only for arguments `run`
  never passes. When the server was created but Serve has not been called,
  closing it leaves the socket to process exit; the model counts the server as
  asked to stop. After a shutdown caused by a defect the lifecycle context is
  not cancelled.
* `NetworkCollector`: the search asks for the members of a bridge in the order
  of the dump and stops at the first that is external; a link whose result is
  still being computed is on the stack, and asking for it again is a cycle. The
  error leaves all calls at once.
* `SnapshotDocument`: the two lists of issues are written down twice, as in the
  code: `Issues` from the outcomes (`finalize`), `Expected` from the fields of
  the document (`buildDocument`). The encoder also refuses a CPU count of zero
  and byte values that do not add up; whether a value is one it accepts is
  determined where the value is computed and carried to the document in
  `malformed`. Loads, temperature and utilization are finite and in range or
  their parsers have refused them, and the order of interfaces by name is the
  collector's. `Report`, which `finalize` calls with the same issues, keeps its
  state in `Degradation` and never refuses (`ReportNeverFails`). When a domain
  is late is decided in `Coordinator`.
* `RequestHandler`: `fatal` is called inside `fatalOnce`, where other handlers
  wait; a panic runs the deferred release before `recover` stores `failed`.
  `Panic` may come wherever a response is being written or the handler decides,
  between header and body too, and `PanicEarly` in the refusals before
  admission. The handler's own deadline has no state: where `ctx.Err()` is read
  (`DecideLate`) it may be set at any time.
* `Degradation` and `LimitedListener`: `Path` and `Code` say which identity each
  site gives its event, so that two sites with one identity would be a
  duplicate. `SlotAccounting` of the listener is about connections, the property
  of the same name of the executor about its single request.

## Runs

| Run | Instance | Shows |
|---|---|---|
| `coordinator` | 2 requests, 2 domains, 2 topologies, fairness | `OneCollector`, `DefectAnnounced`, `NoServiceAfterDefect`, `CoherentSnapshot`, `DeadlineHonoured`; `RequestReturns`, `CycleCompletes`; refinement of `SingleFlight` |
| `firmware_executor` | 3 observations, 1 close, fairness | slot, sends and failure order; `NoAdmissionAfterStop`; `CallsReturn` although the ioctl may block; `SlotRecovers` |
| `cpu_observer` | period 3, valid interval 2..4, age 4, clock to 9, two-bit counters, 5 readings | `SoundPublication`, `NoDrift`, `EndAnnounced`, `FrozenAfterStop`, `ExactUtilization` |
| `cpu_observer_interval` | period 10, valid interval 9..11, clock to 21 | **violation**, finding 1 |
| `lifecycle` | limit 2, components at rest at 0, 2, 3 or 9, fairness | `CleanExit`, `EverythingStopped`, `StopTime`, `ReadyMeansServing`, `EndsWhenTold` |
| `lifecycle_limit` | the same | **violation**, finding 2 |
| `request_handler` | 3 requests (symmetric), 2 slots | `AdmissionAccounting`, `AnsweredOnce`, `NoDocumentAfterFailure`, `FailureAnnounced` |
| `limited_listener` | 3 connections, 2 closers, 2 slots, fairness | `SlotAccounting`, `CloseEndsAccept` |
| `degradation` | 1 single metric, firmware with 2 paths, 1 interface, 2 reasons, interval 2, clock to 3 | `ReportNeverFails`, `AccurateJournal`, `Cadence` |
| `network` | dumps of up to 3 links, an index no link has, fairness of the search | `ReportedIsExternal`, `CyclesOnly`, `SearchEnds` |
| `network_disappearance` | dumps of up to 2 links | **violation**, finding 3 |
| `snapshot_document` | two-bit integers, block sizes from -1, up to 2 interfaces, all metrics | `EncoderAccepts`, `ServedWhenUseful`, `HonestDocument`, `ExactQuantities` |

Why the bounds are enough. Two requests are a call that starts a cycle and one
that joins it, or that arrives while it is being published and must start the
next, so that two cycles overlap in their ends; what is checked of safety is
proved for any number of them. Two domains are the one that is collected
whatever the deadline says and the one the CPU copy depends on; the others
behave like the second. Two topologies are the one the cycle has seen and
another that the publication was measured for. Three observations are one that
has timed out with its ioctl under way, one that is refused, and one that comes
after the slot was freed. Nine ticks are three periods of the CPU observer:
baseline, failed sample, and a sample that late wake-ups bring within the valid
interval of the baseline. (The horizon is a bound of the clock; an observer that
has reached it has merely no more time.) The four times of rest are at once,
exactly at the limit, between the first limit and the second, and later than
every wait. The counter readings reach a busy sum that overflows, a total that
overflows alone, a counter that went back, an empty delta and another epoch.
Three links are enough for a bridge with two members, a vlan on a bridge, cycles
of one, two and three links, links listed before and after the ones they depend
on, and one link too many. Two-bit integers wrap in every product and sum the
collectors form, the block size of statfs is signed and may be zero or negative,
and two interfaces with every subset of their leaves put issues between and
after those of other interfaces. Three requests for two admission slots and
three connections for two slots let the limit be reached while another one is
refused or waits. The limit of the degradation reporter is the largest number of
events there can be, as in the code (8 + 4 + 3 * 64 = 204), so it is reached,
and two paths of one outcome and three leaves of one interface are where
identities could coincide; four moments allow a suppressed repetition, a
reminder and a change of reason in between.

Deadlock is checked in every run; modules whose system may come to an end have
an explicit stuttering step (`Terminated`, `Finished`) for exactly that state.
In `RequestHandler` that is also the liveness argument: a request takes at most
twelve steps (`RequestsLinear`), so without a deadlock it gets to its end.

### Fairness

Weak fairness is assumed of steps a started goroutine can take by itself (Go's
scheduler runs them), never of arrivals, signals, defects, disconnects or kernel
calls. Steps that depend on a premise carry it in the property:

* `RequestReturns` assumes `DeadlinesPass`: the handler gives every request a
  deadline (`httpapi/handler.go:120`). It does not assume that collectors
  return.
* `CycleCompletes` assumes `CollectorsReturn` and no deadline.
* `CallsReturn` assumes `ContextsEnd`, not that the ioctl returns;
  `SlotRecovers` assumes `IoctlReturns`.
* `EndsWhenTold` assumes that Serve returns once the server was asked to stop,
  which `CloseEndsAccept` shows for the listener under it.
* `CloseEndsAccept` assumes that the Accept of a closed TCP listener fails.
* `SearchEnds` assumes that computation goes on, and nothing of the kernel.

## Findings

1. `ReadIntervalValid`, `observe/cpu.go:169`. `docs/architecture-v0.1.md:97`
   says "Valid sample interval: 0.9 through 1.1 seconds." and line 100 that
   delayed reads invalidate publication. `run` passes the time at which it woke,
   and the counters are read afterwards; the interval that is checked is the one
   between two wake-ups. A read delayed after the clock was taken is published,
   with counters read outside the interval.
2. `StopWithinLimit`, `app/runtime.go:37`. `docs/architecture-v0.1.md:157` says
   "Shutdown requests executor termination but never exceeds the service's
   two-second bound". When a component does not come to rest, `shutDown` spends
   the two seconds in `Shutdown` and then calls `Runtime.Close`, which opens a
   deadline of two more seconds, possibly twice. What does hold is `StopTime`:
   two seconds if the components stop within them, and six whatever they do.
3. `DisappearanceTemporary`, `platform/source_linux.go:88`.
   `docs/architecture-v0.1.md:175` lists disappearance among the cases of
   `temporarily_unavailable`. A link removed between the netlink dump and the
   lookup of its sysfs entry makes `Links` fail with "not exist", which
   `collectNetwork` maps to `unsupported` (`observe/network.go:40`), for all
   links. `collectSoCTemperature` maps a thermal zone that disappears to
   `temporarily_unavailable`.

## Proofs

All eight developments have the same shape: an inductive invariant `IInv`, one
lemma per group of actions that preserves it, and the properties as corollaries.
The constants are arbitrary but for the named assumptions. Between them they
state every invariant and every action property the passing runs check, the
refinement, and, under the hypotheses explained below, all liveness properties
but `CycleCompletes` and `SearchEnds`.

* `CoordinatorProofs`, for any set of requests, any number of domains (at least
  two), any metrics and any topologies (`CycleAssumption`, `DomainAssumption`,
  `UnitsAssumption`: host delivers the hostname, the second domain the CPU
  count, none of them the utilization, and no two the same metric;
  `TopologyAssumption`: the empty signature is no topology). The properties are
  not inductive: that a waiter hears of a defect after the callback needs to
  know when `outcome` is written (`ResultsInv`), that a published defect is
  latched (`LatchInv`), that a call's history holds only finished cycles
  (`HistoryInv`) and that `done` of a defective cycle closes after the
  announcement (`AnnouncedInv`). For what is in the document, each stage of
  `collect` must be known: utilization is in it only with the CPU count and the
  topology of this cycle (`DocumentInv`), a domain that was outstanding at a
  deadline stays out because what made it late still holds when its collector
  returns (`OverdueInv`), and after one late call every domain is skipped
  (`LateInv`). `Invariance` gives `TypeCorrect`, `SingleCollector`,
  `RepliesFresh`, `DefectsAnnounced`, `DefectsStopService`, `SnapshotsCoherent`
  and `DeadlinesHonoured`. `Refinement` shows that `Coordinator` implements
  `SingleFlight`; the mapping sends `active` to the flight under way, `outcome`
  to results, and the cycles started and not over before a call's arrival to its
  window. `CyclesLinear` counts the steps a cycle has left, at most 4 * NDomains
  + 9: four per domain and for the CPU copy (two checks, the call and the
  return), and those of the result and the deferred function, so that the
  goroutine of a cycle never goes back. `RequestsAlwaysReturn` and
  `CollectedAlwaysCloses` are liveness; both need that whoever waits in
  `fatalOnce.Do` waits for somebody in the callback (`AnnouncerInv`), so that it
  ends (`AnnouncementEnds`).
* `FirmwareExecutorProofs`, for any number of observations and closes. A request
  is in one place at a time (`PlaceInv`), the worker holds one exactly from
  taking it to releasing the slot (`WorkerInv`), its result channel is empty
  until then (`ChannelInv`), `failed` is latched first and the callback has run
  when `done` is about to be closed (`FailureInv`). From these follow
  `SlotAccounted`, `SendsPass`, `FailuresOrdered` and `StopAdmitsNothing`; and
  the liveness theorems `CallsAlwaysReturn`, call by call, and
  `SlotAlwaysRecovers`, which follows the slot from the observer that reserved
  it to the queue, the ioctl and its release (`SlotMoves`).
* `CPUObserverProofs`, for any period, valid interval, age, width and values of
  the counters, and any horizon of the clock, so that the horizon of the run
  bounds nothing here. That a publication never spans a failed read is not
  inductive: it needs that samples, reads and publications do not run ahead of
  the clock (`ClockInv`), that every failed read lies before the baseline and
  before the sample being taken (`FailureInv`), that a publication belongs to
  the baseline and that its two epochs agree (`PublishedInv`), that the next
  wake-up is a whole number of periods after the first sample (`GridInv`) and
  what has been announced at each place of the goroutine (`EndInv`).
  `TargetAdvances` and `GridRemainder` carry the arithmetic of the schedule,
  `AddExact` and `SumsExact` that of sums that may overflow. From these follow
  `PublicationsSound`, `ScheduleKept`, `EndsAnnounced`, `NothingAfterStop` and
  `UtilizationExact`.
* `LifecycleProofs`, for every limit and every moment at which components come
  to rest. The place of `run` determines how far startup is (`StageInv`), which
  list is being worked off (`ListInv`), how much time is used (`TimeInv`) and
  which status is due and why (`VerdictInv`). What had been started has been
  asked to stop or is still on the list (`ReachInv`), which `CleanupFacts` shows
  of each list at the call that fails. `CallBounds` bounds the wait of one call
  by its deadline and by the moment its component comes to rest. From these
  follow `ExitsClean`, `NothingLeftRunning`, `StopsInTime` and `ReadinessSound`.
  `EndsAlways` is liveness: `run` moves through its stages in one direction, and
  where it looks at the result of Serve, Serve was started (`ServeInv`).
* `DegradationProofs`, for all metrics, reasons, intervals and numbers of
  interfaces (at least one). `LimitAssumption` states how the code's constants
  relate; `SinglesBound`, `FirmwareBound` and `NetworkBound` count the events of
  a cycle, `EventsValid` and `PathsDistinct` show that each has a valid identity
  of its own, and `ReportsAccepted` follows. The invariant of the other two
  theorems is that the reporter's map and what the journal says are the same
  function.
* `HTTPProofs`, for any number of requests and admission slots
  (`CapacityAssumption`; `RequestsAssumption`: no request has the name of a
  state of `fatalOnce`) and any number of connections, closers and listener
  slots (`LimitAssumption`, `NoConnectionAssumption`). The module extends both
  models, whose names are kept apart for that. Where a request is tells whether
  it holds a slot (`AdmissionInv`, which adds that the holders are finite),
  whether its header is out (`HeaderInv`) and, for one whose provider returned
  after a failure, that it is before the second look at the flag or past its
  answer (`DoomedInv`). `FailureAnnounced` says nothing while a handler is under
  way, so it is not inductive: `FailureInv` adds that somebody is on the way to
  announce a failure that is not announced. From these follow
  `AdmissionAccounted`, `EachAnsweredOnce`, `NoDocumentServedAfterFailure` and
  `FailuresAnnounced`. `RequestsLinear` counts the steps a request has left,
  panics in every place included; no other request adds to them. Of the
  listener, `SlotsAccounted` needs besides the count that only accepted
  connections are being closed (`ListenerInv`), and `AcceptAlwaysEnds` is
  liveness: once the TCP listener is closed, Accept only moves towards its
  return (`AcceptMoves`).
* `NetworkProofs`, for dumps of any length, in any order and of any topology
  (`InputsAssumption`: what the kernel may answer has the types of the fields).
  That the results kept between searches are right is not the property itself
  but `ResolvedInv`: everything in `external` reaches a physical device, and
  what a link in `internal` needs is in `internal`, so that the links outside
  `internal` are closed under the rule that defines external ones and hold them
  all. `StackInv` says that a rank that falls along every dependency falls along
  the stack, so a link asked for twice leaves no such rank, which is
  `RefusesCyclesOnly`. `ReportsExternal` adds the loop over the links
  (`LoopInv`). `SearchLinear` is the safety half of `SearchEnds`: the calls on
  the stack are of distinct links without a result (`FreshInv`), so `Budget` is
  not negative, it starts with at most three per link, and each step of the
  search ends the collection or takes one from it.
* `SnapshotProofs`, for integers of every width, any answers of the platform and
  any number of interfaces (`WidthAssumption`, `InterfacesAssumption`,
  `PlatformAssumption`: answers have the types of the code's results).
  `QuantitiesExact` is arithmetic: `ProductFits` and `BytesExact` show that the
  check before a multiplication is the right one, `RangeCounted` that the
  running count of `parseCPUTopology` is the number of CPUs listed so far and
  that no wrap goes unnoticed. For the encoder, `Segment(issues, paths, P)` says
  that a list of issues has each missing thing among the paths of `P` once, in
  the order of the paths the encoder expects; `Join` puts segments together, and
  every part of the document yields one, so the whole list is what the encoder
  derives (`IssuesExact`, `EncoderSatisfied`). That no value is one the encoder
  refuses is part of the invariant (`MalformedInv`): a count that is present is
  positive, and used and available bytes add up. From these and the invariant,
  which carries what was observed (`ObservationInv`) to the document
  (`DocumentInv`) and the result (`ResultInv`), follow `EncoderNeverRefuses`,
  `ServedExactlyWhenUseful` and `DocumentsHonest`.

Two arguments are inductions over data: the loop over CPU ranges and the
concatenation of the issues of the interfaces. The library's induction rule
takes an operator, which the provers do not instantiate; the lemma `Induction`
takes a set of numbers instead and follows from the fact that a set of numbers
has a least one. That a function defined by recursion satisfies its equation is
shown by exhibiting such functions step by step (`LoopRuns`,
`ConcatenationsExist`).

### Liveness

Five of the liveness properties are proved, and a part of a sixth:

| Theorem | Property | Hypotheses besides `FairSpec` |
|---|---|---|
| `RequestsAlwaysReturn` | `RequestReturns` | `[]CallsEnabled`, `[]Scheduling` |
| `CollectedAlwaysCloses` | the last part of `CycleCompletes` | those and `[]CyclesEnabled` |
| `CallsAlwaysReturn` | `CallsReturn` | `[]CallsEnabled` |
| `SlotAlwaysRecovers` | `SlotRecovers` | `[]CallsEnabled`, `[]WorkerEnabled`, `[]Scheduling` |
| `EndsAlways` | `EndsWhenTold` | `[]StepsEnabled` |
| `AcceptAlwaysEnds` | `CloseEndsAccept` | `[]AcceptEnabled` |

Each is proved in stages. Lemmas in the logic of actions say from which place a
process can go to which (nobody takes it back, its own step takes it on); the
temporal prover combines them with the weak fairness of those steps. So the
theorems say which fairness each property rests on, for any number of callers,
and that no other actor's step can undo progress.

Weak fairness of a step concludes something only where the step is enabled, and
the provers cannot evaluate ENABLED. The hypotheses named `...Enabled` say it:
*where its guard holds, the step is enabled*. They are read off the definitions,
since below its guard each action assigns every variable; nothing in them is an
assumption about the program or its scheduling. TLC, which does evaluate
ENABLED, confirms them: taken as an `INVARIANT` of the instances of the runs,
each holds in all states. `[]Scheduling` says nothing more than `Scheduling`, a
conjunct of `FairSpec`: fairness is about what happens again and again, so it
holds from every moment on if it holds from the first. It is written out where
`Scheduling` quantifies over processes, because the provers lack the rule that
exchanges `[]` with `\A`.

### What is only model-checked

* `CycleCompletes` and `SearchEnds`: progress through a loop whose length is a
  constant (over the domains, over the links) is an induction inside a temporal
  formula, which is beyond the provers. Their safety halves are proved:
  `CyclesLinear` and `SearchLinear` bound the steps of the loops by a measure
  that every step decreases, and what follows the loop of a cycle is
  `CollectedAlwaysCloses`.
* The `...Enabled` hypotheses.
* The three findings: TLC shows a behaviour, and there is nothing to prove.

## Not modelled

What the modules leave out, and why:

* `Coordinator` and `FirmwareExecutor` are not composed. A cycle that passed the
  lifecycle check may meet an executor that is stopping, and its domain then
  answers with a defect. In `Coordinator` that is the choice of `DomainDefect`,
  which is available whatever the lifecycle says, and in `Lifecycle` a defect
  may come at any moment while a component runs, during the shutdown too, so
  each model admits what the composition could do. That such a defect does not
  turn an operator's stop into a failure is the second part of `CleanExit`.
* `config/config.go` runs once, sequentially, before anything else exists. Its
  results are `RunHelp` and `RunConfigurationError` of `Lifecycle`; the
  precedence of flags over environment over defaults is a table that the
  repository's tests go through.
* The JSON text and its size limit. 64 interfaces with the longest names and
  every issue encode to about two thirds of the limit.
* The byte layouts of netlink and firmware messages, ioctl encodings and the
  decimal texts of procfs: sequential, without state, and covered by unit tests.
  Whether they decode is a choice of the models above.
* A second panic while `recover` answers, and one inside the fatal callback.
* The timeouts of net/http, which the server only configures, log lines and help
  text.
