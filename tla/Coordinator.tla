---------------------------- MODULE Coordinator ----------------------------
(***************************************************************************)
(* The snapshot coordinator (src/internal/observe/coordinator.go): HTTP    *)
(* requests call Snapshot, which joins the active collection cycle or      *)
(* starts one in a goroutine of its own (run).  A cycle collects its       *)
(* domains in a fixed order under a cycle deadline and a deadline per      *)
(* domain, copies the CPU publication, finalizes a document and hands the  *)
(* result to everyone who joined.                                          *)
(*                                                                         *)
(* A request starts at most one cycle, so a cycle is named after the       *)
(* request that started it.  A section under Coordinator.mu is one action. *)
(***************************************************************************)
EXTENDS Naturals, FiniteSets

CONSTANTS
    Requests,   \* calls of Snapshot
    NoCycle,    \* the nil *collectionCycle
    NDomains,   \* number of collector domains; domain 1 is host, 2 is cpuLoad
    Units,      \* Units[d]: the metrics domain d can deliver
    Topologies, \* what a topology signature and its CPU count stand for
    NoTopology  \* the empty signature

ASSUME CycleAssumption == NoCycle \notin Requests
ASSUME DomainAssumption == NDomains \in Nat /\ NDomains >= 2
ASSUME UnitsAssumption ==
    /\ DOMAIN Units = 1..NDomains
    /\ "hostname" \in Units[1]
    /\ "logicalCPUCount" \in Units[2]
    /\ \A d \in 1..NDomains : "utilization" \notin Units[d]
    /\ \A d, e \in 1..NDomains : d # e => Units[d] \cap Units[e] = {}
ASSUME TopologyAssumption == NoTopology \notin Topologies

VARIABLES
    lifecycleDone,  \* the lifecycle context is canceled
    active,         \* Coordinator.active
    failed,         \* Coordinator.failed # nil
    fatalOnce,      \* sync.Once around the fatal callback
    pc,             \* where each call of Snapshot is
    canceled,       \* the request's context is done
    joined,         \* the cycle a call waits for
    reply,          \* what a call returned
    phase,          \* where the goroutine of each cycle is
    step,           \* the next domain of the cycle
    stage,          \* how far the cycle is with domain step
    cycleExpired,   \* the 500 ms cycle deadline has passed
    domainExpired,  \* the 100 ms deadline of the running domain has passed
    obs,            \* cycleObservations: the metrics that are present
    seen,           \* cpuLoadObservation.topologySignature of the cycle
    local,          \* run's own encoded, resultErr
    outcome,        \* collectionCycle.encoded, .err: shared with the waiters
    before,         \* history: the cycles already published when a call arrived
    measuredFor,    \* history: the topology of the publication a cycle copied
    overdue,        \* history: domains with no result yet when a deadline passed
    lateCalls       \* history: collectors called after the end of the cycle's time

requestVars == <<pc, canceled, joined, reply, before>>
timerVars == <<cycleExpired, domainExpired>>
documentVars == <<obs, seen, measuredFor>>
cycleVars == <<phase, step, stage, documentVars, local, outcome>>
historyVars == <<overdue, lateCalls>>
sharedVars == <<lifecycleDone, active, failed, fatalOnce>>
vars == <<sharedVars, requestVars, cycleVars, timerVars, historyVars>>

Cycles == Requests
DomainUnits == UNION {Units[d] : d \in 1..NDomains}
AllUnits == DomainUnits \cup {"utilization"}
Results == {"ok", "noUseful", "canceled", "defect"}
Phases == {"unused", "collecting", "collected", "published", "announcing", "closed"}
\* Before the check of the lifecycle, before that of the cycle's deadline,
\* before the call of the collector, and in it.
Stages == {"lifecycle", "deadline", "call", "calling"}
CallStates == {"idle", "locking", "waiting", "failing", "announcing", "returned"}

SharedOK ==
    /\ lifecycleDone \in BOOLEAN
    /\ active \in Cycles \cup {NoCycle}
    /\ failed \in BOOLEAN
    /\ fatalOnce \in {"unused", "running", "done"}

CallsOK ==
    /\ pc \in [Requests -> CallStates]
    /\ canceled \in [Requests -> BOOLEAN]
    /\ joined \in [Requests -> Cycles \cup {NoCycle}]
    /\ reply \in [Requests -> Results \cup {"pending", "requestErr"}]
    /\ before \in [Requests -> SUBSET Cycles]

CyclesOK ==
    /\ phase \in [Cycles -> Phases]
    /\ step \in [Cycles -> 1..(NDomains + 2)]
    /\ stage \in [Cycles -> Stages]
    /\ cycleExpired \in [Cycles -> BOOLEAN]
    /\ domainExpired \in [Cycles -> BOOLEAN]
    /\ obs \in [Cycles -> SUBSET AllUnits]
    /\ seen \in [Cycles -> Topologies \cup {NoTopology}]
    /\ measuredFor \in [Cycles -> Topologies \cup {NoTopology}]
    /\ overdue \in [Cycles -> SUBSET (1..NDomains)]
    /\ lateCalls \in [Cycles -> Nat]
    /\ local \in [Cycles -> Results \cup {"pending"}]
    /\ outcome \in [Cycles -> Results \cup {"pending"}]

TypeOK == SharedOK /\ CallsOK /\ CyclesOK

\* newCoordinator: no cycle, no failure.  A call starts with a live context.
Init ==
    /\ lifecycleDone = FALSE
    /\ active = NoCycle
    /\ failed = FALSE
    /\ fatalOnce = "unused"
    /\ pc = [r \in Requests |-> "idle"]
    /\ canceled = [r \in Requests |-> FALSE]
    /\ joined = [r \in Requests |-> NoCycle]
    /\ reply = [r \in Requests |-> "pending"]
    /\ before = [r \in Requests |-> {}]
    /\ phase = [c \in Cycles |-> "unused"]
    /\ step = [c \in Cycles |-> 1]
    /\ stage = [c \in Cycles |-> "lifecycle"]
    /\ cycleExpired = [c \in Cycles |-> FALSE]
    /\ domainExpired = [c \in Cycles |-> FALSE]
    /\ obs = [c \in Cycles |-> {}]
    /\ seen = [c \in Cycles |-> NoTopology]
    /\ measuredFor = [c \in Cycles |-> NoTopology]
    /\ overdue = [c \in Cycles |-> {}]
    /\ lateCalls = [c \in Cycles |-> 0]
    /\ local = [c \in Cycles |-> "pending"]
    /\ outcome = [c \in Cycles |-> "pending"]

-----------------------------------------------------------------------------
(* The environment: contexts are canceled and deadlines pass at any time.  *)

\* The domains of a cycle whose collectors have not returned.
Outstanding(c) == IF phase[c] = "collecting" THEN step[c]..NDomains ELSE {}

\* The service begins to shut down.
LifecycleCancel ==
    /\ ~lifecycleDone
    /\ lifecycleDone' = TRUE
    /\ overdue' = [c \in Cycles |-> overdue[c] \cup Outstanding(c)]
    /\ UNCHANGED <<active, failed, fatalOnce, requestVars, cycleVars, timerVars, lateCalls>>

\* The client disconnects or the one-second request deadline passes; a call
\* in fail or back from Snapshot no longer looks at its context.
RequestCancel(r) ==
    /\ ~canceled[r]
    /\ pc[r] \in {"idle", "locking", "waiting"}
    /\ canceled' = [canceled EXCEPT ![r] = TRUE]
    /\ UNCHANGED <<sharedVars, pc, joined, reply, before, cycleVars, timerVars, historyVars>>

\* collectionCycleTimeout has passed since the cycle began; the context is
\* not looked at after the last domain.
CycleTimeout(c) ==
    /\ phase[c] = "collecting" /\ step[c] <= NDomains
    /\ ~cycleExpired[c]
    /\ cycleExpired' = [cycleExpired EXCEPT ![c] = TRUE]
    /\ overdue' = [overdue EXCEPT ![c] = @ \cup Outstanding(c)]
    /\ UNCHANGED <<sharedVars, requestVars, cycleVars, domainExpired, lateCalls>>

\* collectorDomainTimeout has passed since the collector was called.
DomainTimeout(c) ==
    /\ phase[c] = "collecting" /\ stage[c] = "calling"
    /\ ~domainExpired[c]
    /\ domainExpired' = [domainExpired EXCEPT ![c] = TRUE]
    /\ overdue' = [overdue EXCEPT ![c] = @ \cup {step[c]}]
    /\ UNCHANGED <<sharedVars, requestVars, cycleVars, cycleExpired, lateCalls>>

-----------------------------------------------------------------------------
(* Snapshot, in the goroutine of the request.                              *)

Return(r, result) ==
    /\ pc' = [pc EXCEPT ![r] = "returned"]
    /\ reply' = [reply EXCEPT ![r] = result]

Settled(c) == phase[c] \in {"published", "announcing", "closed"}

\* The call arrives: which cycles were over by then is history.
Arrive(r) ==
    /\ pc[r] = "idle"
    /\ before' = [before EXCEPT ![r] = {c \in Cycles : Settled(c)}]

\* A request whose context is already done is turned away before the lock.
SnapshotRefuse(r) ==
    /\ Arrive(r)
    /\ canceled[r]
    /\ Return(r, "requestErr")
    /\ UNCHANGED <<sharedVars, canceled, joined, cycleVars, timerVars, historyVars>>

SnapshotEnter(r) ==
    /\ Arrive(r)
    /\ ~canceled[r]
    /\ pc' = [pc EXCEPT ![r] = "locking"]
    /\ UNCHANGED <<sharedVars, canceled, joined, reply, cycleVars, timerVars, historyVars>>

\* A nil request is a defect of the caller: fail latches it under the lock.
SnapshotNil(r) ==
    /\ Arrive(r)
    /\ ~canceled[r]
    /\ pc' = [pc EXCEPT ![r] = "failing"]
    /\ failed' = TRUE
    /\ UNCHANGED <<lifecycleDone, active, fatalOnce, canceled, joined, reply,
                   cycleVars, timerVars, historyVars>>

\* Admission is closed for good once a defect is latched.
AdmissionOpen == ~failed

SnapshotFailed(r) ==
    /\ pc[r] = "locking"
    /\ ~AdmissionOpen
    /\ Return(r, "defect")
    /\ UNCHANGED <<sharedVars, canceled, joined, before, cycleVars, timerVars, historyVars>>

Await(r, c) ==
    /\ pc' = [pc EXCEPT ![r] = "waiting"]
    /\ joined' = [joined EXCEPT ![r] = c]

SnapshotJoin(r) ==
    /\ pc[r] = "locking"
    /\ AdmissionOpen
    /\ active # NoCycle
    /\ Await(r, active)
    /\ UNCHANGED <<sharedVars, canceled, reply, before, cycleVars, timerVars, historyVars>>

SnapshotStart(r) ==
    /\ pc[r] = "locking"
    /\ AdmissionOpen
    /\ active = NoCycle
    /\ active' = r
    /\ phase' = [phase EXCEPT ![r] = "collecting"]
    /\ Await(r, r)
    /\ UNCHANGED <<lifecycleDone, failed, fatalOnce, canceled, reply, before,
                   step, stage, documentVars, local, outcome, timerVars, historyVars>>

SnapshotDeliverMutant(r) ==
    /\ pc[r] = "waiting"
    /\ phase[joined[r]] # "collecting"
    /\ Return(r, outcome[joined[r]])
    /\ UNCHANGED <<sharedVars, canceled, joined, before, cycleVars, timerVars, historyVars>>

\* The select of Snapshot: the cycle is done, or the request is.  When both
\* are, either may be taken.
SnapshotDeliver(r) ==
    /\ pc[r] = "waiting"
    /\ phase[joined[r]] = "closed"
    /\ Return(r, outcome[joined[r]])
    /\ UNCHANGED <<sharedVars, canceled, joined, before, cycleVars, timerVars, historyVars>>

SnapshotDetachMutant(r) ==
    /\ pc[r] = "waiting"
    /\ canceled[r] /\ phase[joined[r]] = "closed"
    /\ Return(r, "requestErr")
    /\ UNCHANGED <<sharedVars, canceled, joined, before, cycleVars, timerVars, historyVars>>

SnapshotDetach(r) ==
    /\ pc[r] = "waiting"
    /\ canceled[r]
    /\ Return(r, "requestErr")
    /\ UNCHANGED <<sharedVars, canceled, joined, before, cycleVars, timerVars, historyVars>>

\* fatalOnce.Do in fail: the first caller runs the callback, a later one
\* blocks until that run is over.
FailAnnounce(r) ==
    /\ pc[r] = "failing"
    /\ fatalOnce = "unused"
    /\ fatalOnce' = "running"
    /\ pc' = [pc EXCEPT ![r] = "announcing"]
    /\ UNCHANGED <<lifecycleDone, active, failed, canceled, joined, reply, before,
                   cycleVars, timerVars, historyVars>>

FailAnnounced(r) ==
    /\ pc[r] = "announcing"
    /\ fatalOnce' = "done"
    /\ Return(r, "defect")
    /\ UNCHANGED <<lifecycleDone, active, failed, canceled, joined, before,
                   cycleVars, timerVars, historyVars>>

FailAlreadyAnnounced(r) ==
    /\ pc[r] = "failing"
    /\ fatalOnce = "done"
    /\ Return(r, "defect")
    /\ UNCHANGED <<sharedVars, canceled, joined, before, cycleVars, timerVars, historyVars>>

-----------------------------------------------------------------------------
(* collect, in the goroutine of the cycle.                                 *)

At(c, place) == phase[c] = "collecting" /\ stage[c] = place
GoOn(c, place) == stage' = [stage EXCEPT ![c] = place]
NextDomain(c) == step' = [step EXCEPT ![c] = @ + 1] /\ GoOn(c, "lifecycle")

\* cycleContext.Err() and domainContext.Err() also report their parents.
CycleOver(c) == cycleExpired[c] \/ lifecycleDone
ExpiredMutant(c) == domainExpired[c]
Expired(c) == domainExpired[c] \/ CycleOver(c)

\* collect returns: its contexts are canceled and its locals are gone, but
\* for the document, which an error leaves empty.
Kept(c, result, f, nothing) == IF result = "ok" THEN f ELSE [f EXCEPT ![c] = nothing]
Finish(c, result) ==
    /\ local' = [local EXCEPT ![c] = result]
    /\ phase' = [phase EXCEPT ![c] = "collected"]
    /\ step' = [step EXCEPT ![c] = 1]
    /\ GoOn(c, "lifecycle")
    /\ cycleExpired' = [cycleExpired EXCEPT ![c] = FALSE]
    /\ domainExpired' = [domainExpired EXCEPT ![c] = FALSE]
    /\ obs' = Kept(c, result, obs, {})
    /\ seen' = Kept(c, result, seen, NoTopology)
    /\ measuredFor' = Kept(c, result, measuredFor, NoTopology)
    /\ overdue' = Kept(c, result, overdue, {})
    /\ lateCalls' = Kept(c, result, lateCalls, 0)
    /\ UNCHANGED <<sharedVars, requestVars, outcome>>

\* Before any domain, and before the CPU copy, a canceled lifecycle ends the
\* cycle.
CycleCanceled(c) ==
    /\ At(c, "lifecycle") /\ step[c] <= NDomains + 1
    /\ lifecycleDone
    /\ Finish(c, "canceled")

\* The host domain and the CPU copy are not asked for the cycle's deadline.
DomainCheck(c) ==
    /\ At(c, "lifecycle") /\ step[c] <= NDomains + 1
    /\ ~lifecycleDone
    /\ GoOn(c, IF step[c] \in 2..NDomains THEN "deadline" ELSE "call")
    /\ UNCHANGED <<sharedVars, requestVars, phase, step, documentVars, local, outcome,
                   timerVars, historyVars>>

DomainAdmit(c) ==
    /\ At(c, "deadline")
    /\ ~CycleOver(c)
    /\ GoOn(c, "call")
    /\ UNCHANGED <<sharedVars, requestVars, phase, step, documentVars, local, outcome,
                   timerVars, historyVars>>

DomainSkip(c) ==
    /\ At(c, "deadline")
    /\ CycleOver(c)
    /\ NextDomain(c)
    /\ UNCHANGED <<sharedVars, requestVars, phase, documentVars, local, outcome, timerVars,
                   historyVars>>

\* runDomain calls the collector, even when the time is up by now.
DomainBegin(c) ==
    /\ At(c, "call") /\ step[c] <= NDomains
    /\ GoOn(c, "calling")
    /\ lateCalls' = IF CycleOver(c) THEN [lateCalls EXCEPT ![c] = @ + 1] ELSE lateCalls
    /\ UNCHANGED <<sharedVars, requestVars, phase, step, documentVars, local, outcome,
                   timerVars, overdue>>

\* The collector returns valid outcomes, the units of got being present.  A
\* result that comes after a deadline or a cancellation is dropped.
DomainReturn(c) ==
    /\ At(c, "calling")
    /\ \E got \in SUBSET Units[step[c]], topology \in Topologies :
          LET taken == IF Expired(c) THEN {} ELSE got
          IN  /\ obs' = [obs EXCEPT ![c] = @ \cup taken]
              /\ seen' = IF "logicalCPUCount" \in taken THEN [seen EXCEPT ![c] = topology] ELSE seen
    /\ NextDomain(c)
    /\ domainExpired' = [domainExpired EXCEPT ![c] = FALSE]
    /\ UNCHANGED <<sharedVars, requestVars, phase, measuredFor, local, outcome, cycleExpired,
                   historyVars>>

\* The collector panics or returns what validate* rejects, late or not.
DomainDefect(c) ==
    /\ At(c, "calling")
    /\ Finish(c, "defect")

\* A CPU publication counts when it is present, at most 1250 ms old and made
\* for the topology this cycle has seen.
UtilizationUsableMutant(c, current, topology) == current /\ "logicalCPUCount" \in obs[c]
UtilizationUsable(c, current, topology) ==
    current /\ "logicalCPUCount" \in obs[c] /\ topology = seen[c]

CopyCPU(c) ==
    /\ At(c, "call") /\ step[c] = NDomains + 1
    /\ \E current \in BOOLEAN, topology \in Topologies :
          IF UtilizationUsable(c, current, topology)
          THEN /\ obs' = [obs EXCEPT ![c] = @ \cup {"utilization"}]
               /\ measuredFor' = [measuredFor EXCEPT ![c] = topology]
          ELSE UNCHANGED <<obs, measuredFor>>
    /\ NextDomain(c)
    /\ UNCHANGED <<sharedVars, requestVars, phase, seen, local, outcome, timerVars, historyVars>>

\* The publication is a defect, out of range or from the future.
CopyCPUDefect(c) ==
    /\ At(c, "call") /\ step[c] = NDomains + 1
    /\ Finish(c, "defect")

\* A document needs the hostname and one usable metric besides it.
FinalResult(present) ==
    IF "hostname" \in present /\ present # {"hostname"} THEN "ok" ELSE "noUseful"

Finalize(c) ==
    /\ At(c, "lifecycle") /\ step[c] = NDomains + 2
    /\ Finish(c, FinalResult(obs[c]))

\* The degradation report or the encoding fails.
FinalizeDefect(c) ==
    /\ At(c, "lifecycle") /\ step[c] = NDomains + 2
    /\ Finish(c, "defect")

-----------------------------------------------------------------------------
(* The deferred function of run.                                           *)

LatchedMutant(c) == failed
Latched(c) == failed \/ local[c] = "defect"

SlotAfterMutant(c) == active
SlotAfter(c) == IF active = c THEN NoCycle ELSE active

\* Under the lock: latch the first defect, share the result, free the slot.
RunPublish(c) ==
    /\ phase[c] = "collected"
    /\ failed' = Latched(c)
    /\ outcome' = [outcome EXCEPT ![c] = local[c]]
    /\ local' = [local EXCEPT ![c] = "pending"]
    /\ active' = SlotAfter(c)
    /\ phase' = [phase EXCEPT ![c] = "published"]
    /\ UNCHANGED <<lifecycleDone, fatalOnce, requestVars, step, stage, documentVars, timerVars,
                   historyVars>>

RunAnnounce(c) ==
    /\ phase[c] = "published"
    /\ outcome[c] = "defect"
    /\ fatalOnce = "unused"
    /\ fatalOnce' = "running"
    /\ phase' = [phase EXCEPT ![c] = "announcing"]
    /\ UNCHANGED <<lifecycleDone, active, failed, requestVars, step, stage,
                   documentVars, local, outcome, timerVars, historyVars>>

RunAnnounced(c) ==
    /\ phase[c] = "announcing"
    /\ fatalOnce' = "done"
    /\ phase' = [phase EXCEPT ![c] = "published"]
    /\ UNCHANGED <<lifecycleDone, active, failed, requestVars, step, stage,
                   documentVars, local, outcome, timerVars, historyVars>>

\* close(cycle.done) is deferred past the announcement of a defect.
MayCloseMutant(c) == TRUE
MayCloseStuckMutant(c) == outcome[c] # "defect"
MayClose(c) == outcome[c] = "defect" => fatalOnce = "done"

RunClose(c) ==
    /\ phase[c] = "published"
    /\ MayClose(c)
    /\ phase' = [phase EXCEPT ![c] = "closed"]
    /\ UNCHANGED <<sharedVars, requestVars, step, stage, documentVars, local, outcome,
                   timerVars, historyVars>>

-----------------------------------------------------------------------------
Snapshot(r) ==
    \/ SnapshotRefuse(r) \/ SnapshotEnter(r) \/ SnapshotNil(r)
    \/ SnapshotFailed(r) \/ SnapshotJoin(r) \/ SnapshotStart(r)
    \/ SnapshotDeliver(r) \/ SnapshotDetach(r)
    \/ FailAnnounce(r) \/ FailAnnounced(r) \/ FailAlreadyAnnounced(r)

\* A collector gives control back: a read of procfs, sysfs or netlink, or a
\* firmware observation, ends.
CollectorReturns(c) == DomainReturn(c) \/ DomainDefect(c)

\* Everything else the goroutine of a cycle does.
Run(c) ==
    \/ CycleCanceled(c) \/ DomainCheck(c) \/ DomainAdmit(c) \/ DomainSkip(c) \/ DomainBegin(c)
    \/ CopyCPU(c) \/ CopyCPUDefect(c) \/ Finalize(c) \/ FinalizeDefect(c)
    \/ RunPublish(c) \/ RunAnnounce(c) \/ RunAnnounced(c) \/ RunClose(c)

\* Nothing is left to do: every call has returned and no cycle is running.
Terminated ==
    /\ \A r \in Requests : pc[r] = "returned" /\ phase[r] \in {"unused", "closed"}
    /\ UNCHANGED vars

Next ==
    \/ LifecycleCancel
    \/ \E r \in Requests : Snapshot(r) \/ RequestCancel(r)
    \/ \E c \in Cycles : Run(c) \/ CollectorReturns(c) \/ CycleTimeout(c) \/ DomainTimeout(c)
    \/ Terminated

Spec == Init /\ [][Next]_vars
-----------------------------------------------------------------------------
(* Fairness.  Started goroutines are scheduled, and the fatal callback only *)
(* sets flags and fills a buffered channel, so it returns.  An idle call    *)
(* need not arrive.                                                         *)

SnapshotProceeds(r) == pc[r] # "idle" /\ Snapshot(r)

SnapshotScheduled(r) == WF_vars(SnapshotProceeds(r))
CycleScheduled(c) == WF_vars(Run(c))

Scheduling ==
    /\ \A r \in Requests : SnapshotScheduled(r)
    /\ \A c \in Cycles : CycleScheduled(c)

FairSpec == Spec /\ Scheduling

\* The handler gives every request a deadline.
RequestExpiry(r) == pc[r] # "idle" /\ RequestCancel(r)
RequestExpires(r) == WF_vars(RequestExpiry(r))
DeadlinesPass == \A r \in Requests : RequestExpires(r)

\* Collectors return, however late.
CollectorsReturn == \A c \in Cycles : WF_vars(CollectorReturns(c))

-----------------------------------------------------------------------------
(* Safety.                                                                  *)

\* A cycle that is collecting, or has collected and not yet published, is the
\* active one: the slot is taken before run starts and freed in the section
\* that publishes, so two cycles never use the collectors, the CPU observer
\* or the degradation reporter at the same time, and the slot never holds a
\* cycle that is over.
OneCollector ==
    \A c \in Cycles : phase[c] \in {"collecting", "collected"} <=> active = c

\* A call never receives the result of a cycle that was published before the
\* call arrived: there is no snapshot cache, although done is closed after
\* the slot is freed.
FreshReply ==
    \A r \in Requests : joined[r] # NoCycle => joined[r] \notin before[r]

\* What a waiter is told is what its cycle produced, written before done was
\* closed: nobody reads encoded and err while run still has to write them.
SettledReply ==
    \A r \in Requests :
        (pc[r] = "returned" /\ joined[r] # NoCycle /\ reply[r] # "requestErr")
            => /\ outcome[joined[r]] # "pending"
               /\ reply[r] = outcome[joined[r]]
               /\ phase[joined[r]] = "closed"

\* A waiter hears of a defect only after the fatal callback has finished: the
\* process is already failing when the handler writes its 500.
DefectAnnounced ==
    \A r \in Requests :
        (reply[r] = "defect" /\ joined[r] # NoCycle) => fatalOnce = "done"

\* Once a cycle has published a defect, every call that arrives later fails
\* too; it is never served by a new cycle nor told that nothing is useful.
NoServiceAfterDefect ==
    \A r \in Requests : \A c \in before[r] :
        outcome[c] = "defect" => reply[r] \in {"pending", "requestErr", "defect"}

\* A served snapshot names its host and says something more, and its CPU
\* utilization was measured for the CPUs that the same snapshot counts, even
\* if CPUs come and go between the samples of the observer, the collection of
\* the count and the copy, and whatever of it was late.
CoherentSnapshot ==
    \A c \in Cycles : outcome[c] = "ok" =>
        /\ "hostname" \in obs[c]
        /\ obs[c] # {"hostname"}
        /\ "utilization" \in obs[c] =>
              "logicalCPUCount" \in obs[c] /\ measuredFor[c] \in Topologies \cap {seen[c]}

\* Nothing that was outstanding when its own deadline, that of the cycle or
\* the service's lifecycle ended gets into the snapshot.  And a cycle whose
\* time is up comes to its end: of all its domains at most one collector, past
\* its checks at that moment or the host's, is still called.
DeadlineHonoured ==
    \A c \in Cycles :
        /\ \A d \in overdue[c] : obs[c] \cap Units[d] = {}
        /\ lateCalls[c] <= 1

-----------------------------------------------------------------------------
(* Liveness.                                                                *)

\* Every call that has arrived returns, even when a collector never does:
\* the request deadline detaches it from its cycle.
CallReturns(r) == pc[r] # "idle" ~> pc[r] = "returned"
RequestReturns == DeadlinesPass => \A r \in Requests : CallReturns(r)

\* If collectors return, every cycle ends and frees the slot, and everyone
\* who waits for it is answered, with no need for a deadline.
CycleCompletes ==
    CollectorsReturn =>
        /\ \A c \in Cycles : phase[c] = "collecting" ~> phase[c] = "closed"
        /\ \A r \in Requests : pc[r] = "waiting" ~> pc[r] = "returned"

-----------------------------------------------------------------------------
(* The abstract specification this one implements.                          *)

CallerState(state) ==
    CASE state = "idle" -> "out" [] state = "returned" -> "done" [] OTHER -> "in"

CallerMap == [r \in Requests |-> CallerState(pc[r])]
WindowMap == [r \in Requests |->
                IF pc[r] = "idle" THEN {}
                ELSE {c \in Cycles : phase[c] # "unused"} \ before[r]]

Flight == INSTANCE SingleFlight WITH
    Callers  <- Requests,
    NoFlight <- NoCycle,
    running  <- active,
    closed   <- failed,
    result   <- outcome,
    caller   <- CallerMap,
    answer   <- reply,
    window   <- WindowMap

\* Coordinator implements SingleFlight: with goroutines, deadlines and a done
\* channel that closes after the slot is freed, Snapshot still gives every
\* caller the result of a cycle that was under way during its call.
ImplementsSingleFlight == Flight!Spec
=============================================================================
