---------------------------- MODULE CPUObserver ----------------------------
(***************************************************************************)
(* The trailing CPU observer (src/internal/observe/cpu.go): one goroutine  *)
(* samples the kernel's counters on a fixed schedule, compares each sample *)
(* with the one before and publishes the utilization, or that there is     *)
(* none, for the coordinator to copy.                                      *)
(*                                                                         *)
(* Time is counted in ticks; every duration of the code is a constant.     *)
(* An epoch stands for the boot ID, an uptime that does not go back and    *)
(* the CPU topology; a counter is a number up to MaxUint, like its sums.   *)
(* A section under CPUObserver.mu is one action.                           *)
(***************************************************************************)
EXTENDS Integers, FiniteSets

CONSTANTS
    Period,         \* cpuSamplePeriod
    MinInterval,    \* minimumSampleInterval
    MaxInterval,    \* maximumSampleInterval
    MaxAge,         \* maximumPublicationAge, in whole ticks
    Epochs,         \* boot ID and topology
    Readings,       \* the epochs and counters a read can find
    MaxUint,        \* math.MaxUint64
    Readers,        \* goroutines that copy the publication
    Closers,        \* calls of Close
    Horizon         \* bound: the clock stops here

ASSUME TimeAssumption ==
    /\ {Period, MinInterval, MaxInterval, MaxAge, Horizon} \subseteq Nat
    /\ 0 < MinInterval /\ MinInterval <= Period /\ Period <= MaxInterval
ASSUME ReadingAssumption ==
    /\ MaxUint \in Nat
    /\ Readings \subseteq [epoch : Epochs, counters : [1..8 -> 0..MaxUint]]

VARIABLES
    now,            \* the monotonic clock
    worker,         \* where the sampling goroutine (Start, then run) is
    next,           \* run's next target
    at,             \* the time observe was given
    sample,         \* what collectCPUSample returned
    readAt,         \* history: when the counters of the sample were read
    baseline,       \* the previous sample, or None
    publication,    \* the atomic pointer
    started, stopped,
    fatal,          \* the fatal callback was called
    done,           \* close(observer.done) happened
    reader,         \* reader[q]: where a call of latestCPU is
    loaded,         \* loaded[q]: the publication it has loaded
    verdict,        \* verdict[q]: what copyCPU made of it
    closer,         \* where each call of Close is
    startedAt,      \* history: when the first sample was due
    lastFailure,    \* history: at of the last failed read
    panicked        \* history: the sampling goroutine has panicked

None == [kind |-> "none"]
Unavailable == [kind |-> "unavailable"]
Defect == [kind |-> "defect"]
Failed == [kind |-> "failed"]

scheduleVars == <<next, at, sample, readAt, startedAt>>
sharedVars == <<baseline, publication, started, stopped>>
readerVars == <<reader, loaded, verdict>>
endVars == <<fatal, done, panicked>>
vars == <<now, worker, scheduleVars, sharedVars, readerVars, endVars, closer, lastFailure>>

Times == 0..Horizon
Baselines == {None} \cup
    [kind : {"sample"}, at : Times, value : Readings, readAt : Times]
Publications == {Unavailable, Defect} \cup
    [kind : {"present"}, sampledAt : Times, from : Times, epoch : Epochs, fromEpoch : Epochs,
     busy : 0..MaxUint, total : 1..MaxUint, readSpan : Times]

TypeOK ==
    /\ now \in Times
    /\ worker \in {"off", "startReading", "startStoring", "waiting", "reading", "storing",
                   "advancing", "failing", "announcing", "ending", "over"}
    /\ next \in 0..(Horizon + Period) /\ {at, readAt, startedAt} \subseteq Times
    /\ sample \in Readings \cup {Failed}
    /\ baseline \in Baselines
    /\ publication \in Publications
    /\ {started, stopped, fatal, done, panicked} \subseteq BOOLEAN
    /\ reader \in [Readers -> {"idle", "loaded"}]
    /\ loaded \in [Readers -> Publications]
    /\ verdict \in [Readers -> {"none", "absent", "defect", "future", "stale", "usable"}]
    /\ closer \in [Closers -> {"idle", "waiting", "returned"}]
    /\ lastFailure \in Times \cup {-1}

\* NewCPUObserver publishes that there is no baseline yet.
Init ==
    /\ now = 0
    /\ worker = "off"
    /\ next = 0 /\ at = 0 /\ sample = Failed /\ readAt = 0 /\ startedAt = 0
    /\ baseline = None
    /\ publication = Unavailable
    /\ started = FALSE /\ stopped = FALSE
    /\ fatal = FALSE /\ done = FALSE /\ panicked = FALSE
    /\ reader = [q \in Readers |-> "idle"]
    /\ loaded = [q \in Readers |-> Unavailable]
    /\ verdict = [q \in Readers |-> "none"]
    /\ closer = [k \in Closers |-> "idle"]
    /\ lastFailure = -1

Tick ==
    /\ now < Horizon
    /\ now' = now + 1
    /\ UNCHANGED <<worker, scheduleVars, sharedVars, readerVars, endVars, closer, lastFailure>>

-----------------------------------------------------------------------------
(* Start and run.                                                          *)

Start ==
    /\ ~started /\ ~stopped
    /\ started' = TRUE
    /\ at' = now
    /\ startedAt' = now
    /\ worker' = "startReading"
    /\ UNCHANGED <<now, next, sample, readAt, baseline, publication, stopped, readerVars,
                   endVars, closer, lastFailure>>

\* wait returns when the target is reached, as late as the scheduler likes;
\* the clock is read before the counters are.
RunWake ==
    /\ worker = "waiting"
    /\ ~stopped
    /\ now >= next
    /\ at' = now
    /\ worker' = "reading"
    /\ UNCHANGED <<now, next, sample, readAt, startedAt, sharedVars, readerVars, endVars, closer,
                   lastFailure>>

\* A canceled context ends the loop without a fatal error.
RunStopped ==
    /\ worker = "waiting"
    /\ stopped
    /\ worker' = "ending"
    /\ UNCHANGED <<now, scheduleVars, sharedVars, readerVars, endVars, closer, lastFailure>>

\* collectCPUSample returns, after any delay.
ReadEnds ==
    /\ worker \in {"startReading", "reading"}
    /\ \E s \in Readings \cup {Failed} : sample' = s
    /\ readAt' = now
    /\ worker' = IF worker = "reading" THEN "storing" ELSE "startStoring"
    /\ UNCHANGED <<now, next, at, startedAt, sharedVars, readerVars, endVars, closer,
                   lastFailure>>

\* The sample violates the outcome invariant, or a source panics.
ReadPanics ==
    /\ worker \in {"startReading", "reading"}
    /\ worker' = "failing"
    /\ panicked' = TRUE
    /\ UNCHANGED <<now, scheduleVars, sharedVars, readerVars, fatal, done, closer, lastFailure>>

Current == [kind |-> "sample", at |-> at, value |-> sample, readAt |-> readAt]

\* sumUint64, one addition at a time; an overflow is final.
Overflow == -1
AddMutant(sum, n) == (sum + n) % (MaxUint + 1)
Add(sum, n) == IF sum = Overflow \/ sum > MaxUint - n THEN Overflow ELSE sum + n

\* The counters are user, nice, system, idle, iowait, irq, softirq, steal.
Delta(previous, current, k) == current.value.counters[k] - previous.value.counters[k]
Busy(previous, current) ==
    LET d(k) == Delta(previous, current, k)
    IN  Add(Add(Add(Add(Add(0, d(1)), d(2)), d(3)), d(6)), d(7))
Total(previous, current) ==
    LET d(k) == Delta(previous, current, k)
    IN  Add(Add(Add(Busy(previous, current), d(4)), d(5)), d(8))

\* No reboot, no uptime that went back, no change of the set of CPUs.
SameEpochMutant(previous, current) == TRUE
SameEpoch(previous, current) == previous.value.epoch = current.value.epoch

\* calculateCPUUtilization accepts the pair.
Comparable(previous, current) ==
    /\ current.at - previous.at >= MinInterval
    /\ current.at - previous.at <= MaxInterval
    /\ SameEpoch(previous, current)
    /\ \A k \in 1..8 : Delta(previous, current, k) >= 0
    /\ Busy(previous, current) # Overflow
    /\ Total(previous, current) \notin {Overflow, 0}
    /\ Busy(previous, current) <= Total(previous, current)

\* The interval the code checks is the one between the times it was given;
\* readSpan is the one between the reads.  The utilization is the quotient.
\* Of the earlier sample the code keeps nothing: from, fromEpoch and readSpan
\* are history.
Present(previous, current) ==
    [kind |-> "present", sampledAt |-> current.at, from |-> previous.at,
     epoch |-> current.value.epoch, fromEpoch |-> previous.value.epoch,
     busy |-> Busy(previous, current), total |-> Total(previous, current),
     readSpan |-> current.readAt - previous.readAt]

BaselineAfter == IF sample = Failed THEN None ELSE Current

\* A valid sample that follows a valid one is published if they compare; any
\* other sample withdraws the publication.
PublicationAfter ==
    IF sample # Failed /\ baseline # None /\ Comparable(baseline, Current)
    THEN Present(baseline, Current)
    ELSE Unavailable

MayStoreMutant == TRUE
MayStore == ~stopped

\* The locked section of observe.
ObserveStore ==
    /\ worker \in {"startStoring", "storing"}
    /\ IF MayStore
       THEN /\ baseline' = BaselineAfter
            /\ publication' = PublicationAfter
            /\ lastFailure' = IF sample = Failed THEN at ELSE lastFailure
       ELSE UNCHANGED <<baseline, publication, lastFailure>>
    /\ IF worker = "startStoring"
       THEN next' = at + Period /\ worker' = "waiting"
       ELSE next' = next /\ worker' = "advancing"
    /\ UNCHANGED <<now, at, sample, readAt, startedAt, started, stopped, readerVars, endVars,
                   closer>>

\* Targets that have passed are skipped, the schedule is kept.
NextTargetMutant(target, time) == IF target <= time THEN time + Period ELSE target
NextTarget(target, time) ==
    IF target <= time THEN target + Period * (((time - target) \div Period) + 1) ELSE target

RunAdvance ==
    /\ worker = "advancing"
    /\ next' = NextTarget(next, now)
    /\ worker' = "waiting"
    /\ UNCHANGED <<now, at, sample, readAt, startedAt, sharedVars, readerVars, endVars, closer,
                   lastFailure>>

\* The deferred function: a defect is published unless the observer is
\* stopped, the fatal callback is called in any case, done is closed last.
FailPublish ==
    /\ worker = "failing"
    /\ publication' = IF stopped THEN publication ELSE Defect
    /\ worker' = "announcing"
    /\ UNCHANGED <<now, scheduleVars, baseline, started, stopped, readerVars, endVars, closer,
                   lastFailure>>

FatalAfterMutant == ~stopped
FatalAfter == TRUE

FailAnnounce ==
    /\ worker = "announcing"
    /\ fatal' = FatalAfter
    /\ worker' = "ending"
    /\ UNCHANGED <<now, scheduleVars, sharedVars, readerVars, done, panicked, closer, lastFailure>>

\* The last statement of the goroutine, stopped or failed: Close may return
\* from here on.
RunEnd ==
    /\ worker = "ending"
    /\ done' = TRUE
    /\ worker' = "over"
    /\ UNCHANGED <<now, scheduleVars, sharedVars, readerVars, fatal, panicked, closer, lastFailure>>

-----------------------------------------------------------------------------
(* Close.                                                                  *)

CloseBegin(k) ==
    /\ closer[k] = "idle"
    /\ stopped' = TRUE
    /\ closer' = [closer EXCEPT ![k] = IF started THEN "waiting" ELSE "returned"]
    /\ UNCHANGED <<now, worker, scheduleVars, baseline, publication, started, readerVars,
                   endVars, lastFailure>>

CloseReturn(k) ==
    /\ closer[k] = "waiting"
    /\ done
    /\ closer' = [closer EXCEPT ![k] = "returned"]
    /\ UNCHANGED <<now, worker, scheduleVars, sharedVars, readerVars, endVars, lastFailure>>

\* The context of the call expires while a read is still under way.
CloseExpires(k) ==
    /\ closer[k] = "waiting"
    /\ ~done
    /\ closer' = [closer EXCEPT ![k] = "returned"]
    /\ UNCHANGED <<now, worker, scheduleVars, sharedVars, readerVars, endVars, lastFailure>>

-----------------------------------------------------------------------------
(* latestCPU and the age check of copyCPU, in a coordinator cycle.         *)

ReaderLoad(q) ==
    /\ reader[q] = "idle"
    /\ loaded' = [loaded EXCEPT ![q] = publication]
    /\ reader' = [reader EXCEPT ![q] = "loaded"]
    /\ UNCHANGED <<now, worker, scheduleVars, sharedVars, verdict, endVars, closer, lastFailure>>

Verdict(value, time) ==
    CASE value.kind = "unavailable" -> "absent"
      [] value.kind = "defect" -> "defect"
      [] OTHER -> IF time < value.sampledAt THEN "future"
                  ELSE IF time - value.sampledAt > MaxAge THEN "stale" ELSE "usable"

\* The clock is read after the publication.
ReaderClock(q) ==
    /\ reader[q] = "loaded"
    /\ verdict' = [verdict EXCEPT ![q] = Verdict(loaded[q], now)]
    /\ loaded' = [loaded EXCEPT ![q] = Unavailable]
    /\ reader' = [reader EXCEPT ![q] = "idle"]
    /\ UNCHANGED <<now, worker, scheduleVars, sharedVars, endVars, closer, lastFailure>>

-----------------------------------------------------------------------------
Run ==
    \/ RunWake \/ RunStopped \/ ObserveStore \/ RunAdvance
    \/ FailPublish \/ FailAnnounce \/ RunEnd
ReadReturns == ReadEnds \/ ReadPanics
Close(k) == CloseBegin(k) \/ CloseReturn(k)
LatestCPU(q) == ReaderLoad(q) \/ ReaderClock(q)

Next ==
    \/ Tick \/ Start \/ Run \/ ReadReturns
    \/ \E k \in Closers : Close(k) \/ CloseExpires(k)
    \/ \E q \in Readers : LatestCPU(q)

Spec == Init /\ [][Next]_vars

-----------------------------------------------------------------------------
(* Safety.                                                                 *)

\* A published utilization comes from two successive reads of one epoch, a
\* valid interval apart, with no failed read between them, and it belongs to
\* the sample the next one will be compared with: no pair spans a failure, a
\* reboot or a topology change, even when late wake-ups bring the samples
\* around a failed one within the valid interval.  No reader finds it dated
\* after its own clock, which would be an internal defect.
SoundPublication ==
    /\ publication.kind = "present" =>
        /\ lastFailure < publication.from
        /\ publication.sampledAt - publication.from \in MinInterval..MaxInterval
        /\ publication.fromEpoch = publication.epoch
        /\ baseline # None
        /\ baseline.at = publication.sampledAt /\ baseline.value.epoch = publication.epoch
    /\ \A q \in Readers : verdict[q] # "future"

\* A utilization is the quotient of the exact sums of what the counters have
\* grown by, although no sum is wider than a counter: none of the eight went
\* back, no addition wrapped, and the quotient is one between 0 and 1.
ExactStep ==
    publication' # publication /\ publication'.kind = "present" =>
        LET d(k) == sample.counters[k] - baseline.value.counters[k]
        IN  /\ publication'.busy = d(1) + d(2) + d(3) + d(6) + d(7)
            /\ publication'.total = publication'.busy + d(4) + d(5) + d(8)
            /\ publication'.busy \in 0..publication'.total
            /\ \A k \in 1..8 : d(k) \in 0..publication'.total
ExactUtilization == [][ExactStep]_vars

\* Targets stay on the grid of the first sample however late the goroutine
\* runs: one-second sampling does not drift.
NoDrift ==
    worker \in {"waiting", "reading", "storing", "advancing"} =>
        next > startedAt /\ (next - startedAt) % Period = 0

\* When done lets Close return, a panic of the goroutine has been announced,
\* even one that came after Close had begun; without a panic the goroutine
\* ends only when told to.  And until someone stops it, the coordinator finds
\* the announced defect.
EndAnnounced ==
    /\ done => IF panicked THEN fatal ELSE stopped
    /\ (fatal /\ ~stopped) => publication = Defect

\* After Close has begun nothing is published any more.
FrozenStep == stopped => publication' = publication
FrozenAfterStop == [][FrozenStep]_vars

-----------------------------------------------------------------------------
(* What the documentation says and the code does not do.                   *)

\* "Valid sample interval: 0.9 through 1.1 seconds", "delayed reads ...
\* invalidate publication" (docs/architecture-v0.1.md): the counters of a
\* published pair were read a valid interval apart.  The code measures the
\* interval between the times taken before the reads (run passes now() to
\* observe), so a read that is delayed after that is still published.
ReadIntervalValid ==
    publication.kind = "present" => publication.readSpan \in MinInterval..MaxInterval
=============================================================================
