------------------------- MODULE CPUObserverProofs -------------------------
(***************************************************************************)
(* The safety of CPUObserver for all periods, intervals, ages, counters,   *)
(* readers, closers and horizons.                                          *)
(***************************************************************************)
EXTENDS CPUObserver, TLAPS

(* The inductive invariant. ************************************************)

\* Times of samples, reads and publications do not run ahead of the clock.
ClockInv ==
    /\ startedAt <= at /\ at <= now /\ readAt <= now
    /\ baseline # None => baseline.at <= at /\ baseline.readAt <= readAt
    /\ publication.kind = "present" => publication.sampledAt <= now
    /\ \A q \in Readers :
        /\ loaded[q].kind = "present" => loaded[q].sampledAt <= now
        /\ verdict[q] # "future"

\* The goroutine wakes after the sample it took last: the failed reads lie
\* before the baseline, and before the sample that is being taken.
FailureInv ==
    /\ lastFailure <= at
    /\ worker = "waiting" => at < next
    /\ worker \in {"startReading", "startStoring", "reading", "storing"} => lastFailure < at
    /\ baseline # None => lastFailure < baseline.at
    /\ worker = "off" => lastFailure = -1

\* A publication belongs to the baseline.
PublishedInv ==
    publication.kind = "present" =>
        /\ lastFailure < publication.from
        /\ publication.sampledAt - publication.from \in MinInterval..MaxInterval
        /\ publication.fromEpoch = publication.epoch
        /\ baseline # None
        /\ baseline.at = publication.sampledAt /\ baseline.value.epoch = publication.epoch

\* The target is a whole number of periods after the first sample.
GridInv ==
    /\ worker \in {"startReading", "startStoring"} => at = startedAt
    /\ worker \in {"waiting", "reading", "storing", "advancing"} =>
        \E k \in Nat \ {0} : next = startedAt + Period * k

\* Where the goroutine is determines what has been announced.
EndInv ==
    /\ ~started => worker = "off"
    /\ worker \in {"failing", "announcing"} => panicked
    /\ panicked => worker \in {"failing", "announcing", "ending", "over"}
    /\ worker \in {"ending", "over"} => IF panicked THEN fatal ELSE stopped
    /\ done => worker = "over"
    /\ fatal => worker \in {"ending", "over"}
    /\ (worker = "announcing" \/ fatal) /\ ~stopped => publication = Defect

IInv == TypeOK /\ ClockInv /\ FailureInv /\ PublishedInv /\ GridInv /\ EndInv

-----------------------------------------------------------------------------
(* Sums and targets.                                                       *)

\* An addition that does not overflow is exact.
LEMMA AddExact ==
    ASSUME NEW sum \in {Overflow} \cup 0..MaxUint, NEW n \in Nat
    PROVE  /\ Add(sum, n) \in {Overflow} \cup 0..MaxUint
           /\ Add(sum, n) # Overflow => sum # Overflow /\ Add(sum, n) = sum + n
  BY ReadingAssumption DEF Add, Overflow

\* The sums of a pair that compares are exact.
LEMMA SumsExact ==
    ASSUME NEW p, NEW c, p.value \in Readings, c.value \in Readings, Comparable(p, c)
    PROVE  /\ \A k \in 1..8 : Delta(p, c, k) \in Nat
           /\ Busy(p, c) \in 0..MaxUint
           /\ Total(p, c) \in 1..MaxUint
           /\ Busy(p, c) = Delta(p, c, 1) + Delta(p, c, 2) + Delta(p, c, 3)
                            + Delta(p, c, 6) + Delta(p, c, 7)
           /\ Total(p, c) = Busy(p, c) + Delta(p, c, 4) + Delta(p, c, 5) + Delta(p, c, 8)
  <1> DEFINE d(k) == Delta(p, c, k)
  <1>1. \A k \in 1..8 : d(k) \in Nat
    BY ReadingAssumption DEF Comparable, Delta
  <1>2. d(1) \in Nat /\ d(2) \in Nat /\ d(3) \in Nat /\ d(4) \in Nat
        /\ d(5) \in Nat /\ d(6) \in Nat /\ d(7) \in Nat /\ d(8) \in Nat
    BY <1>1
  <1> DEFINE b1 == Add(0, d(1))
             b2 == Add(b1, d(2))
             b3 == Add(b2, d(3))
             b4 == Add(b3, d(6))
             b5 == Add(b4, d(7))
             t1 == Add(b5, d(4))
             t2 == Add(t1, d(5))
             t3 == Add(t2, d(8))
  <1>3. Busy(p, c) = b5 /\ Total(p, c) = t3
    BY DEF Busy, Total
  <1>4. b5 # Overflow /\ t3 # Overflow /\ t3 # 0
    BY <1>3 DEF Comparable
  <1> HIDE DEF d
  <1>5. 0 \in {Overflow} \cup 0..MaxUint
    BY ReadingAssumption
  <1>6. b1 \in {Overflow} \cup 0..MaxUint /\ (b1 # Overflow => b1 = d(1))
    BY <1>2, <1>5, AddExact
  <1> HIDE DEF b1
  <1>7. b2 \in {Overflow} \cup 0..MaxUint /\ (b2 # Overflow => b1 # Overflow /\ b2 = b1 + d(2))
    BY <1>2, <1>6, AddExact
  <1> HIDE DEF b2
  <1>8. b3 \in {Overflow} \cup 0..MaxUint /\ (b3 # Overflow => b2 # Overflow /\ b3 = b2 + d(3))
    BY <1>2, <1>7, AddExact
  <1> HIDE DEF b3
  <1>9. b4 \in {Overflow} \cup 0..MaxUint /\ (b4 # Overflow => b3 # Overflow /\ b4 = b3 + d(6))
    BY <1>2, <1>8, AddExact
  <1> HIDE DEF b4
  <1>10. b5 \in {Overflow} \cup 0..MaxUint /\ (b5 # Overflow => b4 # Overflow /\ b5 = b4 + d(7))
    BY <1>2, <1>9, AddExact
  <1> HIDE DEF b5
  <1>11. t1 \in {Overflow} \cup 0..MaxUint /\ (t1 # Overflow => t1 = b5 + d(4))
    BY <1>2, <1>10, AddExact
  <1> HIDE DEF t1
  <1>12. t2 \in {Overflow} \cup 0..MaxUint /\ (t2 # Overflow => t1 # Overflow /\ t2 = t1 + d(5))
    BY <1>2, <1>11, AddExact
  <1> HIDE DEF t2
  <1>13. t3 \in {Overflow} \cup 0..MaxUint /\ (t3 # Overflow => t2 # Overflow /\ t3 = t2 + d(8))
    BY <1>2, <1>12, AddExact
  <1> HIDE DEF t3
  <1>14. b5 \in 0..MaxUint /\ t3 \in 1..MaxUint
    BY <1>4, <1>10, <1>13, ReadingAssumption
  <1>15. b5 = d(1) + d(2) + d(3) + d(6) + d(7)
    BY <1>2, <1>4, <1>6, <1>7, <1>8, <1>9, <1>10
  <1>16. t3 = b5 + d(4) + d(5) + d(8)
    BY <1>2, <1>4, <1>10, <1>11, <1>12, <1>13
  <1> QED
    BY <1>1, <1>3, <1>14, <1>15, <1>16 DEF d

\* Skipping targets that have passed leads to a later one, on the grid and
\* within a period.
LEMMA TargetAdvances ==
    ASSUME NEW start \in Nat, NEW k \in Nat \ {0}, NEW time \in Nat
    PROVE  LET target == start + Period * k
           IN  /\ NextTarget(target, time) > time
               /\ NextTarget(target, time) <= target \/ NextTarget(target, time) <= time + Period
               /\ \E m \in Nat \ {0} : NextTarget(target, time) = start + Period * m
  <1> DEFINE target == start + Period * k
             skipped == (time - target) \div Period
  <1>1. Period \in Nat \ {0} /\ target \in Nat
    BY TimeAssumption
  <1>2. CASE target > time
    <2>1. NextTarget(target, time) = target
      BY <1>1, <1>2 DEF NextTarget
    <2>2. \E m \in Nat \ {0} : target = start + Period * m
      OBVIOUS
    <2>3. target > time /\ target <= target
      BY <1>1, <1>2
    <2> QED
      BY <2>1, <2>2, <2>3
  <1>3. CASE target <= time
    <2>1. time - target \in Nat
      BY <1>1, <1>3
    <2>2. /\ skipped \in Nat
          /\ Period * skipped <= time - target
          /\ time - target < Period * skipped + Period
      BY <1>1, <2>1
    <2>3. NextTarget(target, time) = target + Period * (skipped + 1)
      BY <1>3 DEF NextTarget
    <2>4. Period * (skipped + 1) = Period * skipped + Period
      BY <1>1, <2>2
    <2>5. target + Period * (skipped + 1) = start + Period * (k + skipped + 1)
      BY <1>1, <2>2
    <2>6. k + skipped + 1 \in Nat \ {0}
      BY <2>2
    <2>7. /\ target + Period * (skipped + 1) > time
          /\ target + Period * (skipped + 1) <= time + Period
      BY <1>1, <2>2, <2>4
    <2> QED
      BY <2>3, <2>5, <2>6, <2>7
  <1> QED
    BY <1>1, <1>2, <1>3

\* A multiple of the period leaves no remainder.
LEMMA GridRemainder == ASSUME NEW k \in Nat PROVE (Period * k) % Period = 0
  <1> DEFINE q == (Period * k) \div Period
             r == (Period * k) % Period
  <1>1. Period \in Nat \ {0} /\ Period * k \in Nat
    BY TimeAssumption
  <1>2. q \in Nat /\ r \in 0..(Period - 1) /\ Period * k = Period * q + r
    BY <1>1
  <1> HIDE DEF q, r
  <1>3. r = Period * (k - q)
    BY <1>1, <1>2
  <1>4. k - q <= 0
    <2>1. k - q >= 1 => Period * (k - q) >= Period
      BY <1>1, <1>2
    <2> QED
      BY <1>1, <1>2, <1>3, <2>1
  <1>5. k - q >= 0
    <2>1. k - q <= -1 => Period * (k - q) <= -Period
      BY <1>1, <1>2
    <2> QED
      BY <1>1, <1>2, <1>3, <2>1
  <1>6. k - q = 0
    BY <1>2, <1>4, <1>5
  <1>7. r = 0
    BY <1>1, <1>3, <1>6
  <1> QED
    BY <1>7 DEF r

-----------------------------------------------------------------------------
(* The invariant.                                                          *)

\* NewCPUObserver establishes it.
LEMMA InitInv == Init => IInv
  <1> SUFFICES ASSUME Init PROVE IInv
    OBVIOUS
  <1>1. TypeOK
    <2>1. 0 \in Times /\ 0 \in 0..(Horizon + Period)
      BY TimeAssumption DEF Times
    <2>2. None \in Baselines /\ Unavailable \in Publications
      BY DEF Baselines, Publications
    <2> QED
      BY <2>1, <2>2 DEF Init, TypeOK
  <1>2. ClockInv /\ FailureInv
    BY DEF Init, ClockInv, FailureInv, Unavailable, None
  <1>3. PublishedInv /\ GridInv /\ EndInv
    BY DEF Init, PublishedInv, GridInv, EndInv, Unavailable
  <1> QED
    BY <1>1, <1>2, <1>3 DEF IInv

\* The clock and the calls that do not touch the observer's own state.
LEMMA EnvironmentInv ==
    ASSUME IInv,
           \/ Tick
           \/ \E k \in Closers : Close(k) \/ CloseExpires(k)
           \/ \E q \in Readers : LatestCPU(q)
    PROVE  IInv'
  <1> USE DEF IInv, scheduleVars, sharedVars, readerVars, endVars
  <1>1. CASE Tick
    <2>1. now' \in Times /\ now <= now'
      BY <1>1, TimeAssumption DEF Tick, TypeOK, Times
    <2>2. TypeOK'
      BY <1>1, <2>1 DEF Tick, TypeOK
    <2>3. ClockInv'
      BY <1>1, <2>1 DEF Tick, TypeOK, ClockInv, Times, Baselines, Publications, Unavailable, Defect
    <2>4. FailureInv' /\ PublishedInv' /\ GridInv' /\ EndInv'
      BY <1>1 DEF Tick, FailureInv, PublishedInv, GridInv, EndInv
    <2> QED
      BY <2>2, <2>3, <2>4
  <1>2. ASSUME NEW k \in Closers, Close(k) \/ CloseExpires(k) PROVE IInv'
    <2>1. TypeOK'
      BY <1>2 DEF Close, CloseBegin, CloseReturn, CloseExpires, TypeOK
    <2>2. ClockInv' /\ FailureInv' /\ PublishedInv' /\ GridInv'
      BY <1>2 DEF Close, CloseBegin, CloseReturn, CloseExpires,
                  ClockInv, FailureInv, PublishedInv, GridInv
    <2>3. EndInv'
      BY <1>2 DEF Close, CloseBegin, CloseReturn, CloseExpires, EndInv
    <2> QED
      BY <2>1, <2>2, <2>3
  <1>3. ASSUME NEW q \in Readers, ReaderLoad(q) PROVE IInv'
    <2>1. TypeOK' /\ ClockInv'
      BY <1>3 DEF ReaderLoad, TypeOK, ClockInv
    <2>2. FailureInv' /\ PublishedInv' /\ GridInv' /\ EndInv'
      BY <1>3 DEF ReaderLoad, FailureInv, PublishedInv, GridInv, EndInv
    <2> QED
      BY <2>1, <2>2
  <1>4. ASSUME NEW q \in Readers, ReaderClock(q) PROVE IInv'
    <2>1. Verdict(loaded[q], now) \in {"absent", "defect", "stale", "usable"}
      BY TimeAssumption DEF Verdict, TypeOK, ClockInv, Publications, Unavailable, Defect, Times
    <2>2. TypeOK'
      BY <1>4, <2>1 DEF ReaderClock, TypeOK, Publications
    <2>3. ClockInv'
      BY <1>4, <2>1 DEF ReaderClock, TypeOK, ClockInv, Unavailable
    <2>4. FailureInv' /\ PublishedInv' /\ GridInv' /\ EndInv'
      BY <1>4 DEF ReaderClock, FailureInv, PublishedInv, GridInv, EndInv
    <2> QED
      BY <2>2, <2>3, <2>4
  <1> QED
    BY <1>1, <1>2, <1>3, <1>4 DEF LatestCPU

\* Start, the end of the loop, reads and the announcement of a failure.
LEMMA RunInv ==
    ASSUME IInv,
           \/ Start \/ RunWake \/ RunStopped \/ RunAdvance \/ FailPublish \/ FailAnnounce
           \/ RunEnd \/ ReadReturns
    PROVE  IInv'
  <1> USE DEF IInv, scheduleVars, sharedVars, readerVars, endVars
  <1>1. CASE Start
    <2>1. TypeOK'
      BY <1>1 DEF Start, TypeOK
    <2>2. ClockInv' /\ FailureInv'
      BY <1>1 DEF Start, TypeOK, ClockInv, FailureInv, EndInv, Times, Baselines
    <2>3. PublishedInv' /\ GridInv' /\ EndInv'
      BY <1>1 DEF Start, PublishedInv, GridInv, EndInv
    <2> QED
      BY <2>1, <2>2, <2>3
  <1>2. CASE RunWake
    <2>1. TypeOK'
      BY <1>2 DEF RunWake, TypeOK
    <2>2. ClockInv' /\ FailureInv'
      BY <1>2, TimeAssumption DEF RunWake, TypeOK, ClockInv, FailureInv, Times, Baselines, None
    <2>3. PublishedInv' /\ GridInv' /\ EndInv'
      BY <1>2 DEF RunWake, PublishedInv, GridInv, EndInv
    <2> QED
      BY <2>1, <2>2, <2>3
  <1>3. CASE RunStopped
    <2>1. TypeOK' /\ ClockInv' /\ FailureInv' /\ PublishedInv' /\ GridInv'
      BY <1>3 DEF RunStopped, TypeOK, ClockInv, FailureInv, PublishedInv, GridInv
    <2>2. EndInv'
      BY <1>3 DEF RunStopped, EndInv
    <2> QED
      BY <2>1, <2>2
  <1>4. CASE RunAdvance
    <2>1. PICK k \in Nat \ {0} : next = startedAt + Period * k
      BY <1>4 DEF RunAdvance, GridInv
    <2>2. startedAt \in Nat /\ now \in Nat /\ Horizon \in Nat /\ Period \in Nat
          /\ next \in 0..(Horizon + Period) /\ now <= Horizon
      BY TimeAssumption DEF TypeOK, Times
    <2>a. next' = NextTarget(startedAt + Period * k, now)
      BY <1>4, <2>1 DEF RunAdvance
    <2>b. /\ NextTarget(startedAt + Period * k, now) > now
          /\ \/ NextTarget(startedAt + Period * k, now) <= startedAt + Period * k
             \/ NextTarget(startedAt + Period * k, now) <= now + Period
          /\ \E m \in Nat \ {0} : NextTarget(startedAt + Period * k, now) = startedAt + Period * m
      BY <2>2, TargetAdvances
    <2>3. /\ next' > now
          /\ next' <= next \/ next' <= now + Period
          /\ \E m \in Nat \ {0} : next' = startedAt + Period * m
      BY <2>1, <2>a, <2>b
    <2>4. next' \in 0..(Horizon + Period)
      <3>1. next' \in Int
        BY <2>2, <2>3
      <3> QED
        BY <2>2, <2>3, <3>1
    <2>5. TypeOK'
      BY <1>4, <2>4 DEF RunAdvance, TypeOK
    <2>6. ClockInv' /\ PublishedInv' /\ EndInv'
      BY <1>4 DEF RunAdvance, ClockInv, PublishedInv, EndInv
    <2>7. FailureInv'
      BY <1>4, <2>2, <2>3, <2>4 DEF RunAdvance, FailureInv, ClockInv, TypeOK, Times
    <2>8. GridInv'
      BY <1>4, <2>3 DEF RunAdvance, GridInv
    <2> QED
      BY <2>5, <2>6, <2>7, <2>8
  <1>5. CASE FailPublish
    <2>1. TypeOK'
      BY <1>5 DEF FailPublish, TypeOK, Publications
    <2>2. ClockInv' /\ FailureInv' /\ PublishedInv' /\ GridInv'
      BY <1>5 DEF FailPublish, ClockInv, FailureInv, PublishedInv, GridInv, Defect
    <2>3. EndInv'
      BY <1>5 DEF FailPublish, EndInv
    <2> QED
      BY <2>1, <2>2, <2>3
  <1>6. CASE FailAnnounce
    <2>1. TypeOK' /\ ClockInv' /\ FailureInv' /\ PublishedInv' /\ GridInv'
      BY <1>6 DEF FailAnnounce, FatalAfter, TypeOK, ClockInv, FailureInv, PublishedInv, GridInv
    <2>2. EndInv'
      BY <1>6 DEF FailAnnounce, FatalAfter, EndInv
    <2> QED
      BY <2>1, <2>2
  <1>7. CASE ReadEnds
    <2>1. TypeOK'
      BY <1>7 DEF ReadEnds, TypeOK
    <2>2. ClockInv'
      BY <1>7 DEF ReadEnds, TypeOK, ClockInv, Times, Baselines, None
    <2>3. FailureInv' /\ PublishedInv' /\ GridInv' /\ EndInv'
      BY <1>7 DEF ReadEnds, FailureInv, PublishedInv, GridInv, EndInv
    <2> QED
      BY <2>1, <2>2, <2>3
  <1>8. CASE ReadPanics
    BY <1>8 DEF ReadPanics, TypeOK, ClockInv, FailureInv, PublishedInv, GridInv, EndInv
  <1>9. CASE RunEnd
    BY <1>9 DEF RunEnd, TypeOK, ClockInv, FailureInv, PublishedInv, GridInv, EndInv
  <1> QED
    BY <1>1, <1>2, <1>3, <1>4, <1>5, <1>6, <1>7, <1>8, <1>9 DEF ReadReturns

\* The pair that is published, when one is.
LEMMA StoredPair ==
    ASSUME IInv, worker \in {"startStoring", "storing"}, publication' = PublicationAfter,
           publication'.kind = "present"
    PROVE  /\ sample \in Readings /\ baseline # None /\ baseline.value \in Readings
           /\ Comparable(baseline, Current)
           /\ publication' = Present(baseline, Current)
  <1>1. sample # Failed /\ baseline # None /\ Comparable(baseline, Current)
        /\ publication' = Present(baseline, Current)
    BY DEF PublicationAfter, Unavailable
  <1>2. sample \in Readings /\ baseline.value \in Readings
    BY <1>1 DEF IInv, TypeOK, Baselines
  <1> QED
    BY <1>1, <1>2

\* The locked section of observe.
LEMMA StoreInv == ASSUME IInv, ObserveStore PROVE IInv'
  <1> USE DEF IInv, scheduleVars, sharedVars, readerVars, endVars
  <1>0. worker \in {"startStoring", "storing"}
    BY DEF ObserveStore
  <1>1. \/ baseline' = baseline /\ publication' = publication /\ lastFailure' = lastFailure
        \/ /\ ~stopped
           /\ baseline' = BaselineAfter /\ publication' = PublicationAfter
           /\ lastFailure' = IF sample = Failed THEN at ELSE lastFailure
    BY DEF ObserveStore, MayStore
  <1>2. at \in Nat /\ now \in Nat /\ readAt \in Nat /\ at <= Horizon /\ readAt <= Horizon
        /\ Horizon \in Nat /\ Period \in Nat \ {0} /\ lastFailure \in Int
    BY TimeAssumption DEF TypeOK, Times
  <1>3. baseline' \in Baselines /\ lastFailure' \in Times \cup {-1}
    BY <1>1 DEF TypeOK, BaselineAfter, Baselines, Current, Failed
  <1>4. publication' \in Publications
    <2>1. CASE publication' = publication \/ publication' = Unavailable
      BY <2>1 DEF TypeOK, Publications
    <2>2. CASE publication' = PublicationAfter /\ publication' # Unavailable
      <3>1. sample \in Readings /\ baseline # None /\ Comparable(baseline, Current)
            /\ publication' = Present(baseline, Current)
        BY <2>2 DEF PublicationAfter, TypeOK
      <3>2. baseline \in [kind : {"sample"}, at : Times, value : Readings, readAt : Times]
        BY <3>1 DEF TypeOK, Baselines
      <3>3. Current.value \in Readings /\ Current.value = sample
            /\ Current.at = at /\ Current.readAt = readAt
        BY <3>1 DEF Current
      <3>4. Busy(baseline, Current) \in 0..MaxUint /\ Total(baseline, Current) \in 1..MaxUint
        BY <3>1, <3>2, <3>3, SumsExact
      <3>5. sample.epoch \in Epochs /\ baseline.value.epoch \in Epochs
        BY <3>1, <3>2, ReadingAssumption
      <3>6. readAt - baseline.readAt \in Times
        BY <1>2, <3>1, <3>2 DEF ClockInv, Times
      <3> QED
        BY <3>1, <3>2, <3>3, <3>4, <3>5, <3>6 DEF Present, Publications, TypeOK
    <2> QED
      BY <1>1, <2>1, <2>2
  <1>5. next' \in 0..(Horizon + Period)
        /\ worker' \in {"waiting", "advancing"}
    BY <1>2 DEF ObserveStore, TypeOK
  <1>6. TypeOK'
    BY <1>3, <1>4, <1>5 DEF ObserveStore, TypeOK
  <1>7. baseline' # None => baseline' = baseline \/ baseline' = Current
    BY <1>1 DEF BaselineAfter
  <1>8. publication'.kind = "present" =>
            \/ publication' = publication
            \/ /\ publication' = Present(baseline, Current)
               /\ baseline # None /\ sample # Failed /\ Comparable(baseline, Current)
               /\ baseline' = Current /\ lastFailure' = lastFailure
    BY <1>1 DEF PublicationAfter, BaselineAfter, Unavailable
  <1>9. ClockInv'
    <2>1. baseline' # None => baseline'.at <= at /\ baseline'.readAt <= readAt
      BY <1>2, <1>7 DEF ClockInv, Current
    <2>2. publication'.kind = "present" => publication'.sampledAt <= now
      BY <1>2, <1>8 DEF ClockInv, Present, Current
    <2> QED
      BY <2>1, <2>2 DEF ObserveStore, ClockInv
  <1>10. FailureInv'
    <2>1. lastFailure' <= at
      BY <1>1, <1>2 DEF FailureInv
    <2>2. baseline' # None => lastFailure' < baseline'.at
      BY <1>0, <1>1, <1>2 DEF FailureInv, BaselineAfter, Current
    <2>3. worker' = "waiting" => at < next'
      BY <1>2 DEF ObserveStore
    <2> QED
      BY <1>5, <2>1, <2>2, <2>3 DEF ObserveStore, FailureInv
  <1>11. PublishedInv'
    <2>1. CASE baseline' = baseline /\ publication' = publication /\ lastFailure' = lastFailure
      BY <2>1 DEF PublishedInv
    <2>2. CASE publication'.kind = "present" /\ publication' = Present(baseline, Current)
               /\ baseline # None /\ sample # Failed /\ Comparable(baseline, Current)
               /\ baseline' = Current /\ lastFailure' = lastFailure
      <3>1. Current # None
        BY DEF Current, None
      <3>2. lastFailure < baseline.at /\ baseline.at \in Nat
        BY <2>2 DEF FailureInv, TypeOK, Baselines, Times
      <3>3. at - baseline.at \in MinInterval..MaxInterval
        BY <1>2, <2>2, <3>2, TimeAssumption DEF Comparable, Current
      <3> QED
        BY <2>2, <3>1, <3>2, <3>3 DEF PublishedInv, Present, Current, Comparable, SameEpoch
    <2>3. CASE publication' = PublicationAfter /\ publication'.kind # "present"
      BY <2>3 DEF PublishedInv
    <2> QED
      BY <1>1, <2>1, <2>2, <2>3 DEF PublicationAfter, BaselineAfter, Unavailable
  <1>12. GridInv'
    <2>1. CASE worker = "startStoring"
      <3>1. next' = startedAt + Period * 1
        BY <1>2, <2>1 DEF ObserveStore, GridInv
      <3> QED
        BY <3>1 DEF ObserveStore, GridInv
    <2>2. CASE worker = "storing"
      BY <2>2 DEF ObserveStore, GridInv
    <2> QED
      BY <1>0, <2>1, <2>2
  <1>13. EndInv'
    BY <1>0 DEF ObserveStore, EndInv
  <1> QED
    BY <1>6, <1>9, <1>10, <1>11, <1>12, <1>13

\* Every step of the observer, its readers and closers preserves it.
LEMMA StepInv == IInv /\ [Next]_vars => IInv'
  <1> SUFFICES ASSUME IInv, [Next]_vars PROVE IInv'
    OBVIOUS
  <1>1. CASE UNCHANGED vars
    BY <1>1 DEF IInv, vars, scheduleVars, sharedVars, readerVars, endVars, TypeOK, ClockInv,
                FailureInv, PublishedInv, GridInv, EndInv
  <1>2. CASE ObserveStore
    BY <1>2, StoreInv
  <1> QED
    BY <1>1, <1>2, EnvironmentInv, RunInv DEF Next, Run

\* The invariant holds in every state of the observer.
THEOREM Invariance == Spec => []IInv
  BY InitInv, StepInv, PTL DEF Spec

-----------------------------------------------------------------------------
(* The theorems.                                                           *)

\* The variables keep their types: no time leaves the clock's range and no
\* sum that of a uint64.
THEOREM TypeCorrect == Spec => []TypeOK
  <1>1. IInv => TypeOK
    BY DEF IInv
  <1> QED
    BY <1>1, Invariance, PTL

\* Only adjacent valid samples that are both of one epoch are published, and
\* no reader meets a publication from its future.
THEOREM PublicationsSound == Spec => []SoundPublication
  <1>1. IInv => SoundPublication
    BY DEF IInv, PublishedInv, ClockInv, SoundPublication
  <1> QED
    BY <1>1, Invariance, PTL

\* Catching up keeps the grid of the first sample.
THEOREM ScheduleKept == Spec => []NoDrift
  <1>1. ASSUME IInv PROVE NoDrift
    <2> SUFFICES ASSUME worker \in {"waiting", "reading", "storing", "advancing"}
                 PROVE  next > startedAt /\ (next - startedAt) % Period = 0
      BY DEF NoDrift
    <2>1. PICK k \in Nat \ {0} : next = startedAt + Period * k
      BY <1>1 DEF IInv, GridInv
    <2>2. startedAt \in Nat /\ Period \in Nat \ {0}
      BY <1>1, TimeAssumption DEF IInv, TypeOK, Times
    <2>3. Period * k \in Nat \ {0}
      BY <2>2
    <2>4. next - startedAt = Period * k /\ next > startedAt
      BY <2>1, <2>2, <2>3
    <2> QED
      BY <2>4, GridRemainder
  <1> QED
    BY <1>1, Invariance, PTL

\* A panic is announced before done is closed, and without one the goroutine
\* ends only when asked to.
THEOREM EndsAnnounced == Spec => []EndAnnounced
  <1>1. IInv => EndAnnounced
    BY DEF IInv, EndInv, EndAnnounced
  <1> QED
    BY <1>1, Invariance, PTL

\* Nothing is published once Close has begun.
THEOREM NothingAfterStop == Spec => FrozenAfterStop
  <1>1. ASSUME [Next]_vars PROVE [FrozenStep]_vars
    <2>1. CASE UNCHANGED vars
      BY <2>1
    <2>2. CASE Tick \/ Start \/ ReadReturns
      BY <2>2 DEF Tick, Start, ReadReturns, ReadEnds, ReadPanics, FrozenStep, sharedVars
    <2>3. CASE Run
      BY <2>3 DEF Run, RunWake, RunStopped, ObserveStore, MayStore, RunAdvance, FailPublish,
                  FailAnnounce, RunEnd, FrozenStep, sharedVars
    <2>4. CASE \E k \in Closers : Close(k) \/ CloseExpires(k)
      BY <2>4 DEF Close, CloseBegin, CloseReturn, CloseExpires, FrozenStep, sharedVars
    <2>5. CASE \E q \in Readers : LatestCPU(q)
      BY <2>5 DEF LatestCPU, ReaderLoad, ReaderClock, FrozenStep, sharedVars
    <2> QED
      BY <1>1, <2>1, <2>2, <2>3, <2>4, <2>5 DEF Next
  <1> QED
    BY <1>1, PTL DEF Spec, FrozenAfterStop

\* A utilization is the quotient of exact sums, for counters of any width.
THEOREM UtilizationExact == Spec => ExactUtilization
  <1>1. ASSUME IInv, [Next]_vars PROVE [ExactStep]_vars
    <2> SUFFICES ASSUME publication' # publication, publication'.kind = "present"
                 PROVE  ExactStep
      BY DEF ExactStep
    <2>1. ObserveStore
      <3>1. ~(Tick \/ Start \/ ReadReturns)
        BY DEF Tick, Start, ReadReturns, ReadEnds, ReadPanics, sharedVars
      <3>2. ~(RunWake \/ RunStopped \/ RunAdvance \/ FailAnnounce \/ RunEnd)
        BY DEF RunWake, RunStopped, RunAdvance, FailAnnounce, RunEnd, sharedVars
      <3>3. ~FailPublish
        BY DEF FailPublish, Defect
      <3>4. ~\E k \in Closers : Close(k) \/ CloseExpires(k)
        BY DEF Close, CloseBegin, CloseReturn, CloseExpires, sharedVars
      <3>5. ~\E q \in Readers : LatestCPU(q)
        BY DEF LatestCPU, ReaderLoad, ReaderClock, sharedVars
      <3>6. ~UNCHANGED vars
        BY DEF vars, sharedVars
      <3> QED
        BY <1>1, <3>1, <3>2, <3>3, <3>4, <3>5, <3>6 DEF Next, Run
    <2>2. worker \in {"startStoring", "storing"} /\ publication' = PublicationAfter
      BY <2>1 DEF ObserveStore, MayStore
    <2>3. /\ sample \in Readings /\ baseline.value \in Readings
          /\ Comparable(baseline, Current) /\ publication' = Present(baseline, Current)
      BY <1>1, <2>2, StoredPair
    <2>4. Current.value = sample
      BY DEF Current
    <2> DEFINE d(k) == sample.counters[k] - baseline.value.counters[k]
    <2>5. \A k : Delta(baseline, Current, k) = d(k)
      BY <2>4 DEF Delta
    <2>6. /\ publication'.busy = Busy(baseline, Current)
          /\ publication'.total = Total(baseline, Current)
      BY <2>3 DEF Present
    <2>7. /\ \A k \in 1..8 : d(k) \in Nat
          /\ publication'.busy \in Nat
          /\ publication'.busy = d(1) + d(2) + d(3) + d(6) + d(7)
          /\ publication'.total = publication'.busy + d(4) + d(5) + d(8)
      <3> HIDE DEF d
      <3> QED
        BY <2>3, <2>4, <2>5, <2>6, SumsExact
    <2> HIDE DEF d
    <2>8. /\ d(1) \in Nat /\ d(2) \in Nat /\ d(3) \in Nat /\ d(4) \in Nat
          /\ d(5) \in Nat /\ d(6) \in Nat /\ d(7) \in Nat /\ d(8) \in Nat
      BY <2>7
    <2>9. publication'.busy \in 0..publication'.total
      BY <2>7, <2>8
    <2>10. \A k \in 1..8 : d(k) \in 0..publication'.total
      <3>1. /\ d(1) <= publication'.total /\ d(2) <= publication'.total
            /\ d(3) <= publication'.total /\ d(4) <= publication'.total
            /\ d(5) <= publication'.total /\ d(6) <= publication'.total
            /\ d(7) <= publication'.total /\ d(8) <= publication'.total
        BY <2>7, <2>8
      <3>2. publication'.total \in Nat
        BY <2>7, <2>8
      <3>3. \A k \in 1..8 : k \in {1, 2, 3, 4, 5, 6, 7, 8}
        OBVIOUS
      <3> QED
        BY <2>8, <3>1, <3>2, <3>3
    <2> QED
      BY <2>7, <2>9, <2>10 DEF ExactStep, d
  <1> QED
    BY <1>1, Invariance, PTL DEF Spec, ExactUtilization
=============================================================================
