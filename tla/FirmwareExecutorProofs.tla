----------------------- MODULE FirmwareExecutorProofs -----------------------
(***************************************************************************)
(* The slot of the firmware executor is never leaked or shared, and its    *)
(* sends never block, for every number of calls of Observe and Close.      *)
(***************************************************************************)
EXTENDS FirmwareExecutor, SequenceTheorems, TLAPS

\* A request is in one place at a time, and the slot is reserved then.
PlaceInv ==
    /\ \A o \in Observers : observer[o] = "sending" =>
          busy /\ requests = <<>> /\ activeRequest = NoRequest
    /\ \A o, p \in Observers : observer[o] = "sending" /\ observer[p] = "sending" => o = p
    /\ requests # <<>> => busy /\ activeRequest = NoRequest
    /\ activeRequest # NoRequest => busy
    /\ busy => \/ \E o \in Observers : observer[o] = "sending"
               \/ requests # <<>>
               \/ activeRequest # NoRequest

\* The worker holds a request exactly from taking it to releasing the slot; a
\* failed worker keeps it.
WorkerInv ==
    /\ worker \in {"transacting", "releasing", "failing", "announcing"} => activeRequest # NoRequest
    /\ worker \in {"off", "select"} => activeRequest = NoRequest
    /\ worker = "ending" /\ ~failed => activeRequest = NoRequest
    /\ worker = "off" <=> ~started
    /\ worker = "over" <=> doneClosed
    /\ busy => started

\* A result channel is empty until the worker has finished with its request.
ChannelInv ==
    /\ \A o \in Observers : observer[o] \in {"idle", "sending"} => result[o] = NoRequest
    /\ \A i \in 1..Len(requests) :
          observer[requests[i]] \in {"waiting", "returned"} /\ result[requests[i]] = NoRequest
    /\ activeRequest # NoRequest => observer[activeRequest] \in {"waiting", "returned"}
    /\ worker \in {"transacting", "failing"} => result[activeRequest] = NoRequest

\* failed is latched before anything else shows the failure.
FailureInv ==
    /\ worker \in {"failing", "announcing"} => failed
    /\ worker \in {"off", "select", "transacting", "releasing"} => ~failed
    /\ worker = "ending" => IF failed THEN fatal ELSE stopClosed
    /\ FailureOrder

IInv == TypeOK /\ PlaceInv /\ WorkerInv /\ ChannelInv /\ FailureInv

-----------------------------------------------------------------------------
(* A channel of capacity one.                                              *)

\* What Append, Head and Tail do to a channel with room for one request.
LEMMA ChannelFacts ==
    /\ \A o \in Observers : /\ Append(<<>>, o) = <<o>> /\ <<o>> \in Seq(Observers)
                            /\ Len(<<o>>) = 1 /\ <<o>>[1] = o /\ <<o>> # <<>>
    /\ \A q \in Seq(Observers) : Len(q) <= 1 /\ q # <<>> =>
          Head(q) \in Observers /\ Head(q) = q[1] /\ Tail(q) = <<>> /\ Len(q) = 1
    /\ <<>> \in Seq(Observers) /\ Len(<<>>) = 0
  <1>1. \A o \in Observers : /\ Append(<<>>, o) = <<o>> /\ <<o>> \in Seq(Observers)
                             /\ Len(<<o>>) = 1 /\ <<o>>[1] = o /\ <<o>> # <<>>
    OBVIOUS
  <1>2. ASSUME NEW q \in Seq(Observers), Len(q) <= 1, q # <<>>
        PROVE  Head(q) \in Observers /\ Head(q) = q[1] /\ Tail(q) = <<>> /\ Len(q) = 1
    <2>1. Len(q) = 1
      <3>1. Len(q) \in Nat \ {0}
        BY <1>2, EmptySeq
      <3> QED
        BY <1>2, <3>1
    <2>2. Head(q) \in Observers /\ Tail(q) \in Seq(Observers) /\ Len(Tail(q)) = 0
      BY <1>2, <2>1, HeadTailProperties
    <2>3. Tail(q) = <<>>
      BY <2>2, EmptySeq
    <2> QED
      BY <2>1, <2>2, <2>3
  <1> QED
    BY <1>1, <1>2

-----------------------------------------------------------------------------
(* The invariant is inductive.                                             *)

\* Init establishes it.
LEMMA InitInv == Init => IInv
  <1> SUFFICES ASSUME Init PROVE IInv
    OBVIOUS
  <1>1. TypeOK
    <2>1. requests \in Seq(Observers) /\ Len(requests) <= 1
      BY ChannelFacts DEF Init
    <2>2. {started, stopping, busy, failed, stopClosed, doneClosed, fatal} \subseteq BOOLEAN
      BY DEF Init
    <2>3. /\ result \in [Observers -> Outcomes \cup {NoRequest}]
          /\ reply \in [Observers -> Outcomes \cup {NoRequest}]
          /\ observer \in [Observers -> {"idle", "sending", "waiting", "returned"}]
          /\ contextDone \in [Observers -> BOOLEAN]
      BY DEF Init
    <2>4. /\ closer \in [Closers -> {"idle", "stopping", "waiting", "returned"}]
          /\ closeExpired \in [Closers -> BOOLEAN]
      BY DEF Init
    <2> QED
      BY <2>1, <2>2, <2>3, <2>4 DEF Init, TypeOK
  <1>2. PlaceInv /\ WorkerInv /\ ChannelInv /\ FailureInv
    BY NoRequestAssumption, ChannelFacts
    DEF Init, PlaceInv, WorkerInv, ChannelInv, FailureInv, FailureOrder, Outcomes
  <1> QED
    BY <1>1, <1>2 DEF IInv

\* Calls of Observe keep it.
LEMMA ObserveStep ==
    ASSUME IInv, NEW o \in Observers, Observe(o) \/ ContextDone(o) PROVE IInv'
  <1> USE NoRequestAssumption, ChannelFacts
      DEF IInv, TypeOK, PlaceInv, WorkerInv, ChannelInv, FailureInv, FailureOrder, Outcomes,
          lockVars, workerVars, observerVars, closerVars
  <1>1. CASE ObserveDefect(o)
    BY <1>1 DEF ObserveDefect, Return
  <1>2. CASE ObserveBusy(o)
    BY <1>2 DEF ObserveBusy, Return
  <1>3. CASE ObserveReserve(o)
    <2>1. TypeOK' /\ PlaceInv'
      BY <1>3 DEF ObserveReserve, Admits
    <2>2. WorkerInv' /\ ChannelInv'
      BY <1>3 DEF ObserveReserve, Admits
    <2>3. FailureInv'
      BY <1>3 DEF ObserveReserve, Admits
    <2> QED
      BY <2>1, <2>2, <2>3
  <1>4. CASE ObserveSend(o)
    BY <1>4 DEF ObserveSend
  <1>5. CASE ObserveReceive(o)
    BY <1>5 DEF ObserveReceive, Return
  <1>6. CASE ObserveTimeout(o)
    BY <1>6 DEF ObserveTimeout, Return
  <1>7. CASE ContextDone(o)
    BY <1>7 DEF ContextDone
  <1> QED
    BY <1>1, <1>2, <1>3, <1>4, <1>5, <1>6, <1>7 DEF Observe

\* The worker keeps it, whatever the ioctl does.
LEMMA WorkerStep ==
    ASSUME IInv, Worker \/ TransactionEnds \/ Start PROVE IInv'
  <1> USE NoRequestAssumption, ChannelFacts
      DEF IInv, TypeOK, PlaceInv, WorkerInv, ChannelInv, FailureInv, FailureOrder, Outcomes,
          lockVars, workerVars, observerVars, closerVars
  <1>1. CASE Start
    BY <1>1 DEF Start
  <1>2. CASE WorkerStop
    BY <1>2 DEF WorkerStop
  <1>3. CASE WorkerTake
    BY <1>3 DEF WorkerTake
  <1>4. CASE TransactionReturn
    BY <1>4 DEF TransactionReturn, Delivered, TransactionOutcomes
  <1>5. CASE WorkerRelease
    BY <1>5 DEF WorkerRelease, BusyAfterRelease
  <1>6. CASE TransactionPanic
    BY <1>6 DEF TransactionPanic
  <1>7. CASE WorkerFail
    BY <1>7 DEF WorkerFail
  <1>8. CASE WorkerAnnounce
    BY <1>8 DEF WorkerAnnounce
  <1>9. CASE WorkerEnd
    BY <1>9 DEF WorkerEnd
  <1> QED
    BY <1>1, <1>2, <1>3, <1>4, <1>5, <1>6, <1>7, <1>8, <1>9 DEF Worker, TransactionEnds

\* Calls of Close keep it.
LEMMA CloseStep ==
    ASSUME IInv, NEW k \in Closers, Close(k) \/ CloseExpires(k) PROVE IInv'
  <1> USE NoRequestAssumption, ChannelFacts
      DEF IInv, TypeOK, PlaceInv, WorkerInv, ChannelInv, FailureInv, FailureOrder, Outcomes,
          lockVars, workerVars, observerVars, closerVars
  <1>1. CASE CloseNotStarted(k)
    BY <1>1 DEF CloseNotStarted
  <1>2. CASE CloseBegin(k)
    BY <1>2 DEF CloseBegin
  <1>3. CASE CloseStop(k)
    BY <1>3 DEF CloseStop
  <1>4. CASE CloseReturn(k)
    BY <1>4 DEF CloseReturn
  <1>5. CASE CloseExpires(k)
    BY <1>5 DEF CloseExpires
  <1> QED
    BY <1>1, <1>2, <1>3, <1>4, <1>5 DEF Close

\* Every step keeps it.
LEMMA StepInv == IInv /\ [Next]_vars => IInv'
  <1> SUFFICES ASSUME IInv, [Next]_vars PROVE IInv'
    OBVIOUS
  <1>1. CASE UNCHANGED vars
    BY <1>1 DEF vars, lockVars, workerVars, observerVars, closerVars, IInv, TypeOK, PlaceInv,
                WorkerInv, ChannelInv, FailureInv, FailureOrder
  <1> QED
    BY <1>1, ObserveStep, WorkerStep, CloseStep DEF Next, Terminated

\* It holds in every reachable state.
THEOREM Invariance == Spec => []IInv
  BY InitInv, StepInv, PTL DEF Spec

-----------------------------------------------------------------------------
(* What it gives.                                                          *)

\* Types: the channels, the worker and the calls stay well formed.
THEOREM TypeCorrect == Spec => []TypeOK
  <1>1. IInv => TypeOK
    BY DEF IInv
  <1> QED
    BY <1>1, Invariance, PTL

\* The slot is busy exactly while one request is in flight.
THEOREM SlotAccounted == Spec => []SlotAccounting
  <1>1. ASSUME IInv PROVE SlotAccounting
    <2> USE NoRequestAssumption, ChannelFacts DEF IInv, TypeOK, PlaceInv
    <2>1. requests = <<>> \/ (Len(requests) = 1 /\ requests[1] \in Observers)
      BY <1>1
    <2>2. busy => InFlight # {}
      BY <1>1, <2>1 DEF InFlight
    <2>3. InFlight # {} => busy
      BY <1>1, <2>1 DEF InFlight
    <2>4. \A o, p \in InFlight : o = p
      BY <1>1, <2>1 DEF InFlight
    <2> QED
      BY <1>1, <2>2, <2>3, <2>4 DEF SlotAccounting
  <1> QED
    BY <1>1, Invariance, PTL

\* No send of the executor ever blocks.
THEOREM SendsPass == Spec => []SendsNeverBlock
  <1>1. IInv => SendsNeverBlock
    BY DEF IInv, PlaceInv, WorkerInv, ChannelInv, SendsNeverBlock
  <1> QED
    BY <1>1, Invariance, PTL

\* A failure is latched before anyone is told, and announced before done is
\* closed.
THEOREM FailuresOrdered == Spec => []FailureOrder
  <1>1. IInv => FailureOrder
    BY DEF IInv, FailureInv
  <1> QED
    BY <1>1, Invariance, PTL

\* A step during a stop admits nothing: requests only move on or end.
LEMMA StopKept == IInv /\ [Next]_vars => [StopStep]_vars
  <1> SUFFICES ASSUME IInv, [Next]_vars, stopping PROVE InFlight' \subseteq InFlight
    BY DEF StopStep
  <1> USE NoRequestAssumption, ChannelFacts
      DEF IInv, TypeOK, InFlight, lockVars, workerVars, observerVars, closerVars
  <1>1. ASSUME NEW o \in Observers, Observe(o) \/ ContextDone(o) PROVE InFlight' \subseteq InFlight
    <2>1. CASE ObserveSend(o)
      BY <2>1 DEF ObserveSend, PlaceInv
    <2>2. CASE ObserveDefect(o) \/ ObserveBusy(o) \/ ObserveTimeout(o) \/ ObserveReceive(o)
      <3>1. /\ requests' = requests /\ activeRequest' = activeRequest
            /\ observer' = [observer EXCEPT ![o] = "returned"]
        BY <2>2 DEF ObserveDefect, ObserveBusy, ObserveTimeout, ObserveReceive, Return
      <3> QED
        BY <3>1
    <2>3. CASE ObserveReserve(o) \/ ContextDone(o)
      BY <2>3 DEF ObserveReserve, ContextDone, Admits
    <2> QED
      BY <1>1, <2>1, <2>2, <2>3 DEF Observe
  <1>2. CASE WorkerTake
    BY <1>2 DEF WorkerTake
  <1>3. CASE Worker \/ TransactionEnds \/ Start
    <2>1. CASE WorkerRelease
      BY <2>1 DEF WorkerRelease
    <2>2. CASE Start \/ WorkerStop \/ WorkerFail \/ WorkerAnnounce \/ WorkerEnd
      BY <2>2 DEF Start, WorkerStop, WorkerFail, WorkerAnnounce, WorkerEnd
    <2>3. CASE TransactionReturn \/ TransactionPanic
      BY <2>3 DEF TransactionReturn, TransactionPanic
    <2> QED
      BY <1>2, <1>3, <2>1, <2>2, <2>3 DEF Worker, TransactionEnds
  <1>4. ASSUME NEW k \in Closers, Close(k) \/ CloseExpires(k) PROVE InFlight' \subseteq InFlight
    BY <1>4 DEF Close, CloseNotStarted, CloseBegin, CloseStop, CloseReturn, CloseExpires
  <1>5. CASE UNCHANGED vars
    BY <1>5 DEF vars
  <1> HIDE DEF IInv, TypeOK, InFlight
  <1> QED
    BY <1>1, <1>3, <1>4, <1>5 DEF Next, Terminated

\* After Close has begun no request is admitted.
THEOREM StopAdmitsNothing == Spec => NoAdmissionAfterStop
  BY Invariance, StopKept, PTL DEF Spec, NoAdmissionAfterStop

-----------------------------------------------------------------------------
(* Calls return.                                                           *)

Sending(o) == observer[o] = "sending"
Waiting(o) == observer[o] = "waiting"
TimedOut(o) == observer[o] = "waiting" /\ contextDone[o]
Returned(o) == observer[o] = "returned"

Stopping(k) == closer[k] = "stopping"
AwaitsDone(k) == closer[k] = "waiting"
GivesUp(k) == closer[k] = "waiting" /\ closeExpired[k]
CloseOver(k) == closer[k] = "returned"

\* Where the guard of a step of a call, or of a context, holds, the step is
\* enabled: its definition assigns every variable and changes one.  The
\* provers cannot evaluate ENABLED, so this is a hypothesis of CallsAlwaysReturn.
CallsEnabled ==
    /\ \A o \in Observers :
        /\ Sending(o) /\ requests = <<>> => ENABLED <<ObserveProceeds(o)>>_vars
        /\ TimedOut(o) => ENABLED <<ObserveProceeds(o)>>_vars
        /\ Waiting(o) /\ ~TimedOut(o) => ENABLED <<ObserveExpiry(o)>>_vars
    /\ \A k \in Closers :
        /\ Stopping(k) => ENABLED <<CloseProceeds(k)>>_vars
        /\ GivesUp(k) => ENABLED <<CloseProceeds(k)>>_vars
        /\ AwaitsDone(k) /\ ~GivesUp(k) => ENABLED <<CloseExpiry(k)>>_vars

\* What a step does to the call of one observer.
LEMMA ObserveStages ==
    ASSUME IInv, NEW o \in Observers, [Next]_vars
    PROVE  /\ Sending(o) => Sending(o)' \/ Waiting(o)'
           /\ Waiting(o) => Waiting(o)' \/ Returned(o)'
           /\ TimedOut(o) => TimedOut(o)' \/ Returned(o)'
           /\ Sending(o) /\ ObserveProceeds(o) => Waiting(o)'
           /\ Waiting(o) /\ ObserveExpiry(o) => TimedOut(o)'
           /\ TimedOut(o) /\ ObserveProceeds(o) => Returned(o)'
  <1> USE DEF IInv, TypeOK, Sending, Waiting, TimedOut, Returned, observerVars
  <1>1. ASSUME NEW p \in Observers, Observe(p) PROVE
            /\ p # o => UNCHANGED <<observer[o], contextDone[o]>>
            /\ UNCHANGED contextDone
            /\ observer[p] = "sending" => observer'[p] = "waiting"
            /\ observer[p] = "waiting" => observer'[p] = "returned"
    BY <1>1 DEF Observe, ObserveDefect, ObserveBusy, ObserveReserve, ObserveSend,
                ObserveReceive, ObserveTimeout, Return
  <1>2. ASSUME NEW p \in Observers, ContextDone(p) PROVE
            /\ UNCHANGED observer
            /\ contextDone'[p]
            /\ contextDone[o] => contextDone'[o]
    BY <1>2 DEF ContextDone
  <1>3. ASSUME \A p \in Observers : ~Observe(p) /\ ~ContextDone(p)
        PROVE  UNCHANGED <<observer, contextDone>>
    BY <1>3 DEF Next, Start, Worker, WorkerStop, WorkerTake, WorkerRelease, WorkerFail,
                WorkerAnnounce, WorkerEnd, TransactionEnds, TransactionReturn, TransactionPanic,
                Close,
                CloseNotStarted, CloseBegin, CloseStop, CloseReturn, CloseExpires, Terminated,
                vars
  <1> QED
    BY <1>1, <1>2, <1>3 DEF ObserveProceeds, ObserveExpiry

\* What a step does to a call of Close.
LEMMA CloseStages ==
    ASSUME IInv, NEW k \in Closers, [Next]_vars
    PROVE  /\ Stopping(k) => Stopping(k)' \/ AwaitsDone(k)'
           /\ AwaitsDone(k) => AwaitsDone(k)' \/ CloseOver(k)'
           /\ GivesUp(k) => GivesUp(k)' \/ CloseOver(k)'
           /\ Stopping(k) /\ CloseProceeds(k) => AwaitsDone(k)'
           /\ AwaitsDone(k) /\ CloseExpiry(k) => GivesUp(k)'
           /\ GivesUp(k) /\ CloseProceeds(k) => CloseOver(k)'
  <1> USE DEF IInv, TypeOK, Stopping, AwaitsDone, GivesUp, CloseOver, closerVars
  <1>1. ASSUME NEW j \in Closers, Close(j) PROVE
            /\ j # k => UNCHANGED <<closer[k], closeExpired[k]>>
            /\ UNCHANGED closeExpired
            /\ closer[j] = "stopping" => closer'[j] = "waiting"
            /\ closer[j] = "waiting" => closer'[j] = "returned"
    BY <1>1 DEF Close, CloseNotStarted, CloseBegin, CloseStop, CloseReturn
  <1>2. ASSUME NEW j \in Closers, CloseExpires(j) PROVE
            /\ UNCHANGED closer
            /\ closeExpired'[j]
            /\ closeExpired[k] => closeExpired'[k]
    BY <1>2 DEF CloseExpires
  <1>3. ASSUME \A j \in Closers : ~Close(j) /\ ~CloseExpires(j)
        PROVE  UNCHANGED <<closer, closeExpired>>
    BY <1>3 DEF Next, Start, Worker, WorkerStop, WorkerTake, WorkerRelease, WorkerFail,
                WorkerAnnounce, WorkerEnd, TransactionEnds, TransactionReturn, TransactionPanic,
                Observe,
                ObserveDefect, ObserveBusy, ObserveReserve, ObserveSend, ObserveReceive,
                ObserveTimeout, ContextDone, Terminated, vars
  <1> QED
    BY <1>1, <1>2, <1>3 DEF CloseProceeds, CloseExpiry

\* An observation sends, waits, and returns when its context is done if not
\* before.
LEMMA EachObserveReturns ==
    ASSUME NEW o \in Observers
    PROVE  Spec /\ []CallsEnabled /\ ObserveScheduled(o) /\ ObserveExpires(o)
              => ObserveReturns(o)
  <1> DEFINE Called == observer[o] # "idle"
  <1>1. IInv => (Called => Sending(o) \/ Waiting(o) \/ Returned(o))
    BY DEF IInv, TypeOK, Sending, Waiting, Returned
  <1>2. IInv /\ [Next]_vars =>
            /\ Sending(o) => Sending(o)' \/ Waiting(o)'
            /\ Sending(o) /\ ObserveProceeds(o) => Waiting(o)'
            /\ Waiting(o) => Waiting(o)' \/ Returned(o)'
            /\ TimedOut(o) => TimedOut(o)' \/ Returned(o)'
            /\ Waiting(o) /\ ObserveExpiry(o) => TimedOut(o)'
            /\ TimedOut(o) /\ ObserveProceeds(o) => Returned(o)'
    BY ObserveStages
  <1>3. IInv /\ CallsEnabled =>
            /\ Sending(o) => ENABLED <<ObserveProceeds(o)>>_vars
            /\ TimedOut(o) => ENABLED <<ObserveProceeds(o)>>_vars
            /\ Waiting(o) /\ ~TimedOut(o) => ENABLED <<ObserveExpiry(o)>>_vars
    BY DEF CallsEnabled, IInv, PlaceInv, Sending
  <1>4. Returned(o) <=> observer[o] = "returned"
    BY DEF Returned
  <1> QED
    BY <1>1, <1>2, <1>3, <1>4, Invariance, PTL
       DEF Spec, ObserveScheduled, ObserveExpires, ObserveReturns

LEMMA EachCloseReturns ==
    ASSUME NEW k \in Closers
    PROVE  Spec /\ []CallsEnabled /\ CloseScheduled(k) /\ CloseContextExpires(k)
              => CloseReturns(k)
  <1> DEFINE Called == closer[k] # "idle"
  <1>1. IInv => (Called => Stopping(k) \/ AwaitsDone(k) \/ CloseOver(k))
    BY DEF IInv, TypeOK, Stopping, AwaitsDone, CloseOver
  <1>2. IInv /\ [Next]_vars =>
            /\ Stopping(k) => Stopping(k)' \/ AwaitsDone(k)'
            /\ AwaitsDone(k) => AwaitsDone(k)' \/ CloseOver(k)'
            /\ GivesUp(k) => GivesUp(k)' \/ CloseOver(k)'
            /\ Stopping(k) /\ CloseProceeds(k) => AwaitsDone(k)'
            /\ AwaitsDone(k) /\ CloseExpiry(k) => GivesUp(k)'
            /\ GivesUp(k) /\ CloseProceeds(k) => CloseOver(k)'
    BY CloseStages
  <1>3. CallsEnabled =>
            /\ Stopping(k) => ENABLED <<CloseProceeds(k)>>_vars
            /\ GivesUp(k) => ENABLED <<CloseProceeds(k)>>_vars
            /\ AwaitsDone(k) /\ ~GivesUp(k) => ENABLED <<CloseExpiry(k)>>_vars
    BY DEF CallsEnabled
  <1>4. CloseOver(k) <=> closer[k] = "returned"
    BY DEF CloseOver
  <1> QED
    BY <1>1, <1>2, <1>3, <1>4, Invariance, PTL
       DEF Spec, CloseScheduled, CloseContextExpires, CloseReturns

\* Under the fairness the scheduler gives, and whatever the ioctl does, every
\* call of Observe and Close returns once contexts expire.
THEOREM CallsAlwaysReturn == FairSpec /\ []CallsEnabled => CallsReturn
  <1>1. ASSUME NEW o \in Observers
        PROVE  FairSpec /\ []CallsEnabled /\ ContextsEnd => ObserveReturns(o)
    BY EachObserveReturns DEF FairSpec, Scheduling, ContextsEnd
  <1>2. ASSUME NEW k \in Closers
        PROVE  FairSpec /\ []CallsEnabled /\ ContextsEnd => CloseReturns(k)
    BY EachCloseReturns DEF FairSpec, Scheduling, ContextsEnd
  <1> QED
    BY <1>1, <1>2 DEF CallsReturn

-----------------------------------------------------------------------------
(* The slot comes back.                                                    *)

Freed == ~busy \/ failed \/ doneClosed
Sender(o) == ~Freed /\ Sending(o)
Queued == ~Freed /\ requests # <<>> /\ worker # "ending"
InIoctl == ~Freed /\ worker = "transacting"
Releasing == ~Freed /\ worker = "releasing"
Ending == ~Freed /\ worker = "ending"

\* As CallsEnabled, for the worker and the ioctl.
WorkerEnabled ==
    /\ Queued \/ Ending => ENABLED <<Worker>>_vars
    /\ Releasing => ENABLED <<Worker>>_vars
    /\ InIoctl => ENABLED <<TransactionEnds>>_vars

\* A slot that is not free belongs to a request on its way, or to one that
\* the worker leaves behind because it was told to stop.
LEMMA SlotStages ==
    IInv => Freed \/ Queued \/ InIoctl \/ Releasing \/ Ending \/ \E o \in Observers : Sender(o)
  BY DEF IInv, TypeOK, PlaceInv, WorkerInv, FailureInv, Freed, Sender, Sending, Queued, InIoctl,
         Releasing, Ending

\* The request moves on to the next stage, or the executor is over.
LEMMA SlotMoves ==
    ASSUME IInv, [Next]_vars
    PROVE  /\ Queued => Queued' \/ InIoctl' \/ Ending' \/ Freed'
           /\ InIoctl => InIoctl' \/ Releasing' \/ Freed'
           /\ Releasing => Releasing' \/ Freed'
           /\ Queued /\ Worker => InIoctl' \/ Ending' \/ Freed'
           /\ Ending => Ending' \/ Freed'
           /\ Ending /\ Worker => Freed'
           /\ InIoctl /\ TransactionEnds => Releasing' \/ Freed'
           /\ Releasing /\ Worker => Freed'
           /\ \A o \in Observers :
                /\ Sender(o) => Sender(o)' \/ Queued' \/ Ending' \/ Freed'
                /\ Sender(o) /\ ObserveProceeds(o) => Queued' \/ Ending' \/ Freed'
  <1> USE NoRequestAssumption, ChannelFacts
      DEF IInv, TypeOK, PlaceInv, WorkerInv, Freed, Sender, Sending, Queued, InIoctl, Releasing,
          Ending, lockVars, workerVars, observerVars, closerVars
  <1>1. ASSUME NEW p \in Observers, Observe(p) PROVE
            /\ UNCHANGED <<worker, failed, doneClosed>>
            /\ busy => busy'
            /\ requests # <<>> => requests' # <<>>
            /\ \A o \in Observers \ {p} : observer'[o] = observer[o]
            /\ observer[p] = "sending" => requests' # <<>>
    BY <1>1 DEF Observe, ObserveDefect, ObserveBusy, ObserveReserve, ObserveSend,
                ObserveReceive, ObserveTimeout, Return
  <1>2. CASE Worker
    BY <1>2 DEF Worker, WorkerStop, WorkerTake, WorkerRelease, BusyAfterRelease, WorkerFail,
                WorkerAnnounce, WorkerEnd, ObserveProceeds
  <1>3. CASE TransactionEnds
    BY <1>3 DEF TransactionEnds, TransactionReturn, TransactionPanic
  <1>4. ASSUME \A p \in Observers : ~Observe(p), ~Worker, ~TransactionEnds
        PROVE  /\ UNCHANGED <<busy, failed, doneClosed, requests, observer>>
               /\ worker = "off" \/ UNCHANGED worker
    BY <1>4 DEF Next, Start, ContextDone, Close, CloseNotStarted, CloseBegin, CloseStop,
                CloseReturn, CloseExpires, Terminated, vars
  <1> QED
    BY <1>1, <1>2, <1>3, <1>4 DEF ObserveProceeds

\* What holds at every moment of a behavior, not only from its start.
Running == [][Next]_vars /\ []IInv /\ []CallsEnabled
GetsQueued == <>(Queued \/ Ending \/ Freed)

\* A call that has reserved the slot sends its request.
LEMMA SenderQueues ==
    ASSUME NEW o \in Observers
    PROVE  Running /\ ObserveScheduled(o) => (Sender(o) => GetsQueued)
  <1>1. IInv /\ [Next]_vars =>
            /\ Sender(o) => Sender(o)' \/ Queued' \/ Ending' \/ Freed'
            /\ Sender(o) /\ ObserveProceeds(o) => Queued' \/ Ending' \/ Freed'
    BY SlotMoves
  <1>2. IInv /\ CallsEnabled => (Sender(o) => ENABLED <<ObserveProceeds(o)>>_vars)
    BY DEF CallsEnabled, IInv, PlaceInv, Sender, Sending
  <1> QED
    BY <1>1, <1>2, PTL DEF Running, ObserveScheduled, GetsQueued

\* Once the ioctl returns the slot comes back, unless the executor fails or
\* stops first.  Scheduling implies []Scheduling: WF is about what happens
\* again and again.  The provers lack the rule that exchanges [] and \A.
THEOREM SlotAlwaysRecovers ==
    FairSpec /\ []Scheduling /\ []CallsEnabled /\ []WorkerEnabled => SlotRecovers
  <1>1. Running /\ Scheduling => ((\E o \in Observers : Sender(o)) => GetsQueued)
    BY SenderQueues DEF Scheduling
  <1>2. IInv /\ [Next]_vars =>
            /\ Queued => Queued' \/ InIoctl' \/ Ending' \/ Freed'
            /\ InIoctl => InIoctl' \/ Releasing' \/ Freed'
            /\ Releasing => Releasing' \/ Freed'
            /\ Queued /\ Worker => InIoctl' \/ Ending' \/ Freed'
            /\ Ending => Ending' \/ Freed'
            /\ Ending /\ Worker => Freed'
            /\ InIoctl /\ TransactionEnds => Releasing' \/ Freed'
            /\ Releasing /\ Worker => Freed'
    BY SlotMoves
  <1>3. Scheduling => WorkerScheduled
    BY DEF Scheduling
  <1>4. Freed <=> ~busy \/ failed \/ doneClosed
    BY DEF Freed
  <1> QED
    BY <1>1, <1>2, <1>3, <1>4, SlotStages, Invariance, PTL
       DEF FairSpec, Spec, Running, GetsQueued, WorkerScheduled, WorkerEnabled, IoctlReturns,
           SlotRecovers
=============================================================================
