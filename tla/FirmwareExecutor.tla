-------------------------- MODULE FirmwareExecutor --------------------------
(***************************************************************************)
(* The firmware executor (src/internal/observe/firmware_executor.go): one  *)
(* worker goroutine owns the firmware ioctl, which cannot be canceled.     *)
(* Observe reserves the only slot under the lock, hands its request to the *)
(* worker over a channel of capacity one and waits for its own result      *)
(* channel or its context.  Close stops the worker and waits for it within *)
(* a context.                                                              *)
(*                                                                         *)
(* A call of Observe stands for its cycle token and its result channel.    *)
(* A section under FirmwareExecutor.mu is one action.                      *)
(***************************************************************************)
EXTENDS Naturals, Sequences, FiniteSets

CONSTANTS
    Observers,  \* calls of Observe
    Closers,    \* calls of Close: Runtime.Shutdown and Runtime.Close
    NoRequest   \* the nil *firmwareRequest, and an empty result channel

Outcomes == {"present", "unavailable", "defect"}

ASSUME NoRequestAssumption == NoRequest \notin Observers \cup Outcomes

VARIABLES
    started, stopping, busy, failed,    \* the fields under mu
    requests,       \* chan firmwareRequest, capacity 1
    stopClosed,     \* close(executor.stop) happened
    doneClosed,     \* close(executor.done) happened
    worker,         \* where run is
    activeRequest,  \* run's active
    result,         \* result[o]: contents of o's result channel, capacity 1
    fatal,          \* the fatal callback was called
    observer,       \* where each call of Observe is
    contextDone,    \* the context of a call is done
    reply,          \* what a call of Observe returned
    closer,         \* where each call of Close is
    closeExpired    \* the context of a call of Close is done

lockVars == <<started, stopping, busy, failed>>
workerVars == <<requests, worker, activeRequest, result, fatal, doneClosed>>
observerVars == <<observer, contextDone, reply>>
closerVars == <<closer, closeExpired, stopClosed>>
vars == <<lockVars, workerVars, observerVars, closerVars>>

TypeOK ==
    /\ {started, stopping, busy, failed} \subseteq BOOLEAN
    /\ requests \in Seq(Observers) /\ Len(requests) <= 1
    /\ {stopClosed, doneClosed, fatal} \subseteq BOOLEAN
    /\ worker \in {"off", "select", "transacting", "releasing", "failing", "announcing", "ending",
                   "over"}
    /\ activeRequest \in Observers \cup {NoRequest}
    /\ result \in [Observers -> Outcomes \cup {NoRequest}]
    /\ observer \in [Observers -> {"idle", "sending", "waiting", "returned"}]
    /\ contextDone \in [Observers -> BOOLEAN]
    /\ reply \in [Observers -> Outcomes \cup {NoRequest}]
    /\ closer \in [Closers -> {"idle", "stopping", "waiting", "returned"}]
    /\ closeExpired \in [Closers -> BOOLEAN]

Init ==
    /\ started = FALSE /\ stopping = FALSE /\ busy = FALSE /\ failed = FALSE
    /\ requests = <<>>
    /\ stopClosed = FALSE /\ doneClosed = FALSE /\ fatal = FALSE
    /\ worker = "off"
    /\ activeRequest = NoRequest
    /\ result = [o \in Observers |-> NoRequest]
    /\ observer = [o \in Observers |-> "idle"]
    /\ contextDone = [o \in Observers |-> FALSE]
    /\ reply = [o \in Observers |-> NoRequest]
    /\ closer = [k \in Closers |-> "idle"]
    /\ closeExpired = [k \in Closers |-> FALSE]

-----------------------------------------------------------------------------
(* The environment.                                                        *)

\* The 100 ms domain deadline passes, or the cycle or lifecycle ends.
ContextDone(o) ==
    /\ ~contextDone[o] /\ observer[o] # "returned"
    /\ contextDone' = [contextDone EXCEPT ![o] = TRUE]
    /\ UNCHANGED <<lockVars, workerVars, observer, reply, closerVars>>

CloseExpires(k) ==
    /\ ~closeExpired[k] /\ closer[k] # "returned"
    /\ closeExpired' = [closeExpired EXCEPT ![k] = TRUE]
    /\ UNCHANGED <<lockVars, workerVars, observerVars, closer, stopClosed>>

-----------------------------------------------------------------------------
(* Start and Observe, in the caller's goroutine.                           *)

Start ==
    /\ ~started /\ ~stopping /\ ~failed
    /\ started' = TRUE
    /\ worker' = "select"
    /\ UNCHANGED <<stopping, busy, failed, requests, activeRequest, result, fatal, doneClosed,
                   observerVars, closerVars>>

Return(o, what) ==
    /\ observer' = [observer EXCEPT ![o] = "returned"]
    /\ reply' = [reply EXCEPT ![o] = what]

\* The executor has failed, was not started or is stopping.
ObserveDefect(o) ==
    /\ observer[o] = "idle"
    /\ failed \/ ~started \/ stopping
    /\ Return(o, "defect")
    /\ UNCHANGED <<lockVars, workerVars, contextDone, closerVars>>

AdmitsBusyMutant == started /\ ~failed /\ ~stopping
AdmitsMutant == started /\ ~failed /\ ~busy
Admits == started /\ ~failed /\ ~stopping /\ ~busy

ObserveBusy(o) ==
    /\ observer[o] = "idle"
    /\ started /\ ~failed /\ ~stopping /\ busy
    /\ Return(o, "unavailable")
    /\ UNCHANGED <<lockVars, workerVars, contextDone, closerVars>>

\* The slot is reserved under the lock, the request is sent after it.
ObserveReserve(o) ==
    /\ observer[o] = "idle"
    /\ Admits
    /\ busy' = TRUE
    /\ observer' = [observer EXCEPT ![o] = "sending"]
    /\ UNCHANGED <<started, stopping, failed, workerVars, contextDone, reply, closerVars>>

ObserveSend(o) ==
    /\ observer[o] = "sending"
    /\ Len(requests) < 1
    /\ requests' = Append(requests, o)
    /\ observer' = [observer EXCEPT ![o] = "waiting"]
    /\ UNCHANGED <<lockVars, worker, activeRequest, result, fatal, doneClosed, contextDone,
                   reply, closerVars>>

\* The select of Observe; when the result is there and the context is done,
\* either branch may be taken.
ObserveReceive(o) ==
    /\ observer[o] = "waiting"
    /\ result[o] # NoRequest
    /\ Return(o, result[o])
    /\ result' = [result EXCEPT ![o] = NoRequest]
    /\ UNCHANGED <<lockVars, requests, worker, activeRequest, fatal, doneClosed, contextDone,
                   closerVars>>

ObserveTimeoutMutant(o) ==
    /\ observer[o] = "waiting"
    /\ contextDone[o] /\ ~busy
    /\ Return(o, "unavailable")
    /\ UNCHANGED <<lockVars, workerVars, contextDone, closerVars>>

ObserveTimeout(o) ==
    /\ observer[o] = "waiting"
    /\ contextDone[o]
    /\ Return(o, "unavailable")
    /\ UNCHANGED <<lockVars, workerVars, contextDone, closerVars>>

-----------------------------------------------------------------------------
(* run, the worker.                                                        *)

\* With a request queued and stop closed, the select may take either.
WorkerStop ==
    /\ worker = "select"
    /\ stopClosed
    /\ worker' = "ending"
    /\ UNCHANGED <<lockVars, requests, activeRequest, result, fatal, doneClosed, observerVars,
                   closerVars>>

WorkerTake ==
    /\ worker = "select"
    /\ requests # <<>>
    /\ activeRequest' = Head(requests)
    /\ requests' = Tail(requests)
    /\ worker' = "transacting"
    /\ UNCHANGED <<lockVars, result, fatal, doneClosed, observerVars, closerVars>>

\* A send that never blocks: a full channel drops the result.
Delivered(o, what) ==
    IF result[o] = NoRequest THEN [result EXCEPT ![o] = what] ELSE result

\* What becomes of a mask or an error that GetThrottled returns.
TransactionOutcomes == {"present", "unavailable"}

\* GetThrottled returns and the result is delivered.
TransactionReturn ==
    /\ worker = "transacting"
    /\ \E what \in TransactionOutcomes :
          result' = Delivered(activeRequest, what)
    /\ worker' = "releasing"
    /\ UNCHANGED <<lockVars, requests, activeRequest, fatal, doneClosed, observerVars, closerVars>>

BusyAfterReleaseMutant == busy
BusyAfterRelease == FALSE

WorkerRelease ==
    /\ worker = "releasing"
    /\ busy' = BusyAfterRelease
    /\ activeRequest' = NoRequest
    /\ worker' = "select"
    /\ UNCHANGED <<started, stopping, failed, requests, result, fatal, doneClosed, observerVars,
                   closerVars>>

TransactionPanicMutant ==
    /\ worker = "transacting"
    /\ worker' = "failing"
    /\ UNCHANGED <<lockVars, requests, activeRequest, result, fatal, doneClosed,
                   observerVars, closerVars>>

\* GetThrottled panics: the deferred function latches the failure.
TransactionPanic ==
    /\ worker = "transacting"
    /\ failed' = TRUE
    /\ worker' = "failing"
    /\ UNCHANGED <<started, stopping, busy, requests, activeRequest, result, fatal, doneClosed,
                   observerVars, closerVars>>

\* A blocking send on the result channel of the active request.
WorkerFail ==
    /\ worker = "failing"
    /\ result[activeRequest] = NoRequest
    /\ result' = [result EXCEPT ![activeRequest] = "defect"]
    /\ worker' = "announcing"
    /\ UNCHANGED <<lockVars, requests, activeRequest, fatal, doneClosed, observerVars, closerVars>>

WorkerAnnounce ==
    /\ worker = "announcing"
    /\ fatal' = TRUE
    /\ worker' = "ending"
    /\ UNCHANGED <<lockVars, requests, activeRequest, result, doneClosed, observerVars, closerVars>>

\* The last statement of the deferred function, stopped or failed: Close may
\* return from here on.
WorkerEnd ==
    /\ worker = "ending"
    /\ doneClosed' = TRUE
    /\ worker' = "over"
    /\ UNCHANGED <<lockVars, requests, activeRequest, result, fatal, observerVars, closerVars>>

-----------------------------------------------------------------------------
(* Close.                                                                  *)

CloseNotStarted(k) ==
    /\ closer[k] = "idle"
    /\ ~started
    /\ closer' = [closer EXCEPT ![k] = "returned"]
    /\ UNCHANGED <<lockVars, workerVars, observerVars, closeExpired, stopClosed>>

CloseBegin(k) ==
    /\ closer[k] = "idle"
    /\ started
    /\ stopping' = TRUE
    /\ closer' = [closer EXCEPT ![k] = "stopping"]
    /\ UNCHANGED <<started, busy, failed, workerVars, observerVars, closeExpired, stopClosed>>

\* stopOnce.Do(close(stop)).
CloseStop(k) ==
    /\ closer[k] = "stopping"
    /\ stopClosed' = TRUE
    /\ closer' = [closer EXCEPT ![k] = "waiting"]
    /\ UNCHANGED <<lockVars, workerVars, observerVars, closeExpired>>

\* An ioctl that is still blocked is left to process exit.
CloseMayReturn(k) == doneClosed \/ closeExpired[k]

CloseReturn(k) ==
    /\ closer[k] = "waiting"
    /\ CloseMayReturn(k)
    /\ closer' = [closer EXCEPT ![k] = "returned"]
    /\ UNCHANGED <<lockVars, workerVars, observerVars, closeExpired, stopClosed>>

-----------------------------------------------------------------------------
Observe(o) ==
    \/ ObserveDefect(o) \/ ObserveBusy(o) \/ ObserveReserve(o)
    \/ ObserveSend(o) \/ ObserveReceive(o) \/ ObserveTimeout(o)
Close(k) == CloseNotStarted(k) \/ CloseBegin(k) \/ CloseStop(k) \/ CloseReturn(k)

\* The ioctl returns or panics.
TransactionEnds == TransactionReturn \/ TransactionPanic

\* Everything else the worker does.
Worker ==
    WorkerStop \/ WorkerTake \/ WorkerRelease \/ WorkerFail \/ WorkerAnnounce \/ WorkerEnd

\* Every call is over: what is left is the worker, idle or in its ioctl.
Terminated ==
    /\ \A o \in Observers : observer[o] = "returned"
    /\ \A k \in Closers : closer[k] = "returned"
    /\ UNCHANGED vars

Next ==
    \/ Start
    \/ \E o \in Observers : Observe(o) \/ ContextDone(o)
    \/ Worker \/ TransactionEnds
    \/ \E k \in Closers : Close(k) \/ CloseExpires(k)
    \/ Terminated

Spec == Init /\ [][Next]_vars

-----------------------------------------------------------------------------
(* Fairness: goroutines that can run do.                                   *)

ObserveProceeds(o) == observer[o] # "idle" /\ Observe(o)
CloseProceeds(k) == closer[k] # "idle" /\ Close(k)

WorkerScheduled == WF_vars(Worker)
ObserveScheduled(o) == WF_vars(ObserveProceeds(o))
CloseScheduled(k) == WF_vars(CloseProceeds(k))

Scheduling ==
    /\ WorkerScheduled
    /\ \A o \in Observers : ObserveScheduled(o)
    /\ \A k \in Closers : CloseScheduled(k)

FairSpec == Spec /\ Scheduling

\* Contexts expire.
ObserveExpiry(o) == observer[o] # "idle" /\ ContextDone(o)
CloseExpiry(k) == closer[k] # "idle" /\ CloseExpires(k)

ObserveExpires(o) == WF_vars(ObserveExpiry(o))
CloseContextExpires(k) == WF_vars(CloseExpiry(k))

ContextsEnd ==
    /\ \A o \in Observers : ObserveExpires(o)
    /\ \A k \in Closers : CloseContextExpires(k)

\* The ioctl returns.
IoctlReturns == WF_vars(TransactionEnds)

-----------------------------------------------------------------------------
(* Safety.                                                                 *)

\* The calls whose request has been admitted and not yet answered: between
\* the reservation and the send, in the channel, or with the worker.
InFlight ==
    {o \in Observers :
        \/ observer[o] = "sending"
        \/ \E i \in 1..Len(requests) : requests[i] = o
        \/ activeRequest = o}

\* The slot is reserved exactly while one request is on its way through the
\* executor: a timed-out call does not free it, a late ioctl does, and no
\* order of reservations, sends, timeouts and stops leaks it or gives it to
\* two requests.
SlotAccounting ==
    /\ busy <=> InFlight # {}
    /\ \A o, p \in InFlight : o = p

\* There is no queue behind the slot: the send to requests and, after a
\* panic, the blocking send to the result channel never wait, so neither
\* Observe (whose send does not look at its context) nor the recovering
\* worker can hang.
SendsNeverBlock ==
    /\ \A o \in Observers : observer[o] = "sending" => requests = <<>>
    /\ worker = "failing" => activeRequest # NoRequest /\ result[activeRequest] = NoRequest

\* A failure is known before it is answered, and announced before Close can
\* return because of it: a call gets a defect of the running executor only
\* when failed is latched, the callback comes after the latch, and done is
\* closed after the callback, even when a stop was asked for as well.
FailureOrder ==
    /\ \A o \in Observers : result[o] = "defect" => failed
    /\ fatal => failed
    /\ doneClosed => IF failed THEN fatal ELSE stopClosed

\* Once Close has begun, nothing new gets in: at most the request that was
\* already in flight still reaches the firmware.
StopStep == stopping => InFlight' \subseteq InFlight
NoAdmissionAfterStop == [][StopStep]_vars

-----------------------------------------------------------------------------
(* Liveness.                                                               *)

\* Observe and Close return within their contexts even if the ioctl blocks
\* for ever.
ObserveReturns(o) == observer[o] # "idle" ~> observer[o] = "returned"
CloseReturns(k) == closer[k] # "idle" ~> closer[k] = "returned"
CallsReturn ==
    ContextsEnd =>
        /\ \A o \in Observers : ObserveReturns(o)
        /\ \A k \in Closers : CloseReturns(k)

\* A slot held by an abandoned ioctl comes back when the ioctl returns,
\* unless the executor fails or stops first.
SlotRecovers == IoctlReturns => (busy ~> (~busy \/ failed \/ doneClosed))
=============================================================================
