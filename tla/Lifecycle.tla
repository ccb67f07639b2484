----------------------------- MODULE Lifecycle -----------------------------
(***************************************************************************)
(* The process lifecycle (src/internal/app): run starts the components,    *)
(* notifies systemd, waits for a signal, a fatal error or the end of the   *)
(* HTTP server, and shuts down within a time limit.  Fatal errors come     *)
(* from any component's goroutine through notifyFatal and the readiness    *)
(* gate.  Every way out closes a list of components of its own, one call   *)
(* after the other; each call is a step.                                   *)
(*                                                                         *)
(* Time matters in these calls only, and is counted from the first.  A     *)
(* component that is asked to stop does so at freeAt[component]: when its  *)
(* last connection is idle, its procfs read or its ioctl has returned.     *)
(***************************************************************************)
EXTENDS Integers, Sequences

CONSTANTS
    ShutdownTimeout,    \* shutdownTimeout, in ticks
    FreeTimes           \* when a component may come to a stop

ASSUME TimeoutAssumption == ShutdownTimeout \in Nat \ {0}
ASSUME FreeTimesAssumption == FreeTimes \subseteq Nat

Components == {"firmware", "server", "observer"}

\* The calls of startHTTP that may fail, in order.
Startup == <<"newObserver", "newFirmware", "firmwareStart", "reporter", "provider", "listen",
             "observerStart", "probe", "ready">>

\* The calls that stop components, in their order: "drain" is the server's
\* Shutdown, the others are Close.  ShutdownList and CloseList are those of
\* productionRuntime.
ShutdownList == <<"drain", "observer", "firmware">>
CloseList == <<"server", "observer", "firmware">>
NoDeadline == -1

\* What startHTTP closes when a call fails, and until when.
CleanupMutant(call) ==
    CASE call = "newObserver" -> <<>>
      [] call \in {"newFirmware", "firmwareStart", "listen"} -> <<"observer">>
      [] call \in {"reporter", "provider"} -> <<"observer", "firmware">>
      [] call \in {"observerStart", "probe", "ready"} -> CloseList
Cleanup(call) ==
    CASE call = "newObserver" -> <<>>
      [] call \in {"newFirmware", "firmwareStart"} -> <<"observer">>
      [] call \in {"reporter", "provider", "listen"} -> <<"observer", "firmware">>
      [] call \in {"observerStart", "probe", "ready"} -> CloseList
CleanupDeadline(call) ==
    IF call \in {"observerStart", "probe", "ready"} THEN ShutdownTimeout ELSE NoDeadline

VARIABLES
    pc,             \* where run is
    stage,          \* the number of calls of Startup that have succeeded
    todo,           \* the stopping calls still to be made, the next one first
    deadline,       \* of their context, or NoDeadline
    stopAsked,      \* the components that were asked to stop
    elapsed,        \* time since the first component was asked to
    shutdownFailed, \* shutdownErr # nil
    signal,         \* the signal context is done
    fatal,          \* notifyFatal: "none", "detected", "flagged", "queued"
    serve,          \* the goroutine around Serve: "off", "running", "ok", "error"
    readySent,      \* READY=1 has been sent
    then,           \* what run returns after shutDown: its code, or 1
    freeAt,
    exitCode,
    why             \* history: why the process ended

stopVars == <<todo, deadline, stopAsked, elapsed, shutdownFailed>>
exitVars == <<exitCode, why>>
vars == <<pc, stage, stopVars, signal, fatal, serve, readySent, then, freeAt, exitVars>>

\* Where run works off a list.
Stopping == {"cleaning", "shuttingDown", "closing", "closingAfterServe", "closingLate"}

TypeOK ==
    /\ pc \in {"init", "starting", "firstSelect", "gate", "sending", "secondSelect",
               "shutDown", "drain", "exited"} \cup Stopping
    /\ stage \in 0..Len(Startup)
    /\ todo \in {<<>>, <<"firmware">>, <<"observer">>, <<"observer", "firmware">>,
                 CloseList, ShutdownList}
    /\ deadline \in Nat \cup {NoDeadline}
    /\ stopAsked \subseteq Components
    /\ elapsed \in Nat
    /\ shutdownFailed \in BOOLEAN
    /\ signal \in BOOLEAN
    /\ fatal \in {"none", "detected", "flagged", "queued"}
    /\ serve \in {"off", "running", "ok", "error"}
    /\ readySent \in BOOLEAN
    /\ then \in {"code", "one"}
    /\ freeAt \in [Components -> Nat]
    /\ exitCode \in 0..2
    /\ why \in {"none", "help", "configuration", "signal", "startup", "fatal", "serve", "notify"}

Init ==
    /\ pc = "init"
    /\ stage = 0
    /\ todo = <<>> /\ deadline = NoDeadline
    /\ stopAsked = {} /\ elapsed = 0 /\ shutdownFailed = FALSE
    /\ signal = FALSE
    /\ fatal = "none"
    /\ serve = "off"
    /\ readySent = FALSE
    /\ then = "code"
    /\ freeAt \in [Components -> FreeTimes]
    /\ exitCode = 0
    /\ why = "none"

-----------------------------------------------------------------------------
(* The environment.                                                        *)

SignalArrives ==
    /\ ~signal /\ pc # "exited"
    /\ signal' = TRUE
    /\ UNCHANGED <<pc, stage, stopVars, fatal, serve, readySent, then, freeAt, exitVars>>

\* A component meets a defect, in the observer's first sample at the
\* earliest.  notifyFatal sets detected without a lock, then takes the gate's
\* lock, which notify holds while it sends, then fills the channel of
\* capacity one.
FatalDetected ==
    /\ fatal = "none" /\ pc # "exited"
    /\ stage >= 6
    /\ fatal' = "detected"
    /\ UNCHANGED <<pc, stage, stopVars, signal, serve, readySent, then, freeAt, exitVars>>

FatalFlagged ==
    /\ fatal = "detected" /\ pc # "sending"
    /\ fatal' = "flagged"
    /\ UNCHANGED <<pc, stage, stopVars, signal, serve, readySent, then, freeAt, exitVars>>

FatalQueued ==
    /\ fatal = "flagged"
    /\ fatal' = "queued"
    /\ UNCHANGED <<pc, stage, stopVars, signal, serve, readySent, then, freeAt, exitVars>>

\* Serve ends by itself, or because the listener was closed.
ServeEnds ==
    /\ serve = "running"
    /\ serve' \in IF "server" \in stopAsked THEN {"ok"} ELSE {"ok", "error"}
    /\ UNCHANGED <<pc, stage, stopVars, signal, fatal, readySent, then, freeAt, exitVars>>

-----------------------------------------------------------------------------
(* Stopping components.                                                    *)

Later(s, t) == IF s < t THEN t ELSE s
Earlier(s, t) == IF s < t THEN s ELSE t

\* What a stopping call waits for.  Server.Close waits for nothing, an
\* observer that was not started has no goroutine, and the firmware executor
\* is idle as long as no request is served.
RestAt(call) ==
    CASE call = "drain" -> freeAt["server"]
      [] call = "server" -> 0
      [] call = "observer" -> IF stage < 7 THEN 0 ELSE freeAt["observer"]
      [] call = "firmware" -> IF stage < 9 THEN 0 ELSE freeAt["firmware"]

ReturnsAt(call) ==
    IF deadline = NoDeadline
    THEN Later(elapsed, RestAt(call))
    ELSE Later(elapsed, Earlier(RestAt(call), deadline))

\* The next call of the list.  The server's Shutdown and the observer's Close
\* report an error when their context has expired, and may do so when it
\* expires as they come to rest; the firmware executor's Close never does.
\* Only Shutdown's errors are looked at.
StopNext ==
    /\ pc \in Stopping /\ todo # <<>>
    /\ LET call == Head(todo)
           component == IF call = "drain" THEN "server" ELSE call
           reports == call \in {"drain", "observer"}
       IN  /\ stopAsked' = stopAsked \cup {component}
           /\ elapsed' = ReturnsAt(call)
           /\ \E err \in BOOLEAN :
                 /\ err => reports /\ elapsed' = deadline
                 /\ reports /\ ~err => RestAt(call) <= elapsed'
                 /\ shutdownFailed' = (shutdownFailed \/ (pc = "shuttingDown" /\ err))
    /\ todo' = Tail(todo)
    /\ UNCHANGED <<pc, stage, deadline, signal, fatal, serve, readySent, then, freeAt, exitVars>>

\* A list is begun under a context that expires at limit.
Stop(list, limit) ==
    /\ todo' = list
    /\ deadline' = limit
    /\ UNCHANGED <<stopAsked, shutdownFailed>>

Idle == todo = <<>>

-----------------------------------------------------------------------------
(* run.                                                                    *)

Exit(code, reason) ==
    /\ pc' = "exited"
    /\ exitCode' = code
    /\ why' = IF why = "none" THEN reason ELSE why

RunHelp ==
    /\ pc = "init"
    /\ Exit(0, "help")
    /\ UNCHANGED <<stage, stopVars, signal, fatal, serve, readySent, then, freeAt>>

RunConfigurationError ==
    /\ pc = "init"
    /\ Exit(2, "configuration")
    /\ UNCHANGED <<stage, stopVars, signal, fatal, serve, readySent, then, freeAt>>

RunSignalledEarly ==
    /\ pc = "init"
    /\ signal
    /\ Exit(0, "signal")
    /\ UNCHANGED <<stage, stopVars, signal, fatal, serve, readySent, then, freeAt>>

RunStart ==
    /\ pc = "init"
    /\ ~signal
    /\ pc' = "starting"
    /\ UNCHANGED <<stage, stopVars, signal, fatal, serve, readySent, then, freeAt, exitVars>>

Started(n) == n = Len(Startup)

\* A call of startHTTP succeeds.  After the last one run starts Serve.
StartStep ==
    /\ pc = "starting"
    /\ stage' = stage + 1
    /\ IF Started(stage')
       THEN pc' = "firstSelect" /\ serve' = "running"
       ELSE UNCHANGED <<pc, serve>>
    /\ UNCHANGED <<stopVars, signal, fatal, readySent, then, freeAt, exitVars>>

\* It fails, and closes its own list.
StartFails ==
    /\ pc = "starting"
    /\ pc' = "cleaning"
    /\ Stop(Cleanup(Startup[stage + 1]), CleanupDeadline(Startup[stage + 1]))
    /\ UNCHANGED <<stage, elapsed, signal, fatal, serve, readySent, then, freeAt, exitVars>>

\* After a signal, even one that came during the cleanup, that is no error.
StartReturns ==
    /\ pc = "cleaning" /\ Idle
    /\ IF signal THEN Exit(0, "signal") ELSE Exit(1, "startup")
    /\ UNCHANGED <<stage, stopVars, signal, fatal, serve, readySent, then, freeAt>>

\* The three ways a select of run ends; any that is ready may be taken.
Selecting == pc \in {"firstSelect", "secondSelect"}

SelectSignal ==
    /\ Selecting /\ signal
    /\ pc' = "shutDown" /\ then' = "code" /\ why' = "signal"
    /\ UNCHANGED <<stage, stopVars, signal, fatal, serve, readySent, freeAt, exitCode>>

ThenAfterFatalMutant == "code"
ThenAfterFatal == "one"

FatalSeenMutant == fatal = "queued" /\ pc = "firstSelect"
FatalSeen == fatal = "queued"

SelectFatal ==
    /\ Selecting /\ FatalSeen
    /\ pc' = "shutDown" /\ then' = ThenAfterFatal /\ why' = "fatal"
    /\ UNCHANGED <<stage, stopVars, signal, fatal, serve, readySent, freeAt, exitCode>>

\* unexpectedServeExit closes the runtime.
SelectServe ==
    /\ Selecting /\ serve \in {"ok", "error"}
    /\ pc' = "closingAfterServe" /\ why' = "serve"
    /\ Stop(CloseList, elapsed + ShutdownTimeout)
    /\ UNCHANGED <<stage, elapsed, signal, fatal, serve, readySent, then, freeAt, exitCode>>

ServeExitReturns ==
    /\ pc = "closingAfterServe" /\ Idle
    /\ Exit(1, "serve")
    /\ UNCHANGED <<stage, stopVars, signal, fatal, serve, readySent, then, freeAt>>

\* The first select has a default branch.
SelectNothing ==
    /\ pc = "firstSelect"
    /\ ~signal /\ fatal # "queued" /\ serve = "running"
    /\ pc' = "gate"
    /\ UNCHANGED <<stage, stopVars, signal, fatal, serve, readySent, then, freeAt, exitVars>>

-----------------------------------------------------------------------------
(* readinessGate.notify.                                                   *)

\* notify failed: a signal makes it an ordinary shutdown.
NotReady ==
    /\ pc' = "shutDown"
    /\ IF signal
       THEN then' = "code" /\ why' = "signal"
       ELSE then' = "one" /\ why' = IF fatal # "none" THEN "fatal" ELSE "notify"

GateRefuses ==
    /\ pc = "gate"
    /\ fatal # "none" \/ signal
    /\ NotReady
    /\ UNCHANGED <<stage, stopVars, signal, fatal, serve, readySent, freeAt, exitCode>>

GateOpens ==
    /\ pc = "gate"
    /\ fatal = "none" /\ ~signal
    /\ pc' = "sending"
    /\ UNCHANGED <<stage, stopVars, signal, fatal, serve, readySent, then, freeAt, exitVars>>

\* A fatal error that came while the datagram was sent withdraws readiness.
ReadinessHoldsMutant == TRUE
ReadinessHolds == fatal = "none"

SendReady ==
    /\ pc = "sending"
    /\ readySent' = TRUE
    /\ IF ReadinessHolds
       THEN pc' = "secondSelect" /\ UNCHANGED <<then, why>>
       ELSE NotReady
    /\ UNCHANGED <<stage, stopVars, signal, fatal, serve, freeAt, exitCode>>

SendFails ==
    /\ pc = "sending"
    /\ NotReady
    /\ UNCHANGED <<stage, stopVars, signal, fatal, serve, readySent, freeAt, exitCode>>

-----------------------------------------------------------------------------
(* shutDown.                                                               *)

ShutDown ==
    /\ pc = "shutDown"
    /\ pc' = "shuttingDown"
    /\ Stop(ShutdownList, elapsed + ShutdownTimeout)
    /\ UNCHANGED <<stage, elapsed, signal, fatal, serve, readySent, then, freeAt, exitVars>>

\* Runtime.Shutdown has returned; after an error the runtime is closed, too,
\* and Close opens a deadline of its own.
ShutdownReturns ==
    /\ pc = "shuttingDown" /\ Idle
    /\ IF shutdownFailed
       THEN pc' = "closing" /\ Stop(CloseList, elapsed + ShutdownTimeout)
       ELSE pc' = "drain" /\ UNCHANGED <<todo, deadline, stopAsked, shutdownFailed>>
    /\ UNCHANGED <<stage, elapsed, signal, fatal, serve, readySent, then, freeAt, exitVars>>

CloseReturns ==
    /\ pc = "closing" /\ Idle
    /\ pc' = "drain"
    /\ UNCHANGED <<stage, stopVars, signal, fatal, serve, readySent, then, freeAt, exitVars>>

ExitAs(code) == Exit(IF then = "one" THEN 1 ELSE code, "none")

\* The select between serveResult and the timer for what remains of the
\* limit.  The timer wins when Serve is late, and when nothing remains it may
\* win over a result.
DrainServe ==
    /\ pc = "drain"
    /\ serve \in {"ok", "error"}
    /\ ExitAs(IF shutdownFailed \/ serve = "error" THEN 1 ELSE 0)
    /\ UNCHANGED <<stage, stopVars, signal, fatal, serve, readySent, then, freeAt>>

TimerFiresMutant(t) == t + ShutdownTimeout
TimerFires(t) == Later(t, ShutdownTimeout)

DrainTimeout ==
    /\ pc = "drain"
    /\ serve = "running" \/ elapsed >= ShutdownTimeout
    /\ elapsed' = TimerFires(elapsed)
    /\ pc' = "closingLate"
    /\ Stop(CloseList, elapsed' + ShutdownTimeout)
    /\ UNCHANGED <<stage, signal, fatal, serve, readySent, then, freeAt, exitVars>>

TimeoutReturns ==
    /\ pc = "closingLate" /\ Idle
    /\ ExitAs(1)
    /\ UNCHANGED <<stage, stopVars, signal, fatal, serve, readySent, then, freeAt>>

-----------------------------------------------------------------------------
Select == SelectSignal \/ SelectFatal \/ SelectServe \/ SelectNothing
Notify == GateRefuses \/ GateOpens \/ SendReady \/ SendFails
StartHTTP == StartStep \/ StartFails \/ StartReturns
StopRuntime ==
    \/ StopNext
    \/ ServeExitReturns
    \/ ShutDown \/ ShutdownReturns \/ CloseReturns
    \/ DrainServe \/ DrainTimeout \/ TimeoutReturns

Run ==
    \/ RunHelp \/ RunConfigurationError \/ RunSignalledEarly \/ RunStart
    \/ StartHTTP \/ Select \/ Notify \/ StopRuntime

Terminated == pc = "exited" /\ UNCHANGED vars

Next ==
    \/ Run
    \/ SignalArrives \/ FatalDetected \/ FatalFlagged \/ FatalQueued \/ ServeEnds
    \/ Terminated

Spec == Init /\ [][Next]_vars

\* run and the goroutine in notifyFatal are scheduled, and Serve returns
\* once its listener is closed; signals and defects need not happen.
FairSpec ==
    /\ Spec
    /\ WF_vars(Run) /\ WF_vars(FatalFlagged) /\ WF_vars(FatalQueued)
    /\ WF_vars("server" \in stopAsked /\ ServeEnds)

-----------------------------------------------------------------------------
(* Properties.                                                             *)

\* Exit status 0 is help or an operator's stop, never a defect or a failure
\* on its own.  When the service had come up it is a stop that was carried
\* out: Serve has returned without an error, and the server and the observer
\* have come to rest, none of them abandoned at the limit.  Conversely, an
\* operator's stop fails for one of three reasons only: a component did not
\* stop, Serve failed, or the limit had passed.  A defect that shutdown
\* itself provokes in a component is not among them.
CleanExit ==
    /\ (pc = "exited" /\ exitCode = 0) =>
          /\ why \in {"help", "signal"}
          /\ why = "signal" => signal
          /\ stage = Len(Startup) =>
                serve = "ok" /\ freeAt["server"] <= elapsed /\ freeAt["observer"] <= elapsed
    /\ (pc = "exited" /\ exitCode = 1 /\ why = "signal") =>
          shutdownFailed \/ serve = "error" \/ elapsed >= ShutdownTimeout

\* READY=1 goes out only when every startup step has succeeded and no defect
\* had been flagged when the gate was locked; run enters its wait for the end
\* of the service only when no defect was detected while it was sent.
ReadyStep ==
    /\ readySent' # readySent => stage = Len(Startup) /\ fatal \in {"none", "detected"}
    /\ (pc' # pc /\ pc' = "secondSelect") => fatal = "none"
ReadyMeansServing == [][ReadyStep]_vars

\* Each of the paths out of the process has a list of its own, and none of
\* the lists forgets what has been started by then: the observer from its
\* construction on (its context), the executor's goroutine from Start, the
\* socket from Listen.  And the server is stopped before the components its
\* requests use.
HeldFrom == [observer |-> 1, firmware |-> 3, server |-> 6]
Held == {c \in Components : stage >= HeldFrom[c]}
EverythingStopped ==
    /\ pc = "exited" => Held \subseteq stopAsked
    /\ "server" \in Held /\ stopAsked # {} => "server" \in stopAsked

\* Components that stop within the limit make the process stop within it.
\* Whatever they do, shutdown ends after three limits: one for Shutdown, one
\* for the Close after it and one for the Close of the timer.
StopTime ==
    /\ (\A c \in Components : freeAt[c] <= ShutdownTimeout) => elapsed <= ShutdownTimeout
    /\ elapsed <= 3 * ShutdownTimeout

\* A defect, like a signal, ends the process, wherever run is and whatever
\* else happens at the same time.
EndsWhenTold == (signal \/ fatal # "none") ~> pc = "exited"

\* "Shutdown ... never exceeds the service's two-second bound"
\* (docs/architecture-v0.1.md): the limit holds whatever a component does.
\* Runtime.Close opens a second deadline after the first has been used up.
StopWithinLimit == elapsed <= ShutdownTimeout
=============================================================================
