-------------------------- MODULE LifecycleProofs --------------------------
(***************************************************************************)
(* Proofs about Lifecycle for every shutdown limit and every time at which *)
(* the components come to rest.                                            *)
(***************************************************************************)
EXTENDS Lifecycle, TLAPS

Up == {"firstSelect", "gate", "sending", "secondSelect"}
Leaving == {"shutDown", "drain", "shuttingDown", "closing", "closingAfterServe", "closingLate"}

\* How far startup has come, by the place of run.
StageInv ==
    /\ pc = "init" => stage = 0
    /\ pc \in {"starting", "cleaning"} => stage < 9
    /\ pc \in Up \cup Leaving => stage = 9

\* Which list run works off.
Tails == {<<"observer", "firmware">>, <<"firmware">>, <<>>}
ListInv ==
    /\ pc \notin Stopping => todo = <<>>
    /\ pc = "shuttingDown" => todo \in {ShutdownList} \cup Tails
    /\ pc \in {"closing", "closingAfterServe", "closingLate"} => todo \in {CloseList} \cup Tails
    /\ pc = "cleaning" =>
        /\ todo # ShutdownList
        /\ todo = <<"observer">> => stage < 3

\* What has been started has been asked to stop or is on the list.
ReachInv ==
    /\ pc \in Stopping /\ todo \notin {ShutdownList, CloseList} /\ stage >= 6 =>
          "server" \in stopAsked
    /\ pc \in Stopping /\ todo \in {<<"firmware">>, <<>>} /\ stage >= 1 =>
          "observer" \in stopAsked
    /\ pc \in Stopping /\ todo = <<>> /\ stage >= 3 => "firmware" \in stopAsked
    /\ pc = "drain" => stopAsked = Components
    /\ pc \in {"init", "starting", "shutDown"} \cup Up => stopAsked = {}
    /\ pc = "sending" => fatal \in {"none", "detected"}

\* The time used so far, by the place of run.
Prompt == \A c \in Components : freeAt[c] <= ShutdownTimeout
TimeInv ==
    /\ pc \notin Stopping \cup {"drain", "exited"} => elapsed = 0
    /\ pc = "cleaning" /\ deadline = NoDeadline => elapsed = 0 /\ stage < 6
    /\ pc \in Stopping /\ deadline # NoDeadline => elapsed <= deadline
    /\ pc \in Stopping \ {"cleaning"} => deadline # NoDeadline
    /\ pc \in {"cleaning", "shuttingDown", "closingAfterServe"} => deadline <= ShutdownTimeout
    /\ pc = "closing" => deadline <= 2 * ShutdownTimeout
    /\ pc = "drain" => elapsed <= 2 * ShutdownTimeout
    /\ pc = "closingLate" => deadline <= 3 * ShutdownTimeout /\ ShutdownTimeout <= elapsed

\* What run will return, and why, is settled when it begins to shut down.
\* Unless an error was reported, the server and the observer have come to
\* rest when Shutdown is past them.
AtRest(c) == freeAt[c] <= elapsed
VerdictInv ==
    /\ (pc \in Leaving /\ then = "code") => why \in {"signal", "serve"}
    /\ pc = "closingAfterServe" <=> (why = "serve" /\ pc # "exited")
    /\ why = "signal" => signal
    /\ (pc \in Leaving /\ why = "signal") => then = "code"
    /\ pc \in Leaving => why # "none"
    /\ pc \notin Leaving \cup {"exited"} => why = "none"
    /\ pc = "closing" => shutdownFailed
    /\ (pc = "shuttingDown" /\ ~shutdownFailed) =>
          /\ todo # ShutdownList => AtRest("server")
          /\ todo \in {<<"firmware">>, <<>>} => AtRest("observer")
    /\ (pc = "drain" /\ ~shutdownFailed) => AtRest("server") /\ AtRest("observer")

IInv ==
    /\ TypeOK /\ StageInv /\ ListInv /\ ReachInv /\ TimeInv /\ VerdictInv
    /\ CleanExit /\ EverythingStopped /\ StopTime

-----------------------------------------------------------------------------
\* startHTTP has nine steps.
LEMMA StartupFacts == Len(Startup) = 9 /\ Components = {"firmware", "server", "observer"}
  BY DEF Startup, Components

\* The lists and their parts.
LEMMA ListFacts ==
    /\ Head(ShutdownList) = "drain" /\ Tail(ShutdownList) = <<"observer", "firmware">>
    /\ Head(CloseList) = "server" /\ Tail(CloseList) = <<"observer", "firmware">>
    /\ Head(<<"observer", "firmware">>) = "observer"
    /\ Tail(<<"observer", "firmware">>) = <<"firmware">>
    /\ Head(<<"observer">>) = "observer" /\ Tail(<<"observer">>) = <<>>
    /\ Head(<<"firmware">>) = "firmware" /\ Tail(<<"firmware">>) = <<>>
    /\ Len(ShutdownList) = 3 /\ Len(CloseList) = 3 /\ Len(<<"observer", "firmware">>) = 2
    /\ Len(<<"observer">>) = 1 /\ Len(<<"firmware">>) = 1 /\ Len(<<>>) = 0
    /\ ShutdownList # CloseList /\ <<"observer">> # <<"firmware">>
  <1>1. ShutdownList[1] = "drain" /\ CloseList[1] = "server"
    BY DEF ShutdownList, CloseList
  <1>2. <<"observer">>[1] = "observer" /\ <<"firmware">>[1] = "firmware"
    OBVIOUS
  <1> QED
    BY <1>1, <1>2 DEF ShutdownList, CloseList

\* No two of them are equal.
LEMMA ListsDiffer ==
    /\ ShutdownList \notin {CloseList, <<"observer", "firmware">>, <<"observer">>, <<"firmware">>,
                          <<>>}
    /\ CloseList \notin {<<"observer", "firmware">>, <<"observer">>, <<"firmware">>, <<>>}
    /\ <<"observer", "firmware">> \notin {<<"observer">>, <<"firmware">>, <<>>}
    /\ <<"observer">> \notin {<<"firmware">>, <<>>} /\ <<"firmware">> # <<>>
  BY ListFacts

\* What a failed call of startHTTP closes, by the number of calls before it.
LEMMA CleanupFacts ==
    ASSUME NEW n \in 0..8
    PROVE  LET call == Startup[n + 1]
           IN  /\ n = 0 => Cleanup(call) = <<>>
               /\ n \in {1, 2} => Cleanup(call) = <<"observer">>
               /\ n \in 3..5 => Cleanup(call) = <<"observer", "firmware">>
               /\ n \in 6..8 => Cleanup(call) = CloseList
               /\ CleanupDeadline(call) = IF n >= 6 THEN ShutdownTimeout ELSE NoDeadline
  <1>1. CASE n = 0
    BY <1>1 DEF Startup, Cleanup, CleanupDeadline
  <1>2. CASE n \in {1, 2}
    BY <1>2 DEF Startup, Cleanup, CleanupDeadline
  <1>3. CASE n \in 3..5
    BY <1>3 DEF Startup, Cleanup, CleanupDeadline
  <1>4. CASE n \in 6..8
    BY <1>4 DEF Startup, Cleanup, CleanupDeadline
  <1> QED
    BY <1>1, <1>2, <1>3, <1>4

Calls == {"drain", "server", "observer", "firmware"}

\* A stopping call ends between now and the deadline, at once as long as
\* nothing runs, and within the limit if every component does.
LEMMA CallBounds ==
    ASSUME NEW call \in Calls, freeAt \in [Components -> Nat], elapsed \in Nat, stage \in 0..9,
           deadline \in Nat \cup {NoDeadline}
    PROVE  /\ ReturnsAt(call) \in Nat /\ elapsed <= ReturnsAt(call)
           /\ deadline # NoDeadline /\ elapsed <= deadline => ReturnsAt(call) <= deadline
           /\ Prompt /\ elapsed <= ShutdownTimeout => ReturnsAt(call) <= ShutdownTimeout
           /\ stage < 6 /\ call # "drain" /\ elapsed = 0 => ReturnsAt(call) = 0
  <1> USE TimeoutAssumption, StartupFacts
  <1>1. CASE call = "drain"
    BY <1>1 DEF ReturnsAt, RestAt, Later, Earlier, Prompt, NoDeadline
  <1>2. CASE call = "server"
    BY <1>2 DEF ReturnsAt, RestAt, Later, Earlier, Prompt, NoDeadline
  <1>3. CASE call = "observer"
    BY <1>3 DEF ReturnsAt, RestAt, Later, Earlier, Prompt, NoDeadline
  <1>4. CASE call = "firmware"
    BY <1>4 DEF ReturnsAt, RestAt, Later, Earlier, Prompt, NoDeadline
  <1> QED
    BY <1>1, <1>2, <1>3, <1>4 DEF Calls

-----------------------------------------------------------------------------
\* The invariant holds before the process has done anything.
LEMMA InitInv == Init => IInv
  <1> SUFFICES ASSUME Init PROVE IInv
    OBVIOUS
  <1>1. freeAt \in [Components -> Nat]
    BY FreeTimesAssumption DEF Init
  <1>2. TypeOK
    <2>1. signal \in BOOLEAN /\ readySent \in BOOLEAN /\ shutdownFailed \in BOOLEAN
      BY Zenon DEF Init
    <2> QED
      BY <1>1, <2>1, StartupFacts DEF Init, TypeOK
  <1>3. StageInv /\ ListInv /\ ReachInv /\ TimeInv /\ VerdictInv
    BY DEF Init, StageInv, ListInv, ReachInv, TimeInv, VerdictInv, Up, Leaving, Stopping
  <1>4. CleanExit /\ EverythingStopped
    BY DEF Init, CleanExit, EverythingStopped
  <1>5. StopTime
    BY TimeoutAssumption DEF Init, StopTime
  <1> QED
    BY <1>2, <1>3, <1>4, <1>5 DEF IInv

\* Signals, defects and the end of Serve disturb none of it.
LEMMA EnvironmentStep ==
    ASSUME IInv, SignalArrives \/ FatalDetected \/ FatalFlagged \/ FatalQueued \/ ServeEnds
    PROVE  IInv'
  <1> USE StartupFacts
      DEF IInv, TypeOK, StageInv, ListInv, ReachInv, TimeInv, VerdictInv, CleanExit,
          EverythingStopped, StopTime, Prompt, AtRest, Held, Up, Leaving, Stopping, stopVars,
          exitVars
  <1>1. CASE SignalArrives
    BY <1>1 DEF SignalArrives
  <1>2. CASE FatalDetected
    BY <1>2 DEF FatalDetected
  <1>3. CASE FatalFlagged
    BY <1>3 DEF FatalFlagged
  <1>4. CASE FatalQueued
    BY <1>4 DEF FatalQueued
  <1>5. CASE ServeEnds
    BY <1>5 DEF ServeEnds
  <1> QED
    BY <1>1, <1>2, <1>3, <1>4, <1>5

\* A failed call of startHTTP begins the cleanup of what was started.
LEMMA StartFailsInv == ASSUME IInv, StartFails PROVE IInv'
  <1>1. /\ stage \in 0..8 /\ pc = "starting" /\ stopAsked = {} /\ elapsed = 0
        /\ fatal \in {"none", "detected", "flagged", "queued"} /\ why = "none"
    BY StartupFacts DEF StartFails, IInv, TypeOK, StageInv, ReachInv, TimeInv, VerdictInv, Up,
                        Leaving, Stopping
  <1>2. /\ stage = 0 => todo' = <<>>
        /\ stage \in {1, 2} => todo' = <<"observer">>
        /\ stage \in 3..5 => todo' = <<"observer", "firmware">>
        /\ stage \in 6..8 => todo' = CloseList
        /\ deadline' = IF stage >= 6 THEN ShutdownTimeout ELSE NoDeadline
    BY <1>1, CleanupFacts DEF StartFails, Stop
  <1>3. /\ pc' = "cleaning"
        /\ UNCHANGED <<stage, stopAsked, elapsed, shutdownFailed, signal, fatal, serve,
                       readySent, then, freeAt, exitCode, why>>
    BY DEF StartFails, Stop, exitVars
  <1>4. stage = 0 \/ stage \in {1, 2} \/ stage \in 3..5 \/ stage \in 6..8
    BY <1>1
  <1>5. TypeOK'
    BY <1>1, <1>2, <1>3, <1>4, TimeoutAssumption DEF IInv, TypeOK, Stopping
  <1>6. StageInv'
    BY <1>1, <1>3 DEF StageInv, Up, Leaving
  <1>7. VerdictInv'
    BY <1>1, <1>3 DEF VerdictInv, Leaving
  <1>8. CleanExit' /\ EverythingStopped'
    BY <1>1, <1>3 DEF CleanExit, EverythingStopped
  <1>9. StopTime'
    BY <1>1, <1>3, TimeoutAssumption DEF StopTime
  <1>10. TimeInv'
    BY <1>1, <1>2, <1>3, TimeoutAssumption DEF TimeInv, NoDeadline, Stopping
  <1>11. ListInv'
    BY <1>1, <1>2, <1>3, <1>4, ListsDiffer DEF ListInv, Stopping
  <1>12. ReachInv'
    <2>1. pc' \notin {"init", "starting", "shutDown", "drain"} \cup Up /\ pc' # "sending"
      BY <1>3 DEF Up
    <2>2. CASE stage = 0
      BY <1>3, <2>1, <2>2 DEF ReachInv
    <2>3. CASE stage \in {1, 2}
      BY <1>2, <1>3, <2>1, <2>3, ListsDiffer DEF ReachInv
    <2>4. CASE stage \in 3..5
      BY <1>2, <1>3, <2>1, <2>4, ListsDiffer DEF ReachInv
    <2>5. CASE stage \in 6..8
      BY <1>2, <1>3, <2>1, <2>5, ListsDiffer DEF ReachInv
    <2> QED
      BY <1>4, <2>2, <2>3, <2>4, <2>5
  <1> QED
    BY <1>5, <1>6, <1>7, <1>8, <1>9, <1>10, <1>11, <1>12 DEF IInv

\* So does everything run does before it waits.
LEMMA StartStepInv ==
    ASSUME IInv,
           \/ RunHelp \/ RunConfigurationError \/ RunSignalledEarly \/ RunStart
           \/ StartHTTP
    PROVE  IInv'
  <1> USE StartupFacts, TimeoutAssumption
      DEF IInv, TypeOK, StageInv, ListInv, ReachInv, TimeInv, VerdictInv, CleanExit,
          EverythingStopped, StopTime, Prompt, AtRest, Held, HeldFrom, Up, Leaving, Stopping,
          stopVars, exitVars, Exit
  <1>1. CASE RunHelp
    BY <1>1 DEF RunHelp
  <1>2. CASE RunConfigurationError
    BY <1>2 DEF RunConfigurationError
  <1>3. CASE RunSignalledEarly
    BY <1>3 DEF RunSignalledEarly
  <1>4. CASE RunStart
    BY <1>4 DEF RunStart
  <1>5. CASE StartStep
    <2>1. /\ pc = "starting" /\ stage \in 0..8 /\ stage' = stage + 1 /\ stopAsked = {}
          /\ \/ stage' = 9 /\ pc' = "firstSelect" /\ serve' = "running"
             \/ stage' # 9 /\ pc' = pc /\ serve' = serve
          /\ UNCHANGED <<todo, deadline, stopAsked, elapsed, shutdownFailed, signal, fatal,
                         readySent, then, freeAt, exitCode, why>>
      BY <1>5 DEF StartStep, Started
    <2>2. TypeOK' /\ StageInv' /\ ListInv' /\ ReachInv'
      BY <2>1
    <2>3. TimeInv' /\ VerdictInv' /\ CleanExit' /\ EverythingStopped' /\ StopTime'
      BY <2>1
    <2> QED
      BY <2>2, <2>3
  <1>6. CASE StartFails
    BY <1>6, StartFailsInv
  <1>7. CASE StartReturns
    BY <1>7, ListFacts DEF StartReturns, Idle
  <1> QED
    BY <1>1, <1>2, <1>3, <1>4, <1>5, <1>6, <1>7 DEF StartHTTP

\* The selects and the readiness gate keep it.
LEMMA SelectStep ==
    ASSUME IInv, Select \/ Notify PROVE IInv'
  <1> USE StartupFacts, TimeoutAssumption
      DEF IInv, TypeOK, StageInv, ListInv, ReachInv, TimeInv, VerdictInv, CleanExit,
          EverythingStopped, StopTime, Prompt, AtRest, Held, Up, Leaving, Stopping, stopVars,
          exitVars, Exit, NotReady, Selecting
  <1>1. CASE SelectSignal
    BY <1>1 DEF SelectSignal
  <1>2. CASE SelectFatal
    BY <1>2 DEF SelectFatal, FatalSeen, ThenAfterFatal
  <1>3. CASE SelectServe
    BY <1>3, ListFacts DEF SelectServe, Stop, NoDeadline, Tails
  <1>4. CASE SelectNothing
    BY <1>4 DEF SelectNothing
  <1>5. CASE GateRefuses
    BY <1>5 DEF GateRefuses
  <1>6. CASE GateOpens
    BY <1>6 DEF GateOpens
  <1>7. CASE SendReady
    BY <1>7 DEF SendReady, ReadinessHolds
  <1>8. CASE SendFails
    BY <1>8 DEF SendFails
  <1> QED
    BY <1>1, <1>2, <1>3, <1>4, <1>5, <1>6, <1>7, <1>8 DEF Select, Notify

\* The parts of a call of StopNext that its list determines.
LEMMA StopNextFacts ==
    ASSUME IInv, StopNext
    PROVE  LET call == Head(todo)
           IN  /\ call \in Calls
               /\ todo' = Tail(todo) /\ elapsed' = ReturnsAt(call)
               /\ UNCHANGED <<pc, stage, deadline, signal, fatal, serve, readySent, then, freeAt,
                              exitCode, why>>
               /\ stopAsked' = stopAsked \cup {IF call = "drain" THEN "server" ELSE call}
               /\ shutdownFailed' \in BOOLEAN
               /\ pc # "shuttingDown" => shutdownFailed' = shutdownFailed
               /\ shutdownFailed => shutdownFailed'
               /\ pc = "shuttingDown" /\ ~shutdownFailed' /\ call \in {"drain", "observer"} =>
                     RestAt(call) <= elapsed'
               /\ \/ todo = ShutdownList /\ call = "drain" /\ todo' = <<"observer", "firmware">>
                  \/ todo = CloseList /\ call = "server" /\ todo' = <<"observer", "firmware">>
                  \/ /\ todo = <<"observer", "firmware">> /\ call = "observer"
                     /\ todo' = <<"firmware">>
                  \/ todo = <<"observer">> /\ call = "observer" /\ todo' = <<>>
                  \/ todo = <<"firmware">> /\ call = "firmware" /\ todo' = <<>>
  <1>1. /\ \/ todo = ShutdownList /\ Head(todo) = "drain" /\ Tail(todo) = <<"observer", "firmware">>
           \/ todo = CloseList /\ Head(todo) = "server" /\ Tail(todo) = <<"observer", "firmware">>
           \/ /\ todo = <<"observer", "firmware">> /\ Head(todo) = "observer"
              /\ Tail(todo) = <<"firmware">>
           \/ todo = <<"observer">> /\ Head(todo) = "observer" /\ Tail(todo) = <<>>
           \/ todo = <<"firmware">> /\ Head(todo) = "firmware" /\ Tail(todo) = <<>>
    <2>1. todo \in {<<"firmware">>, <<"observer">>, <<"observer", "firmware">>, CloseList,
                   ShutdownList}
      BY DEF IInv, TypeOK, StopNext
    <2> QED
      BY <2>1, ListFacts
  <1>2. Head(todo) \in Calls
    BY <1>1 DEF Calls
  <1>3. PICK err \in BOOLEAN :
            /\ Head(todo) \in {"drain", "observer"} /\ ~err => RestAt(Head(todo)) <= elapsed'
            /\ shutdownFailed' = (shutdownFailed \/ (pc = "shuttingDown" /\ err))
    BY DEF StopNext
  <1>4. shutdownFailed \in BOOLEAN
    BY DEF IInv, TypeOK
  <1>5. /\ shutdownFailed' \in BOOLEAN
        /\ pc # "shuttingDown" => shutdownFailed' = shutdownFailed
        /\ shutdownFailed => shutdownFailed'
        /\ pc = "shuttingDown" /\ ~shutdownFailed' /\ Head(todo) \in {"drain", "observer"} =>
              RestAt(Head(todo)) <= elapsed'
    BY <1>3, <1>4, Zenon
  <1> QED
    BY <1>1, <1>2, <1>5 DEF StopNext, exitVars

\* A stopping call keeps the invariant, whatever the component does.
LEMMA StopNextInv == ASSUME IInv, StopNext PROVE IInv'
  <1> DEFINE call == Head(todo)
  <1>1. pc \in Stopping
    BY DEF StopNext
  <1>2. /\ freeAt \in [Components -> Nat] /\ elapsed \in Nat /\ stage \in 0..9
        /\ deadline \in Nat \cup {NoDeadline}
    BY StartupFacts DEF IInv, TypeOK
  <1>3. /\ call \in Calls
        /\ todo' = Tail(todo) /\ elapsed' = ReturnsAt(call)
        /\ UNCHANGED <<pc, stage, deadline, signal, fatal, serve, readySent, then, freeAt, exitCode,
                       why>>
        /\ stopAsked' = stopAsked \cup {IF call = "drain" THEN "server" ELSE call}
        /\ shutdownFailed' \in BOOLEAN
        /\ pc # "shuttingDown" => shutdownFailed' = shutdownFailed
        /\ shutdownFailed => shutdownFailed'
        /\ pc = "shuttingDown" /\ ~shutdownFailed' /\ call \in {"drain", "observer"} =>
              RestAt(call) <= elapsed'
    BY StopNextFacts
  <1>4. \/ todo = ShutdownList /\ call = "drain" /\ todo' = <<"observer", "firmware">>
        \/ todo = CloseList /\ call = "server" /\ todo' = <<"observer", "firmware">>
        \/ todo = <<"observer", "firmware">> /\ call = "observer" /\ todo' = <<"firmware">>
        \/ todo = <<"observer">> /\ call = "observer" /\ todo' = <<>>
        \/ todo = <<"firmware">> /\ call = "firmware" /\ todo' = <<>>
    BY StopNextFacts
  <1>5. /\ elapsed' \in Nat /\ elapsed <= elapsed'
        /\ deadline # NoDeadline /\ elapsed <= deadline => elapsed' <= deadline
        /\ Prompt /\ elapsed <= ShutdownTimeout => elapsed' <= ShutdownTimeout
        /\ stage < 6 /\ call # "drain" /\ elapsed = 0 => elapsed' = 0
    BY <1>2, <1>3, CallBounds
  <1>6. /\ call = "drain" => RestAt(call) = freeAt["server"]
        /\ call = "observer" /\ stage = 9 => RestAt(call) = freeAt["observer"]
    BY DEF RestAt
  <1>7. Prompt' = Prompt
    BY <1>3 DEF Prompt
  <1> HIDE DEF call
  <1>8. TypeOK'
    <2>1. stopAsked' \subseteq Components
      BY <1>3, StartupFacts DEF IInv, TypeOK, Calls
    <2> QED
      BY <1>3, <1>4, <1>5, <2>1 DEF IInv, TypeOK
  <1>9. StageInv'
    BY <1>3 DEF IInv, StageInv
  <1>10. ListInv'
    <2>1. pc \in {"shuttingDown", "closing", "closingAfterServe", "closingLate"} =>
              todo \in {ShutdownList, CloseList} \cup Tails
      BY DEF IInv, ListInv
    <2>2. todo' \in Tails
      BY <1>4 DEF Tails
    <2>3. todo' # <<"observer">> /\ todo' # ShutdownList
      BY <2>2, ListsDiffer DEF Tails
    <2> QED
      BY <1>1, <1>3, <2>2, <2>3 DEF ListInv, Stopping
  <1>11. ReachInv'
    <2>1. /\ pc' \in Stopping
          /\ pc' \notin {"init", "starting", "shutDown", "sending", "drain"} \cup Up
      BY <1>1, <1>3 DEF Stopping, Up
    <2>2. \/ call \in {"drain", "server"} /\ "server" \in stopAsked'
          \/ call = "observer" /\ "observer" \in stopAsked'
          \/ call = "firmware" /\ "firmware" \in stopAsked'
      BY <1>3 DEF Calls
    <2>3. todo' \notin {ShutdownList, CloseList} /\ stage' >= 6 => "server" \in stopAsked'
      BY <1>1, <1>3, <1>4, <2>2, ListFacts DEF IInv, ReachInv
    <2>4. todo' \in {<<"firmware">>, <<>>} /\ stage' >= 1 => "observer" \in stopAsked'
      BY <1>1, <1>3, <1>4, <2>2, ListFacts DEF IInv, ReachInv
    <2>5. todo' = <<>> /\ stage' >= 3 => "firmware" \in stopAsked'
      <3>1. stage >= 3 => todo # <<"observer">>
        <4>1. pc \notin {"cleaning"} => todo \in {ShutdownList, CloseList} \cup Tails
          BY <1>1 DEF IInv, ListInv, Stopping
        <4>2. pc = "cleaning" /\ todo = <<"observer">> => stage < 3
          BY DEF IInv, ListInv
        <4> QED
          BY <1>2, <4>1, <4>2, ListsDiffer DEF Tails
      <3> QED
        BY <1>3, <1>4, <2>2, <3>1, ListsDiffer
    <2> QED
      BY <2>1, <2>3, <2>4, <2>5 DEF ReachInv
  <1>12. TimeInv'
    <2>1. pc' = "cleaning" /\ deadline' = NoDeadline => elapsed' = 0 /\ stage' < 6
      BY <1>3, <1>4, <1>5 DEF IInv, TimeInv, ListInv
    <2>2. pc' = "closingLate" => ShutdownTimeout <= elapsed'
      BY <1>2, <1>3, <1>5, TimeoutAssumption DEF IInv, TimeInv
    <2> QED
      BY <1>1, <1>3, <1>5, <2>1, <2>2 DEF IInv, TimeInv, Stopping
  <1>13. VerdictInv'
    <2>1. ASSUME pc' = "shuttingDown", ~shutdownFailed'
          PROVE  /\ todo' # ShutdownList => AtRest("server")'
                 /\ todo' \in {<<"firmware">>, <<>>} => AtRest("observer")'
      <3>1. pc = "shuttingDown" /\ ~shutdownFailed /\ stage = 9
        BY <1>3, <2>1 DEF IInv, StageInv, Leaving
      <3>2. \A c \in Components : AtRest(c) => AtRest(c)'
        BY <1>2, <1>3, <1>5 DEF AtRest
      <3>3. call = "drain" => AtRest("server")'
        BY <1>3, <1>6, <2>1, <3>1 DEF AtRest
      <3>4. call = "observer" => AtRest("observer")'
        BY <1>3, <1>6, <2>1, <3>1 DEF AtRest
      <3>5. todo \in {ShutdownList} \cup Tails
        BY <3>1 DEF IInv, ListInv
      <3>6. /\ todo # ShutdownList => AtRest("server")
            /\ todo \in {<<"firmware">>, <<>>} => AtRest("observer")
        BY <3>1 DEF IInv, VerdictInv
      <3>7. {"server", "observer"} \subseteq Components
        BY StartupFacts
      <3> QED
        BY <1>4, <3>2, <3>3, <3>4, <3>5, <3>6, <3>7, ListFacts DEF Tails
    <2> QED
      BY <1>1, <1>3, <2>1 DEF IInv, VerdictInv, Stopping, Leaving
  <1>14. CleanExit' /\ EverythingStopped'
    <2>1. pc' # "exited"
      BY <1>1, <1>3 DEF Stopping
    <2>2. "server" \in Held' => "server" \in stopAsked'
      <3>1. SUFFICES ASSUME stage >= 6 PROVE "server" \in stopAsked'
        BY <1>3 DEF Held, HeldFrom
      <3>2. todo' \notin {ShutdownList, CloseList} /\ stage' >= 6 /\ pc' \in Stopping
        BY <1>1, <1>3, <1>4, <3>1, ListsDiffer
      <3> QED
        BY <1>11, <3>2 DEF ReachInv
    <2> QED
      BY <2>1, <2>2 DEF CleanExit, EverythingStopped
  <1>15. StopTime'
    <2>1. Prompt => elapsed' <= ShutdownTimeout
      BY <1>5 DEF IInv, StopTime, Prompt
    <2>2. elapsed' <= 3 * ShutdownTimeout
      <3>1. deadline # NoDeadline => elapsed' <= deadline
        BY <1>1, <1>5 DEF IInv, TimeInv
      <3>2. deadline = NoDeadline => elapsed' = 0
        <4>1. deadline = NoDeadline => pc = "cleaning" /\ elapsed = 0 /\ stage < 6
          BY <1>1 DEF IInv, TimeInv, Stopping
        <4>2. pc = "cleaning" => todo # ShutdownList
          BY DEF IInv, ListInv
        <4> QED
          BY <1>4, <1>5, <4>1, <4>2
      <3>3. deadline # NoDeadline => deadline \in Nat /\ deadline <= 3 * ShutdownTimeout
        BY <1>1, <1>2, TimeoutAssumption DEF IInv, TimeInv, Stopping
      <3> QED
        BY <1>2, <1>5, <3>1, <3>2, <3>3, TimeoutAssumption
    <2> QED
      BY <1>7, <2>1, <2>2 DEF StopTime, Prompt
  <1> QED
    BY <1>8, <1>9, <1>10, <1>11, <1>12, <1>13, <1>14, <1>15 DEF IInv

\* When a list is worked off after a complete startup, every component has
\* been asked to stop.
LEMMA AllAsked ==
    ASSUME IInv, pc \in Stopping, todo = <<>>, stage = 9 PROVE stopAsked = Components
  <1>1. todo \notin {ShutdownList, CloseList}
    BY ListsDiffer
  <1>2. {"server", "observer", "firmware"} \subseteq stopAsked
    BY <1>1 DEF IInv, ReachInv
  <1>3. stopAsked \subseteq Components
    BY DEF IInv, TypeOK
  <1> QED
    BY <1>2, <1>3, StartupFacts

\* So does the rest of the way out of run.
LEMMA StopRuntimeInv ==
    ASSUME IInv,
           \/ ServeExitReturns
           \/ ShutDown \/ ShutdownReturns \/ CloseReturns
           \/ DrainServe \/ DrainTimeout \/ TimeoutReturns
    PROVE  IInv'
  <1> USE StartupFacts, TimeoutAssumption, ListFacts
      DEF IInv, TypeOK, StageInv, ListInv, ReachInv, TimeInv, VerdictInv, CleanExit,
          EverythingStopped, StopTime, Prompt, AtRest, Held, Up, Leaving, Stopping, Tails, stopVars,
          exitVars, Exit, ExitAs, Stop, Idle, NoDeadline
  <1>1. CASE ServeExitReturns
    BY <1>1 DEF ServeExitReturns
  <1>2. CASE ShutDown
    BY <1>2 DEF ShutDown
  <1>3. CASE ShutdownReturns
    <2>1. /\ pc = "shuttingDown" /\ todo = <<>> /\ stage = 9
          /\ elapsed <= ShutdownTimeout
      BY <1>3 DEF ShutdownReturns
    <2>5. todo \notin {ShutdownList, CloseList}
      BY <2>1, ListsDiffer
    <2>6. stopAsked = Components
      BY <2>1, AllAsked
    <2>2. UNCHANGED <<stage, elapsed, stopAsked, shutdownFailed, signal, fatal, serve, readySent,
                      then, freeAt, exitCode, why>>
      BY <1>3 DEF ShutdownReturns
    <2>3. CASE shutdownFailed
      <3>1. pc' = "closing" /\ todo' = CloseList /\ deadline' = elapsed + ShutdownTimeout
        BY <1>3, <2>3 DEF ShutdownReturns
      <3>2. TypeOK' /\ StageInv' /\ ListInv'
        BY <2>1, <2>2, <2>5, <2>6, <3>1
      <3>3. ReachInv' /\ TimeInv'
        BY <2>1, <2>2, <2>5, <2>6, <3>1
      <3>4. VerdictInv' /\ CleanExit' /\ EverythingStopped' /\ StopTime'
        BY <2>1, <2>2, <2>3, <2>5, <2>6, <3>1
      <3> QED
        BY <3>2, <3>3, <3>4
    <2>4. CASE ~shutdownFailed
      <3>1. pc' = "drain" /\ todo' = todo /\ deadline' = deadline
        BY <1>3, <2>4 DEF ShutdownReturns
      <3>2. TypeOK' /\ StageInv' /\ ListInv'
        BY <2>1, <2>2, <2>5, <2>6, <3>1
      <3>3. ReachInv' /\ TimeInv'
        BY <2>1, <2>2, <2>5, <2>6, <3>1
      <3>4. VerdictInv' /\ CleanExit' /\ EverythingStopped' /\ StopTime'
        BY <2>1, <2>2, <2>4, <2>5, <2>6, <3>1
      <3> QED
        BY <3>2, <3>3, <3>4
    <2> QED
      BY <2>3, <2>4
  <1>4. CASE CloseReturns
    <2>1. /\ pc = "closing" /\ pc' = "drain" /\ todo = <<>> /\ stage = 9
          /\ elapsed <= 2 * ShutdownTimeout
      BY <1>4 DEF CloseReturns
    <2>6. todo \notin {ShutdownList, CloseList}
      BY <2>1, ListsDiffer
    <2>7. stopAsked = Components
      BY <2>1, AllAsked
    <2>2. UNCHANGED <<stage, todo, deadline, elapsed, stopAsked, shutdownFailed, signal, fatal,
                      serve, readySent, then, freeAt, exitCode, why>>
      BY <1>4 DEF CloseReturns
    <2>3. TypeOK' /\ StageInv' /\ ListInv'
      BY <2>1, <2>2, <2>6, <2>7
    <2>4. ReachInv' /\ TimeInv'
      BY <2>1, <2>2, <2>6, <2>7
    <2>5. VerdictInv' /\ CleanExit' /\ EverythingStopped' /\ StopTime'
      BY <2>1, <2>2, <2>6, <2>7
    <2> QED
      BY <2>3, <2>4, <2>5
  <1>5. CASE DrainServe
    BY <1>5 DEF DrainServe
  <1>6. CASE DrainTimeout
    BY <1>6 DEF DrainTimeout, TimerFires, Later
  <1>7. CASE TimeoutReturns
    BY <1>7 DEF TimeoutReturns
  <1> QED
    BY <1>1, <1>2, <1>3, <1>4, <1>5, <1>6, <1>7

\* The strengthened invariant: run's place and its list determine how far
\* startup has come, what has been asked to stop, how much time is used and
\* which exit status is due.
THEOREM Invariance == Spec => []IInv
  <1>1. IInv /\ [Next]_vars => IInv'
    <2> SUFFICES ASSUME IInv, [Next]_vars PROVE IInv'
      OBVIOUS
    <2>1. CASE UNCHANGED vars
      BY <2>1 DEF vars, stopVars, exitVars, IInv, TypeOK, StageInv, ListInv, ReachInv, TimeInv,
                  VerdictInv, CleanExit, EverythingStopped, StopTime, Prompt, AtRest, Held
    <2> QED
      BY <2>1, EnvironmentStep, StartStepInv, SelectStep, StopNextInv, StopRuntimeInv
         DEF Next, Run, StopRuntime, Terminated
  <1> QED
    BY InitInv, <1>1, PTL DEF Spec

\* TypeOK holds for every limit and every set of stopping times.
THEOREM TypeCorrect == Spec => []TypeOK
  <1>1. IInv => TypeOK
    BY DEF IInv
  <1> QED
    BY <1>1, Invariance, PTL

\* Exit status 0 is an operator's stop that was carried out, or help.
THEOREM ExitsClean == Spec => []CleanExit
  <1>1. IInv => CleanExit
    BY DEF IInv
  <1> QED
    BY <1>1, Invariance, PTL

\* No way out of run leaves a component that was started unstopped.
THEOREM NothingLeftRunning == Spec => []EverythingStopped
  <1>1. IInv => EverythingStopped
    BY DEF IInv
  <1> QED
    BY <1>1, Invariance, PTL

\* Shutdown takes one limit if every component stops within it, and three
\* limits whatever the components do.
THEOREM StopsInTime == Spec => []StopTime
  <1>1. IInv => StopTime
    BY DEF IInv
  <1> QED
    BY <1>1, Invariance, PTL

\* READY=1 is never sent past a flagged defect, and run never settles into
\* its wait with a defect detected.
THEOREM ReadinessSound == Spec => ReadyMeansServing
  <1>1. IInv /\ [Next]_vars => [ReadyStep]_vars
    <2> SUFFICES ASSUME IInv, Next PROVE ReadyStep
      BY DEF vars
    <2> USE StartupFacts DEF IInv, StageInv, ReachInv, ReadyStep, Up, Leaving
    <2>1. CASE SendReady
      BY <2>1 DEF SendReady, ReadinessHolds, NotReady
    <2>2. CASE SignalArrives \/ FatalDetected \/ FatalFlagged \/ FatalQueued \/ ServeEnds
      BY <2>2 DEF SignalArrives, FatalDetected, FatalFlagged, FatalQueued, ServeEnds
    <2>3. CASE RunHelp \/ RunConfigurationError \/ RunSignalledEarly \/ RunStart \/ StartHTTP
      BY <2>3 DEF RunHelp, RunConfigurationError, RunSignalledEarly, RunStart, StartHTTP, StartStep,
                  StartFails, StartReturns, Exit
    <2>4. CASE Select
      BY <2>4 DEF Select, SelectSignal, SelectFatal, SelectServe, SelectNothing, Exit
    <2>5. CASE GateRefuses \/ GateOpens \/ SendFails
      BY <2>5 DEF GateRefuses, GateOpens, SendFails, NotReady
    <2>6. CASE StopRuntime
      BY <2>6 DEF StopRuntime, StopNext, ServeExitReturns, ShutDown, ShutdownReturns, CloseReturns,
                  DrainServe, DrainTimeout, TimeoutReturns, ExitAs, Exit
    <2>7. CASE Terminated
      BY <2>7 DEF Terminated, vars
    <2> QED
      BY <2>1, <2>2, <2>3, <2>4, <2>5, <2>6, <2>7 DEF Next, Run, Notify
  <1> QED
    BY Invariance, <1>1, PTL DEF Spec, ReadyMeansServing

-----------------------------------------------------------------------------
(* The process ends when it is told to.                                    *)

Exited == pc = "exited"
Told == signal \/ fatal # "none"

\* The second select has nothing to wait for any more.
Decided == signal \/ fatal = "queued"
WaitsFor(state) == fatal = state

\* How many steps run can still take at most.
Distance ==
    CASE pc = "exited" -> 0
      [] pc \in {"cleaning", "closingAfterServe", "closingLate"} -> 1 + Len(todo)
      [] pc = "drain" -> 5
      [] pc = "closing" -> 6 + Len(todo)
      [] pc = "shuttingDown" -> 10 + Len(todo)
      [] pc = "shutDown" -> 14
      [] pc = "secondSelect" -> 15
      [] pc = "sending" -> 16
      [] pc = "gate" -> 17
      [] pc = "firstSelect" -> 18
      [] pc = "starting" -> 27 - stage
      [] pc = "init" -> 28
Within(n) == Distance <= n

\* Serve has been started by the time run looks at its result.
ServeInv == pc \in Up \cup Leaving => serve # "off"

\* run has a step to take wherever it is, except that its second select waits.
RunReady ==
    /\ pc # "exited"
    /\ pc = "starting" => stage < 9
    /\ pc \in {"firstSelect", "drain"} => serve # "off"
    /\ pc = "secondSelect" => Decided

\* Where its guard holds a step is enabled: its definition assigns every
\* variable and changes one.  The provers cannot evaluate ENABLED, so this is
\* a hypothesis of EndsAlways.
StepsEnabled ==
    /\ RunReady => ENABLED <<Run>>_vars
    /\ fatal = "detected" /\ pc # "sending" => ENABLED <<FatalFlagged>>_vars
    /\ fatal = "flagged" => ENABLED <<FatalQueued>>_vars

\* What Distance is, place by place.
DistanceTable ==
    /\ pc = "exited" => Distance = 0
    /\ pc \in {"cleaning", "closingAfterServe", "closingLate"} => Distance = 1 + Len(todo)
    /\ pc = "drain" => Distance = 5
    /\ pc = "closing" => Distance = 6 + Len(todo)
    /\ pc = "shuttingDown" => Distance = 10 + Len(todo)
    /\ pc = "shutDown" => Distance = 14
    /\ pc = "secondSelect" => Distance = 15
    /\ pc = "sending" => Distance = 16
    /\ pc = "gate" => Distance = 17
    /\ pc = "firstSelect" => Distance = 18
    /\ pc = "starting" => Distance = 27 - stage
    /\ pc = "init" => Distance = 28
LEMMA DistanceFacts == DistanceTable
  <1>1. CASE pc \in {"cleaning", "closingAfterServe", "closingLate"}
    BY <1>1 DEF Distance, DistanceTable
  <1>2. CASE pc \notin {"cleaning", "closingAfterServe", "closingLate"}
    BY <1>2 DEF Distance, DistanceTable
  <1> QED
    BY <1>1, <1>2

\* The list run works off is at most three calls long.
LEMMA ListLengths == ASSUME TypeOK PROVE Len(todo) \in 0..3
  BY ListFacts DEF TypeOK

\* run is never more than 28 steps from its end, and its end is where no
\* step is left.
LEMMA DistanceBounds == ASSUME IInv PROVE Distance \in 0..28 /\ (Distance = 0 <=> Exited)
  <1>1. Len(todo) \in 0..3
    BY ListLengths DEF IInv
  <1>2. pc \in {"init", "starting", "firstSelect", "gate", "sending", "secondSelect", "shutDown",
               "drain", "exited", "cleaning", "shuttingDown", "closing", "closingAfterServe",
               "closingLate"}
    BY DEF IInv, TypeOK, Stopping
  <1>3. pc = "starting" => stage \in 0..8
    BY StartupFacts DEF IInv, TypeOK, StageInv
  <1>4. CASE pc = "starting"
    BY <1>3, <1>4, DistanceFacts DEF DistanceTable, Exited
  <1>5. CASE pc \in Stopping
    <2>1. PICK length \in 0..3 : Len(todo) = length
      BY <1>1
    <2>2. Distance = 1 + length \/ Distance = 6 + length \/ Distance = 10 + length
      BY <1>5, <2>1, DistanceFacts DEF DistanceTable, Stopping
    <2>3. pc # "exited"
      BY <1>5 DEF Stopping
    <2>4. Distance \in 1..13
      BY <2>2
    <2> QED
      BY <2>3, <2>4 DEF Exited
  <1>6. CASE pc \in {"init", "firstSelect", "gate", "sending", "secondSelect", "shutDown", "drain",
                    "exited"}
    BY <1>6, DistanceFacts DEF DistanceTable, Exited
  <1> QED
    BY <1>2, <1>4, <1>5, <1>6 DEF Stopping

\* A step of run brings it nearer to its end.
LEMMA RunDescends == ASSUME IInv, Run PROVE Distance' < Distance
  <1>0. DistanceTable /\ DistanceTable'
    BY DistanceFacts, PTL
  <1>1. CASE RunHelp \/ RunConfigurationError \/ RunSignalledEarly \/ RunStart
    <2>1. pc = "init" /\ (pc' = "exited" \/ (pc' = "starting" /\ stage' = stage))
      BY <1>1 DEF RunHelp, RunConfigurationError, RunSignalledEarly, RunStart, Exit
    <2>2. pc = "init" => stage = 0
      BY DEF IInv, StageInv
    <2> QED
      BY <1>0, <2>1, <2>2 DEF DistanceTable
  <1>2. CASE StartStep
    <2>1. /\ pc = "starting" /\ stage' = stage + 1 /\ stage \in 0..8
          /\ pc' = "firstSelect" \/ (pc' = "starting" /\ stage' # 9)
      BY <1>2, StartupFacts DEF StartStep, Started, IInv, TypeOK, StageInv
    <2> QED
      BY <1>0, <2>1 DEF DistanceTable
  <1>3. CASE StartFails
    <2>1. pc = "starting" /\ pc' = "cleaning" /\ stage \in 0..8
      BY <1>3, StartupFacts DEF StartFails, IInv, TypeOK, StageInv
    <2>2. Len(todo') \in 0..3
      <3>1. TypeOK'
        BY <1>3, StartStepInv DEF StartHTTP, IInv
      <3> QED
        BY <3>1, ListFacts DEF TypeOK
    <2>3. Distance = 27 - stage /\ Distance' = 1 + Len(todo')
      BY <1>0, <2>1 DEF DistanceTable
    <2>4. Distance' \in 1..4
      <3>1. PICK length \in 0..3 : Len(todo') = length
        BY <2>2
      <3>2. Distance' = 1 + length
        BY <2>3, <3>1
      <3> QED
        BY <3>2
    <2>5. Distance \in 19..27
      BY <2>1, <2>3
    <2> QED
      BY <2>4, <2>5
  <1>4. CASE StartReturns
    BY <1>0, <1>4, ListFacts DEF StartReturns, Idle, Exit, DistanceTable
  <1>5. CASE Select
    <2>1. /\ pc \in {"firstSelect", "secondSelect"}
          /\ \/ pc' = "shutDown"
             \/ pc' = "closingAfterServe" /\ todo' = CloseList
             \/ pc = "firstSelect" /\ pc' = "gate"
      BY <1>5 DEF Select, SelectSignal, SelectFatal, SelectServe, SelectNothing, Selecting, Stop
    <2> QED
      BY <1>0, <2>1, ListFacts DEF DistanceTable
  <1>6. CASE Notify
    <2>1. \/ pc = "gate" /\ pc' \in {"shutDown", "sending"}
          \/ pc = "sending" /\ pc' \in {"shutDown", "secondSelect"}
      BY <1>6 DEF Notify, GateRefuses, GateOpens, SendReady, SendFails, NotReady
    <2> QED
      BY <1>0, <2>1 DEF DistanceTable
  <1>7. CASE StopNext
    <2>1. pc' = pc /\ pc \in Stopping
      BY <1>7 DEF StopNext
    <2>2. Len(todo') + 1 = Len(todo)
      BY <1>7, StopNextFacts, ListFacts
    <2>3. Len(todo) \in 0..3
      BY ListLengths DEF IInv
    <2>4. Len(todo') \in 0..2
      BY <1>7, StopNextFacts, ListFacts
    <2>5. \/ Distance = 1 + Len(todo) /\ Distance' = 1 + Len(todo')
          \/ Distance = 6 + Len(todo) /\ Distance' = 6 + Len(todo')
          \/ Distance = 10 + Len(todo) /\ Distance' = 10 + Len(todo')
      BY <1>0, <2>1 DEF DistanceTable, Stopping
    <2> QED
      BY <2>2, <2>3, <2>4, <2>5
  <1>8. CASE ServeExitReturns \/ CloseReturns \/ TimeoutReturns
    <2>1. /\ todo = <<>>
          /\ \/ pc \in {"closingAfterServe", "closingLate"} /\ pc' = "exited"
             \/ pc = "closing" /\ pc' = "drain"
      BY <1>8 DEF ServeExitReturns, CloseReturns, TimeoutReturns, Idle, ExitAs, Exit
    <2> QED
      BY <1>0, <2>1, ListFacts DEF DistanceTable
  <1>9. CASE ShutDown \/ ShutdownReturns
    <2>1. \/ pc = "shutDown" /\ pc' = "shuttingDown" /\ todo' = ShutdownList
          \/ /\ pc = "shuttingDown" /\ todo = <<>>
             /\ pc' = "drain" \/ (pc' = "closing" /\ todo' = CloseList)
      BY <1>9 DEF ShutDown, ShutdownReturns, Stop, Idle
    <2>2. \/ Distance = 14 /\ Distance' = 10 + 3
          \/ Distance = 10 + 0 /\ (Distance' = 5 \/ Distance' = 6 + 3)
      <3>1. Len(ShutdownList) = 3 /\ Len(CloseList) = 3 /\ Len(<<>>) = 0
        BY ListFacts
      <3>2. pc = "shutDown" /\ pc' = "shuttingDown" /\ Len(todo') = 3 =>
                Distance = 14 /\ Distance' = 10 + 3
        BY <1>0 DEF DistanceTable
      <3>3. pc = "shuttingDown" /\ Len(todo) = 0 => Distance = 10 + 0
        BY <1>0 DEF DistanceTable
      <3>4. pc' = "drain" => Distance' = 5
        BY <1>0 DEF DistanceTable
      <3>5. pc' = "closing" /\ Len(todo') = 3 => Distance' = 6 + 3
        BY <1>0 DEF DistanceTable
      <3> QED
        BY <2>1, <3>1, <3>2, <3>3, <3>4, <3>5
    <2> QED
      BY <2>2
  <1>10. CASE DrainServe \/ DrainTimeout
    <2>1. pc = "drain" /\ (pc' = "exited" \/ (pc' = "closingLate" /\ todo' = CloseList))
      BY <1>10 DEF DrainServe, DrainTimeout, Stop, ExitAs, Exit
    <2>2. Distance = 5 /\ (Distance' = 0 \/ Distance' = 1 + 3)
      <3>1. Len(CloseList) = 3
        BY ListFacts
      <3>2. pc' = "exited" => Distance' = 0
        BY <1>0 DEF DistanceTable
      <3>3. pc' = "closingLate" /\ Len(todo') = 3 => Distance' = 1 + 3
        BY <1>0 DEF DistanceTable
      <3>4. pc = "drain" => Distance = 5
        BY <1>0 DEF DistanceTable
      <3> QED
        BY <2>1, <3>1, <3>2, <3>3, <3>4
    <2> QED
      BY <2>2
  <1> QED
    BY <1>1, <1>2, <1>3, <1>4, <1>5, <1>6, <1>7, <1>8, <1>9, <1>10
       DEF Run, StartHTTP, StopRuntime

\* run leaves signal and defects alone, and looks at Serve's result only
\* after it has started it.
LEMMA RunKeeps ==
    ASSUME IInv, Run
    PROVE  UNCHANGED <<signal, fatal>> /\ (ServeInv => ServeInv')
  BY StartupFacts
     DEF IInv, TypeOK, ServeInv, Up, Leaving, Stopping, Run, RunHelp, RunConfigurationError,
         RunSignalledEarly, RunStart, StartHTTP, StartStep, Started, StartFails, StartReturns,
         Select, SelectSignal, SelectFatal, SelectServe, SelectNothing, Selecting, Notify,
         GateRefuses, GateOpens, SendReady, SendFails, NotReady, StopRuntime, StopNext,
         ServeExitReturns, ShutDown, ShutdownReturns, CloseReturns, DrainServe, DrainTimeout,
         TimeoutReturns, ExitAs, Exit

\* The other steps leave run where it is.
LEMMA OtherMoves ==
    ASSUME IInv, [Next]_vars, ~Run
    PROVE  /\ UNCHANGED <<pc, stage, todo>>
           /\ signal => signal'
           /\ fatal = "queued" => fatal' = "queued"
           /\ fatal = "flagged" => fatal' \in {"flagged", "queued"}
           /\ fatal = "detected" => fatal' \in {"detected", "flagged"}
           /\ ServeInv => ServeInv'
  BY DEF IInv, TypeOK, ServeInv, Next, SignalArrives, FatalDetected, FatalFlagged, FatalQueued,
         ServeEnds, Terminated, vars, stopVars

\* No step takes run away from its end, and its own steps bring it nearer.
LEMMA Approach ==
    ASSUME IInv, [Next]_vars
    PROVE  \A n \in 0..27 : /\ Within(n) => Within(n)'
                            /\ Within(n + 1) /\ Run => Within(n)'
  <1>1. Distance \in 0..28
    BY DistanceBounds
  <1>2. CASE Run
    <2>1. IInv'
      BY <1>2, StartStepInv, SelectStep, StopNextInv, StopRuntimeInv DEF Run, StopRuntime
    <2>2. (Distance \in 0..28)'
      BY <2>1, DistanceBounds, PTL
    <2>3. Distance' < Distance
      BY <1>2, RunDescends
    <2> QED
      BY <1>1, <2>2, <2>3 DEF Within
  <1>3. CASE ~Run
    BY <1>3, OtherMoves DEF Within, Distance
  <1> QED
    BY <1>2, <1>3

\* Serve has been started whenever run looks at its result.
LEMMA ServeStarted == Spec => []ServeInv
  <1>1. Init => ServeInv
    BY DEF Init, ServeInv, Up, Leaving
  <1>2. IInv /\ ServeInv /\ [Next]_vars => ServeInv'
    BY RunKeeps, OtherMoves
  <1> QED
    BY <1>1, <1>2, Invariance, PTL DEF Spec

\* run reaches its second select or goes past it.
LEMMA ComesToWait == FairSpec /\ []StepsEnabled => <>Within(15)
  <1>1. IInv /\ [Next]_vars =>
            /\ (Within(15) => Within(15)') /\ (Within(16) /\ Run => Within(15)')
            /\ (Within(16) => Within(16)') /\ (Within(17) /\ Run => Within(16)')
            /\ (Within(17) => Within(17)') /\ (Within(18) /\ Run => Within(17)')
            /\ (Within(18) => Within(18)') /\ (Within(19) /\ Run => Within(18)')
            /\ (Within(19) => Within(19)') /\ (Within(20) /\ Run => Within(19)')
            /\ (Within(20) => Within(20)') /\ (Within(21) /\ Run => Within(20)')
            /\ (Within(21) => Within(21)') /\ (Within(22) /\ Run => Within(21)')
            /\ (Within(22) => Within(22)') /\ (Within(23) /\ Run => Within(22)')
            /\ (Within(23) => Within(23)') /\ (Within(24) /\ Run => Within(23)')
            /\ (Within(24) => Within(24)') /\ (Within(25) /\ Run => Within(24)')
            /\ (Within(25) => Within(25)') /\ (Within(26) /\ Run => Within(25)')
            /\ (Within(26) => Within(26)') /\ (Within(27) /\ Run => Within(26)')
            /\ (Within(27) => Within(27)') /\ (Within(28) /\ Run => Within(27)')
    <2>1. ASSUME IInv, [Next]_vars PROVE
              \A n \in 0..27 : (Within(n) => Within(n)') /\ (Within(n + 1) /\ Run => Within(n)')
      BY <2>1, Approach
    <2>2. \A n \in 15..27 : n \in 0..27
      OBVIOUS
    <2> QED
      BY <2>1, <2>2
  <1>2. IInv /\ ServeInv /\ StepsEnabled /\ ~Within(15) => ENABLED <<Run>>_vars
    BY DEF IInv, StageInv, ServeInv, StepsEnabled, RunReady, Within, Distance, Up, Leaving
  <1>3. IInv => Within(28)
    BY DistanceBounds DEF Within
  <1> QED
    BY <1>1, <1>2, <1>3, Invariance, ServeStarted, PTL DEF FairSpec, Spec

\* From there it ends once a signal has come or a defect is queued.
LEMMA EndsDecided == FairSpec /\ []StepsEnabled => (Within(15) /\ Decided ~> Within(0))
  <1>1. IInv /\ [Next]_vars =>
            /\ (Within(0) => Within(0)') /\ (Within(1) /\ Run => Within(0)')
            /\ (Within(1) => Within(1)') /\ (Within(2) /\ Run => Within(1)')
            /\ (Within(2) => Within(2)') /\ (Within(3) /\ Run => Within(2)')
            /\ (Within(3) => Within(3)') /\ (Within(4) /\ Run => Within(3)')
            /\ (Within(4) => Within(4)') /\ (Within(5) /\ Run => Within(4)')
            /\ (Within(5) => Within(5)') /\ (Within(6) /\ Run => Within(5)')
            /\ (Within(6) => Within(6)') /\ (Within(7) /\ Run => Within(6)')
            /\ (Within(7) => Within(7)') /\ (Within(8) /\ Run => Within(7)')
            /\ (Within(8) => Within(8)') /\ (Within(9) /\ Run => Within(8)')
            /\ (Within(9) => Within(9)') /\ (Within(10) /\ Run => Within(9)')
            /\ (Within(10) => Within(10)') /\ (Within(11) /\ Run => Within(10)')
            /\ (Within(11) => Within(11)') /\ (Within(12) /\ Run => Within(11)')
            /\ (Within(12) => Within(12)') /\ (Within(13) /\ Run => Within(12)')
            /\ (Within(13) => Within(13)') /\ (Within(14) /\ Run => Within(13)')
            /\ (Within(14) => Within(14)') /\ (Within(15) /\ Run => Within(14)')
    <2>1. ASSUME IInv, [Next]_vars PROVE
              \A n \in 0..27 : (Within(n) => Within(n)') /\ (Within(n + 1) /\ Run => Within(n)')
      BY <2>1, Approach
    <2>2. \A n \in 0..14 : n \in 0..27
      OBVIOUS
    <2> QED
      BY <2>1, <2>2
  <1>2. IInv /\ ServeInv /\ StepsEnabled /\ Decided /\ ~Within(0) => ENABLED <<Run>>_vars
    BY DEF IInv, StageInv, ServeInv, StepsEnabled, RunReady, Within, Distance, Up, Leaving
  <1>3. IInv /\ [Next]_vars => (Decided => Decided') /\ (Within(15) => Within(15)')
    <2>1. ASSUME IInv, [Next]_vars PROVE (Decided => Decided') /\ (Within(15) => Within(15)')
      BY <2>1, RunKeeps, OtherMoves, Approach DEF Decided
    <2> QED
      BY <2>1
  <1> QED
    BY <1>1, <1>2, <1>3, Invariance, ServeStarted, PTL DEF FairSpec, Spec

\* A defect is queued there, as nobody holds the gate's lock any more.
LEMMA DefectQueued == FairSpec /\ []StepsEnabled => (Within(15) /\ Told ~> Decided)
  <1>1. IInv /\ [Next]_vars =>
            /\ WaitsFor("detected") => WaitsFor("detected")' \/ WaitsFor("flagged")'
            /\ WaitsFor("flagged") => WaitsFor("flagged")' \/ Decided'
            /\ FatalFlagged => WaitsFor("flagged")'
            /\ FatalQueued => Decided'
            /\ Within(15) => Within(15)'
    <2>1. ASSUME IInv, [Next]_vars PROVE
              /\ fatal = "flagged" => fatal' \in {"flagged", "queued"}
              /\ fatal = "detected" => fatal' \in {"detected", "flagged"}
              /\ Within(15) => Within(15)'
      BY <2>1, RunKeeps, OtherMoves, Approach
    <2>2. FatalFlagged => fatal' = "flagged"
      BY DEF FatalFlagged
    <2>3. FatalQueued => fatal' = "queued"
      BY DEF FatalQueued
    <2> QED
      BY <2>1, <2>2, <2>3 DEF Decided, WaitsFor
  <1>2. StepsEnabled =>
            /\ WaitsFor("detected") /\ Within(15) => ENABLED <<FatalFlagged>>_vars
            /\ WaitsFor("flagged") => ENABLED <<FatalQueued>>_vars
    BY DEF StepsEnabled, WaitsFor, Within, Distance
  <1>3. IInv => (Told => Decided \/ WaitsFor("detected") \/ WaitsFor("flagged"))
    BY DEF IInv, TypeOK, Told, Decided, WaitsFor
  <1> QED
    BY <1>1, <1>2, <1>3, Invariance, PTL DEF FairSpec, Spec

\* Under the fairness of the scheduler a signal or a defect ends the process,
\* wherever run is and whatever components do.
THEOREM EndsAlways == FairSpec /\ []StepsEnabled => EndsWhenTold
  <1>1. IInv /\ [Next]_vars => /\ Told => Told'
                               /\ Within(15) => Within(15)'
    <2>1. ASSUME IInv, [Next]_vars PROVE /\ signal => signal'
                                         /\ fatal # "none" => fatal' # "none"
                                         /\ Within(15) => Within(15)'
      <3>1. Within(15) => Within(15)'
        BY <2>1, Approach
      <3>2. CASE Run
        BY <2>1, <3>1, <3>2, RunKeeps
      <3>3. CASE ~Run
        BY <2>1, <3>1, <3>3, OtherMoves DEF IInv, TypeOK
      <3> QED
        BY <3>2, <3>3
    <2> QED
      BY <2>1 DEF Told
  <1>2. IInv => (Within(0) => Exited)
    BY DistanceBounds DEF Within
  <1>3. IInv /\ [Next]_vars => (Decided => Decided')
    BY RunKeeps, OtherMoves DEF Decided
  <1>4. (Told <=> signal \/ fatal # "none") /\ (Exited <=> pc = "exited")
    BY DEF Told, Exited
  <1> QED
    BY <1>1, <1>2, <1>3, <1>4, Invariance, ComesToWait, EndsDecided, DefectQueued, PTL
       DEF FairSpec, Spec, EndsWhenTold
=============================================================================
