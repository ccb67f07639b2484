------------------------- MODULE CoordinatorProofs -------------------------
(***************************************************************************)
(* The safety of Coordinator for every set of requests and every list of   *)
(* collector domains, and the proof that it implements SingleFlight.       *)
(***************************************************************************)
EXTENDS Coordinator, TLAPS

(* The inductive invariant. ************************************************)

\* The goroutine's result exists between collect and publication, the shared
\* one from publication on.
ResultsInv ==
    \A c \in Cycles :
        /\ local[c] # "pending" <=> phase[c] = "collected"
        /\ outcome[c] # "pending" <=> Settled(c)

\* A published defect, and a call in fail, have latched the failure.
LatchInv ==
    /\ \A c \in Cycles : outcome[c] = "defect" => failed
    /\ \A r \in Requests : pc[r] \in {"failing", "announcing"} => failed

\* What each stage of a call implies for the cycle it joined and its reply,
\* and that a started cycle belongs to a call that waits for it or waited.
CallsInv ==
    /\ \A r \in Requests :
        /\ pc[r] # "returned" => reply[r] = "pending"
        /\ pc[r] \in {"idle", "locking", "failing", "announcing"} => joined[r] = NoCycle
        /\ pc[r] = "waiting" => joined[r] # NoCycle
        /\ joined[r] # NoCycle => phase[joined[r]] # "unused"
        /\ pc[r] = "idle" => before[r] = {}
    /\ \A c \in Cycles : phase[c] # "unused" => pc[c] \in {"waiting", "returned"}

\* The history of a call holds cycles that are over; a call that arrived
\* after a published defect joins nothing.
HistoryInv ==
    \A r \in Requests : \A c \in before[r] :
        /\ Settled(c)
        /\ outcome[c] = "defect" =>
              joined[r] = NoCycle /\ reply[r] \in {"pending", "requestErr", "defect"}

\* done of a defective cycle is closed after the announcement.
AnnouncedInv ==
    \A c \in Cycles : phase[c] = "closed" /\ outcome[c] = "defect" => fatalOnce = "done"

\* The slot and what calls are told.
CallerInv ==
    /\ OneCollector /\ ResultsInv /\ LatchInv /\ CallsInv /\ HistoryInv /\ AnnouncedInv
    /\ FreshReply /\ SettledReply /\ DefectAnnounced

\* The loop of collect: its checks and the call of a collector belong to one
\* of the domains, those of the lifecycle and the call also to the CPU copy.
StageInv(c) ==
    /\ stage[c] = "deadline" => phase[c] = "collecting" /\ step[c] \in 2..NDomains
    /\ stage[c] = "call" => phase[c] = "collecting" /\ step[c] <= NDomains + 1
    /\ stage[c] = "calling" => phase[c] = "collecting" /\ step[c] <= NDomains

\* A cycle starts with an empty document and no history.
UnusedInv(c) ==
    phase[c] = "unused" => obs[c] = {} /\ overdue[c] = {} /\ lateCalls[c] = 0

\* The document while it is collected and once it is encoded: the CPU count
\* comes with its topology, and utilization is copied, after all domains, for
\* that topology.
DocumentInv(c) ==
    /\ "logicalCPUCount" \in obs[c] => seen[c] \in Topologies
    /\ "utilization" \in obs[c] => "logicalCPUCount" \in obs[c] /\ measuredFor[c] = seen[c]
    /\ phase[c] = "collecting" /\ step[c] <= NDomains => "utilization" \notin obs[c]
    /\ (local[c] = "ok" \/ outcome[c] = "ok") => "hostname" \in obs[c] /\ obs[c] # {"hostname"}

\* A domain has nothing in the document before its collector returns.  One
\* that was outstanding when a deadline passed has nothing in it afterwards:
\* what made it late still holds when its collector returns.
OverdueInv(c) ==
    /\ phase[c] = "collecting" => \A d \in Outstanding(c) : obs[c] \cap Units[d] = {}
    /\ \A d \in overdue[c] :
          /\ obs[c] \cap Units[d] = {}
          /\ phase[c] = "collecting" /\ step[c] <= d =>
                CycleOver(c) \/ (step[c] = d /\ domainExpired[c])

\* Once a collector was called late, every further domain is skipped.
LateInv(c) ==
    /\ lateCalls[c] <= 1
    /\ phase[c] = "collecting" /\ lateCalls[c] = 1 =>
          /\ CycleOver(c)
          /\ stage[c] = "call" => step[c] = NDomains + 1
          /\ stage[c] = "lifecycle" => step[c] >= 2

CollectInv ==
    \A c \in Cycles :
        StageInv(c) /\ UnusedInv(c) /\ DocumentInv(c) /\ OverdueInv(c) /\ LateInv(c)

SafeInv == CallerInv /\ CollectInv

IInv == TypeOK /\ SafeInv

-----------------------------------------------------------------------------
(* Type correctness.                                                       *)

\* Whatever a collector delivers is a metric of its domain and of no other.
LEMMA UnitsOfDomain ==
    ASSUME NEW d \in 1..NDomains, NEW got \in SUBSET Units[d]
    PROVE  /\ got \subseteq AllUnits /\ "utilization" \notin got
           /\ \A e \in (1..NDomains) \ {d} : got \cap Units[e] = {}
  BY UnitsAssumption DEF AllUnits, DomainUnits

\* A step of a cycle's goroutine is one of the loop, ends the loop, or is one
\* of the deferred function.
Inside(c) ==
    \/ DomainCheck(c) \/ DomainAdmit(c) \/ DomainSkip(c) \/ DomainBegin(c) \/ DomainReturn(c)
    \/ CopyCPU(c)
Ends(c, result) ==
    /\ phase[c] = "collecting"
    /\ result = "ok" => "hostname" \in obs[c] /\ obs[c] # {"hostname"}
    /\ Finish(c, result)
Deferred(c) == RunPublish(c) \/ RunAnnounce(c) \/ RunAnnounced(c) \/ RunClose(c)

LEMMA CycleCases ==
    ASSUME NEW c \in Cycles, Run(c) \/ CollectorReturns(c)
    PROVE  Inside(c) \/ Deferred(c) \/ \E result \in Results : Ends(c, result)
  <1>1. CASE CycleCanceled(c)
    BY <1>1 DEF CycleCanceled, Ends, At, Results
  <1>2. CASE DomainDefect(c) \/ CopyCPUDefect(c) \/ FinalizeDefect(c)
    BY <1>2 DEF DomainDefect, CopyCPUDefect, FinalizeDefect, Ends, At, Results
  <1>3. CASE Finalize(c)
    <2>1. FinalResult(obs[c]) \in Results /\ Ends(c, FinalResult(obs[c]))
      BY <1>3, DomainAssumption DEF Finalize, Ends, At, Results, FinalResult
    <2> QED
      BY <2>1
  <1> QED
    BY <1>1, <1>2, <1>3 DEF Run, CollectorReturns, Inside, Deferred

\* The loop touches nothing that calls or other goroutines look at.
LEMMA InsideKeeps ==
    ASSUME NEW c \in Cycles, Inside(c)
    PROVE  phase[c] = "collecting" /\ UNCHANGED <<sharedVars, requestVars, phase, local, outcome>>
  BY DEF Inside, DomainCheck, DomainAdmit, DomainSkip, DomainBegin, DomainReturn, CopyCPU, At

\* Init establishes the types and the rest of the invariant.
LEMMA InitInv == Init => IInv
  <1> SUFFICES ASSUME Init PROVE IInv
    OBVIOUS
  <1>1. SharedOK /\ CallsOK
    BY DEF Init, SharedOK, CallsOK, CallStates, Cycles
  <1>2. CyclesOK
    <2>1. 1 \in 1..(NDomains + 2)
      BY DomainAssumption
    <2> QED
      BY <2>1 DEF Init, CyclesOK, Phases, Stages
  <1>3. OneCollector /\ ResultsInv /\ LatchInv /\ CallsInv /\ HistoryInv
    BY CycleAssumption
    DEF Init, OneCollector, ResultsInv, LatchInv, CallsInv, HistoryInv, Settled, Cycles
  <1>4. AnnouncedInv /\ FreshReply /\ SettledReply /\ DefectAnnounced
    BY DEF Init, AnnouncedInv, FreshReply, SettledReply, DefectAnnounced, Cycles
  <1>5. CollectInv
    BY DEF Init, CollectInv, StageInv, UnusedInv, DocumentInv, OverdueInv, LateInv, Cycles
  <1> QED
    BY <1>1, <1>2, <1>3, <1>4, <1>5 DEF IInv, SafeInv, CallerInv, TypeOK

\* Snapshot keeps the types; a waiting call has a cycle whose result it reads.
LEMMA SnapshotType ==
    ASSUME TypeOK, CallsInv, NEW r \in Requests, Snapshot(r) PROVE TypeOK'
  <1> USE DEF TypeOK, sharedVars, requestVars, cycleVars, documentVars, timerVars, historyVars,
              Return, Cycles
  <1>1. CASE SnapshotRefuse(r)
    BY <1>1 DEF SnapshotRefuse, Arrive, SharedOK, CallsOK, CyclesOK, CallStates
  <1>2. CASE SnapshotEnter(r)
    BY <1>2 DEF SnapshotEnter, Arrive, SharedOK, CallsOK, CyclesOK, CallStates
  <1>3. CASE SnapshotNil(r)
    BY <1>3 DEF SnapshotNil, Arrive, SharedOK, CallsOK, CyclesOK, CallStates
  <1>4. CASE SnapshotFailed(r) \/ SnapshotDetach(r)
    <2>1. SharedOK' /\ CyclesOK'
      BY <1>4 DEF SnapshotFailed, SnapshotDetach, SharedOK, CyclesOK
    <2>2. CallsOK'
      BY <1>4 DEF SnapshotFailed, SnapshotDetach, CallsOK, CallStates, Results
    <2> QED
      BY <2>1, <2>2
  <1>5. CASE SnapshotJoin(r)
    BY <1>5 DEF SnapshotJoin, Await, SharedOK, CallsOK, CyclesOK, CallStates
  <1>6. CASE SnapshotStart(r)
    BY <1>6 DEF SnapshotStart, Await, SharedOK, CallsOK, CyclesOK, CallStates, Phases
  <1>7. CASE SnapshotDeliver(r)
    <2>1. joined[r] \in Requests
      BY <1>7 DEF SnapshotDeliver, CallsOK, CallsInv
    <2>2. outcome[joined[r]] \in Results \cup {"pending", "requestErr"}
      BY <2>1 DEF CyclesOK
    <2> QED
      BY <1>7, <2>2 DEF SnapshotDeliver, SharedOK, CallsOK, CyclesOK, CallStates
  <1>8. CASE FailAnnounce(r) \/ FailAnnounced(r) \/ FailAlreadyAnnounced(r)
    BY <1>8 DEF FailAnnounce, FailAnnounced, FailAlreadyAnnounced, SharedOK, CallsOK, CyclesOK,
                CallStates, Results
  <1> QED
    BY <1>1, <1>2, <1>3, <1>4, <1>5, <1>6, <1>7, <1>8 DEF Snapshot

\* The goroutine of a cycle keeps the types.
LEMMA CycleType ==
    ASSUME TypeOK, NEW c \in Cycles, StageInv(c), Run(c) \/ CollectorReturns(c) PROVE TypeOK'
  <1> USE DEF TypeOK, sharedVars, requestVars, cycleVars, documentVars, timerVars, historyVars
  <1>1. ASSUME NEW result \in Results, Finish(c, result) PROVE TypeOK'
    <2>1. 1 \in 1..(NDomains + 2)
      BY DomainAssumption
    <2> QED
      BY <1>1, <2>1 DEF Finish, GoOn, Kept, SharedOK, CallsOK, CyclesOK, Phases, Stages
  <1>2. ASSUME step[c] <= NDomains + 1, NextDomain(c)
        PROVE  step' \in [Cycles -> 1..(NDomains + 2)] /\ stage' \in [Cycles -> Stages]
    <2>1. step[c] + 1 \in 1..(NDomains + 2)
      BY <1>2, DomainAssumption DEF CyclesOK
    <2> QED
      BY <1>2, <2>1 DEF NextDomain, GoOn, CyclesOK, Stages
  <1>3. CASE DomainCheck(c) \/ DomainAdmit(c) \/ DomainBegin(c)
    BY <1>3 DEF DomainCheck, DomainAdmit, DomainBegin, GoOn, SharedOK, CallsOK, CyclesOK, Stages
  <1>4. CASE DomainSkip(c)
    <2>1. step[c] <= NDomains + 1
      BY <1>4, DomainAssumption DEF DomainSkip, At, StageInv, CyclesOK
    <2> QED
      BY <1>2, <1>4, <2>1 DEF DomainSkip, SharedOK, CallsOK, CyclesOK
  <1>5. CASE DomainReturn(c)
    <2>1. step[c] \in 1..NDomains /\ step[c] <= NDomains + 1
      BY <1>5, DomainAssumption DEF DomainReturn, At, StageInv, CyclesOK
    <2>2. obs' \in [Cycles -> SUBSET AllUnits] /\ seen' \in [Cycles -> Topologies \cup {NoTopology}]
      <3> PICK got \in SUBSET Units[step[c]], topology \in Topologies :
              LET taken == IF Expired(c) THEN {} ELSE got
              IN  /\ obs' = [obs EXCEPT ![c] = @ \cup taken]
                  /\ seen' = IF "logicalCPUCount" \in taken
                             THEN [seen EXCEPT ![c] = topology] ELSE seen
        BY <1>5 DEF DomainReturn
      <3>1. got \subseteq AllUnits
        BY <2>1, UnitsOfDomain
      <3> QED
        BY <3>1 DEF CyclesOK
    <2> QED
      BY <1>2, <1>5, <2>1, <2>2 DEF DomainReturn, SharedOK, CallsOK, CyclesOK
  <1>6. CASE CopyCPU(c)
    <2>1. step[c] <= NDomains + 1
      BY <1>6, DomainAssumption DEF CopyCPU
    <2>2. obs' \in [Cycles -> SUBSET AllUnits]
            /\ measuredFor' \in [Cycles -> Topologies \cup {NoTopology}]
      BY <1>6 DEF CopyCPU, CyclesOK, AllUnits
    <2> QED
      BY <1>2, <1>6, <2>1, <2>2 DEF CopyCPU, SharedOK, CallsOK, CyclesOK
  <1>7. CASE RunPublish(c)
    <2>1. SharedOK' /\ CallsOK'
      BY <1>7 DEF RunPublish, Latched, SlotAfter, SharedOK, CallsOK
    <2>2. CyclesOK'
      BY <1>7 DEF RunPublish, CyclesOK, Phases
    <2> QED
      BY <2>1, <2>2
  <1>8. CASE RunAnnounce(c) \/ RunAnnounced(c) \/ RunClose(c)
    <2>1. SharedOK' /\ CallsOK'
      BY <1>8 DEF RunAnnounce, RunAnnounced, RunClose, SharedOK, CallsOK
    <2>2. CyclesOK'
      BY <1>8 DEF RunAnnounce, RunAnnounced, RunClose, CyclesOK, Phases
    <2> QED
      BY <2>1, <2>2
  <1> HIDE DEF TypeOK
  <1> QED
    BY <1>1, <1>3, <1>4, <1>5, <1>6, <1>7, <1>8, CycleCases DEF Inside, Ends, Deferred

\* The environment keeps the types.
LEMMA EnvironmentType ==
    ASSUME TypeOK, CollectInv, LifecycleCancel \/ \E r \in Requests :
                     RequestCancel(r) \/ CycleTimeout(r) \/ DomainTimeout(r)
    PROVE  TypeOK'
  <1> USE DomainAssumption
      DEF TypeOK, SharedOK, CallsOK, CyclesOK, Cycles, sharedVars, requestVars, cycleVars,
          documentVars, timerVars, historyVars
  <1>1. \A c \in Cycles : Outstanding(c) \subseteq 1..NDomains
    BY DEF Outstanding
  <1>2. CASE LifecycleCancel
    BY <1>1, <1>2 DEF LifecycleCancel
  <1>3. ASSUME NEW r \in Requests, RequestCancel(r) PROVE TypeOK'
    BY <1>3 DEF RequestCancel
  <1>4. ASSUME NEW r \in Requests, CycleTimeout(r) PROVE TypeOK'
    BY <1>1, <1>4 DEF CycleTimeout
  <1>5. ASSUME NEW r \in Requests, DomainTimeout(r) PROVE TypeOK'
    <2>1. step[r] \in 1..NDomains
      BY <1>5 DEF DomainTimeout, CollectInv, StageInv
    <2> QED
      BY <1>5, <2>1 DEF DomainTimeout
  <1> HIDE DEF TypeOK
  <1> QED
    BY <1>2, <1>3, <1>4, <1>5

\* Every step keeps the types.
LEMMA TypeStep == IInv /\ [Next]_vars => TypeOK'
  <1> SUFFICES ASSUME IInv, [Next]_vars PROVE TypeOK'
    OBVIOUS
  <1>1. CASE UNCHANGED vars
    BY <1>1 DEF vars, sharedVars, requestVars, cycleVars, documentVars, timerVars, historyVars,
                IInv, TypeOK, SharedOK, CallsOK, CyclesOK
  <1>2. CallsInv /\ CollectInv /\ (\A c \in Cycles : StageInv(c)) /\ TypeOK
    BY DEF IInv, SafeInv, CallerInv, CollectInv
  <1> QED
    BY <1>1, <1>2, SnapshotType, CycleType, EnvironmentType DEF Next, Terminated, Cycles
-----------------------------------------------------------------------------
(* The slot and the calls: one step per action.                            *)

\* A step that leaves calls, slot and phases alone keeps what is said of them.
LEMMA CallerKept ==
    ASSUME CallerInv,
           UNCHANGED <<active, failed, fatalOnce, pc, joined, reply, before, phase, local, outcome>>
    PROVE  CallerInv'
  BY DEF CallerInv, OneCollector, ResultsInv, LatchInv, CallsInv, HistoryInv, AnnouncedInv,
         FreshReply, SettledReply, DefectAnnounced, Settled

\* No step of a call breaks it.
LEMMA SnapshotSafe ==
    ASSUME IInv, TypeOK', NEW r \in Requests, Snapshot(r) PROVE CallerInv'
  <1> USE CycleAssumption
      DEF IInv, SafeInv, CallerInv, TypeOK, SharedOK, CallsOK, CyclesOK, Cycles, Settled,
          OneCollector, ResultsInv, LatchInv, CallsInv, HistoryInv, AnnouncedInv,
          FreshReply, SettledReply, DefectAnnounced,
          sharedVars, requestVars, cycleVars
  <1>1. CASE SnapshotRefuse(r)
    BY <1>1 DEF SnapshotRefuse, Arrive, Return
  <1>2. CASE SnapshotEnter(r)
    BY <1>2 DEF SnapshotEnter, Arrive
  <1>3. CASE SnapshotNil(r)
    BY <1>3 DEF SnapshotNil, Arrive
  <1>4. CASE SnapshotFailed(r)
    <2>1. /\ pc[r] = "locking" /\ failed
          /\ pc' = [pc EXCEPT ![r] = "returned"] /\ reply' = [reply EXCEPT ![r] = "defect"]
          /\ UNCHANGED <<sharedVars, joined, before, cycleVars>>
      BY <1>4 DEF SnapshotFailed, Return, AdmissionOpen
    <2> QED
      BY <2>1
  <1>5. CASE SnapshotJoin(r)
    <2>1. /\ pc[r] = "locking" /\ ~failed /\ active # NoCycle
          /\ pc' = [pc EXCEPT ![r] = "waiting"] /\ joined' = [joined EXCEPT ![r] = active]
          /\ UNCHANGED <<sharedVars, reply, before, cycleVars>>
      BY <1>5 DEF SnapshotJoin, Await, AdmissionOpen
    <2>2. OneCollector' /\ ResultsInv' /\ AnnouncedInv' /\ LatchInv'
      BY <2>1
    <2>3. CallsInv' /\ HistoryInv'
      BY <2>1
    <2>4. active \in Cycles /\ ~Settled(active)
      BY <2>1
    <2>5. FreshReply'
      BY <2>1, <2>4
    <2>6. /\ pc'[r] = "waiting" /\ reply[r] = "pending"
          /\ \A q \in Requests : q # r => pc'[q] = pc[q] /\ joined'[q] = joined[q]
      BY <2>1
    <2>7. SettledReply'
      BY <2>1, <2>6
    <2>8. DefectAnnounced'
      BY <2>1, <2>6
    <2> QED
      BY <2>2, <2>3, <2>5, <2>7, <2>8
  <1>6. CASE SnapshotStart(r)
    BY <1>6 DEF SnapshotStart, Await, AdmissionOpen
  <1>7. CASE SnapshotDeliver(r)
    BY <1>7 DEF SnapshotDeliver, Return
  <1>8. CASE SnapshotDetach(r)
    BY <1>8 DEF SnapshotDetach, Return
  <1>9. CASE FailAnnounce(r)
    BY <1>9 DEF FailAnnounce
  <1>10. CASE FailAnnounced(r)
    BY <1>10 DEF FailAnnounced, Return
  <1>11. CASE FailAlreadyAnnounced(r)
    BY <1>11 DEF FailAlreadyAnnounced, Return
  <1> QED
    BY <1>1, <1>2, <1>3, <1>4, <1>5, <1>6, <1>7, <1>8, <1>9, <1>10, <1>11 DEF Snapshot

\* The end of the loop makes the result; the announcement and the closing of
\* done come after its publication.
LEMMA CycleSafe ==
    ASSUME IInv, TypeOK', NEW c \in Cycles, Run(c) \/ CollectorReturns(c), ~RunPublish(c)
    PROVE  CallerInv'
  <1> USE CycleAssumption
      DEF IInv, SafeInv, CallerInv, TypeOK, SharedOK, CallsOK, CyclesOK, Cycles, Settled,
          OneCollector, ResultsInv, LatchInv, CallsInv, HistoryInv, AnnouncedInv,
          FreshReply, SettledReply, DefectAnnounced, sharedVars, requestVars, cycleVars
  <1>1. CASE Inside(c)
    BY <1>1, InsideKeeps, CallerKept
  <1>2. ASSUME NEW result \in Results, Ends(c, result) PROVE CallerInv'
    BY <1>2 DEF Ends, Finish, Results
  <1>3. CASE RunAnnounce(c)
    BY <1>3 DEF RunAnnounce
  <1>4. CASE RunAnnounced(c)
    BY <1>4 DEF RunAnnounced
  <1>5. CASE RunClose(c)
    BY <1>5 DEF RunClose, MayClose
  <1> HIDE DEF IInv, CallerInv
  <1> QED
    BY <1>1, <1>2, <1>3, <1>4, <1>5, CycleCases DEF Deferred

\* Publication latches a defect, shares the result and frees the slot in one
\* section: no history and no reply refers to the cycle yet.
LEMMA PublishSafe ==
    ASSUME IInv, TypeOK', NEW c \in Cycles, RunPublish(c) PROVE CallerInv'
  <1> USE CycleAssumption
      DEF IInv, SafeInv, CallerInv, TypeOK, SharedOK, CallsOK, CyclesOK, Cycles, requestVars
  <1>1. phase[c] = "collected" /\ active = c /\ outcome[c] = "pending" /\ local[c] # "pending"
    BY DEF RunPublish, OneCollector, ResultsInv, Settled
  <1>2. \A r \in Requests : c \notin before[r]
    BY <1>1 DEF HistoryInv, Settled
  <1>3. OneCollector'
    BY <1>1 DEF RunPublish, SlotAfter, OneCollector
  <1>4. ResultsInv'
    BY <1>1 DEF RunPublish, ResultsInv, Settled
  <1>5. LatchInv'
    <2>1. failed' <=> (failed \/ local[c] = "defect")
      BY DEF RunPublish, Latched
    <2>2. outcome'[c] = local[c] /\ \A d \in Cycles \ {c} : outcome'[d] = outcome[d]
      BY DEF RunPublish
    <2>3. pc' = pc
      BY DEF RunPublish
    <2> QED
      BY <2>1, <2>2, <2>3 DEF LatchInv
  <1>6. CallsInv'
    BY <1>1 DEF RunPublish, CallsInv
  <1>7. HistoryInv'
    BY <1>1, <1>2 DEF RunPublish, HistoryInv, Settled
  <1>8. AnnouncedInv'
    BY <1>1 DEF RunPublish, AnnouncedInv
  <1>9. (FreshReply /\ SettledReply /\ DefectAnnounced)'
    BY <1>1 DEF RunPublish, FreshReply, SettledReply, DefectAnnounced
  <1> QED
    BY <1>3, <1>4, <1>5, <1>6, <1>7, <1>8, <1>9

\* Deadlines and cancellations leave everything it reads alone.
LEMMA EnvironmentSafe ==
    ASSUME IInv, LifecycleCancel \/ UNCHANGED vars \/ \E r \in Requests :
                   RequestCancel(r) \/ CycleTimeout(r) \/ DomainTimeout(r)
    PROVE  CallerInv'
  <1>1. UNCHANGED <<active, failed, fatalOnce, pc, joined, reply, before, phase, local, outcome>>
    BY DEF LifecycleCancel, RequestCancel, CycleTimeout, DomainTimeout, vars,
           sharedVars, requestVars, cycleVars, timerVars
  <1> QED
    BY <1>1, CallerKept DEF IInv, SafeInv

-----------------------------------------------------------------------------
(* The document and the deadlines: one step per action.                    *)

OfCycle(c) == StageInv(c) /\ UnusedInv(c) /\ DocumentInv(c) /\ OverdueInv(c) /\ LateInv(c)
CycleState(c) ==
    <<phase[c], step[c], stage[c], obs[c], seen[c], measuredFor[c], local[c], outcome[c],
      cycleExpired[c], domainExpired[c], overdue[c], lateCalls[c]>>

\* What is said of a cycle stays true as long as nothing happens to it.
LEMMA CycleKept ==
    ASSUME NEW c \in Cycles, OfCycle(c), UNCHANGED CycleState(c), UNCHANGED lifecycleDone
    PROVE  OfCycle(c)'
  BY DEF OfCycle, CycleState, StageInv, UnusedInv, DocumentInv, OverdueInv, LateInv,
         Outstanding, CycleOver

\* A cycle that starts has an empty document; calls change no other cycle.
LEMMA SnapshotCollects ==
    ASSUME IInv, NEW r \in Requests, Snapshot(r), NEW c \in Cycles PROVE OfCycle(c)'
  <1> USE DEF IInv, SafeInv, TypeOK, SharedOK, CallsOK, CyclesOK, Cycles, CollectInv
  <1>1. CASE ~SnapshotStart(r)
    <2>1. UNCHANGED CycleState(c) /\ UNCHANGED lifecycleDone
      BY <1>1 DEF Snapshot, SnapshotRefuse, SnapshotEnter, SnapshotNil, SnapshotFailed,
                  SnapshotJoin, SnapshotDeliver, SnapshotDetach, FailAnnounce, FailAnnounced,
                  FailAlreadyAnnounced, CycleState, sharedVars, cycleVars, documentVars, timerVars,
                  historyVars
    <2> QED
      BY <2>1, CycleKept DEF OfCycle
  <1>2. CASE SnapshotStart(r) /\ c # r
    <2>1. UNCHANGED CycleState(c) /\ UNCHANGED lifecycleDone
      BY <1>2 DEF SnapshotStart, CycleState, cycleVars, documentVars, timerVars, historyVars
    <2> QED
      BY <2>1, CycleKept DEF OfCycle
  <1>3. CASE SnapshotStart(r) /\ c = r
    <2>1. phase[c] = "unused" /\ phase'[c] = "collecting"
      BY <1>3 DEF SnapshotStart, CallerInv, CallsInv
    <2>2. /\ obs'[c] = {} /\ overdue'[c] = {} /\ lateCalls'[c] = 0 /\ stage'[c] = stage[c]
          /\ local'[c] = local[c] /\ outcome'[c] = outcome[c]
      BY <1>3, <2>1 DEF SnapshotStart, UnusedInv, documentVars, historyVars
    <2>3. stage[c] = "lifecycle"
      BY <2>1 DEF StageInv, Stages
    <2>4. local[c] # "ok" /\ outcome[c] # "ok"
      BY <2>1 DEF CallerInv, ResultsInv, Settled
    <2> QED
      BY <2>1, <2>2, <2>3, <2>4
         DEF OfCycle, StageInv, UnusedInv, DocumentInv, OverdueInv, LateInv
  <1> QED
    BY <1>1, <1>2, <1>3

\* A deadline that passes finds nothing of the outstanding domains in the
\* document, and makes the cycle's time be up for as long as it collects.
LEMMA EnvironmentCollects ==
    ASSUME IInv, LifecycleCancel \/ UNCHANGED vars \/ \E r \in Requests :
                   RequestCancel(r) \/ CycleTimeout(r) \/ DomainTimeout(r),
           NEW c \in Cycles
    PROVE  OfCycle(c)'
  <1> USE DEF IInv, SafeInv, TypeOK, SharedOK, CyclesOK, Cycles, CollectInv
  <1>1. CASE UNCHANGED vars \/ \E r \in Requests :
                 RequestCancel(r) \/ (r # c /\ (CycleTimeout(r) \/ DomainTimeout(r)))
    <2>1. UNCHANGED CycleState(c) /\ UNCHANGED lifecycleDone
      BY <1>1 DEF RequestCancel, CycleTimeout, DomainTimeout, CycleState, vars, sharedVars,
                  requestVars, cycleVars, documentVars, timerVars, historyVars
    <2> QED
      BY <2>1, CycleKept DEF OfCycle
  <1>2. CASE LifecycleCancel \/ CycleTimeout(c)
    <2>1. /\ UNCHANGED <<phase, step, stage, obs, seen, measuredFor, local, outcome,
                         domainExpired, lateCalls>>
          /\ overdue'[c] = overdue[c] \cup Outstanding(c)
          /\ CycleOver(c)'
      BY <1>2 DEF LifecycleCancel, CycleTimeout, CycleOver, sharedVars, cycleVars, documentVars,
                  timerVars
    <2>2. Outstanding(c)' = Outstanding(c) /\ (phase[c] # "collecting" => Outstanding(c) = {})
      BY <2>1 DEF Outstanding
    <2> QED
      BY <2>1, <2>2 DEF OfCycle, StageInv, UnusedInv, DocumentInv, OverdueInv, LateInv
  <1>3. CASE DomainTimeout(c)
    <2>1. /\ UNCHANGED <<phase, step, stage, obs, seen, measuredFor, local, outcome,
                         cycleExpired, lifecycleDone, lateCalls>>
          /\ overdue'[c] = overdue[c] \cup {step[c]}
          /\ domainExpired'[c]
          /\ phase[c] = "collecting" /\ stage[c] = "calling"
      BY <1>3 DEF DomainTimeout, sharedVars, cycleVars, documentVars
    <2>2. step[c] \in Outstanding(c) /\ Outstanding(c)' = Outstanding(c)
      BY <2>1 DEF Outstanding, StageInv
    <2> QED
      BY <2>1, <2>2 DEF OfCycle, StageInv, UnusedInv, DocumentInv, OverdueInv, LateInv, CycleOver
  <1> QED
    BY <1>1, <1>2, <1>3

\* A step of one cycle is invisible to the others.
LEMMA OtherCycles ==
    ASSUME IInv, NEW d \in Cycles, Run(d) \/ CollectorReturns(d), NEW c \in Cycles \ {d}
    PROVE  UNCHANGED CycleState(c) /\ UNCHANGED lifecycleDone
  <1> USE DEF IInv, TypeOK, CyclesOK, CycleState, sharedVars, cycleVars, documentVars, timerVars,
              historyVars
  <1>1. CASE Inside(d)
    BY <1>1 DEF Inside, DomainCheck, DomainAdmit, DomainSkip, DomainBegin, DomainReturn, CopyCPU,
                NextDomain, GoOn
  <1>2. ASSUME NEW result \in Results, Ends(d, result)
        PROVE  UNCHANGED CycleState(c) /\ UNCHANGED lifecycleDone
    BY <1>2 DEF Ends, Finish, GoOn, Kept
  <1>3. CASE Deferred(d)
    BY <1>3 DEF Deferred, RunPublish, RunAnnounce, RunAnnounced, RunClose
  <1> QED
    BY <1>1, <1>2, <1>3, CycleCases

\* The checks and the call: once the time is up the deadline is no longer
\* found open, so at most the call that had passed it is still made.
LEMMA ChecksCollect ==
    ASSUME IInv, NEW c \in Cycles,
           DomainCheck(c) \/ DomainAdmit(c) \/ DomainSkip(c) \/ DomainBegin(c)
    PROVE  OfCycle(c)'
  <1> USE DomainAssumption
      DEF IInv, SafeInv, TypeOK, SharedOK, CyclesOK, Cycles, CollectInv, At, GoOn,
          sharedVars, cycleVars, documentVars, timerVars, historyVars
  <1>1. /\ UNCHANGED <<phase, obs, seen, measuredFor, local, outcome, cycleExpired,
                       domainExpired, lifecycleDone, overdue>>
        /\ phase[c] = "collecting"
        /\ step'[c] \in {step[c], step[c] + 1}
    BY DEF DomainCheck, DomainAdmit, DomainSkip, DomainBegin, NextDomain
  <1>2. StageInv(c)'
    BY DEF DomainCheck, DomainAdmit, DomainSkip, DomainBegin, NextDomain, StageInv
  <1>3. UnusedInv(c)' /\ DocumentInv(c)'
    BY <1>1 DEF UnusedInv, DocumentInv
  <1>4. OverdueInv(c)'
    <2>1. Outstanding(c)' \subseteq Outstanding(c) /\ CycleOver(c)' = CycleOver(c)
      BY <1>1 DEF Outstanding, CycleOver
    <2> QED
      BY <1>1, <2>1 DEF OverdueInv
  <1>5. LateInv(c)'
    BY <1>1 DEF DomainCheck, DomainAdmit, DomainSkip, DomainBegin, NextDomain, LateInv, CycleOver,
                StageInv
  <1> QED
    BY <1>2, <1>3, <1>4, <1>5 DEF OfCycle

\* A result enters the document only in time, and for its own domain.
LEMMA ReturnCollects ==
    ASSUME IInv, NEW c \in Cycles, DomainReturn(c) PROVE OfCycle(c)'
  <1> USE DomainAssumption
      DEF IInv, SafeInv, TypeOK, SharedOK, CyclesOK, Cycles, CollectInv, At, NextDomain, GoOn,
          sharedVars, cycleVars, documentVars, timerVars, historyVars
  <1>1. PICK got \in SUBSET Units[step[c]], topology \in Topologies :
            LET taken == IF Expired(c) THEN {} ELSE got
            IN  /\ obs' = [obs EXCEPT ![c] = @ \cup taken]
                /\ seen' = IF "logicalCPUCount" \in taken
                           THEN [seen EXCEPT ![c] = topology] ELSE seen
    BY DEF DomainReturn
  <1>2. /\ phase[c] = "collecting" /\ step[c] \in 1..NDomains /\ step'[c] = step[c] + 1
        /\ stage[c] = "calling" /\ stage'[c] = "lifecycle"
        /\ UNCHANGED <<phase, measuredFor, local, outcome, cycleExpired, lifecycleDone, overdue,
                       lateCalls>>
    BY DEF DomainReturn, StageInv
  <1>3. /\ "utilization" \notin got
        /\ \A e \in (1..NDomains) \ {step[c]} : got \cap Units[e] = {}
    BY <1>2, UnitsOfDomain
  <1>4. StageInv(c)' /\ UnusedInv(c)'
    BY <1>2 DEF StageInv, UnusedInv
  <1>5. DocumentInv(c)'
    <2>1. local[c] # "ok" /\ outcome[c] # "ok"
      BY <1>2 DEF CallerInv, ResultsInv, Settled
    <2> QED
      BY <1>1, <1>2, <1>3, <2>1 DEF DocumentInv
  <1>6. OverdueInv(c)'
    <2>1. Outstanding(c) = step[c]..NDomains /\ Outstanding(c)' = (step[c] + 1)..NDomains
      BY <1>2 DEF Outstanding
    <2>2. obs'[c] = obs[c] \cup (IF Expired(c) THEN {} ELSE got) /\ CycleOver(c)' = CycleOver(c)
      BY <1>1, <1>2 DEF CycleOver
    <2>3. ASSUME NEW d \in Outstanding(c)' PROVE obs'[c] \cap Units[d] = {}
      <3>1. d \in Outstanding(c) /\ d \in (1..NDomains) \ {step[c]}
        BY <1>2, <2>1
      <3>2. obs[c] \cap Units[d] = {}
        BY <1>2, <3>1 DEF OverdueInv
      <3> QED
        BY <1>3, <2>2, <3>1, <3>2
    <2>4. ASSUME NEW d \in overdue[c]
          PROVE  /\ obs'[c] \cap Units[d] = {}
                 /\ step'[c] <= d => CycleOver(c)'
      <3>1. d \in 1..NDomains
        OBVIOUS
      <3>2. CASE d = step[c]
        <4>1. Expired(c)
          BY <1>2, <3>1, <3>2 DEF OverdueInv, Expired
        <4> QED
          BY <1>2, <2>2, <3>2, <4>1 DEF OverdueInv
      <3>3. CASE d # step[c]
        BY <1>2, <1>3, <2>2, <3>1, <3>3 DEF OverdueInv
      <3> QED
        BY <3>2, <3>3
    <2> QED
      BY <1>2, <2>3, <2>4 DEF OverdueInv
  <1>7. LateInv(c)'
    BY <1>2 DEF LateInv, CycleOver
  <1> QED
    BY <1>4, <1>5, <1>6, <1>7 DEF OfCycle

\* Utilization is copied for the topology of the CPU count.
LEMMA CopyCollects ==
    ASSUME IInv, NEW c \in Cycles, CopyCPU(c) PROVE OfCycle(c)'
  <1> USE DomainAssumption
      DEF IInv, SafeInv, TypeOK, SharedOK, CyclesOK, Cycles, CollectInv, At, NextDomain, GoOn,
          sharedVars, cycleVars, documentVars, timerVars, historyVars
  <1>1. /\ phase[c] = "collecting" /\ step[c] = NDomains + 1 /\ step'[c] = NDomains + 2
        /\ stage'[c] = "lifecycle"
        /\ UNCHANGED <<phase, seen, local, outcome, cycleExpired, domainExpired, lifecycleDone,
                       overdue, lateCalls>>
    BY DEF CopyCPU
  <1>2. \/ UNCHANGED <<obs, measuredFor>>
        \/ /\ "logicalCPUCount" \in obs[c]
           /\ obs'[c] = obs[c] \cup {"utilization"} /\ measuredFor'[c] = seen[c]
    BY DEF CopyCPU, UtilizationUsable
  <1>3. local[c] # "ok" /\ outcome[c] # "ok"
    BY <1>1 DEF CallerInv, ResultsInv, Settled
  <1>4. \A d \in 1..NDomains : obs'[c] \cap Units[d] = obs[c] \cap Units[d]
    BY <1>2, UnitsAssumption
  <1>5. Outstanding(c)' = {}
    BY <1>1 DEF Outstanding
  <1> QED
    BY <1>1, <1>2, <1>3, <1>4, <1>5
       DEF OfCycle, StageInv, UnusedInv, DocumentInv, OverdueInv, LateInv, CycleOver

\* An error leaves nothing behind, a result what was collected.
LEMMA EndCollects ==
    ASSUME IInv, NEW c \in Cycles, NEW result \in Results, Ends(c, result) PROVE OfCycle(c)'
  <1> USE DomainAssumption
      DEF IInv, SafeInv, TypeOK, SharedOK, CyclesOK, Cycles, CollectInv
  <1>1. phase'[c] = "collected" /\ stage'[c] = "lifecycle" /\ local'[c] = result
    BY DEF Ends, Finish, GoOn
  <1>2. outcome'[c] = outcome[c] /\ outcome[c] # "ok"
    BY DEF Ends, Finish, CallerInv, ResultsInv, Settled
  <1>3. CASE result = "ok"
    BY <1>1, <1>2, <1>3 DEF Ends, Finish, Kept, OfCycle, StageInv, UnusedInv, DocumentInv,
                            OverdueInv, LateInv
  <1>4. CASE result # "ok"
    <2>1. obs'[c] = {} /\ overdue'[c] = {} /\ lateCalls'[c] = 0
      BY <1>4 DEF Ends, Finish, Kept
    <2> QED
      BY <1>1, <1>2, <1>4, <2>1 DEF OfCycle, StageInv, UnusedInv, DocumentInv, OverdueInv, LateInv
  <1> QED
    BY <1>3, <1>4

\* The deferred function only passes the result on.
LEMMA DeferredCollects ==
    ASSUME IInv, NEW c \in Cycles, Deferred(c) PROVE OfCycle(c)'
  <1> USE DEF IInv, SafeInv, TypeOK, SharedOK, CyclesOK, Cycles, CollectInv
  <1>1. /\ UNCHANGED <<step, stage, obs, seen, measuredFor, cycleExpired, domainExpired,
                       overdue, lateCalls>>
        /\ phase[c] \in {"collected", "published", "announcing"}
        /\ phase'[c] \in {"published", "announcing", "closed"}
        /\ local'[c] \in {local[c], "pending"} /\ outcome'[c] \in {outcome[c], local[c]}
    BY DEF Deferred, RunPublish, RunAnnounce, RunAnnounced, RunClose, documentVars, timerVars,
           historyVars
  <1> QED
    BY <1>1 DEF OfCycle, StageInv, UnusedInv, DocumentInv, OverdueInv, LateInv

LEMMA CollectStep == IInv /\ [Next]_vars => CollectInv'
  <1> SUFFICES ASSUME IInv, [Next]_vars, NEW c \in Cycles PROVE OfCycle(c)'
    BY DEF CollectInv, OfCycle, Cycles
  <1>1. ASSUME Run(c) \/ CollectorReturns(c) PROVE OfCycle(c)'
    BY <1>1, CycleCases, ChecksCollect, ReturnCollects, CopyCollects, EndCollects,
       DeferredCollects DEF Inside
  <1>2. ASSUME NEW d \in Cycles \ {c}, Run(d) \/ CollectorReturns(d) PROVE OfCycle(c)'
    <2>1. OfCycle(c)
      BY DEF IInv, SafeInv, CollectInv, OfCycle
    <2> QED
      BY <1>2, <2>1, OtherCycles, CycleKept
  <1> QED
    BY <1>1, <1>2, SnapshotCollects, EnvironmentCollects DEF Next, Terminated, Cycles

\* The invariant is inductive.
LEMMA StepInv == IInv /\ [Next]_vars => IInv'
  <1> SUFFICES ASSUME IInv, [Next]_vars PROVE IInv'
    OBVIOUS
  <1>1. TypeOK'
    BY TypeStep
  <1>2. CallerInv'
    BY <1>1, SnapshotSafe, CycleSafe, PublishSafe, EnvironmentSafe DEF Next, Terminated, Cycles
  <1> QED
    BY <1>1, <1>2, CollectStep DEF IInv, SafeInv

\* The invariant holds in every reachable state.
THEOREM Invariance == Spec => []IInv
  BY InitInv, StepInv, PTL DEF Spec

\* Types: the state of calls, cycles and the slot stays well formed.
THEOREM TypeCorrect == Spec => []TypeOK
  <1>1. IInv => TypeOK
    BY DEF IInv
  <1> QED
    BY <1>1, Invariance, PTL

\* At most one cycle collects, for any number of concurrent requests.
THEOREM SingleCollector == Spec => []OneCollector
  <1>1. IInv => OneCollector
    BY DEF IInv, SafeInv, CallerInv
  <1> QED
    BY <1>1, Invariance, PTL

\* No call is answered by a cycle that was over before the call arrived, and
\* what it is told is the settled result of its cycle.
THEOREM RepliesFresh == Spec => [](FreshReply /\ SettledReply)
  <1>1. IInv => FreshReply /\ SettledReply
    BY DEF IInv, SafeInv, CallerInv
  <1> QED
    BY <1>1, Invariance, PTL

\* Defects are announced before any waiter hears of them.
THEOREM DefectsAnnounced == Spec => []DefectAnnounced
  <1>1. IInv => DefectAnnounced
    BY DEF IInv, SafeInv, CallerInv
  <1> QED
    BY <1>1, Invariance, PTL

\* No call that arrives after a published defect is served.
THEOREM DefectsStopService == Spec => []NoServiceAfterDefect
  <1>1. IInv => NoServiceAfterDefect
    BY DEF IInv, SafeInv, CallerInv, HistoryInv, NoServiceAfterDefect
  <1> QED
    BY <1>1, Invariance, PTL

\* A served snapshot is coherent, whatever the domains and their metrics: the
\* topology its utilization was measured for is that of its CPU count.
THEOREM SnapshotsCoherent == Spec => []CoherentSnapshot
  <1>1. IInv => CoherentSnapshot
    BY DEF IInv, SafeInv, CollectInv, DocumentInv, CoherentSnapshot
  <1> QED
    BY <1>1, Invariance, PTL

\* Nothing that was outstanding when a deadline passed enters a document, for
\* any number of domains, and at most one collector is called too late.
THEOREM DeadlinesHonoured == Spec => []DeadlineHonoured
  <1>1. IInv => DeadlineHonoured
    BY DEF IInv, SafeInv, CollectInv, OverdueInv, LateInv, DeadlineHonoured
  <1> QED
    BY <1>1, Invariance, PTL

-----------------------------------------------------------------------------
(* Coordinator implements SingleFlight.                                    *)

\* The two mapped variables after a step that leaves them alone.
LEMMA MappedUnchanged ==
    ASSUME UNCHANGED <<active, failed, outcome, pc, reply, before>>,
           {c \in Cycles : phase[c] # "unused"}' = {c \in Cycles : phase[c] # "unused"}
    PROVE  UNCHANGED Flight!vars
  BY DEF Flight!vars, CallerMap, WindowMap

\* Calls: arrivals are arrivals, starting is Begin, returns are answers.
LEMMA SnapshotSimulates ==
    ASSUME IInv, NEW r \in Requests, Snapshot(r)
    PROVE  Flight!Next \/ UNCHANGED Flight!vars
  <1> USE DEF IInv, SafeInv, CallerInv, TypeOK, SharedOK, CallsOK, CyclesOK, Cycles,
              sharedVars, requestVars, cycleVars, timerVars, CallerState
  <1>1. {c \in Cycles : phase[c] # "unused"} \ {c \in Cycles : Settled(c)} = {active} \ {NoCycle}
    BY CycleAssumption DEF OneCollector, Settled, Phases
  <1>2. ASSUME Arrive(r), UNCHANGED <<active, outcome, phase>>, pc'[r] # "idle",
               \A q \in Requests \ {r} : pc'[q] = pc[q]
        PROVE  /\ CallerMap[r] = "out"
               /\ CallerMap' = [CallerMap EXCEPT ![r] = CallerState(pc'[r])]
               /\ WindowMap' = [WindowMap EXCEPT ![r] = {active} \ {NoCycle}]
    <2>1. before' = [before EXCEPT ![r] = {c \in Cycles : Settled(c)}] /\ pc[r] = "idle"
      BY <1>2 DEF Arrive
    <2>2. CallerMap[r] = "out" /\ CallerMap' = [CallerMap EXCEPT ![r] = CallerState(pc'[r])]
      BY <1>2, <2>1 DEF CallerMap
    <2>3. WindowMap' = [WindowMap EXCEPT ![r] = {active} \ {NoCycle}]
      BY <1>1, <1>2, <2>1 DEF WindowMap
    <2> QED
      BY <2>2, <2>3
  <1>3. ASSUME pc[r] \notin {"idle", "returned"},
               UNCHANGED <<active, failed, outcome, before, phase>>
        PROVE  \A what : Return(r, what) => Flight!Told(r, what)
    <2> SUFFICES ASSUME NEW what, Return(r, what) PROVE Flight!Told(r, what)
      OBVIOUS
    <2>1. CallerMap[r] = "in" /\ CallerMap' = [CallerMap EXCEPT ![r] = "done"]
      BY <1>3 DEF Return, CallerMap
    <2>2. WindowMap' = WindowMap
      BY <1>3 DEF Return, WindowMap
    <2> QED
      BY <1>3, <2>1, <2>2 DEF Return, Flight!Told, CallerMap, WindowMap
  <1>4. CASE SnapshotRefuse(r)
    <2>1. Flight!ArriveCanceled(r)
      BY <1>2, <1>4 DEF SnapshotRefuse, Return, Flight!ArriveCanceled, Flight!Arrived,
                        CallerMap, WindowMap
    <2> QED
      BY <2>1 DEF Flight!Next
  <1>5. CASE SnapshotEnter(r)
    <2>1. Flight!Arrive(r)
      BY <1>2, <1>5 DEF SnapshotEnter, Flight!Arrive, Flight!Arrived, CallerMap, WindowMap
    <2> QED
      BY <2>1 DEF Flight!Next
  <1>6. CASE SnapshotNil(r)
    <2>1. Flight!ArriveDefective(r)
      BY <1>2, <1>6 DEF SnapshotNil, Flight!ArriveDefective, Flight!Arrived, CallerMap, WindowMap
    <2> QED
      BY <2>1 DEF Flight!Next
  <1>7. CASE SnapshotFailed(r) \/ FailAnnounced(r) \/ FailAlreadyAnnounced(r)
    <2>1. failed /\ Flight!Told(r, "defect")
      BY <1>3, <1>7 DEF SnapshotFailed, FailAnnounced, FailAlreadyAnnounced, AdmissionOpen, LatchInv
    <2> QED
      BY <2>1 DEF Flight!Next, Flight!Reject
  <1>8. CASE SnapshotDetach(r)
    <2>1. Flight!Told(r, "requestErr")
      BY <1>3, <1>8 DEF SnapshotDetach
    <2> QED
      BY <2>1 DEF Flight!Next, Flight!Detach
  <1>9. CASE SnapshotDeliver(r)
    <2>1. joined[r] \in Requests /\ phase[joined[r]] = "closed" /\ joined[r] \notin before[r]
      BY <1>9 DEF SnapshotDeliver, CallsInv, FreshReply
    <2>2. joined[r] \in WindowMap[r] /\ outcome[joined[r]] # "pending"
      BY <1>9, <2>1 DEF SnapshotDeliver, WindowMap, ResultsInv, Settled
    <2>3. Flight!Told(r, outcome[joined[r]])
      <3>1. Return(r, outcome[joined[r]]) /\ pc[r] = "waiting"
        BY <1>9 DEF SnapshotDeliver
      <3>2. UNCHANGED <<active, failed, outcome, before, phase>>
        BY <1>9 DEF SnapshotDeliver
      <3> HIDE DEF IInv, CallerState
      <3> QED
        BY <1>3, <3>1, <3>2 DEF Return, Flight!Told
    <2>4. Flight!Answer(r)
      <3> HIDE DEF IInv, CallerState
      <3> QED
        BY <2>2, <2>3 DEF Flight!Answer, WindowMap
    <2> QED
      BY <2>4 DEF Flight!Next
  <1>10. CASE SnapshotStart(r)
    <2>1. /\ pc[r] = "locking" /\ active = NoCycle /\ ~failed /\ phase[r] = "unused"
          /\ outcome[r] = "pending" /\ r \notin {c \in Cycles : Settled(c)}
      BY <1>10 DEF SnapshotStart, AdmissionOpen, CallsInv, ResultsInv, Settled
    <2>2. \A q \in Requests : r \notin before[q]
      BY <2>1 DEF HistoryInv
    <2>3. CallerMap[r] = "in" /\ CallerMap' = CallerMap
      BY <1>10, <2>1 DEF SnapshotStart, Await, CallerMap
    <2>4. WindowMap' = [q \in Requests |->
                          IF CallerMap[q] = "out" THEN {} ELSE WindowMap[q] \cup {r}]
      <3>1. /\ before' = before
            /\ {c \in Cycles : phase[c] # "unused"}' = {c \in Cycles : phase[c] # "unused"} \cup {r}
            /\ \A q \in Requests : pc'[q] = "idle" <=> pc[q] = "idle"
        BY <1>10, <2>1 DEF SnapshotStart, Await
      <3>2. \A q \in Requests : CallerMap[q] = "out" <=> pc[q] = "idle"
        BY DEF CallerMap
      <3> HIDE DEF IInv, CallerState
      <3> QED
        BY <2>2, <3>1, <3>2 DEF WindowMap
    <2>5. Flight!Begin(r)
      BY <1>10, <2>1, <2>3, <2>4 DEF SnapshotStart, Flight!Begin, CallerMap, WindowMap
    <2> QED
      BY <2>5 DEF Flight!Next
  <1>11. CASE SnapshotJoin(r) \/ FailAnnounce(r)
    <2>1. /\ UNCHANGED <<before, phase>>
          /\ \A q \in Requests : CallerState(pc'[q]) = CallerState(pc[q])
          /\ \A q \in Requests : pc'[q] = "idle" <=> pc[q] = "idle"
      BY <1>11 DEF SnapshotJoin, FailAnnounce, Await
    <2>2. CallerMap' = CallerMap /\ WindowMap' = WindowMap
      <3> HIDE DEF IInv, CallerState
      <3> QED
        BY <2>1 DEF CallerMap, WindowMap
    <2> QED
      BY <1>11, <2>2 DEF SnapshotJoin, FailAnnounce, Flight!vars, CallerMap, WindowMap
  <1> QED
    BY <1>4, <1>5, <1>6, <1>7, <1>8, <1>9, <1>10, <1>11 DEF Snapshot

\* Cycles: publication is Land, everything before and after it is invisible.
LEMMA CycleSimulates ==
    ASSUME IInv, NEW c \in Cycles, Run(c) \/ CollectorReturns(c)
    PROVE  Flight!Next \/ UNCHANGED Flight!vars
  <1> USE DEF sharedVars, requestVars, cycleVars, Cycles
  <1>1. phase \in [Cycles -> Phases]
    BY DEF IInv, TypeOK, CyclesOK
  <1>2. ASSUME NEW new, phase' = [phase EXCEPT ![c] = new], new # "unused", phase[c] # "unused"
        PROVE  {d \in Cycles : phase[d] # "unused"}' = {d \in Cycles : phase[d] # "unused"}
    BY <1>1, <1>2
  <1>3. CASE RunPublish(c)
    <2>1. active = c /\ local[c] \in Results /\ c \in Requests
      BY <1>3 DEF RunPublish, IInv, SafeInv, CallerInv, OneCollector, ResultsInv, TypeOK, CyclesOK
    <2>2. UNCHANGED <<CallerMap, WindowMap>>
      BY <1>2, <1>3 DEF RunPublish, CallerMap, WindowMap
    <2>3. Flight!Land(c)
      BY <1>3, <2>1, <2>2
      DEF RunPublish, SlotAfter, Latched, Flight!Land, CallerMap, WindowMap
    <2> QED
      BY <2>1, <2>3 DEF Flight!Next
  <1>4. CASE Inside(c)
    BY <1>4, InsideKeeps, MappedUnchanged
  <1>5. ASSUME NEW result \in Results, Ends(c, result) PROVE UNCHANGED Flight!vars
    BY <1>2, <1>5, MappedUnchanged DEF Ends, Finish
  <1>6. CASE RunAnnounce(c) \/ RunAnnounced(c) \/ RunClose(c)
    BY <1>2, <1>6, MappedUnchanged DEF RunAnnounce, RunAnnounced, RunClose
  <1> QED
    BY <1>3, <1>4, <1>5, <1>6, CycleCases DEF Deferred

\* Every step of Coordinator is a step of SingleFlight or stutters.
LEMMA StepSimulates == IInv /\ [Next]_vars => [Flight!Next]_(Flight!vars)
  <1> SUFFICES ASSUME IInv, [Next]_vars PROVE Flight!Next \/ UNCHANGED Flight!vars
    OBVIOUS
  <1>1. ASSUME \/ LifecycleCancel \/ UNCHANGED vars
               \/ \E r \in Requests : RequestCancel(r) \/ CycleTimeout(r) \/ DomainTimeout(r)
        PROVE  UNCHANGED Flight!vars
    <2>1. UNCHANGED <<active, failed, outcome, pc, reply, before, phase>>
      BY <1>1 DEF LifecycleCancel, RequestCancel, CycleTimeout, DomainTimeout, vars,
                  sharedVars, requestVars, cycleVars, timerVars
    <2> QED
      BY <2>1, MappedUnchanged
  <1> QED
    BY <1>1, SnapshotSimulates, CycleSimulates DEF Next, Terminated, Cycles

\* The initial states of Coordinator are initial states of SingleFlight.
LEMMA InitSimulates == Init => Flight!Init
  BY DEF Init, Flight!Init, CallerMap, WindowMap, CallerState, Cycles

\* Coordinator implements SingleFlight for every set of requests.
THEOREM Refinement == Spec => ImplementsSingleFlight
  BY Invariance, InitSimulates, StepSimulates, PTL DEF Spec, ImplementsSingleFlight, Flight!Spec

-----------------------------------------------------------------------------
(* A cycle takes a bounded number of steps.                                *)

\* How many steps the goroutine of a started cycle has left at most: four for
\* each domain and the CPU copy, its two checks, the call and the return, and
\* those of the result and the announcement.
AfterCollect(c) ==
    CASE phase[c] = "collected" -> 4
      [] phase[c] = "published" -> IF fatalOnce = "unused" THEN 3 ELSE 1
      [] phase[c] = "announcing" -> 2
      [] OTHER -> 0
Rank(place) ==
    CASE place = "lifecycle" -> 3 [] place = "deadline" -> 2 [] place = "call" -> 1 [] OTHER -> 0
StepsLeft(c) ==
    IF phase[c] = "collecting"
    THEN 4 * (NDomains + 2 - step[c]) + Rank(stage[c]) + 2
    ELSE AfterCollect(c)

LinearStep ==
    \A c \in Cycles : phase[c] # "unused" =>
        /\ StepsLeft(c) \in 0..(4 * NDomains + 9)
        /\ StepsLeft(c)' <= StepsLeft(c)
        /\ Run(c) \/ CollectorReturns(c) => StepsLeft(c)' < StepsLeft(c)

\* What is left is a number, and at least the deferred function of a cycle
\* that collects.
LEMMA StepsBounded ==
    ASSUME IInv, NEW c \in Cycles
    PROVE  /\ StepsLeft(c) \in 0..(4 * NDomains + 9)
           /\ phase[c] = "collecting" => StepsLeft(c) > 4
  <1> USE DEF IInv, SafeInv, TypeOK, CyclesOK, CollectInv
  <1>1. step[c] \in 1..(NDomains + 2) /\ Rank(stage[c]) \in 0..3
    BY DEF Rank
  <1>2. step[c] <= NDomains + 1 \/ Rank(stage[c]) = 3
    BY <1>1, DomainAssumption DEF StageInv, Rank, Stages
  <1>3. AfterCollect(c) \in 0..4
    BY DEF AfterCollect
  <1> QED
    BY <1>1, <1>2, <1>3, DomainAssumption DEF StepsLeft

\* A cycle's own steps use up what is left.
LEMMA CycleStepsDown ==
    ASSUME IInv, NEW c \in Cycles, Run(c) \/ CollectorReturns(c)
    PROVE  StepsLeft(c)' < StepsLeft(c)
  <1> USE DomainAssumption DEF IInv, SafeInv, TypeOK, SharedOK, CyclesOK, CollectInv
  <1>1. ASSUME NEW result \in Results, Ends(c, result) PROVE StepsLeft(c)' < StepsLeft(c)
    <2>1. StepsLeft(c)' = 4
      BY <1>1 DEF Ends, Finish, StepsLeft, AfterCollect
    <2> QED
      BY <1>1, <2>1, StepsBounded DEF Ends
  <1>2. CASE DomainCheck(c) \/ DomainAdmit(c) \/ DomainBegin(c)
    <2>1. phase[c] = "collecting" /\ phase' = phase /\ step' = step
      BY <1>2 DEF DomainCheck, DomainAdmit, DomainBegin, At
    <2>2. Rank(stage'[c]) \in 0..2 /\ Rank(stage'[c]) < Rank(stage[c])
      BY <1>2 DEF DomainCheck, DomainAdmit, DomainBegin, At, GoOn, Rank
    <2>3. Rank(stage[c]) \in 0..3
      BY DEF Rank
    <2> QED
      BY <2>1, <2>2, <2>3 DEF StepsLeft
  <1>3. CASE DomainSkip(c) \/ DomainReturn(c) \/ CopyCPU(c)
    <2>1. phase[c] = "collecting" /\ phase' = phase /\ step'[c] = step[c] + 1
      BY <1>3 DEF DomainSkip, DomainReturn, CopyCPU, NextDomain, At
    <2>2. Rank(stage'[c]) = 3
      BY <1>3 DEF DomainSkip, DomainReturn, CopyCPU, NextDomain, GoOn, Rank
    <2>3. Rank(stage[c]) \in 0..3
      BY DEF Rank
    <2> QED
      BY <2>1, <2>2, <2>3 DEF StepsLeft
  <1>4. CASE Deferred(c)
    BY <1>4 DEF Deferred, RunPublish, RunAnnounce, RunAnnounced, RunClose, StepsLeft, AfterCollect,
                sharedVars
  <1> QED
    BY <1>1, <1>2, <1>3, <1>4, CycleCases DEF Inside

\* Where a step of a cycle leads.
LEMMA CyclePhases ==
    ASSUME IInv, NEW c \in Cycles, Run(c) \/ CollectorReturns(c)
    PROVE  /\ UNCHANGED <<pc, canceled>>
           /\ UNCHANGED fatalOnce \/ fatalOnce' = "done"
                \/ (fatalOnce = "unused" /\ phase'[c] = "announcing")
           /\ phase[c] = "announcing" => fatalOnce' = "done"
           /\ \A d \in Cycles \ {c} : UNCHANGED <<phase[d], step[d], stage[d]>>
  <1> USE DEF IInv, TypeOK, CyclesOK, sharedVars, requestVars
  <1>1. CASE Inside(c)
    BY <1>1, InsideKeeps DEF Inside, DomainCheck, DomainAdmit, DomainSkip, DomainBegin,
                             DomainReturn, CopyCPU, NextDomain, GoOn
  <1>2. ASSUME NEW result \in Results, Ends(c, result)
        PROVE  /\ UNCHANGED <<pc, canceled, fatalOnce>> /\ phase[c] # "announcing"
               /\ \A d \in Cycles \ {c} : UNCHANGED <<phase[d], step[d], stage[d]>>
    BY <1>2 DEF Ends, Finish, GoOn
  <1>3. CASE Deferred(c)
    BY <1>3 DEF Deferred, RunPublish, RunAnnounce, RunAnnounced, RunClose
  <1> QED
    BY <1>1, <1>2, <1>3, CycleCases

\* Steps of calls, deadlines and other cycles leave a started cycle where it
\* is; no step makes fatalOnce unused again.
LEMMA OtherPhasesKept ==
    ASSUME IInv, [Next]_vars, NEW c \in Cycles, phase[c] # "unused",
           ~Run(c), ~CollectorReturns(c)
    PROVE  /\ UNCHANGED <<phase[c], step[c], stage[c]>>
           /\ fatalOnce' = "unused" => fatalOnce = "unused"
  <1> DEFINE Same == /\ UNCHANGED <<phase[c], step[c], stage[c]>>
                     /\ fatalOnce' = "unused" => fatalOnce = "unused"
  <1> USE DEF IInv, TypeOK, CyclesOK, cycleVars, sharedVars
  <1>1. ASSUME NEW r \in Requests, Snapshot(r) PROVE Same
    BY <1>1 DEF Snapshot, SnapshotRefuse, SnapshotEnter, SnapshotNil, SnapshotFailed,
                SnapshotJoin, SnapshotStart, SnapshotDeliver, SnapshotDetach, FailAnnounce,
                FailAnnounced, FailAlreadyAnnounced, SafeInv, CallerInv, CallsInv
  <1>2. ASSUME NEW d \in Cycles \ {c}, Run(d) \/ CollectorReturns(d) PROVE Same
    BY <1>2, CyclePhases
  <1>3. ASSUME \A r \in Requests : ~Snapshot(r) /\ ~Run(r) /\ ~CollectorReturns(r) PROVE Same
    BY <1>3 DEF Next, LifecycleCancel, RequestCancel, CycleTimeout, DomainTimeout, Terminated,
                vars, Cycles
  <1> QED
    BY <1>1, <1>2, <1>3 DEF Cycles

\* Nor do they add to what is left for it to do.
LEMMA OthersStepsKept ==
    ASSUME IInv, [Next]_vars, NEW c \in Cycles, phase[c] # "unused",
           ~Run(c), ~CollectorReturns(c)
    PROVE  StepsLeft(c)' <= StepsLeft(c)
  <1>1. StepsLeft(c) \in Nat
    BY StepsBounded, DomainAssumption
  <1>2. UNCHANGED <<phase[c], step[c], stage[c]>> /\ (fatalOnce' = "unused" => fatalOnce = "unused")
    BY OtherPhasesKept
  <1>3. phase[c] = "collecting" => StepsLeft(c)' = StepsLeft(c)
    BY <1>2 DEF StepsLeft, Rank
  <1>4. phase[c] # "collecting" => StepsLeft(c)' <= StepsLeft(c)
    BY <1>2 DEF StepsLeft, AfterCollect
  <1> QED
    BY <1>1, <1>3, <1>4

\* Each step of a cycle's goroutine uses up one of a number of steps that the
\* domains bound, whatever requests, deadlines and other cycles do: the loop
\* over the domains ends, and so does the deferred function.
THEOREM CyclesLinear == Spec => [][LinearStep]_vars
  <1>1. IInv /\ [Next]_vars => [LinearStep]_vars
    <2>1. ASSUME IInv, [Next]_vars, NEW c \in Cycles, phase[c] # "unused"
          PROVE  StepsLeft(c)' <= StepsLeft(c)
      <3>1. CASE Run(c) \/ CollectorReturns(c)
        <4>1. StepsLeft(c) \in Nat /\ StepsLeft(c)' \in Nat
          <5>1. IInv' /\ StepsLeft(c) \in 0..(4 * NDomains + 9)
            BY <2>1, StepInv, StepsBounded
          <5>2. StepsLeft(c)' \in Nat
            BY <5>1, DomainAssumption
               DEF IInv, TypeOK, CyclesOK, StepsLeft, Rank, AfterCollect
          <5> QED
            BY <5>1, <5>2, DomainAssumption
        <4> QED
          BY <2>1, <3>1, <4>1, CycleStepsDown
      <3> QED
        BY <2>1, <3>1, OthersStepsKept
    <2> QED
      BY <2>1, StepsBounded, CycleStepsDown DEF LinearStep
  <1> QED
    BY <1>1, Invariance, PTL DEF Spec

-----------------------------------------------------------------------------
(* Calls return.                                                           *)

Locking(r) == pc[r] = "locking"
Waiting(r) == pc[r] = "waiting"
TimedOut(r) == pc[r] = "waiting" /\ canceled[r]
Failing(r) == pc[r] = "failing"
Announcing(r) == pc[r] = "announcing"
Returned(r) == pc[r] = "returned"

Unannounced == fatalOnce = "unused"
Announced == fatalOnce = "done"
AnnouncedByCall(r) == fatalOnce = "running" /\ pc[r] = "announcing"
AnnouncedByCycle(c) == fatalOnce = "running" /\ phase[c] = "announcing"

\* Whoever waits in fatalOnce.Do waits for somebody who is in the callback.
AnnouncerInv ==
    fatalOnce = "running" =>
        \/ \E r \in Requests : pc[r] = "announcing"
        \/ \E c \in Cycles : phase[c] = "announcing"

\* Where the guard of a step of a call, of its context or of the announcement
\* holds, the step is enabled: its definition assigns every variable and
\* changes one.  The provers cannot evaluate ENABLED, so this is a hypothesis
\* of RequestsAlwaysReturn.
CallsEnabled ==
    /\ \A r \in Requests :
        /\ Locking(r) \/ TimedOut(r) \/ Announcing(r) => ENABLED <<SnapshotProceeds(r)>>_vars
        /\ Failing(r) /\ (Unannounced \/ Announced) => ENABLED <<SnapshotProceeds(r)>>_vars
        /\ Waiting(r) /\ ~TimedOut(r) => ENABLED <<RequestExpiry(r)>>_vars
    /\ \A c \in Cycles : AnnouncedByCycle(c) => ENABLED <<Run(c)>>_vars

LEMMA AnnouncerStep ==
    ASSUME IInv, AnnouncerInv, [Next]_vars
    PROVE  /\ AnnouncerInv'
           /\ Announced => Announced'
           /\ \A r \in Requests :
                /\ AnnouncedByCall(r) => AnnouncedByCall(r)' \/ Announced'
                /\ AnnouncedByCall(r) /\ SnapshotProceeds(r) => Announced'
           /\ \A c \in Cycles :
                /\ AnnouncedByCycle(c) => AnnouncedByCycle(c)' \/ Announced'
                /\ AnnouncedByCycle(c) /\ Run(c) => Announced'
  <1> USE DEF IInv, TypeOK, SharedOK, CallsOK, CyclesOK, AnnouncerInv, Announced, AnnouncedByCall,
              AnnouncedByCycle, Cycles
  <1>1. ASSUME NEW r \in Requests, Snapshot(r) PROVE
            /\ \/ UNCHANGED fatalOnce \/ fatalOnce' = "done"
               \/ fatalOnce = "unused" /\ pc'[r] = "announcing"
            /\ \A q \in Requests \ {r} : pc'[q] = pc[q]
            /\ pc[r] = "announcing" => fatalOnce' = "done"
            /\ \A c \in Cycles : phase[c] = "announcing" => phase'[c] = "announcing"
    BY <1>1 DEF Snapshot, SnapshotRefuse, SnapshotEnter, SnapshotNil, SnapshotFailed, SnapshotJoin,
                SnapshotStart, SnapshotDeliver, SnapshotDetach, FailAnnounce, FailAnnounced,
                FailAlreadyAnnounced, Return, Await, Arrive, requestVars, cycleVars, sharedVars,
                CallsInv, CallerInv, SafeInv
  <1>2. ASSUME NEW c \in Cycles, Run(c) \/ CollectorReturns(c) PROVE
            /\ UNCHANGED pc
            /\ \/ UNCHANGED fatalOnce \/ fatalOnce' = "done"
               \/ fatalOnce = "unused" /\ phase'[c] = "announcing"
            /\ \A q \in Cycles \ {c} : phase'[q] = phase[q]
            /\ phase[c] = "announcing" => fatalOnce' = "done"
    BY <1>2, CyclePhases
  <1>3. ASSUME \A r \in Requests : ~Snapshot(r) /\ ~Run(r) /\ ~CollectorReturns(r)
        PROVE  UNCHANGED <<fatalOnce, pc, phase>>
    BY <1>3 DEF Next, LifecycleCancel, RequestCancel, CycleTimeout, DomainTimeout, Terminated,
                vars, requestVars, cycleVars, sharedVars
  <1> QED
    BY <1>1, <1>2, <1>3 DEF SnapshotProceeds

\* What a step does to a call.
LEMMA CallMoves ==
    ASSUME IInv, NEW r \in Requests, [Next]_vars
    PROVE  /\ Locking(r) => Locking(r)' \/ Waiting(r)' \/ Returned(r)'
           /\ Waiting(r) => Waiting(r)' \/ Returned(r)'
           /\ TimedOut(r) => TimedOut(r)' \/ Returned(r)'
           /\ Failing(r) => Failing(r)' \/ Announcing(r)' \/ Returned(r)'
           /\ Announcing(r) => Announcing(r)' \/ Returned(r)'
           /\ Locking(r) /\ SnapshotProceeds(r) => Waiting(r)' \/ Returned(r)'
           /\ Waiting(r) /\ RequestExpiry(r) => TimedOut(r)'
           /\ TimedOut(r) /\ SnapshotProceeds(r) => Returned(r)'
           /\ Failing(r) /\ SnapshotProceeds(r) => Announcing(r)' \/ Returned(r)'
           /\ Announcing(r) /\ SnapshotProceeds(r) => Returned(r)'
  <1> USE DEF IInv, TypeOK, CallsOK, Locking, Waiting, TimedOut, Failing, Announcing, Returned
  <1>1. ASSUME NEW q \in Requests, Snapshot(q) PROVE
            /\ UNCHANGED canceled
            /\ q # r => pc'[r] = pc[r]
            /\ pc[q] = "locking" => pc'[q] \in {"waiting", "returned"}
            /\ pc[q] = "failing" => pc'[q] \in {"announcing", "returned"}
            /\ pc[q] \in {"waiting", "announcing"} => pc'[q] = "returned"
    BY <1>1 DEF Snapshot, SnapshotRefuse, SnapshotEnter, SnapshotNil, SnapshotFailed, SnapshotJoin,
                SnapshotStart, SnapshotDeliver, SnapshotDetach, FailAnnounce, FailAnnounced,
                FailAlreadyAnnounced, Return, Await, Arrive
  <1>2. ASSUME NEW q \in Requests, RequestCancel(q)
        PROVE  UNCHANGED pc /\ canceled'[q] /\ (canceled[r] => canceled'[r])
    BY <1>2 DEF RequestCancel
  <1>3. ASSUME \A q \in Requests : ~Snapshot(q) /\ ~RequestCancel(q)
        PROVE  UNCHANGED <<pc, canceled>>
    BY <1>3, CyclePhases DEF Next, LifecycleCancel, CycleTimeout, DomainTimeout, Terminated, vars,
                             requestVars, Cycles
  <1> QED
    BY <1>1, <1>2, <1>3 DEF SnapshotProceeds, RequestExpiry

\* What holds at every moment of a behavior, not only from its start.
Running == [][Next]_vars /\ []IInv /\ []AnnouncerInv /\ []CallsEnabled
GetsAnnounced == <>Announced

LEMMA RunningFromStart == Spec /\ []CallsEnabled => Running
  <1>1. Init => AnnouncerInv
    BY DEF Init, AnnouncerInv
  <1>2. IInv /\ AnnouncerInv /\ [Next]_vars => AnnouncerInv'
    BY AnnouncerStep
  <1> QED
    BY <1>1, <1>2, Invariance, PTL DEF Spec, Running

\* The callback that is under way ends, in a call or in a cycle.
LEMMA CallAnnounces ==
    ASSUME NEW r \in Requests
    PROVE  Running /\ SnapshotScheduled(r) => (AnnouncedByCall(r) => GetsAnnounced)
  <1>1. IInv /\ AnnouncerInv /\ [Next]_vars =>
            /\ AnnouncedByCall(r) => AnnouncedByCall(r)' \/ Announced'
            /\ AnnouncedByCall(r) /\ SnapshotProceeds(r) => Announced'
    BY AnnouncerStep
  <1>2. CallsEnabled => (AnnouncedByCall(r) => ENABLED <<SnapshotProceeds(r)>>_vars)
    BY DEF CallsEnabled, AnnouncedByCall, Announcing
  <1> QED
    BY <1>1, <1>2, PTL DEF Running, SnapshotScheduled, GetsAnnounced

LEMMA CycleAnnounces ==
    ASSUME NEW c \in Cycles
    PROVE  Running /\ CycleScheduled(c) => (AnnouncedByCycle(c) => GetsAnnounced)
  <1>1. IInv /\ AnnouncerInv /\ [Next]_vars =>
            /\ AnnouncedByCycle(c) => AnnouncedByCycle(c)' \/ Announced'
            /\ AnnouncedByCycle(c) /\ Run(c) => Announced'
    BY AnnouncerStep
  <1>2. CallsEnabled => (AnnouncedByCycle(c) => ENABLED <<Run(c)>>_vars)
    BY DEF CallsEnabled
  <1> QED
    BY <1>1, <1>2, PTL DEF Running, CycleScheduled, GetsAnnounced

LEMMA AnnouncementEnds ==
    Running /\ Scheduling => (fatalOnce = "running" => GetsAnnounced)
  <1>1. \A r \in Requests : Running /\ SnapshotScheduled(r) => (AnnouncedByCall(r) => GetsAnnounced)
    BY CallAnnounces
  <1>2. \A c \in Cycles : Running /\ CycleScheduled(c) => (AnnouncedByCycle(c) => GetsAnnounced)
    BY CycleAnnounces
  <1>3. AnnouncerInv => (fatalOnce = "running" =>
            \/ \E r \in Requests : AnnouncedByCall(r)
            \/ \E c \in Cycles : AnnouncedByCycle(c))
    BY DEF AnnouncerInv, AnnouncedByCall, AnnouncedByCycle
  <1>4. Running => AnnouncerInv
    BY PTL DEF Running
  <1> QED
    BY <1>1, <1>2, <1>3, <1>4 DEF Scheduling

\* A call returns: detached by its deadline if it waits, and after the
\* announcement if it fails.
LEMMA EachCallReturns ==
    ASSUME NEW r \in Requests
    PROVE  Running /\ []Scheduling /\ RequestExpires(r) => CallReturns(r)
  <1>1. IInv => (pc[r] # "idle" => \/ Locking(r) \/ Waiting(r) \/ Failing(r) \/ Announcing(r)
                                   \/ Returned(r))
    BY DEF IInv, TypeOK, CallsOK, CallStates, Locking, Waiting, Failing, Announcing, Returned
  <1>2. IInv /\ [Next]_vars =>
            /\ Locking(r) => Locking(r)' \/ Waiting(r)' \/ Returned(r)'
            /\ Waiting(r) => Waiting(r)' \/ Returned(r)'
            /\ TimedOut(r) => TimedOut(r)' \/ Returned(r)'
            /\ Failing(r) => Failing(r)' \/ Announcing(r)' \/ Returned(r)'
            /\ Announcing(r) => Announcing(r)' \/ Returned(r)'
            /\ Locking(r) /\ SnapshotProceeds(r) => Waiting(r)' \/ Returned(r)'
            /\ Waiting(r) /\ RequestExpiry(r) => TimedOut(r)'
            /\ TimedOut(r) /\ SnapshotProceeds(r) => Returned(r)'
            /\ Failing(r) /\ SnapshotProceeds(r) => Announcing(r)' \/ Returned(r)'
            /\ Announcing(r) /\ SnapshotProceeds(r) => Returned(r)'
    BY CallMoves
  <1>3. IInv /\ AnnouncerInv /\ [Next]_vars => (Announced => Announced')
    BY AnnouncerStep
  <1>4. CallsEnabled =>
            /\ Locking(r) \/ TimedOut(r) \/ Announcing(r) => ENABLED <<SnapshotProceeds(r)>>_vars
            /\ Failing(r) /\ (Unannounced \/ Announced) => ENABLED <<SnapshotProceeds(r)>>_vars
            /\ Waiting(r) /\ ~TimedOut(r) => ENABLED <<RequestExpiry(r)>>_vars
    BY DEF CallsEnabled
  <1>5. IInv => Unannounced \/ Announced \/ fatalOnce = "running"
    BY DEF IInv, TypeOK, SharedOK, Unannounced, Announced
  <1>6. Scheduling => SnapshotScheduled(r)
    BY DEF Scheduling
  <1>7. Returned(r) <=> pc[r] = "returned"
    BY DEF Returned
  <1> QED
    BY <1>1, <1>2, <1>3, <1>4, <1>5, <1>6, <1>7, AnnouncementEnds, PTL
       DEF Running, SnapshotScheduled, RequestExpires, GetsAnnounced, CallReturns

\* Under the fairness of the scheduler every call returns once deadlines
\* pass, even if a collector never does.  Scheduling implies []Scheduling: WF
\* is about what happens again and again.  The provers lack the rule that
\* exchanges [] and \A.
THEOREM RequestsAlwaysReturn == FairSpec /\ []Scheduling /\ []CallsEnabled => RequestReturns
  <1>1. ASSUME NEW r \in Requests
        PROVE  Running /\ []Scheduling /\ DeadlinesPass => CallReturns(r)
    BY EachCallReturns DEF DeadlinesPass
  <1>2. FairSpec => Spec
    BY DEF FairSpec
  <1> QED
    BY <1>1, <1>2, RunningFromStart DEF RequestReturns

-----------------------------------------------------------------------------
(* The deferred function of a cycle ends.                                  *)

Collected(c) == phase[c] = "collected"
Published(c) == phase[c] = "published"
InCallback(c) == phase[c] = "announcing"
Closed(c) == phase[c] = "closed"
EachCloses(c) == Collected(c) ~> Closed(c)

\* As CallsEnabled, for the goroutine of a cycle that has collected.
CyclesEnabled ==
    \A c \in Cycles :
        /\ Collected(c) \/ InCallback(c) => ENABLED <<Run(c)>>_vars
        /\ Published(c) /\ fatalOnce # "running" => ENABLED <<Run(c)>>_vars

LEMMA DeferredMoves ==
    ASSUME IInv, [Next]_vars, NEW c \in Cycles
    PROVE  /\ Collected(c) => Collected(c)' \/ Published(c)'
           /\ Published(c) => Published(c)' \/ InCallback(c)' \/ Closed(c)'
           /\ Published(c) /\ Announced => Published(c)' \/ Closed(c)'
           /\ InCallback(c) => InCallback(c)' \/ (Published(c)' /\ Announced')
           /\ Collected(c) /\ Run(c) => Published(c)'
           /\ Published(c) /\ Run(c) => InCallback(c)' \/ Closed(c)'
           /\ Published(c) /\ Announced /\ Run(c) => Closed(c)'
           /\ InCallback(c) /\ Run(c) => Published(c)' /\ Announced'
  <1> USE DEF Collected, Published, InCallback, Closed, Announced
  <1>1. CASE Run(c) \/ CollectorReturns(c)
    <2> USE DEF IInv, TypeOK, CyclesOK, sharedVars
    <2>1. CASE Inside(c)
      BY <2>1, InsideKeeps
    <2>2. ASSUME NEW result \in Results, Ends(c, result) PROVE phase[c] = "collecting"
      BY <2>2 DEF Ends
    <2>3. CASE Deferred(c)
      BY <2>3 DEF Deferred, RunPublish, RunAnnounce, RunAnnounced, RunClose
    <2> QED
      BY <1>1, <2>1, <2>2, <2>3, CycleCases
  <1>2. CASE ~Run(c) /\ ~CollectorReturns(c)
    <2>1. phase[c] # "unused" => UNCHANGED phase[c]
      BY <1>2, OtherPhasesKept
    <2> QED
      BY <1>2, <2>1
  <1> QED
    BY <1>1, <1>2

\* The result is shared, a defect is announced or found to be, and done is
\* closed, even while another cycle or call is in the callback.
LEMMA CycleCloses ==
    ASSUME NEW c \in Cycles
    PROVE  Running /\ []Scheduling /\ []CyclesEnabled => EachCloses(c)
  <1>1. IInv /\ [Next]_vars =>
            /\ Collected(c) => Collected(c)' \/ Published(c)'
            /\ Published(c) => Published(c)' \/ InCallback(c)' \/ Closed(c)'
            /\ Published(c) /\ Announced => Published(c)' \/ Closed(c)'
            /\ InCallback(c) => InCallback(c)' \/ (Published(c)' /\ Announced')
            /\ Collected(c) /\ Run(c) => Published(c)'
            /\ Published(c) /\ Run(c) => InCallback(c)' \/ Closed(c)'
            /\ Published(c) /\ Announced /\ Run(c) => Closed(c)'
            /\ InCallback(c) /\ Run(c) => Published(c)' /\ Announced'
    BY DeferredMoves
  <1>2. IInv /\ AnnouncerInv /\ [Next]_vars => (Announced => Announced')
    BY AnnouncerStep
  <1>3. CyclesEnabled =>
            /\ Collected(c) \/ InCallback(c) => ENABLED <<Run(c)>>_vars
            /\ Published(c) /\ fatalOnce # "running" => ENABLED <<Run(c)>>_vars
    BY DEF CyclesEnabled
  <1>4. /\ Announced => ~(fatalOnce = "running")
        /\ fatalOnce # "running" <=> ~(fatalOnce = "running")
    BY DEF Announced
  <1>5. Scheduling => CycleScheduled(c)
    BY DEF Scheduling
  <1> QED
    BY <1>1, <1>2, <1>3, <1>4, <1>5, AnnouncementEnds, PTL
       DEF Running, CycleScheduled, GetsAnnounced, EachCloses

\* A cycle that has collected shares its result and closes done: nobody waits
\* for ever for a cycle whose collectors have returned, a defect of its own
\* or of somebody else notwithstanding.
THEOREM CollectedAlwaysCloses ==
    FairSpec /\ []Scheduling /\ []CallsEnabled /\ []CyclesEnabled
        => \A c \in Cycles : EachCloses(c)
  <1>1. FairSpec => Spec
    BY DEF FairSpec
  <1> QED
    BY <1>1, CycleCloses, RunningFromStart
=============================================================================
