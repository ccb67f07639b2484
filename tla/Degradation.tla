---------------------------- MODULE Degradation ----------------------------
(***************************************************************************)
(* The degradation journal: finalize (src/internal/observe/coordinator.go) *)
(* turns the observations of a cycle into issues, one per missing metric,  *)
(* and the reporter (src/internal/observe/degradation.go) logs those that  *)
(* are new, reminds of those that last and logs those that are over.       *)
(*                                                                         *)
(* Cycles report one after the other (Coordinator!OneCollector), so a      *)
(* report is one action.  The list of events is a function on its sites,   *)
(* the calls of append that have made it; an event is a metric's path and  *)
(* the reason for its absence.                                             *)
(***************************************************************************)
EXTENDS Naturals, FiniteSets

CONSTANTS
    Singles,            \* the metrics with an issue of their own
    FirmwarePaths,      \* the metrics one firmware outcome stands for
    Reasons,            \* the reasons of the collectors
    MaximumInterfaces,  \* maximumInterfaces
    MaximumStates,      \* maximumDegradationStates
    ReminderInterval,   \* degradationReminderInterval, in ticks
    Horizon             \* bound: the clock stops here

ASSUME BoundsAssumption ==
    /\ {MaximumStates, Horizon} \subseteq Nat
    /\ {MaximumInterfaces, ReminderInterval} \subseteq Nat \ {0}
    /\ IsFiniteSet(Singles) /\ IsFiniteSet(FirmwarePaths)
ASSUME NameAssumption == "" \notin Singles \cup FirmwarePaths

\* What validIssueCode accepts.
IssueCodes == {"unsupported", "permission_denied", "temporarily_unavailable"}
ASSUME ReasonAssumption == Reasons \subseteq IssueCodes

Fields == {"state", "rx_bytes", "tx_bytes"}

\* In the code 8 + 4 + 3 * 64 = 204.
ASSUME LimitAssumption ==
    MaximumStates =
        Cardinality(Singles) + Cardinality(FirmwarePaths) + 3 * MaximumInterfaces

VARIABLES
    now,
    active,         \* DegradationReporter.active: lastLogged of every active key
    refused,        \* Report returned an error, a defect that ends the process
    latest,         \* history: the events of the latest report
    reportedAt,     \* history: when that was
    warnedAt        \* history: the keys whose last record is a warning, and its time

vars == <<now, active, refused, latest, reportedAt, warnedAt>>

-----------------------------------------------------------------------------
(* finalize.                                                               *)

Outcomes == {"present"} \cup Reasons

Observations ==
    [single : [Singles -> Outcomes],
     firmware : Outcomes,
     network :
        [outcome : Reasons, interfaces : {<<>>}]
        \cup [outcome : {"present"},
              interfaces : UNION {[1..n -> [Fields -> Outcomes]] : n \in 0..MaximumInterfaces}]]

\* setValue and its like, for one metric each.
SingleSites(o) == {<<"set", 0, m>> : m \in {m \in Singles : o.single[m] # "present"}}

\* setFirmware: four metrics share one outcome.
FirmwareSites(o) ==
    {<<"setFirmware", 0, p>> : p \in {p \in FirmwarePaths : o.firmware # "present"}}

\* setNetwork: the network as a whole is missing, or fields of interfaces.
NetworkSites(o) ==
    IF o.network.outcome # "present"
    THEN {<<"setNetwork", 0, "network">>}
    ELSE LET missing == {f \in (DOMAIN o.network.interfaces) \X Fields :
                            o.network.interfaces[f[1]][f[2]] # "present"}
         IN  {<<"setLeaf", f[1], f[2]>> : f \in missing}

Sites(o) == SingleSites(o) \cup FirmwareSites(o) \cup NetworkSites(o)

\* The path and the code each of them appends: the document's top level, the
\* group of the firmware flags, or an interface by its index.
PathMutant(site) ==
    CASE site[1] = "set" -> <<"", 0, site[3]>>
      [] site[1] = "setFirmware" -> <<"raspberry_pi", 0, site[3]>>
      [] site[1] = "setNetwork" -> <<"network", 0, "">>
      [] site[1] = "setLeaf" ->
            <<"network", site[2], IF site[3] = "tx_bytes" THEN "rx_bytes" ELSE site[3]>>
Path(site) ==
    CASE site[1] = "set" -> <<"", 0, site[3]>>
      [] site[1] = "setFirmware" -> <<"raspberry_pi", 0, site[3]>>
      [] site[1] = "setNetwork" -> <<"network", 0, "">>
      [] site[1] = "setLeaf" -> <<"network", site[2], site[3]>>

Code(o, site) ==
    CASE site[1] = "set" -> o.single[site[3]]
      [] site[1] = "setFirmware" -> o.firmware
      [] site[1] = "setNetwork" -> o.network.outcome
      [] site[1] = "setLeaf" -> o.network.interfaces[site[2]][site[3]]

Events(o) == [site \in Sites(o) |-> [metric |-> Path(site), reason |-> Code(o, site)]]

-----------------------------------------------------------------------------
(* DegradationReporter.Report.                                             *)

\* The three reasons to refuse a list.
NoMetric == <<"", 0, "">>
TooMany(events) == Cardinality(DOMAIN events) > MaximumStates
Invalid(events) ==
    \E site \in DOMAIN events :
        events[site].metric = NoMetric \/ events[site].reason \notin IssueCodes
Keys(events) == {events[site] : site \in DOMAIN events}
Duplicate(events) == Cardinality(Keys(events)) < Cardinality(DOMAIN events)

\* New keys, and those whose last record is a reminder interval old.
Warned(current) ==
    {k \in current : k \notin DOMAIN active \/ now - active[k] >= ReminderInterval}

\* Keys that are active and were not reported again.
RecoveredMutant(current) ==
    {k \in DOMAIN active : k.metric \notin {e.metric : e \in current}}
Recovered(current) == DOMAIN active \ current

LoggedAtMutant(k, current) == now
LoggedAt(k, current) == IF k \in Warned(current) THEN now ELSE active[k]

Init ==
    /\ now = 0
    /\ active = <<>>
    /\ refused = FALSE
    /\ latest = {}
    /\ reportedAt = 0
    /\ warnedAt = <<>>

\* A list is refused as a whole, before anything is logged.
Report(events) ==
    IF TooMany(events) \/ Invalid(events) \/ Duplicate(events)
    THEN refused' = TRUE /\ UNCHANGED <<now, active, latest, reportedAt, warnedAt>>
    ELSE LET current == Keys(events)
             warned == Warned(current)
             recovered == Recovered(current)
         IN  /\ active' = [k \in (DOMAIN active \cup current) \ recovered |-> LoggedAt(k, current)]
             /\ latest' = current
             /\ warnedAt' = [k \in (DOMAIN warnedAt \cup warned) \ recovered |->
                                  IF k \in warned THEN now ELSE warnedAt[k]]
             /\ reportedAt' = now
             /\ UNCHANGED <<now, refused>>

\* A cycle ends with these observations.
Finalize(o) == Report(Events(o))

\* Time passes, with cycles that report nothing, or without any.
Tick ==
    /\ now < Horizon
    /\ now' = now + 1
    /\ UNCHANGED <<active, refused, latest, reportedAt, warnedAt>>

Next == Tick \/ \E o \in Observations : Finalize(o)

Spec == Init /\ [][Next]_vars

-----------------------------------------------------------------------------
(* Properties.                                                             *)

\* Whatever is missing from a snapshot, the reporter takes its events: each
\* names a metric of its own, no matter which setter has appended it, and the
\* limit of 204 is exactly what twelve metrics and 64 interfaces can lose.  So
\* a host on which everything fails degrades and does not crash the service.
ReportNeverFails == ~refused

\* Whoever replays the journal knows which metrics were missing, and why, at
\* the latest report: each of them is open, and nothing else is, reasons that
\* changed included.
AccurateJournal ==
    /\ DOMAIN warnedAt = latest
    /\ DOMAIN active = latest

\* No spam and no silence: an open degradation is not logged again before a
\* reminder interval has passed, and a report never leaves one whose last
\* record is that old.
CadenceStep ==
    \A k \in DOMAIN warnedAt' :
        /\ reportedAt' - warnedAt'[k] < ReminderInterval
        /\ (k \in DOMAIN warnedAt /\ warnedAt'[k] # warnedAt[k]) =>
              warnedAt'[k] - warnedAt[k] >= ReminderInterval
Cadence == [][CadenceStep]_vars
=============================================================================
