------------------------- MODULE DegradationProofs -------------------------
(***************************************************************************)
(* The degradation journal is accurate and keeps its cadence for every set *)
(* of metrics, every reminder interval and every clock.                    *)
(***************************************************************************)
EXTENDS Degradation, FiniteSetTheorems, TLAPS

\* The reporter's map is what a reader of the journal knows, and no open
\* degradation had waited for a reminder at the latest report.
IInv ==
    /\ now \in Nat /\ reportedAt \in Nat /\ reportedAt <= now
    /\ warnedAt \in [latest -> Nat]
    /\ active = warnedAt
    /\ \A k \in latest : warnedAt[k] <= reportedAt /\ reportedAt - warnedAt[k] < ReminderInterval

\* A fresh reporter has an empty journal.
LEMMA InitInv == Init => IInv
  <1> SUFFICES ASSUME Init PROVE IInv
    OBVIOUS
  <1>1. warnedAt \in [latest -> Nat]
    BY DEF Init
  <1> QED
    BY <1>1 DEF Init, IInv

\* A list that is not refused: what it does to the map and to the journal is
\* the same, and keeps both current.
LEMMA ReportStep ==
    ASSUME IInv, NEW events, Report(events), refused' = refused
    PROVE  IInv' /\ CadenceStep
  <1> USE BoundsAssumption DEF IInv
  <1> DEFINE K == Keys(events)
  <1>1. DOMAIN active = latest /\ DOMAIN warnedAt = latest
    OBVIOUS
  <1>2. Warned(K) = {k \in K : k \notin latest \/ now - warnedAt[k] >= ReminderInterval}
    BY <1>1 DEF Warned
  <1>3. Recovered(K) = latest \ K
    BY <1>1 DEF Recovered
  <1>4. /\ (latest \cup K) \ Recovered(K) = K
        /\ (latest \cup Warned(K)) \ Recovered(K) = K
    BY <1>2, <1>3
  <1> DEFINE f == [k \in K |-> IF k \in Warned(K) THEN now ELSE warnedAt[k]]
             Refusal == refused' = TRUE
                        /\ UNCHANGED <<now, active, latest, reportedAt, warnedAt>>
  <1>5. \/ Refusal
        \/ active' = f /\ warnedAt' = f /\ latest' = K /\ reportedAt' = now /\ now' = now
    BY <1>1, <1>4 DEF Report, LoggedAt
  <1>6. \A k \in K :
           /\ f[k] \in Nat /\ f[k] <= now /\ now - f[k] < ReminderInterval
           /\ (k \in latest /\ f[k] # warnedAt[k]) => f[k] - warnedAt[k] >= ReminderInterval
    BY <1>2
  <1>7. f \in [K -> Nat] /\ DOMAIN f = K
    BY <1>6
  <1>8. CASE Refusal
    BY <1>8 DEF CadenceStep
  <1> HIDE DEF f, K, Refusal
  <1> QED
    BY <1>1, <1>5, <1>6, <1>7, <1>8 DEF CadenceStep

\* Every step keeps the invariant and the cadence.
LEMMA NextStep == IInv /\ [Next]_vars => IInv' /\ [CadenceStep]_vars
  <1> SUFFICES ASSUME IInv, [Next]_vars PROVE IInv' /\ [CadenceStep]_vars
    OBVIOUS
  <1>1. ASSUME UNCHANGED <<active, latest, reportedAt, warnedAt>>, now' \in {now, now + 1}
        PROVE  IInv' /\ CadenceStep
    BY <1>1 DEF IInv, CadenceStep
  <1>2. CASE Tick
    BY <1>1, <1>2 DEF Tick
  <1>3. ASSUME NEW o \in Observations, Finalize(o) PROVE IInv' /\ CadenceStep
    <2>1. Report(Events(o))
      BY <1>3 DEF Finalize
    <2>2. CASE refused' = refused
      BY <2>1, <2>2, ReportStep
    <2>3. CASE refused' # refused
      BY <1>1, <2>1, <2>3 DEF Report
    <2> QED
      BY <2>2, <2>3
  <1>4. CASE UNCHANGED vars
    BY <1>1, <1>4 DEF vars
  <1> QED
    BY <1>2, <1>3, <1>4 DEF Next

-----------------------------------------------------------------------------
(* The limit of the reporter.                                              *)

\* A set that a function maps S onto has at most as many elements as S.
LEMMA OntoBound ==
    ASSUME NEW S, IsFiniteSet(S), NEW f, f \in [S -> {f[x] : x \in S}]
    PROVE  LET T == {f[x] : x \in S}
           IN  IsFiniteSet(T) /\ Cardinality(T) <= Cardinality(S) /\ Cardinality(T) \in Nat
  <1> DEFINE T == {f[x] : x \in S}
  <1>1. f \in Surjection(S, T)
    BY DEF Surjection
  <1>2. IsFiniteSet(T) /\ Cardinality(T) <= Cardinality(S)
    <2> HIDE DEF T
    <2> QED
      BY <1>1, FS_Surjection
  <1> HIDE DEF T
  <1>3. Cardinality(T) \in Nat
    BY <1>2, FS_CardinalityType
  <1> QED
    BY <1>2, <1>3 DEF T

\* An interface has three fields.
LEMMA FieldsFinite == IsFiniteSet(Fields) /\ Cardinality(Fields) = 3
  <1>1. IsFiniteSet({"state"}) /\ Cardinality({"state"}) = 1
    BY FS_Singleton
  <1>2. IsFiniteSet({"state"} \cup {"rx_bytes"}) /\ Cardinality({"state"} \cup {"rx_bytes"}) = 2
    BY <1>1, FS_AddElement
  <1>3. /\ IsFiniteSet(({"state"} \cup {"rx_bytes"}) \cup {"tx_bytes"})
        /\ Cardinality(({"state"} \cup {"rx_bytes"}) \cup {"tx_bytes"}) = 3
    BY <1>2, FS_AddElement
  <1>4. Fields = ({"state"} \cup {"rx_bytes"}) \cup {"tx_bytes"}
    BY DEF Fields
  <1> QED
    BY <1>3, <1>4

\* Metrics of their own: one call each at most.
LEMMA SinglesBound ==
    ASSUME NEW o \in Observations
    PROVE  /\ IsFiniteSet(SingleSites(o)) /\ Cardinality(SingleSites(o)) \in Nat
           /\ Cardinality(SingleSites(o)) <= Cardinality(Singles)
  <1> DEFINE S == {m \in Singles : o.single[m] # "present"}
             f == [m \in S |-> <<"set", 0, m>>]
  <1>1. /\ IsFiniteSet(S) /\ Cardinality(S) <= Cardinality(Singles)
        /\ Cardinality(S) \in Nat /\ Cardinality(Singles) \in Nat
    <2>1. S \in SUBSET Singles
      OBVIOUS
    <2> HIDE DEF S
    <2>2. IsFiniteSet(S) /\ Cardinality(S) <= Cardinality(Singles)
      BY <2>1, BoundsAssumption, FS_Subset
    <2> QED
      BY <2>2, BoundsAssumption, FS_CardinalityType
  <1>2. SingleSites(o) = {f[m] : m \in S} /\ f \in [S -> {f[m] : m \in S}]
    BY DEF SingleSites
  <1> HIDE DEF S, f
  <1>3. /\ IsFiniteSet(SingleSites(o)) /\ Cardinality(SingleSites(o)) \in Nat
        /\ Cardinality(SingleSites(o)) <= Cardinality(S)
    BY <1>1, <1>2, OntoBound
  <1> QED
    BY <1>1, <1>3

\* The firmware metrics: one call each.
LEMMA FirmwareBound ==
    ASSUME NEW o \in Observations
    PROVE  /\ IsFiniteSet(FirmwareSites(o)) /\ Cardinality(FirmwareSites(o)) \in Nat
           /\ Cardinality(FirmwareSites(o)) <= Cardinality(FirmwarePaths)
  <1> DEFINE S == {p \in FirmwarePaths : o.firmware # "present"}
             f == [p \in S |-> <<"setFirmware", 0, p>>]
  <1>1. /\ IsFiniteSet(S) /\ Cardinality(S) <= Cardinality(FirmwarePaths)
        /\ Cardinality(S) \in Nat /\ Cardinality(FirmwarePaths) \in Nat
    <2>1. S \in SUBSET FirmwarePaths
      OBVIOUS
    <2> HIDE DEF S
    <2>2. IsFiniteSet(S) /\ Cardinality(S) <= Cardinality(FirmwarePaths)
      BY <2>1, BoundsAssumption, FS_Subset
    <2> QED
      BY <2>2, BoundsAssumption, FS_CardinalityType
  <1>2. FirmwareSites(o) = {f[p] : p \in S} /\ f \in [S -> {f[p] : p \in S}]
    BY DEF FirmwareSites
  <1> HIDE DEF S, f
  <1>3. /\ IsFiniteSet(FirmwareSites(o)) /\ Cardinality(FirmwareSites(o)) \in Nat
        /\ Cardinality(FirmwareSites(o)) <= Cardinality(S)
    BY <1>1, <1>2, OntoBound
  <1> QED
    BY <1>1, <1>3

\* The observed interfaces are numbered from one.
LEMMA Interfaces ==
    ASSUME NEW o \in Observations, o.network.outcome = "present"
    PROVE  \E n \in 0..MaximumInterfaces : o.network.interfaces \in [1..n -> [Fields -> Outcomes]]
  BY ReasonAssumption DEF Observations, IssueCodes

\* The network: three calls per interface, or one.
LEMMA NetworkBound ==
    ASSUME NEW o \in Observations
    PROVE  /\ IsFiniteSet(NetworkSites(o)) /\ Cardinality(NetworkSites(o)) \in Nat
           /\ Cardinality(NetworkSites(o)) <= 3 * MaximumInterfaces
  <1> USE BoundsAssumption
  <1>1. CASE o.network.outcome # "present"
    <2> DEFINE e == <<"setNetwork", 0, "network">>
    <2>1. NetworkSites(o) = {e}
      BY <1>1 DEF NetworkSites
    <2> HIDE DEF e
    <2>2. IsFiniteSet(NetworkSites(o)) /\ Cardinality(NetworkSites(o)) = 1
      <3>1. IsFiniteSet({e}) /\ Cardinality({e}) = 1
        BY FS_Singleton, Zenon
      <3> QED
        BY <2>1, <3>1, Zenon
    <2>3. 1 <= 3 * MaximumInterfaces
      OBVIOUS
    <2> QED
      BY <2>2, <2>3
  <1>2. CASE o.network.outcome = "present"
    <2> DEFINE links == o.network.interfaces
               S == {f \in (DOMAIN links) \X Fields : links[f[1]][f[2]] # "present"}
               g == [f \in S |-> <<"setLeaf", f[1], f[2]>>]
    <2>1. PICK n \in 0..MaximumInterfaces : links \in [1..n -> [Fields -> Outcomes]]
      BY <1>2, Interfaces
    <2>2. IsFiniteSet(1..n) /\ Cardinality(1..n) = n
      BY FS_Interval
    <2>3. IsFiniteSet((1..n) \X Fields) /\ Cardinality((1..n) \X Fields) = n * 3
      BY <2>2, FieldsFinite, FS_Product
    <2>4. S \in SUBSET ((1..n) \X Fields)
      BY <2>1
    <2>5. IsFiniteSet(S) /\ Cardinality(S) <= n * 3 /\ Cardinality(S) \in Nat
      <3> HIDE DEF S
      <3> QED
        BY <2>3, <2>4, FS_Subset, FS_CardinalityType
    <2>6. NetworkSites(o) = {g[f] : f \in S} /\ g \in [S -> {g[f] : f \in S}]
      BY <1>2 DEF NetworkSites
    <2> HIDE DEF S, g
    <2>7. /\ IsFiniteSet(NetworkSites(o)) /\ Cardinality(NetworkSites(o)) \in Nat
          /\ Cardinality(NetworkSites(o)) <= Cardinality(S)
      BY <2>5, <2>6, OntoBound
    <2> QED
      BY <2>5, <2>7
  <1> QED
    BY <1>1, <1>2

\* Whatever a cycle has missed, its calls are as many as the limit at most.
LEMMA SitesFit ==
    ASSUME NEW o \in Observations
    PROVE  /\ IsFiniteSet(Sites(o)) /\ Cardinality(Sites(o)) \in Nat
           /\ Cardinality(Sites(o)) <= MaximumStates
  <1> DEFINE a == SingleSites(o)
             b == FirmwareSites(o)
             c == NetworkSites(o)
  <1>1. /\ IsFiniteSet(a) /\ Cardinality(a) \in Nat /\ Cardinality(a) <= Cardinality(Singles)
        /\ IsFiniteSet(b) /\ Cardinality(b) \in Nat
        /\ Cardinality(b) <= Cardinality(FirmwarePaths)
        /\ IsFiniteSet(c) /\ Cardinality(c) \in Nat /\ Cardinality(c) <= 3 * MaximumInterfaces
    BY SinglesBound, FirmwareBound, NetworkBound
  <1>0. Sites(o) = (a \cup b) \cup c
    BY DEF Sites
  <1> HIDE DEF a, b, c
  <1>2. ASSUME NEW S, NEW T, IsFiniteSet(S), IsFiniteSet(T)
        PROVE  /\ IsFiniteSet(S \cup T) /\ Cardinality(S \cup T) \in Nat
               /\ Cardinality(S \cup T) <= Cardinality(S) + Cardinality(T)
    <2>1. IsFiniteSet(S \cap T) /\ IsFiniteSet(S \cup T)
      BY <1>2, FS_Subset, FS_Union
    <2>2. /\ Cardinality(S \cap T) \in Nat /\ Cardinality(S \cup T) \in Nat
          /\ Cardinality(S) \in Nat /\ Cardinality(T) \in Nat
      BY <1>2, <2>1, FS_CardinalityType
    <2>3. Cardinality(S \cup T) = Cardinality(S) + Cardinality(T) - Cardinality(S \cap T)
      BY <1>2, FS_Union
    <2> QED
      BY <2>1, <2>2, <2>3
  <1>3. /\ IsFiniteSet(a \cup b) /\ Cardinality(a \cup b) \in Nat
        /\ Cardinality(a \cup b) <= Cardinality(a) + Cardinality(b)
    BY <1>1, <1>2
  <1>4. /\ IsFiniteSet((a \cup b) \cup c) /\ Cardinality((a \cup b) \cup c) \in Nat
        /\ Cardinality((a \cup b) \cup c) <= Cardinality(a \cup b) + Cardinality(c)
    BY <1>1, <1>2, <1>3
  <1>5. /\ Cardinality(Singles) \in Nat /\ Cardinality(FirmwarePaths) \in Nat
        /\ MaximumInterfaces \in Nat
    BY BoundsAssumption, FS_CardinalityType
  <1>6. Cardinality((a \cup b) \cup c) <= MaximumStates
    BY <1>1, <1>3, <1>4, <1>5, LimitAssumption
  <1> QED
    BY <1>0, <1>4, <1>6

\* What a call of append can be.
LEMMA SiteForms ==
    ASSUME NEW o \in Observations, NEW s \in Sites(o)
    PROVE  \/ \E m \in Singles : s = <<"set", 0, m>> /\ Code(o, s) = o.single[m]
                                  /\ o.single[m] # "present"
           \/ \E p \in FirmwarePaths : s = <<"setFirmware", 0, p>> /\ Code(o, s) = o.firmware
                                  /\ o.firmware # "present"
           \/ /\ s = <<"setNetwork", 0, "network">> /\ Code(o, s) = o.network.outcome
              /\ o.network.outcome # "present"
           \/ \E i \in Nat \ {0}, f \in Fields :
                  /\ s = <<"setLeaf", i, f>> /\ Code(o, s) = o.network.interfaces[i][f]
                  /\ o.network.interfaces[i][f] \in Outcomes \ {"present"}
  <1>1. CASE s \in SingleSites(o)
    BY <1>1 DEF SingleSites, Code
  <1>2. CASE s \in FirmwareSites(o)
    BY <1>2 DEF FirmwareSites, Code
  <1>3. CASE s \in NetworkSites(o) /\ o.network.outcome # "present"
    BY <1>3 DEF NetworkSites, Code
  <1>4. CASE s \in NetworkSites(o) /\ o.network.outcome = "present"
    <2> DEFINE links == o.network.interfaces
    <2>1. PICK n \in 0..MaximumInterfaces : links \in [1..n -> [Fields -> Outcomes]]
      BY <1>4, Interfaces
    <2>2. PICK x \in (DOMAIN links) \X Fields :
              s = <<"setLeaf", x[1], x[2]>> /\ links[x[1]][x[2]] # "present"
      BY <1>4 DEF NetworkSites
    <2>3. x[1] \in Nat \ {0} /\ x[2] \in Fields /\ links[x[1]][x[2]] \in Outcomes
      BY <2>1, <2>2, BoundsAssumption
    <2>4. Code(o, s) = links[x[1]][x[2]]
      BY <2>2 DEF Code
    <2> QED
      BY <2>2, <2>3, <2>4
  <1> QED
    BY <1>1, <1>2, <1>3, <1>4 DEF Sites

\* What a call can be, and the path that it appends, component by component.
LEMMA Paths ==
    ASSUME NEW o \in Observations, NEW s \in Sites(o)
    PROVE  /\ s = <<s[1], s[2], s[3]>>
           /\ \/ /\ s[1] = "set" /\ s[2] = 0 /\ s[3] \in Singles
                 /\ Path(s)[1] = "" /\ Path(s)[2] = 0 /\ Path(s)[3] = s[3]
              \/ /\ s[1] = "setFirmware" /\ s[2] = 0
                 /\ Path(s)[1] = "raspberry_pi" /\ Path(s)[2] = 0 /\ Path(s)[3] = s[3]
              \/ /\ s[1] = "setNetwork" /\ s[2] = 0 /\ s[3] = "network"
                 /\ Path(s)[1] = "network" /\ Path(s)[2] = 0 /\ Path(s)[3] = ""
              \/ /\ s[1] = "setLeaf" /\ s[2] \in Nat \ {0}
                 /\ Path(s)[1] = "network" /\ Path(s)[2] = s[2] /\ Path(s)[3] = s[3]
  <1>1. CASE s \in SingleSites(o)
    <2>1. PICK m \in Singles : s = <<"set", 0, m>>
      BY <1>1 DEF SingleSites
    <2> QED
      BY <2>1 DEF Path
  <1>2. CASE s \in FirmwareSites(o)
    <2>1. PICK p \in FirmwarePaths : s = <<"setFirmware", 0, p>>
      BY <1>2 DEF FirmwareSites
    <2> QED
      BY <2>1 DEF Path
  <1>3. CASE s \in NetworkSites(o) /\ o.network.outcome # "present"
    <2>1. s = <<"setNetwork", 0, "network">>
      BY <1>3 DEF NetworkSites
    <2> QED
      BY <2>1 DEF Path
  <1>4. CASE s \in NetworkSites(o) /\ o.network.outcome = "present"
    <2> DEFINE links == o.network.interfaces
    <2>1. PICK n \in 0..MaximumInterfaces : links \in [1..n -> [Fields -> Outcomes]]
      BY <1>4, Interfaces
    <2>2. PICK x \in (DOMAIN links) \X Fields :
              s = <<"setLeaf", x[1], x[2]>> /\ links[x[1]][x[2]] # "present"
      BY <1>4 DEF NetworkSites
    <2>3. x[1] \in Nat \ {0}
      BY <2>1, <2>2, BoundsAssumption
    <2>4. s = <<"setLeaf", x[1], x[2]>>
      BY <2>2
    <2> QED
      BY <2>3, <2>4 DEF Path
  <1>5. s \in SingleSites(o) \/ s \in FirmwareSites(o) \/ s \in NetworkSites(o)
    BY DEF Sites
  <1> QED
    BY <1>1, <1>2, <1>3, <1>4, <1>5, Zenon

\* No call appends without a metric's name or with a code of its own.
LEMMA EventsValid == ASSUME NEW o \in Observations PROVE ~Invalid(Events(o))
  <1> SUFFICES ASSUME NEW s \in Sites(o)
               PROVE  Path(s) # NoMetric /\ Code(o, s) \in IssueCodes
    BY DEF Invalid, Events
  <1>1. Path(s) # NoMetric
    <2>1. NoMetric[1] = "" /\ NoMetric[2] = 0 /\ NoMetric[3] = ""
      BY DEF NoMetric
    <2>2. \A m \in Singles : m # ""
      BY NameAssumption
    <2> HIDE DEF NoMetric
    <2> QED
      BY <2>1, <2>2, Paths
  <1>2. /\ \A m \in Singles : o.single[m] \in Outcomes
        /\ o.firmware \in Outcomes
        /\ o.network.outcome \in Outcomes
    BY DEF Observations, Outcomes
  <1>3. Code(o, s) \in Outcomes \ {"present"}
    BY <1>2, SiteForms
  <1> QED
    BY <1>1, <1>3, ReasonAssumption DEF Outcomes

\* Two calls append two metrics.
LEMMA PathsDistinct ==
    ASSUME NEW o \in Observations, NEW s \in Sites(o), NEW t \in Sites(o), Path(s) = Path(t)
    PROVE  s = t
  <1> DEFINE p == Path(s)
             q == Path(t)
  <1>0. p = q
    OBVIOUS
  <1>1. s[1] = t[1] /\ s[2] = t[2] /\ s[3] = t[3]
    <2>1. \/ p[1] = "" /\ p[2] = 0 /\ p[3] = s[3] /\ s[1] = "set" /\ s[2] = 0
          \/ p[1] = "raspberry_pi" /\ p[2] = 0 /\ p[3] = s[3] /\ s[1] = "setFirmware" /\ s[2] = 0
          \/ /\ p[1] = "network" /\ p[2] = 0
             /\ s[1] = "setNetwork" /\ s[2] = 0 /\ s[3] = "network"
          \/ /\ p[1] = "network" /\ p[2] = s[2] /\ p[3] = s[3]
             /\ s[1] = "setLeaf" /\ s[2] \in Nat \ {0}
      BY Paths
    <2>2. \/ q[1] = "" /\ q[2] = 0 /\ q[3] = t[3] /\ t[1] = "set" /\ t[2] = 0
          \/ q[1] = "raspberry_pi" /\ q[2] = 0 /\ q[3] = t[3] /\ t[1] = "setFirmware" /\ t[2] = 0
          \/ /\ q[1] = "network" /\ q[2] = 0
             /\ t[1] = "setNetwork" /\ t[2] = 0 /\ t[3] = "network"
          \/ /\ q[1] = "network" /\ q[2] = t[2] /\ q[3] = t[3]
             /\ t[1] = "setLeaf" /\ t[2] \in Nat \ {0}
      BY Paths
    <2> HIDE DEF p, q
    <2> QED
      BY <1>0, <2>1, <2>2
  <1> QED
    BY <1>1, Paths

\* So the list of a cycle has no pair twice.
LEMMA EventsDistinct == ASSUME NEW o \in Observations PROVE ~Duplicate(Events(o))
  <1> DEFINE S == Sites(o)
             T == Keys(Events(o))
             e == Events(o)
  <1>1. e \in [S -> T] /\ DOMAIN e = S
    BY DEF Events, Keys
  <1>2. \A s, t \in S : e[s] = e[t] => s = t
    BY PathsDistinct DEF Events
  <1>3. T = {e[s] : s \in S}
    BY <1>1 DEF Keys
  <1>4. IsFiniteSet(S) /\ Cardinality(S) \in Nat
    BY SitesFit
  <1>5. Duplicate(Events(o)) <=> Cardinality(T) < Cardinality(S)
    BY <1>1 DEF Duplicate
  <1> HIDE DEF S, T, e
  <1>6. e \in Injection(S, T)
    BY <1>1, <1>2 DEF Injection, IsInjective
  <1>7. e \in Surjection(S, T)
    BY <1>1, <1>3 DEF Surjection
  <1>8. IsFiniteSet(T) /\ Cardinality(T) \in Nat
    BY <1>4, <1>7, FS_Surjection, FS_CardinalityType
  <1>9. Cardinality(S) <= Cardinality(T)
    BY <1>6, <1>8, FS_Injection
  <1> QED
    BY <1>4, <1>5, <1>8, <1>9

\* Whatever a cycle has missed, none of the three refusals applies.
LEMMA EventsFit ==
    ASSUME NEW o \in Observations
    PROVE  ~TooMany(Events(o)) /\ ~Invalid(Events(o)) /\ ~Duplicate(Events(o))
  <1>1. DOMAIN Events(o) = Sites(o)
    BY DEF Events
  <1>2. ~TooMany(Events(o))
    BY <1>1, SitesFit, LimitAssumption, BoundsAssumption DEF TooMany
  <1> QED
    BY <1>2, EventsValid, EventsDistinct

-----------------------------------------------------------------------------
\* The reporter's map agrees with the journal at all times.
THEOREM Invariance == Spec => []IInv
  BY InitInv, NextStep, PTL DEF Spec

\* No list is ever refused, neither for its length nor for a pair without a name
\* or a pair twice: missing metrics never end the process.
THEOREM ReportsAccepted == Spec => []ReportNeverFails
  <1>1. Init => ReportNeverFails
    BY DEF Init, ReportNeverFails
  <1>2. ReportNeverFails /\ [Next]_vars => ReportNeverFails'
    BY EventsFit DEF ReportNeverFails, Next, Tick, Finalize, Report, vars
  <1> QED
    BY <1>1, <1>2, PTL DEF Spec

\* A reader of the journal knows exactly which metrics were missing, and why.
THEOREM JournalAccurate == Spec => []AccurateJournal
  <1>1. IInv => AccurateJournal
    BY DEF IInv, AccurateJournal
  <1> QED
    BY <1>1, Invariance, PTL

\* Reminders come neither early nor late.
THEOREM RemindersKept == Spec => Cadence
  BY Invariance, NextStep, PTL DEF Spec, Cadence
=============================================================================
