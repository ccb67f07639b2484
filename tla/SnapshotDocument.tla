-------------------------- MODULE SnapshotDocument --------------------------
(***************************************************************************)
(* What one collection cycle makes of the platform's answers: collect and  *)
(* finalize (src/internal/observe/coordinator.go) gather the outcomes of   *)
(* the collectors and build a document with an issue for what is missing;  *)
(* Encode (src/internal/snapshot/snapshot.go) derives from the document's  *)
(* fields which issues it expects, and anything else is an internal defect *)
(* that ends the process.                                                  *)
(*                                                                         *)
(* When collectors run, time out and are given up is Coordinator's matter: *)
(* here a domain is late or it is not.                                     *)
(***************************************************************************)
EXTENDS Collectors

CONSTANTS
    Answers(_),         \* the acquisitions a metric may meet
    RangeLists,         \* the CPU lists
    MemoryEntries,      \* the entries of /proc/meminfo
    ThermalZones,       \* the sequences of zone types
    DeviceAnswers,      \* what a firmware device may answer
    BlockSizes,         \* the sizes statfs returns, which are signed
    BlockCounts,        \* the numbers of blocks
    MaximumInterfaces   \* maximumInterfaces

ASSUME InterfacesAssumption == MaximumInterfaces \in Nat
ASSUME PlatformAssumption ==
    /\ \A metric \in {"hostname", "uptime", "logicalCPUCount", "load", "memory", "root",
                     "temperature", "network", "utilization"} :
            Answers(metric) \subseteq Acquisitions
    /\ RangeLists \subseteq Seq(Uint \X Uint)
    /\ MemoryEntries \subseteq Seq({"MemTotal", "MemAvailable"} \X Uint)
    /\ DeviceAnswers \subseteq {"answered"} \cup Errors
    /\ BlockSizes \subseteq Int
    /\ BlockCounts \subseteq Uint

VARIABLES
    pc,             \* the domain that is next, then finalize and Encode
    observed,       \* cycleObservations: the outcome of each metric
    interfaces,     \* the leaves found of each reported interface, by name
    malformed,      \* the metrics whose values Encode would refuse
    reading,        \* history: what the last collector was given and returned
    document,       \* the Snapshot finalize builds
    result          \* what the cycle ends with

vars == <<pc, observed, interfaces, malformed, reading, document, result>>

Metrics == {"hostname", "uptime", "logicalCPUCount", "load", "memory", "root", "temperature",
            "firmware", "network", "utilization"}
FirmwareFields == <<"thermal_throttling_active", "thermal_throttling_occurred_since_boot",
                    "undervoltage_active", "undervoltage_occurred_since_boot">>
Leaves == {"state", "rx_bytes", "tx_bytes"}

\* The fields of a document each metric stands for.
FieldsOf(metric) ==
    CASE metric = "load" -> {"one_minute", "five_minutes", "fifteen_minutes"}
      [] metric = "memory" -> {"memory_total", "memory_available", "memory_used"}
      [] metric = "root" -> {"root_total", "root_available", "root_used"}
      [] metric = "firmware" -> ToSet(FirmwareFields)
      [] metric \in {"hostname", "network"} -> {}
      [] OTHER -> {metric}

NoReading == [of |-> "nothing"]
NoDocument ==
    [fields |-> {}, malformed |-> {}, network |-> FALSE, interfaces |-> <<>>, issues |-> <<>>]

\* unavailableCycle.
Init ==
    /\ pc = "host"
    /\ observed = [metric \in Metrics |-> "temporarily_unavailable"]
    /\ interfaces = <<>>
    /\ malformed = {}
    /\ reading = NoReading
    /\ document = NoDocument
    /\ result = "none"

-----------------------------------------------------------------------------
(* What buildDocument and validateMemory ask of values.  finalize copies   *)
(* values as they are, so the question is put where they are computed, and *)
(* the document carries the answer.  Loads, temperature and utilization    *)
(* are finite and in range, or their parsers have refused them; the order  *)
(* of the interfaces by name is NetworkCollector's to ensure.              *)

ValidCount(cpus) == cpus.outcome = "present" => cpus.count > 0
ValidBytes(space) ==
    space.outcome = "present" =>
        /\ space.available <= space.total
        /\ space.used = Wrap(space.total - space.available)

Checked(metric, valid) == malformed' = IF valid THEN malformed ELSE malformed \cup {metric}

-----------------------------------------------------------------------------
(* collect: one domain after the other.                                    *)

DomainAfter ==
    [host |-> "cpuLoad", cpuLoad |-> "memory", memory |-> "root", root |-> "raspberryPi",
     raspberryPi |-> "network", network |-> "copyCPU", copyCPU |-> "finalize"]

Leave(domain) ==
    /\ pc = domain
    /\ pc' = DomainAfter[domain]
    /\ UNCHANGED <<document, result>>

\* A domain that ran out of time, or was never called, leaves what
\* unavailableCycle put there.  The copy of the CPU publication is not timed.
DomainLate ==
    \E domain \in DOMAIN DomainAfter \ {"copyCPU"} :
        /\ Leave(domain)
        /\ reading' = NoReading
        /\ UNCHANGED <<observed, interfaces, malformed>>

CollectHost ==
    /\ Leave("host")
    /\ \E name \in Answers("hostname"), uptime \in Answers("uptime") :
        observed' = [observed EXCEPT !["hostname"] = Acquired(name), !["uptime"] = Acquired(uptime)]
    /\ reading' = NoReading
    /\ UNCHANGED <<interfaces, malformed>>

CollectCPULoad ==
    /\ Leave("cpuLoad")
    /\ \E load \in Answers("load") :
        \/ \E error \in Answers("logicalCPUCount") \cap Errors :
            /\ observed' = [observed EXCEPT
                                !["logicalCPUCount"] = acquisitionFailure(error, "unsupported"),
                                !["load"] = Acquired(load)]
            /\ reading' = NoReading
            /\ UNCHANGED malformed
        \/ \E ranges \in RangeLists :
            LET cpus == parseCPUTopology(ranges)
            IN  /\ observed' = [observed EXCEPT !["logicalCPUCount"] = cpus.outcome,
                                                !["load"] = Acquired(load)]
                /\ Checked("logicalCPUCount", ValidCount(cpus))
                /\ reading' = [of |-> "cpus", ranges |-> ranges, result |-> cpus]
    /\ UNCHANGED interfaces

CollectMemory ==
    /\ Leave("memory")
    /\ \/ \E error \in Answers("memory") \cap Errors :
            /\ observed' = [observed EXCEPT !["memory"] = acquisitionFailure(error, "unsupported")]
            /\ reading' = NoReading
            /\ UNCHANGED malformed
       \/ \E entries \in MemoryEntries :
            /\ observed' = [observed EXCEPT !["memory"] = parseMemory(entries).outcome]
            /\ Checked("memory", ValidBytes(parseMemory(entries)))
            /\ reading' = [of |-> "memory", entries |-> entries, result |-> parseMemory(entries)]
    /\ UNCHANGED interfaces

CollectRootFilesystem ==
    /\ Leave("root")
    /\ \/ \E error \in Answers("root") \cap Errors :
            /\ observed' = [observed EXCEPT !["root"] = acquisitionFailure(error, "unsupported")]
            /\ reading' = NoReading
            /\ UNCHANGED malformed
       \/ \E fragment, block \in BlockSizes, total, available \in BlockCounts :
            LET size == BlockSize(fragment, block)
                space == collectRootFilesystem(size, total, available)
            IN  /\ observed' = [observed EXCEPT !["root"] = space.outcome]
                /\ Checked("root", ValidBytes(space))
                /\ reading' = [of |-> "root", size |-> size, total |-> total,
                               available |-> available, result |-> space]
    /\ UNCHANGED interfaces

\* An executor that is busy or late makes the flags temporarily unavailable.
Temperatures ==
    {collectSoCTemperature(names, types, temperature) :
        names \in {"listed"} \cup Errors, types \in ThermalZones,
        temperature \in Answers("temperature")}
FirmwareOutcomes ==
    {collectFirmware(restricted, general) : restricted, general \in DeviceAnswers}
    \cup {"temporarily_unavailable"}

CollectRaspberryPi ==
    /\ Leave("raspberryPi")
    /\ \E temperature \in Temperatures, firmware \in FirmwareOutcomes :
        observed' = [observed EXCEPT !["temperature"] = temperature, !["firmware"] = firmware]
    /\ reading' = NoReading
    /\ UNCHANGED <<interfaces, malformed>>

\* NetworkCollector.  An operational state may be missing or unknown, and the
\* two counters come together.
LeafSets == {{}, {"state"}, {"rx_bytes", "tx_bytes"}, Leaves}

CollectNetwork ==
    /\ Leave("network")
    /\ \/ \E reason \in {Acquired(a) : a \in Answers("network")} \cap Reasons :
            /\ observed' = [observed EXCEPT !["network"] = reason]
            /\ UNCHANGED interfaces
       \/ \E n \in 0..MaximumInterfaces : \E leaves \in [1..n -> LeafSets] :
            /\ observed' = [observed EXCEPT !["network"] = "present"]
            /\ interfaces' = leaves
    /\ reading' = NoReading
    /\ UNCHANGED malformed

\* A publication that is stale or of other CPUs is not copied.
CopyCPU ==
    /\ Leave("copyCPU")
    /\ \E publication \in {Acquired(a) : a \in Answers("utilization")}, current \in BOOLEAN :
        observed' = [observed EXCEPT !["utilization"] =
            CASE publication # "present" -> publication
              [] publication = "present" /\ ~current -> "temporarily_unavailable"
              [] publication = "present" /\ current ->
                    IF observed["logicalCPUCount"] = "present" THEN "present"
                                                               ELSE "temporarily_unavailable"]
    /\ reading' = NoReading
    /\ UNCHANGED <<interfaces, malformed>>

-----------------------------------------------------------------------------
(* finalize.  A path is a metric, or an interface's index and leaf.        *)

Path(metric) == <<metric, 0>>
LeafPath(n, leaf) == <<leaf, n>>
Issue(path, reason) == <<[path |-> path, code |-> reason]>>

\* setValue, setLoad, setMemory and setRootFilesystem.
SetIssueMutant(metric) ==
    IF observed[metric] = "present" THEN <<>> ELSE Issue(Path(metric), "temporarily_unavailable")
SetIssue(metric) ==
    IF observed[metric] = "present" THEN <<>> ELSE Issue(Path(metric), observed[metric])

SetFirmware ==
    IF observed["firmware"] = "present" THEN <<>>
    ELSE [k \in DOMAIN FirmwareFields |->
            [path |-> Path(FirmwareFields[k]), code |-> observed["firmware"]]]

SetLeaf(n, leaf) ==
    IF leaf \in interfaces[n] THEN <<>> ELSE Issue(LeafPath(n, leaf), "temporarily_unavailable")
SetNetwork ==
    IF observed["network"] # "present" THEN SetIssue("network")
    ELSE FlattenSeq([n \in DOMAIN interfaces |->
            SetLeaf(n, "state") \o SetLeaf(n, "rx_bytes") \o SetLeaf(n, "tx_bytes")])

IssuesMutant ==
    SetIssue("uptime") \o SetIssue("logicalCPUCount") \o SetIssue("utilization")
    \o SetIssue("load") \o SetIssue("memory") \o SetIssue("root") \o SetIssue("temperature")
    \o SetFirmware \o SetNetwork
Issues ==
    SetIssue("uptime") \o SetIssue("logicalCPUCount") \o SetIssue("load") \o SetIssue("memory")
    \o SetIssue("root") \o SetIssue("temperature") \o SetFirmware \o SetNetwork
    \o SetIssue("utilization")

SetFields == UNION {FieldsOf(metric) : metric \in {m \in Metrics : observed[m] = "present"}}

\* Without a hostname nothing is encoded.
Finalize ==
    /\ pc = "finalize"
    /\ document' = [fields |-> SetFields, malformed |-> malformed,
                    network |-> observed["network"] = "present",
                    interfaces |-> interfaces, issues |-> Issues]
    /\ IF observed["hostname"] = "present"
       THEN pc' = "encode" /\ result' = result
       ELSE pc' = "done" /\ result' = "useless"
    /\ reading' = NoReading
    /\ UNCHANGED <<observed, interfaces, malformed>>

-----------------------------------------------------------------------------
(* Encode.  It sees the document only, and asks for one field of a group.  *)
(* The size of what it encodes is left out.                                *)

AllOrNone(fields) == fields \cap document.fields \in {{}, fields}
Coherent ==
    /\ document.malformed = {}
    /\ \A metric \in {"load", "memory", "root", "firmware"} : AllOrNone(FieldsOf(metric))
    /\ Len(document.interfaces) <= MaximumInterfaces

\* countOrIssue and countGroupOrIssue.
Expect(field, path) == IF field \in document.fields THEN <<>> ELSE <<path>>
ExpectLeaf(n, leaf) == IF leaf \in document.interfaces[n] THEN <<>> ELSE <<LeafPath(n, leaf)>>
ExpectNetwork ==
    IF ~document.network THEN <<Path("network")>>
    ELSE FlattenSeq([n \in DOMAIN document.interfaces |->
            ExpectLeaf(n, "state") \o ExpectLeaf(n, "rx_bytes") \o ExpectLeaf(n, "tx_bytes")])
ExpectFlag(k) == Expect(FirmwareFields[k], Path(FirmwareFields[k]))

Expected ==
    Expect("uptime", Path("uptime")) \o Expect("logicalCPUCount", Path("logicalCPUCount"))
    \o Expect("one_minute", Path("load")) \o Expect("memory_total", Path("memory"))
    \o Expect("root_total", Path("root")) \o Expect("temperature", Path("temperature"))
    \o ExpectFlag(1) \o ExpectFlag(2) \o ExpectFlag(3) \o ExpectFlag(4) \o ExpectNetwork
    \o Expect("utilization", Path("utilization"))

\* validateIssues and validateFirmwareIssues.
IssuesValid ==
    /\ Len(document.issues) = Len(Expected)
    /\ \A k \in DOMAIN document.issues :
        document.issues[k].path = Expected[k] /\ document.issues[k].code \in Reasons
    /\ LET flags == {k \in DOMAIN document.issues :
                        \E f \in DOMAIN FirmwareFields :
                            document.issues[k].path = Path(FirmwareFields[f])}
       IN  \A k, l \in flags : document.issues[k].code = document.issues[l].code

\* An interface counts by itself, whatever is known of it.
UsableMutant == document.fields # {} \/ document.network
Usable == document.fields # {} \/ document.interfaces # <<>>

Encode ==
    /\ pc = "encode"
    /\ pc' = "done"
    /\ result' = CASE ~Coherent \/ ~IssuesValid -> "defect"
                   [] Coherent /\ IssuesValid /\ ~Usable -> "useless"
                   [] Coherent /\ IssuesValid /\ Usable -> "served"
    /\ UNCHANGED <<observed, interfaces, malformed, reading, document>>

-----------------------------------------------------------------------------
Terminated == pc = "done" /\ UNCHANGED vars

Next ==
    \/ DomainLate \/ CollectHost \/ CollectCPULoad \/ CollectMemory \/ CollectRootFilesystem
    \/ CollectRaspberryPi \/ CollectNetwork \/ CopyCPU \/ Finalize \/ Encode \/ Terminated

Spec == Init /\ [][Next]_vars

-----------------------------------------------------------------------------
(* ProbeReadiness, on the observations of this cycle.                      *)

ProbeReadiness ==
    /\ observed["hostname"] = "present"
    /\ observed["uptime"] = "present" \/ observed["root"] = "present"

-----------------------------------------------------------------------------
(* Properties.                                                             *)

\* No answers of the platform make the encoder meet a value it refuses, or
\* issues in an order, a number or with a code it does not expect.
EncoderAccepts == result # "defect"

\* A cycle serves a document exactly when there is a hostname and a value to
\* report; what the readiness probe asks for is enough for that.
ServedWhenUseful ==
    result # "none" =>
        /\ result = "served" <=>
              /\ observed["hostname"] = "present"
              /\ \/ interfaces # <<>>
                 \/ \E metric \in Metrics \ {"hostname", "network"} : observed[metric] = "present"
        /\ ProbeReadiness => result = "served"

\* A served document tells the truth about each metric: it has all of its
\* fields and no issue, or none and issues that give the collector's reason;
\* each issue names something that is missing, once.
IssuesOf(metric) ==
    {k \in DOMAIN document.issues :
        document.issues[k].path \in
            {Path(metric)} \cup {Path(f) : f \in {g \in FieldsOf(metric) : metric = "firmware"}}}
HonestDocument ==
    result = "served" =>
        /\ \A metric \in Metrics \ {"hostname"} :
            IF observed[metric] = "present"
            THEN FieldsOf(metric) \subseteq document.fields /\ IssuesOf(metric) = {}
            ELSE /\ FieldsOf(metric) \cap document.fields = {}
                 /\ IssuesOf(metric) # {}
                 /\ \A k \in IssuesOf(metric) : document.issues[k].code = observed[metric]
        /\ \A k, l \in DOMAIN document.issues :
            k # l => document.issues[k].path # document.issues[l].path

\* Quantities are exact or not reported: the count of CPUs is that of the
\* list, and bytes are what the kernel's units amount to, although each
\* intermediate result has the width of a uint64.
CPUsOf(ranges) == UNION {range[1]..range[2] : range \in ToSet(ranges)}
KilobytesOf(name, entries) ==
    CHOOSE k \in Uint : \E n \in DOMAIN entries : entries[n] = <<name, k>>
ExactQuantities ==
    /\ reading.of = "cpus" /\ reading.result.outcome = "present" =>
        reading.result.count = Cardinality(CPUsOf(reading.ranges))
    /\ reading.of = "memory" /\ reading.result.outcome = "present" =>
        /\ reading.result.total = Kilo * KilobytesOf("MemTotal", reading.entries)
        /\ reading.result.available = Kilo * KilobytesOf("MemAvailable", reading.entries)
        /\ reading.result.used + reading.result.available = reading.result.total
    /\ reading.of = "root" /\ reading.result.outcome = "present" =>
        /\ reading.result.total = reading.size * reading.total
        /\ reading.result.available = reading.size * reading.available
        /\ reading.result.used + reading.result.available = reading.result.total
=============================================================================
