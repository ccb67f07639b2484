------------------------- MODULE MCSnapshotDocument -------------------------
(* SnapshotDocument with two-bit integers and up to two interfaces.        *)
EXTENDS SnapshotDocument

\* Every reason is met by some metric; no metric needs all of them.
MCAnswers(metric) ==
    CASE metric \in {"hostname", "utilization"} -> {"parsed", "malformed"}
      [] metric \in {"uptime", "logicalCPUCount", "network"} -> {"parsed", "permission"}
      [] metric \in {"memory", "root"} -> {"parsed", "not_exist"}
      [] metric = "load" -> {"parsed", "other"}
      [] metric = "temperature" -> {"parsed", "malformed", "permission"}

Ranges == Uint \X Uint
MCRangeLists == {<<r>> : r \in Ranges} \cup {<<r, s>> : r, s \in Ranges}

Entries == {"MemTotal", "MemAvailable"} \X Uint
MCMemoryEntries ==
    {<<>>} \cup {<<e>> : e \in Entries} \cup {<<e, f>> : e, f \in Entries}
    \cup {<<e, f, e>> : e, f \in Entries}

Types == {"cpu-thermal", "other-zone"} \cup Errors
MCThermalZones == {<<>>} \cup {<<a>> : a \in Types} \cup {<<a, b>> : a, b \in Types}

MCBlockSizes == -1..MaxUint

MCDeviceAnswers == {"answered"} \cup Errors
=============================================================================
