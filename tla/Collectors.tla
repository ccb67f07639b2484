----------------------------- MODULE Collectors -----------------------------
(***************************************************************************)
(* What the collectors compute from what the platform answers              *)
(* (src/internal/observe/generic.go and raspberrypi.go, and the source     *)
(* adapters of src/internal/platform).  Texts are abstracted to the        *)
(* numbers they hold; uint64 is the numbers up to MaxUint, and arithmetic  *)
(* wraps there.                                                            *)
(***************************************************************************)
EXTENDS Outcome, Integers, Sequences, SequencesExt, FiniteSets

CONSTANTS
    MaxUint,        \* math.MaxUint64
    Kilo            \* bytes in a kB of /proc/meminfo

ASSUME WidthAssumption == MaxUint \in Nat \ {0} /\ Kilo \in Nat \ {0}

Uint == 0..MaxUint
Wrap(n) == n % (MaxUint + 1)

Unavailable(reason) == [outcome |-> reason]
Bytes(total, available) ==
    [outcome |-> "present", total |-> total, available |-> available,
     used |-> Wrap(total - available)]

-----------------------------------------------------------------------------
(* parseCPUTopology: a list of ranges <<start, end>>.                      *)

\* The loop keeps the count and the end of the last range.
ParsedRange(state, range) ==
    LET length == Wrap(range[2] - range[1] + 1)
    IN  IF \/ ~state.valid
           \/ range[2] < range[1]
           \/ ~state.first /\ range[1] <= state.previous
           \/ length = 0
           \/ state.count > MaxUint - length
        THEN [state EXCEPT !.valid = FALSE]
        ELSE [valid |-> TRUE, first |-> FALSE, count |-> Wrap(state.count + length),
              previous |-> range[2]]

NothingParsed == [valid |-> TRUE, first |-> TRUE, count |-> 0, previous |-> 0]

parseCPUTopology(ranges) ==
    LET parsed[n \in 0..Len(ranges)] ==
            IF n = 0 THEN NothingParsed ELSE ParsedRange(parsed[n - 1], ranges[n])
        all == parsed[Len(ranges)]
    IN  IF all.valid /\ all.count # 0
        THEN [outcome |-> "present", count |-> all.count]
        ELSE Unavailable("temporarily_unavailable")

-----------------------------------------------------------------------------
(* parseMemory: the entries MemTotal and MemAvailable of /proc/meminfo, a  *)
(* sequence of pairs <<name, kilobytes>> among lines that are skipped.     *)

parseMemory(entries) ==
    LET Values(name) == {entries[n][2] : n \in {k \in DOMAIN entries : entries[k][1] = name}}
        InBytes(name) == Wrap((CHOOSE v \in Values(name) : TRUE) * Kilo)
        Duplicate == \E n, k \in DOMAIN entries : n # k /\ entries[n][1] = entries[k][1]
        TooLarge == \E n \in DOMAIN entries : entries[n][2] > MaxUint \div Kilo
        Missing == Values("MemTotal") = {} \/ Values("MemAvailable") = {}
    IN  IF Duplicate \/ TooLarge \/ Missing
        THEN Unavailable("temporarily_unavailable")
        ELSE IF InBytes("MemAvailable") > InBytes("MemTotal")
             THEN Unavailable("temporarily_unavailable")
             ELSE Bytes(InBytes("MemTotal"), InBytes("MemAvailable"))

-----------------------------------------------------------------------------
(* collectRootFilesystem, from the statfs of the root.                     *)

\* The adapter takes the fragment size, or else the block size.
BlockSize(fragment, block) == IF fragment > 0 THEN fragment ELSE block

OverflowsMutant(size, blocks) == FALSE
Overflows(size, blocks) == blocks > MaxUint \div size

collectRootFilesystem(size, total, available) ==
    IF size <= 0 \/ Overflows(size, total) \/ Overflows(size, available)
    THEN Unavailable("temporarily_unavailable")
    ELSE IF Wrap(available * size) > Wrap(total * size)
         THEN Unavailable("temporarily_unavailable")
         ELSE Bytes(Wrap(total * size), Wrap(available * size))

-----------------------------------------------------------------------------
(* collectSoCTemperature: names is the result of listing the zones, types  *)
(* what reading each zone's type gives, temperature the reading of the one *)
(* zone of type cpu-thermal.                                               *)

collectSoCTemperature(names, types, temperature) ==
    LET Matches(n) == {k \in 1..n : types[k] = "cpu-thermal"}
        Stops == {n \in DOMAIN types : types[n] \in Errors \/ Cardinality(Matches(n)) > 1}
        first == CHOOSE n \in Stops : \A k \in Stops : n <= k
    IN  CASE names \in Errors -> acquisitionFailure(names, "unsupported")
          [] names \notin Errors /\ Stops # {} ->
                IF types[first] \in Errors
                THEN acquisitionFailure(types[first], "temporarily_unavailable")
                ELSE "temporarily_unavailable"
          [] names \notin Errors /\ Stops = {} /\ Matches(Len(types)) = {} -> "unsupported"
          [] OTHER ->
                IF temperature \in Errors
                THEN acquisitionFailure(temperature, "temporarily_unavailable")
                ELSE Acquired(temperature)

-----------------------------------------------------------------------------
(* GetThrottled: the restricted device, and the general one where that is  *)
(* absent or denied; acquisitionFailure maps the error that is left.       *)

GetThrottled(restricted, general) ==
    CASE restricted = "answered" -> "answered"
      [] restricted = "other" -> "other"
      [] restricted \in {"permission", "not_exist"} /\ general = "answered" -> "answered"
      [] restricted = "permission" /\ general # "answered" -> "permission"
      [] restricted = "not_exist" /\ general # "answered" -> general

collectFirmware(restricted, general) ==
    IF GetThrottled(restricted, general) = "answered"
    THEN "present"
    ELSE acquisitionFailure(GetThrottled(restricted, general), "unsupported")
=============================================================================
