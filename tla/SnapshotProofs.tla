--------------------------- MODULE SnapshotProofs ---------------------------
(***************************************************************************)
(* What the collectors compute and the encoder accepts, for integers of    *)
(* any width, any answers of the platform and any number of interfaces.    *)
(***************************************************************************)
EXTENDS SnapshotDocument, FiniteSetTheorems, WellFoundedInduction, TLAPS

-----------------------------------------------------------------------------
(* Induction, with the set of the numbers that satisfy the claim.          *)

LEMMA Induction ==
    ASSUME NEW T \in SUBSET Nat, 0 \in T, \A n \in T : n + 1 \in T
    PROVE  \A n \in Nat : n \in T
  <1> SUFFICES ASSUME Nat \ T # {} PROVE FALSE
    OBVIOUS
  <1> DEFINE R == {ss \in Nat \X Nat : ss[1] < ss[2]}
             U == Nat \ T
  <1>1. IsWellFoundedOn(R, Nat)
    BY NatLessThanWellFounded, Zenon DEF OpToRel
  <1>2. U \subseteq Nat /\ U # {}
    OBVIOUS
  <1> HIDE DEF R, U
  <1>3. PICK x \in U : \A y \in U : <<y, x>> \notin R
    BY <1>1, <1>2, WFMin
  <1>4. x \in Nat /\ x # 0 /\ x \notin T
    BY DEF U
  <1>5. x - 1 \notin T
    BY <1>4
  <1>6. <<x - 1, x>> \in R
    <2>1. <<x - 1, x>> \in Nat \X Nat
      BY <1>4
    <2> QED
      BY <1>4, <2>1 DEF R
  <1> QED
    BY <1>3, <1>4, <1>5, <1>6 DEF U

-----------------------------------------------------------------------------
(* The width of integers.                                                  *)

\* What fits in a uint64 does not wrap.
LEMMA WrapExact == ASSUME NEW n \in Uint PROVE Wrap(n) = n
  BY WidthAssumption DEF Wrap, Uint

\* A quotient bounds a product: the check the code makes before it multiplies.
LEMMA ProductFits ==
    ASSUME NEW size \in Nat \ {0}, NEW n \in Nat, n <= MaxUint \div size
    PROVE  n * size \in Uint
  <1> DEFINE q == MaxUint \div size
  <1>1. q \in Nat /\ q * size <= MaxUint
    BY WidthAssumption
  <1> HIDE DEF q
  <1>2. n <= q
    BY DEF q
  <1>3. n * size <= q * size
    BY <1>1, <1>2
  <1>4. n * size \in Nat
    OBVIOUS
  <1> QED
    BY <1>1, <1>3, <1>4, WidthAssumption DEF Uint

\* A difference that is not negative does not wrap either.
LEMMA BytesExact ==
    ASSUME NEW total \in Uint, NEW available \in Uint, available <= total
    PROVE  Bytes(total, available).used + available = total
  <1>1. total - available \in Uint
    BY WidthAssumption DEF Uint
  <1>2. Bytes(total, available).used = total - available
    BY <1>1, WrapExact DEF Bytes
  <1> QED
    BY <1>2 DEF Uint

\* collectRootFilesystem reports the products, or nothing.
LEMMA RootExact ==
    ASSUME NEW size \in Int, NEW total \in Uint, NEW available \in Uint,
           collectRootFilesystem(size, total, available).outcome = "present"
    PROVE  LET space == collectRootFilesystem(size, total, available)
           IN  /\ space.total = size * total
               /\ space.available = size * available
               /\ space.used + space.available = space.total
               /\ ValidBytes(space)
  <1> DEFINE space == collectRootFilesystem(size, total, available)
             t == total * size
             a == available * size
  <1>1. /\ size > 0 /\ ~Overflows(size, total) /\ ~Overflows(size, available)
        /\ Wrap(a) <= Wrap(t) /\ space = Bytes(Wrap(t), Wrap(a))
    <2>1. Unavailable("temporarily_unavailable").outcome # "present"
      BY DEF Unavailable
    <2>2. size > 0 /\ ~Overflows(size, total) /\ ~Overflows(size, available)
      BY <2>1 DEF collectRootFilesystem
    <2>3. ~(Wrap(a) > Wrap(t)) /\ space = Bytes(Wrap(t), Wrap(a))
      BY <2>1, <2>2 DEF collectRootFilesystem
    <2>4. t \in Int /\ a \in Int
      BY DEF Uint
    <2>5. Wrap(t) \in Int /\ Wrap(a) \in Int
      BY <2>4, WidthAssumption DEF Wrap
    <2> QED
      BY <2>2, <2>3, <2>5
  <1>2. t \in Uint /\ a \in Uint
    BY <1>1, ProductFits, WidthAssumption DEF Overflows, Uint
  <1>3. Wrap(t) = t /\ Wrap(a) = a
    BY <1>2, WrapExact
  <1>4. t = size * total /\ a = size * available
    BY DEF Uint
  <1> HIDE DEF space, t, a
  <1>5. space = Bytes(t, a) /\ a <= t
    BY <1>1, <1>3
  <1>6. space.total = t /\ space.available = a
    BY <1>5 DEF Bytes
  <1>7. space.used + a = t
    BY <1>2, <1>5, BytesExact
  <1>8. ValidBytes(space)
    BY <1>5 DEF ValidBytes, Bytes
  <1> QED
    BY <1>4, <1>6, <1>7, <1>8 DEF space

\* parseMemory reports the amount of the one entry of each name, in bytes.
LEMMA MemoryExact ==
    ASSUME NEW entries \in Seq({"MemTotal", "MemAvailable"} \X Uint),
           parseMemory(entries).outcome = "present"
    PROVE  LET space == parseMemory(entries)
           IN  /\ space.total = Kilo * KilobytesOf("MemTotal", entries)
               /\ space.available = Kilo * KilobytesOf("MemAvailable", entries)
               /\ space.used + space.available = space.total
               /\ ValidBytes(space)
  <1> DEFINE Values(name) == {entries[n][2] : n \in {k \in DOMAIN entries : entries[k][1] = name}}
             Value(name) == CHOOSE v \in Values(name) : TRUE
             InBytes(name) == Wrap(Value(name) * Kilo)
             Duplicate == \E n, k \in DOMAIN entries : n # k /\ entries[n][1] = entries[k][1]
             TooLarge == \E n \in DOMAIN entries : entries[n][2] > MaxUint \div Kilo
             Missing == Values("MemTotal") = {} \/ Values("MemAvailable") = {}
             space == parseMemory(entries)
  <1>1. /\ ~Duplicate /\ ~TooLarge /\ ~Missing
        /\ ~(InBytes("MemAvailable") > InBytes("MemTotal"))
        /\ space = Bytes(InBytes("MemTotal"), InBytes("MemAvailable"))
    <2>1. Unavailable("temporarily_unavailable").outcome # "present"
      BY DEF Unavailable
    <2>2. ~(Duplicate \/ TooLarge \/ Missing)
      BY <2>1, Zenon DEF parseMemory
    <2> QED
      BY <2>1, <2>2, Zenon DEF parseMemory
  <1>2. ASSUME NEW name \in {"MemTotal", "MemAvailable"}
        PROVE  /\ Value(name) \in Uint /\ Value(name) <= MaxUint \div Kilo
               /\ KilobytesOf(name, entries) = Value(name)
    <2>1. Value(name) \in Values(name)
      BY <1>1, <1>2
    <2>2. PICK n \in DOMAIN entries : entries[n][1] = name /\ entries[n][2] = Value(name)
      BY <2>1
    <2> HIDE DEF Value
    <2>3. entries[n] \in {"MemTotal", "MemAvailable"} \X Uint
      BY <2>2
    <2>4. entries[n] = <<name, Value(name)>> /\ Value(name) \in Uint
      BY <2>2, <2>3
    <2>5. Value(name) <= MaxUint \div Kilo
      <3>1. ~(entries[n][2] > MaxUint \div Kilo)
        BY <1>1, <2>2
      <3>2. MaxUint \div Kilo \in Int
        BY WidthAssumption
      <3> QED
        BY <2>2, <2>4, <3>1, <3>2 DEF Uint
    <2>6. ASSUME NEW k \in Uint, NEW m \in DOMAIN entries, entries[m] = <<name, k>>
          PROVE  k = Value(name)
      <3>1. m = n
        BY <1>1, <2>2, <2>6
      <3> QED
        BY <2>4, <2>6, <3>1
    <2>7. KilobytesOf(name, entries) = Value(name)
      BY <2>2, <2>4, <2>6 DEF KilobytesOf
    <2> QED
      BY <2>4, <2>5, <2>7
  <1> DEFINE t == Value("MemTotal") * Kilo
             a == Value("MemAvailable") * Kilo
  <1>3. t \in Uint /\ a \in Uint
    <2> HIDE DEF Value
    <2> QED
      BY <1>2, ProductFits, WidthAssumption DEF Uint
  <1>4. InBytes("MemTotal") = t /\ InBytes("MemAvailable") = a
    BY <1>3, WrapExact
  <1>5. /\ t = Kilo * KilobytesOf("MemTotal", entries)
        /\ a = Kilo * KilobytesOf("MemAvailable", entries)
    <2> HIDE DEF Value
    <2> QED
      BY <1>2, WidthAssumption DEF Uint
  <1> HIDE DEF InBytes, space, t, a
  <1>6. space = Bytes(t, a) /\ a <= t
    BY <1>1, <1>3, <1>4 DEF Uint
  <1>7. space.total = t /\ space.available = a
    BY <1>6 DEF Bytes
  <1>8. space.used + a = t
    BY <1>3, <1>6, BytesExact
  <1>9. ValidBytes(space)
    BY <1>6 DEF ValidBytes, Bytes
  <1> QED
    BY <1>5, <1>7, <1>8, <1>9 DEF space

-----------------------------------------------------------------------------
(* The loop of parseCPUTopology.                                           *)

\* f[n] is the state of the loop after n ranges, up to the m-th.
LoopStates(f, ranges, m) ==
    f = [n \in 0..m |-> IF n = 0 THEN NothingParsed ELSE ParsedRange(f[n - 1], ranges[n])]

\* The loop has a state after every number of ranges.
LEMMA LoopRuns ==
    ASSUME NEW ranges
    PROVE  \A m \in Nat : \E f : LoopStates(f, ranges, m)
  <1> DEFINE T == {m \in Nat : \E f : LoopStates(f, ranges, m)}
  <1>1. 0 \in T
    <2> DEFINE f == [n \in 0..0 |-> NothingParsed]
    <2>1. f = [n \in 0..0 |-> IF n = 0 THEN NothingParsed ELSE ParsedRange(f[n - 1], ranges[n])]
      OBVIOUS
    <2> QED
      BY <2>1 DEF LoopStates
  <1>2. ASSUME NEW m \in T PROVE m + 1 \in T
    <2>1. PICK f : LoopStates(f, ranges, m)
      OBVIOUS
    <2> DEFINE g == [n \in 0..(m + 1) |-> IF n <= m THEN f[n] ELSE ParsedRange(f[m], ranges[m + 1])]
    <2>2. \A n \in 0..m : f[n] = IF n = 0 THEN NothingParsed ELSE ParsedRange(f[n - 1], ranges[n])
      BY <2>1 DEF LoopStates
    <2>3. ASSUME NEW n \in 0..(m + 1)
          PROVE  g[n] = IF n = 0 THEN NothingParsed ELSE ParsedRange(g[n - 1], ranges[n])
      <3>1. CASE n = 0
        BY <2>2, <3>1
      <3>2. CASE n \in 1..m
        <4>1. g[n] = f[n] /\ g[n - 1] = f[n - 1]
          BY <3>2
        <4> QED
          BY <2>2, <3>2, <4>1
      <3>3. CASE n = m + 1
        <4>1. g[n] = ParsedRange(f[m], ranges[n]) /\ g[n - 1] = f[m]
          BY <3>3
        <4> QED
          BY <3>3, <4>1
      <3> QED
        BY <3>1, <3>2, <3>3
    <2>4. g = [n \in 0..(m + 1) |->
                IF n = 0 THEN NothingParsed ELSE ParsedRange(g[n - 1], ranges[n])]
      <3> DEFINE h == [n \in 0..(m + 1) |->
                        IF n = 0 THEN NothingParsed ELSE ParsedRange(g[n - 1], ranges[n])]
      <3>1. \A n \in 0..(m + 1) : g[n] = h[n]
        BY <2>3
      <3>2. DOMAIN g = 0..(m + 1) /\ DOMAIN h = 0..(m + 1)
        OBVIOUS
      <3>3. g = [n \in DOMAIN g |-> g[n]] /\ h = [n \in DOMAIN h |-> h[n]]
        OBVIOUS
      <3> HIDE DEF g, h
      <3>4. g = h
        BY <3>1, <3>2, <3>3
      <3> QED
        BY <3>4 DEF h
    <2> HIDE DEF g
    <2>5. LoopStates(g, ranges, m + 1)
      BY <2>4 DEF LoopStates
    <2> QED
      BY <2>5
  <1> HIDE DEF T
  <1>3. \A m \in Nat : m \in T
    <2>1. T \in SUBSET Nat
      BY DEF T
    <2> QED
      BY <1>1, <1>2, <2>1, Induction
  <1> QED
    BY <1>3 DEF T

\* The count is the number of the CPUs S of the ranges so far, which do not
\* lie above the end of the last one.
Counts(state, S) ==
    state.valid =>
        /\ S \in SUBSET Nat /\ IsFiniteSet(S)
        /\ state.count \in Uint /\ state.count = Cardinality(S)
        /\ state.first => S = {}
        /\ ~state.first => state.previous \in Uint /\ \A cpu \in S : cpu <= state.previous

\* A range adds its CPUs, or the list is invalid.
LEMMA RangeCounted ==
    ASSUME NEW state, NEW S, Counts(state, S), NEW range \in Uint \X Uint
    PROVE  Counts(ParsedRange(state, range), S \cup range[1]..range[2])
  <1> DEFINE start == range[1]
             end == range[2]
             length == Wrap(end - start + 1)
             next == ParsedRange(state, range)
             refused == \/ ~state.valid
                        \/ end < start
                        \/ ~state.first /\ start <= state.previous
                        \/ length = 0
                        \/ state.count > MaxUint - length
  <1>1. start \in Uint /\ end \in Uint
    OBVIOUS
  <1>2. CASE refused
    <2>1. next = [state EXCEPT !.valid = FALSE]
      BY <1>2 DEF ParsedRange
    <2> QED
      BY <2>1 DEF Counts
  <1>3. CASE ~refused
    <2>1. next = [valid |-> TRUE, first |-> FALSE, count |-> Wrap(state.count + length),
                  previous |-> end]
      BY <1>3 DEF ParsedRange
    <2>2. start <= end /\ end - start + 1 \in 1..(MaxUint + 1)
      BY <1>1, <1>3, WidthAssumption DEF Uint
    <2>3. length = end - start + 1 /\ length \in Uint
      <3> DEFINE d == end - start + 1
      <3>1. d \in 1..(MaxUint + 1) /\ length = Wrap(d) /\ length # 0
        BY <1>3, <2>2
      <3> HIDE DEF d, length
      <3>2. d # MaxUint + 1
        <4>1. Wrap(MaxUint + 1) = 0
          BY WidthAssumption DEF Wrap
        <4> QED
          BY <3>1, <4>1
      <3>3. d \in Uint
        BY <3>1, <3>2, WidthAssumption DEF Uint
      <3>4. length = d
        BY <3>1, <3>3, WrapExact
      <3> QED
        BY <3>3, <3>4 DEF d
    <2> HIDE DEF length
    <2>4. /\ S \in SUBSET Nat /\ IsFiniteSet(S)
          /\ state.count \in Uint /\ state.count = Cardinality(S)
      BY <1>3 DEF Counts
    <2>5. state.count + length \in Uint
      BY <1>3, <2>3, <2>4, WidthAssumption DEF Uint
    <2>6. Wrap(state.count + length) = state.count + length
      BY <2>5, WrapExact
    <2>7. S \cap start..end = {}
      <3>1. CASE state.first
        BY <1>3, <3>1 DEF Counts
      <3>2. CASE ~state.first
        <4>1. state.previous \in Uint /\ \A cpu \in S : cpu <= state.previous
          BY <1>3, <3>2 DEF Counts
        <4>2. state.previous < start
          BY <1>1, <1>3, <3>2, <4>1 DEF Uint
        <4> QED
          BY <1>1, <2>4, <4>1, <4>2 DEF Uint
      <3> QED
        BY <3>1, <3>2
    <2>8. IsFiniteSet(start..end) /\ Cardinality(start..end) = length
      BY <1>1, <2>2, <2>3, FS_Interval DEF Uint
    <2>9. IsFiniteSet(S \cup start..end) /\ Cardinality(S \cup start..end) = state.count + length
      <3>1. Cardinality({}) = 0
        BY FS_EmptySet
      <3>2. /\ IsFiniteSet(S \cup start..end)
            /\ Cardinality(S \cup start..end) =
                Cardinality(S) + Cardinality(start..end) - Cardinality(S \cap start..end)
        BY <2>4, <2>8, FS_Union
      <3>3. Cardinality(S \cap start..end) = 0
        BY <2>7, <3>1
      <3> DEFINE c == Cardinality(S)
      <3>4. Cardinality(S \cup start..end) = c + length - 0
        BY <2>8, <3>2, <3>3
      <3>5. c = state.count /\ c \in Nat /\ length \in Nat
        BY <2>3, <2>4 DEF Uint
      <3> HIDE DEF c
      <3> QED
        BY <3>2, <3>4, <3>5
    <2>10. \A cpu \in S \cup start..end : cpu \in Nat /\ cpu <= end
      <3>1. \A cpu \in S : cpu <= end
        <4>1. CASE state.first
          BY <1>3, <4>1 DEF Counts
        <4>2. CASE ~state.first
          <5>1. state.previous \in Uint /\ \A cpu \in S : cpu <= state.previous
            BY <1>3, <4>2 DEF Counts
          <5>2. state.previous < start
            BY <1>1, <1>3, <4>2, <5>1 DEF Uint
          <5> QED
            BY <1>1, <2>2, <2>4, <5>1, <5>2 DEF Uint
        <4> QED
          BY <4>1, <4>2
      <3> QED
        BY <1>1, <2>4, <3>1 DEF Uint
    <2> HIDE DEF next, start, end
    <2>11. /\ next.valid /\ ~next.first /\ next.count = state.count + length
           /\ next.previous = end
      BY <2>1, <2>6
    <2>12. Counts(next, S \cup start..end)
      BY <1>1, <2>5, <2>9, <2>10, <2>11 DEF Counts
    <2> QED
      BY <2>12 DEF next, start, end
  <1> QED
    BY <1>2, <1>3

\* parseCPUTopology counts each CPU of the list once, or reports nothing.
LEMMA CPUsExact ==
    ASSUME NEW ranges \in Seq(Uint \X Uint), parseCPUTopology(ranges).outcome = "present"
    PROVE  /\ parseCPUTopology(ranges).count = Cardinality(CPUsOf(ranges))
           /\ parseCPUTopology(ranges).count > 0
  <1> DEFINE m == Len(ranges)
             parsed == CHOOSE f : LoopStates(f, ranges, m)
             Seen(n) == UNION {ranges[k][1]..ranges[k][2] : k \in 1..n}
             T == {n \in Nat : n <= m => Counts(parsed[n], Seen(n))}
  <1>0. m \in Nat /\ DOMAIN ranges = 1..m /\ \A k \in 1..m : ranges[k] \in Uint \X Uint
    OBVIOUS
  <1>1. LoopStates(parsed, ranges, m)
    BY <1>0, LoopRuns
  <1>2. /\ parsed[m].valid /\ parseCPUTopology(ranges).count = parsed[m].count
        /\ parsed[m].count # 0
    <2>1. parseCPUTopology(ranges) =
            IF parsed[m].valid /\ parsed[m].count # 0
            THEN [outcome |-> "present", count |-> parsed[m].count]
            ELSE Unavailable("temporarily_unavailable")
      BY Zenon DEF parseCPUTopology, LoopStates
    <2>2. Unavailable("temporarily_unavailable").outcome # "present"
      BY DEF Unavailable
    <2> HIDE DEF parsed
    <2> QED
      BY <2>1, <2>2
  <1> HIDE DEF parsed, m
  <1>3. /\ parsed[0] = NothingParsed
        /\ \A n \in 1..m : parsed[n] = ParsedRange(parsed[n - 1], ranges[n])
    <2>1. \A n \in 0..m :
            parsed[n] = IF n = 0 THEN NothingParsed ELSE ParsedRange(parsed[n - 1], ranges[n])
      BY <1>0, <1>1 DEF LoopStates
    <2> QED
      BY <1>0, <2>1
  <1>4. 0 \in T
    <2>1. Seen(0) = {}
      OBVIOUS
    <2>2. Counts(NothingParsed, {})
      BY FS_EmptySet, WidthAssumption DEF Counts, NothingParsed, Uint
    <2> QED
      BY <1>3, <2>1, <2>2
  <1>5. ASSUME NEW n \in T PROVE n + 1 \in T
    <2> SUFFICES ASSUME n + 1 <= m PROVE Counts(parsed[n + 1], Seen(n + 1))
      OBVIOUS
    <2>1. n \in Nat /\ n + 1 \in 1..m /\ Counts(parsed[n], Seen(n))
      BY <1>0
    <2>2. ranges[n + 1] \in Uint \X Uint
      BY <1>0, <2>1
    <2>3. Counts(ParsedRange(parsed[n], ranges[n + 1]),
                 Seen(n) \cup ranges[n + 1][1]..ranges[n + 1][2])
      <3> HIDE DEF Seen
      <3> QED
        BY <2>1, <2>2, RangeCounted
    <2>4. Seen(n + 1) = Seen(n) \cup ranges[n + 1][1]..ranges[n + 1][2]
      <3>1. 1..(n + 1) = 1..n \cup {n + 1}
        BY <2>1
      <3> QED
        BY <3>1
    <2>5. parsed[n + 1] = ParsedRange(parsed[n], ranges[n + 1])
      BY <1>3, <2>1
    <2> QED
      BY <2>3, <2>4, <2>5
  <1>6. Counts(parsed[m], Seen(m))
    <2>1. T \in SUBSET Nat
      OBVIOUS
    <2> HIDE DEF T
    <2>2. m \in T
      BY <1>0, <1>4, <1>5, <2>1, Induction
    <2> QED
      BY <1>0, <2>2 DEF T
  <1>7. Seen(m) = CPUsOf(ranges)
    BY <1>0 DEF CPUsOf, ToSet
  <1> HIDE DEF Seen
  <1> QED
    BY <1>2, <1>6, <1>7 DEF Counts, Uint

-----------------------------------------------------------------------------
(* Outcomes.  Every acquisition ends in a value or in a reason.            *)

LEMMA FailureType ==
    ASSUME NEW error \in Errors, NEW missing \in Reasons
    PROVE  acquisitionFailure(error, missing) \in Reasons
  BY DEF acquisitionFailure, Errors, Reasons

LEMMA AcquiredType ==
    ASSUME NEW acquisition \in Acquisitions
    PROVE  Acquired(acquisition) \in Outcomes
  <1>1. "unsupported" \in Reasons
    BY DEF Reasons
  <1> QED
    BY <1>1, FailureType DEF Acquired, Acquisitions, Errors, Outcomes, Reasons

LEMMA TemperatureType ==
    ASSUME NEW names, NEW types, NEW temperature \in Acquisitions
    PROVE  collectSoCTemperature(names, types, temperature) \in Outcomes
  <1>1. {"unsupported", "temporarily_unavailable"} \subseteq Reasons /\ Reasons \subseteq Outcomes
    BY DEF Reasons, Outcomes
  <1>2. \A error \in Errors : /\ acquisitionFailure(error, "unsupported") \in Outcomes
                              /\ acquisitionFailure(error, "temporarily_unavailable") \in Outcomes
    BY <1>1, FailureType
  <1>3. Acquired(temperature) \in Outcomes
    BY AcquiredType
  <1> QED
    BY <1>1, <1>2, <1>3 DEF collectSoCTemperature

LEMMA FirmwareType ==
    ASSUME NEW restricted \in {"answered"} \cup Errors, NEW general \in {"answered"} \cup Errors
    PROVE  collectFirmware(restricted, general) \in Outcomes
  <1>1. GetThrottled(restricted, general) \in {"answered"} \cup Errors
    BY DEF GetThrottled, Errors
  <1>2. "unsupported" \in Reasons
    BY DEF Reasons
  <1> QED
    BY <1>1, <1>2, FailureType DEF collectFirmware, Outcomes

LEMMA TopologyType ==
    ASSUME NEW ranges PROVE parseCPUTopology(ranges).outcome \in Outcomes
  <1> DEFINE parsed == CHOOSE f : LoopStates(f, ranges, Len(ranges))
             all == parsed[Len(ranges)]
  <1>1. parseCPUTopology(ranges) =
            IF all.valid /\ all.count # 0
            THEN [outcome |-> "present", count |-> all.count]
            ELSE Unavailable("temporarily_unavailable")
    BY Zenon DEF parseCPUTopology, LoopStates
  <1> HIDE DEF all
  <1> QED
    BY <1>1 DEF Unavailable, Outcomes, Reasons

LEMMA MemoryType ==
    ASSUME NEW entries PROVE parseMemory(entries).outcome \in Outcomes
  <1>1. \E t, a : parseMemory(entries) \in {Unavailable("temporarily_unavailable"), Bytes(t, a)}
    BY DEF parseMemory
  <1> QED
    BY <1>1 DEF Unavailable, Bytes, Outcomes, Reasons

LEMMA RootType ==
    ASSUME NEW size, NEW total, NEW available
    PROVE  collectRootFilesystem(size, total, available).outcome \in Outcomes
  <1>1. \E t, a : collectRootFilesystem(size, total, available)
                    \in {Unavailable("temporarily_unavailable"), Bytes(t, a)}
    BY DEF collectRootFilesystem
  <1> QED
    BY <1>1 DEF Unavailable, Bytes, Outcomes, Reasons

-----------------------------------------------------------------------------
(* The observations of a cycle.                                            *)

ObservedInv == observed \in [Metrics -> Outcomes]
InterfacesInv == interfaces \in Seq(SUBSET Leaves) /\ Len(interfaces) <= MaximumInterfaces
MalformedInv == malformed = {}
ObservationInv == ObservedInv /\ InterfacesInv /\ ExactQuantities /\ MalformedInv

LEMMA ObservationInit == Init => ObservationInv
  <1> SUFFICES ASSUME Init PROVE ObservationInv
    OBVIOUS
  <1>1. ObservedInv
    BY DEF Init, ObservedInv, Outcomes, Reasons
  <1>2. InterfacesInv
    BY InterfacesAssumption DEF Init, InterfacesInv
  <1>3. ExactQuantities
    BY DEF Init, ExactQuantities, NoReading
  <1>4. MalformedInv
    BY DEF Init, MalformedInv
  <1> QED
    BY <1>1, <1>2, <1>3, <1>4 DEF ObservationInv

\* Nothing read is nothing wrong.
LEMMA NothingRead ==
    reading' = NoReading => ExactQuantities'
  BY DEF ExactQuantities, NoReading

LEMMA MetricUpdated ==
    ASSUME ObservedInv, NEW metric \in Metrics, NEW outcome \in Outcomes,
           observed' = [observed EXCEPT ![metric] = outcome]
    PROVE  ObservedInv'
  BY DEF ObservedInv

LEMMA TwoMetricsUpdated ==
    ASSUME ObservedInv, NEW a \in Metrics, NEW b \in Metrics,
           NEW x \in Outcomes, NEW y \in Outcomes,
           observed' = [observed EXCEPT ![a] = x, ![b] = y]
    PROVE  ObservedInv'
  BY DEF ObservedInv

LEMMA ObservationStep == ObservationInv /\ [Next]_vars => ObservationInv'
  <1> SUFFICES ASSUME ObservedInv, InterfacesInv, ExactQuantities, MalformedInv, [Next]_vars
               PROVE  ObservedInv' /\ InterfacesInv' /\ ExactQuantities' /\ MalformedInv'
    BY DEF ObservationInv
  <1>a. \A metric \in Metrics \ {"firmware"} : \A a \in Answers(metric) : Acquired(a) \in Outcomes
    <2>1. \A metric \in Metrics \ {"firmware"} : Answers(metric) \subseteq Acquisitions
      BY PlatformAssumption DEF Metrics
    <2> QED
      BY <2>1, AcquiredType
  <1>b. \A error \in Errors : acquisitionFailure(error, "unsupported") \in Outcomes
    BY FailureType DEF Reasons, Outcomes
  <1>c. /\ "temporarily_unavailable" \in Outcomes /\ "present" \in Outcomes
        /\ Reasons \subseteq Outcomes
    BY DEF Reasons, Outcomes
  <1>d. {"hostname", "uptime", "logicalCPUCount", "load", "memory", "root", "temperature",
         "firmware", "network", "utilization"} = Metrics
    BY DEF Metrics
  <1>e. UNCHANGED interfaces => InterfacesInv'
    BY DEF InterfacesInv
  <1>f. UNCHANGED malformed => MalformedInv'
    BY DEF MalformedInv
  <1>1. CASE DomainLate
    <2>1. reading' = NoReading /\ UNCHANGED <<observed, interfaces, malformed>>
      BY <1>1 DEF DomainLate
    <2> QED
      BY <2>1, <1>e, <1>f, NothingRead DEF ObservedInv
  <1>2. CASE CollectHost
    <2>1. PICK name \in Answers("hostname"), uptime \in Answers("uptime") :
            observed' = [observed EXCEPT !["hostname"] = Acquired(name),
                                         !["uptime"] = Acquired(uptime)]
      BY <1>2 DEF CollectHost
    <2>2. Acquired(name) \in Outcomes /\ Acquired(uptime) \in Outcomes
      BY <1>a, <1>d, <2>1
    <2>3. ObservedInv'
      BY <1>d, <2>1, <2>2, TwoMetricsUpdated
    <2> QED
      BY <1>2, <1>e, <1>f, <2>3, NothingRead DEF CollectHost
  <1>3. CASE CollectCPULoad
    <2>1. PICK load \in Answers("load") :
            \/ \E error \in Answers("logicalCPUCount") \cap Errors :
                /\ observed' = [observed EXCEPT
                                    !["logicalCPUCount"] = acquisitionFailure(error, "unsupported"),
                                    !["load"] = Acquired(load)]
                /\ reading' = NoReading /\ UNCHANGED malformed
            \/ \E ranges \in RangeLists :
                /\ observed' = [observed EXCEPT
                                    !["logicalCPUCount"] = parseCPUTopology(ranges).outcome,
                                    !["load"] = Acquired(load)]
                /\ reading' = [of |-> "cpus", ranges |-> ranges,
                               result |-> parseCPUTopology(ranges)]
                /\ Checked("logicalCPUCount", ValidCount(parseCPUTopology(ranges)))
      BY <1>3 DEF CollectCPULoad
    <2>2. Acquired(load) \in Outcomes
      BY <1>a, <1>d, <2>1
    <2>3. ASSUME NEW error \in Answers("logicalCPUCount") \cap Errors,
                 observed' = [observed EXCEPT
                                !["logicalCPUCount"] = acquisitionFailure(error, "unsupported"),
                                !["load"] = Acquired(load)],
                 reading' = NoReading, UNCHANGED malformed
          PROVE  ObservedInv' /\ ExactQuantities' /\ MalformedInv'
      <3>1. acquisitionFailure(error, "unsupported") \in Outcomes
        BY <1>b
      <3> QED
        BY <1>d, <1>f, <2>2, <2>3, <3>1, NothingRead, TwoMetricsUpdated
    <2>4. ASSUME NEW ranges \in RangeLists,
                 observed' = [observed EXCEPT
                                !["logicalCPUCount"] = parseCPUTopology(ranges).outcome,
                                !["load"] = Acquired(load)],
                 reading' = [of |-> "cpus", ranges |-> ranges, result |-> parseCPUTopology(ranges)],
                 Checked("logicalCPUCount", ValidCount(parseCPUTopology(ranges)))
          PROVE  ObservedInv' /\ ExactQuantities' /\ MalformedInv'
      <3>1. parseCPUTopology(ranges).outcome \in Outcomes
        BY TopologyType
      <3>2. ObservedInv'
        BY <1>d, <2>2, <2>4, <3>1, TwoMetricsUpdated
      <3>3. ranges \in Seq(Uint \X Uint)
        BY PlatformAssumption
      <3>4. parseCPUTopology(ranges).outcome = "present"
                => parseCPUTopology(ranges).count = Cardinality(CPUsOf(ranges))
        BY <3>3, CPUsExact
      <3>6. MalformedInv'
        <4>1. ValidCount(parseCPUTopology(ranges))
          BY <3>3, CPUsExact DEF ValidCount
        <4> QED
          BY <2>4, <4>1 DEF Checked, MalformedInv
      <3>5. /\ reading'.of = "cpus" /\ reading'.ranges = ranges
            /\ reading'.result = parseCPUTopology(ranges)
        BY <2>4
      <3> QED
        BY <3>2, <3>4, <3>5, <3>6 DEF ExactQuantities
    <2> QED
      BY <1>3, <1>e, <2>1, <2>3, <2>4 DEF CollectCPULoad
  <1>4. CASE CollectMemory
    <2>1. ASSUME NEW error \in Answers("memory") \cap Errors,
                 observed' = [observed EXCEPT
                                !["memory"] = acquisitionFailure(error, "unsupported")],
                 reading' = NoReading, UNCHANGED malformed
          PROVE  ObservedInv' /\ ExactQuantities' /\ MalformedInv'
      <3>1. acquisitionFailure(error, "unsupported") \in Outcomes
        BY <1>b
      <3> QED
        BY <1>d, <1>f, <2>1, <3>1, NothingRead, MetricUpdated
    <2>2. ASSUME NEW entries \in MemoryEntries,
                 observed' = [observed EXCEPT !["memory"] = parseMemory(entries).outcome],
                 reading' = [of |-> "memory", entries |-> entries, result |-> parseMemory(entries)],
                 Checked("memory", ValidBytes(parseMemory(entries)))
          PROVE  ObservedInv' /\ ExactQuantities' /\ MalformedInv'
      <3>1. parseMemory(entries).outcome \in Outcomes
        BY MemoryType
      <3>2. ObservedInv'
        BY <1>d, <2>2, <3>1, MetricUpdated
      <3>3. entries \in Seq({"MemTotal", "MemAvailable"} \X Uint)
        BY PlatformAssumption
      <3> DEFINE space == parseMemory(entries)
      <3>4. space.outcome = "present" =>
                /\ space.total = Kilo * KilobytesOf("MemTotal", entries)
                /\ space.available = Kilo * KilobytesOf("MemAvailable", entries)
                /\ space.used + space.available = space.total
        BY <3>3, MemoryExact
      <3>6. MalformedInv'
        <4>1. ValidBytes(parseMemory(entries))
          BY <3>3, MemoryExact DEF ValidBytes
        <4> QED
          BY <2>2, <4>1 DEF Checked, MalformedInv
      <3> HIDE DEF space
      <3>5. reading'.of = "memory" /\ reading'.entries = entries /\ reading'.result = space
        BY <2>2 DEF space
      <3> QED
        BY <3>2, <3>4, <3>5, <3>6 DEF ExactQuantities
    <2> QED
      BY <1>4, <1>e, <2>1, <2>2 DEF CollectMemory
  <1>5. CASE CollectRootFilesystem
    <2>1. ASSUME NEW error \in Answers("root") \cap Errors,
                 observed' = [observed EXCEPT
                                !["root"] = acquisitionFailure(error, "unsupported")],
                 reading' = NoReading, UNCHANGED malformed
          PROVE  ObservedInv' /\ ExactQuantities' /\ MalformedInv'
      <3>1. acquisitionFailure(error, "unsupported") \in Outcomes
        BY <1>b
      <3> QED
        BY <1>d, <1>f, <2>1, <3>1, NothingRead, MetricUpdated
    <2>2. ASSUME NEW size \in Int, NEW total \in BlockCounts, NEW available \in BlockCounts,
                 observed' = [observed EXCEPT !["root"] =
                                collectRootFilesystem(size, total, available).outcome],
                 reading' = [of |-> "root", size |-> size, total |-> total,
                             available |-> available,
                             result |-> collectRootFilesystem(size, total, available)],
                 Checked("root", ValidBytes(collectRootFilesystem(size, total, available)))
          PROVE  ObservedInv' /\ ExactQuantities' /\ MalformedInv'
      <3>1. collectRootFilesystem(size, total, available).outcome \in Outcomes
        BY RootType
      <3>2. ObservedInv'
        BY <1>d, <2>2, <3>1, MetricUpdated
      <3>3. total \in Uint /\ available \in Uint
        BY PlatformAssumption
      <3> DEFINE space == collectRootFilesystem(size, total, available)
      <3>4. space.outcome = "present" =>
                /\ space.total = size * total
                /\ space.available = size * available
                /\ space.used + space.available = space.total
        BY <3>3, RootExact
      <3>6. MalformedInv'
        <4>1. ValidBytes(collectRootFilesystem(size, total, available))
          BY <3>3, RootExact DEF ValidBytes
        <4> QED
          BY <2>2, <4>1 DEF Checked, MalformedInv
      <3> HIDE DEF space
      <3>5. /\ reading'.of = "root" /\ reading'.size = size /\ reading'.total = total
            /\ reading'.available = available /\ reading'.result = space
        BY <2>2 DEF space
      <3> QED
        BY <3>2, <3>4, <3>5, <3>6 DEF ExactQuantities
    <2>3. \A fragment, block \in BlockSizes : BlockSize(fragment, block) \in Int
      BY PlatformAssumption DEF BlockSize
    <2> QED
      BY <1>5, <1>e, <2>1, <2>2, <2>3 DEF CollectRootFilesystem
  <1>6. CASE CollectRaspberryPi
    <2>1. PICK temperature \in Temperatures, firmware \in FirmwareOutcomes :
            observed' = [observed EXCEPT !["temperature"] = temperature, !["firmware"] = firmware]
      BY <1>6 DEF CollectRaspberryPi
    <2>2. temperature \in Outcomes
      <3>1. Answers("temperature") \subseteq Acquisitions
        BY PlatformAssumption
      <3> QED
        BY <2>1, <3>1, TemperatureType DEF Temperatures
    <2>3. firmware \in Outcomes
      <3>1. \A restricted, general \in DeviceAnswers :
                collectFirmware(restricted, general) \in Outcomes
        BY PlatformAssumption, FirmwareType
      <3> QED
        BY <1>c, <2>1, <3>1 DEF FirmwareOutcomes
    <2>4. ObservedInv'
      BY <1>d, <2>1, <2>2, <2>3, TwoMetricsUpdated
    <2> QED
      BY <1>6, <1>e, <2>4, <1>f, NothingRead DEF CollectRaspberryPi
  <1>7. CASE CollectNetwork
    <2>1. ASSUME NEW reason \in Reasons,
                 observed' = [observed EXCEPT !["network"] = reason], UNCHANGED interfaces
          PROVE  ObservedInv' /\ InterfacesInv'
      BY <1>c, <1>d, <1>e, <2>1, MetricUpdated
    <2>2. ASSUME NEW n \in 0..MaximumInterfaces, NEW leaves \in [1..n -> LeafSets],
                 observed' = [observed EXCEPT !["network"] = "present"], interfaces' = leaves
          PROVE  ObservedInv' /\ InterfacesInv'
      <3>1. ObservedInv'
        BY <1>c, <1>d, <2>2, MetricUpdated
      <3>2. LeafSets \subseteq SUBSET Leaves
        BY DEF LeafSets, Leaves
      <3>3. n \in Nat /\ n <= MaximumInterfaces
        BY InterfacesAssumption
      <3>4. leaves \in [1..n -> SUBSET Leaves]
        BY <3>2
      <3>5. leaves \in Seq(SUBSET Leaves) /\ Len(leaves) = n
        BY <3>3, <3>4
      <3> QED
        BY <2>2, <3>1, <3>3, <3>5 DEF InterfacesInv
    <2> QED
      BY <1>7, <2>1, <2>2, <1>f, NothingRead DEF CollectNetwork
  <1>8. CASE CopyCPU
    <2>1. PICK publication \in {Acquired(a) : a \in Answers("utilization")}, current \in BOOLEAN :
            observed' = [observed EXCEPT !["utilization"] =
                CASE publication # "present" -> publication
                  [] publication = "present" /\ ~current -> "temporarily_unavailable"
                  [] publication = "present" /\ current ->
                        IF observed["logicalCPUCount"] = "present" THEN "present"
                                                                   ELSE "temporarily_unavailable"]
      BY <1>8 DEF CopyCPU
    <2> DEFINE copied ==
                CASE publication # "present" -> publication
                  [] publication = "present" /\ ~current -> "temporarily_unavailable"
                  [] publication = "present" /\ current ->
                        IF observed["logicalCPUCount"] = "present" THEN "present"
                                                                   ELSE "temporarily_unavailable"
    <2>2. publication \in Outcomes
      BY <1>a, <1>d, <2>1
    <2>3. copied \in Outcomes
      BY <1>c, <2>2
    <2>4. observed' = [observed EXCEPT !["utilization"] = copied]
      BY <2>1
    <2> HIDE DEF copied
    <2>5. ObservedInv'
      BY <1>d, <2>3, <2>4, MetricUpdated
    <2> QED
      BY <1>8, <1>e, <2>5, <1>f, NothingRead DEF CopyCPU
  <1>9. CASE Finalize
    <2>1. reading' = NoReading /\ UNCHANGED <<observed, interfaces, malformed>>
      BY <1>9 DEF Finalize
    <2> QED
      BY <2>1, <1>e, <1>f, NothingRead DEF ObservedInv
  <1>10. CASE UNCHANGED <<observed, interfaces, malformed, reading>>
    BY <1>10 DEF ObservedInv, InterfacesInv, ExactQuantities, MalformedInv
  <1> QED
    <2>1. Encode \/ Terminated \/ UNCHANGED vars =>
            UNCHANGED <<observed, interfaces, malformed, reading>>
      BY DEF Encode, Terminated, vars
    <2> QED
      BY <2>1, <1>1, <1>2, <1>3, <1>4, <1>5, <1>6, <1>7, <1>8, <1>9, <1>10 DEF Next

-----------------------------------------------------------------------------
(* The fields of a document.                                               *)

LEMMA FlagNames ==
    /\ ToSet(FirmwareFields) =
        {"thermal_throttling_active", "thermal_throttling_occurred_since_boot",
         "undervoltage_active", "undervoltage_occurred_since_boot"}
    /\ FirmwareFields[1] = "thermal_throttling_active"
    /\ FirmwareFields[2] = "thermal_throttling_occurred_since_boot"
    /\ FirmwareFields[3] = "undervoltage_active"
    /\ FirmwareFields[4] = "undervoltage_occurred_since_boot"
    /\ DOMAIN FirmwareFields = 1..4
  <1>1. DOMAIN FirmwareFields = 1..4 /\ 1..4 = {1, 2, 3, 4}
    BY DEF FirmwareFields
  <1>2. /\ FirmwareFields[1] = "thermal_throttling_active"
        /\ FirmwareFields[2] = "thermal_throttling_occurred_since_boot"
        /\ FirmwareFields[3] = "undervoltage_active"
        /\ FirmwareFields[4] = "undervoltage_occurred_since_boot"
    BY DEF FirmwareFields
  <1> QED
    BY <1>1, <1>2 DEF ToSet

LEMMA FieldNames ==
    /\ FieldsOf("load") = {"one_minute", "five_minutes", "fifteen_minutes"}
    /\ FieldsOf("memory") = {"memory_total", "memory_available", "memory_used"}
    /\ FieldsOf("root") = {"root_total", "root_available", "root_used"}
    /\ FieldsOf("firmware") =
        {"thermal_throttling_active", "thermal_throttling_occurred_since_boot",
         "undervoltage_active", "undervoltage_occurred_since_boot"}
    /\ FieldsOf("hostname") = {} /\ FieldsOf("network") = {}
    /\ \A metric \in {"uptime", "logicalCPUCount", "temperature", "utilization"} :
        FieldsOf(metric) = {metric}
  BY FlagNames DEF FieldsOf

\* A field belongs to one metric.
LEMMA FieldOwner ==
    ASSUME NEW a \in Metrics, NEW b \in Metrics, FieldsOf(a) \cap FieldsOf(b) # {}
    PROVE  a = b
  BY FieldNames DEF Metrics

\* So the field is set exactly when the metric is present.
LEMMA FieldSet ==
    ASSUME NEW metric \in Metrics, NEW field \in FieldsOf(metric)
    PROVE  field \in SetFields <=> observed[metric] = "present"
  BY FieldOwner DEF SetFields

\* Only the metrics of the encoder's counted groups have fields.
LEMMA FieldsExist ==
    ASSUME NEW metric \in Metrics
    PROVE  FieldsOf(metric) # {} <=> metric \notin {"hostname", "network"}
  BY FieldNames DEF Metrics

-----------------------------------------------------------------------------
(* The issues a document ought to have.                                    *)

MetricIssues ==
    {[path |-> Path(m), code |-> observed[m]] :
        m \in {n \in Metrics \ {"hostname", "firmware"} : observed[n] # "present"}}
FlagIssues ==
    {[path |-> Path(f), code |-> observed["firmware"]] :
        f \in {g \in FieldsOf("firmware") : observed["firmware"] # "present"}}
LeafIssues ==
    UNION {{[path |-> LeafPath(n, leaf), code |-> "temporarily_unavailable"] :
                leaf \in Leaves \ interfaces[n]} :
           n \in {k \in 1..Len(interfaces) : observed["network"] = "present"}}
TrueIssues == MetricIssues \cup FlagIssues \cup LeafIssues

\* issues enumerates the ones with a path in P, each once, and paths are
\* theirs: what finalize appends and what Encode expects, side by side.
Segment(issues, paths, P) ==
    /\ issues \in Seq(TrueIssues) /\ paths \in Seq(P)
    /\ Len(paths) = Len(issues)
    /\ \A k \in 1..Len(issues) : issues[k].path = paths[k]
    /\ \A k, l \in 1..Len(issues) : k # l => paths[k] # paths[l]
    /\ \A issue \in TrueIssues : issue.path \in P => \E k \in 1..Len(issues) : issues[k] = issue

\* Segments that have no path in common may follow each other.
LEMMA Join ==
    ASSUME NEW a, NEW b, NEW p, NEW q, NEW P, NEW Q,
           Segment(a, p, P), Segment(b, q, Q), P \cap Q = {}
    PROVE  Segment(a \o b, p \o q, P \cup Q)
  <1> DEFINE m == Len(a)
             n == Len(b)
             c == a \o b
             r == p \o q
  <1>1. a \in Seq(TrueIssues) /\ b \in Seq(TrueIssues) /\ p \in Seq(P) /\ q \in Seq(Q)
    BY DEF Segment
  <1>2. m \in Nat /\ n \in Nat /\ Len(p) = m /\ Len(q) = n
    BY <1>1 DEF Segment
  <1>3. /\ c \in Seq(TrueIssues) /\ Len(c) = m + n
        /\ \A k \in 1..m : c[k] = a[k]
        /\ \A k \in (m + 1)..(m + n) : c[k] = b[k - m]
    BY <1>1
  <1>4. /\ r \in Seq(P \cup Q) /\ Len(r) = m + n
        /\ \A k \in 1..m : r[k] = p[k]
        /\ \A k \in (m + 1)..(m + n) : r[k] = q[k - m]
    <2>1. p \in Seq(P \cup Q) /\ q \in Seq(P \cup Q)
      BY <1>1
    <2> QED
      BY <1>2, <2>1
  <1>5. /\ \A k \in 1..m : a[k].path = p[k] /\ p[k] \in P
        /\ \A k \in 1..n : b[k].path = q[k] /\ q[k] \in Q
        /\ \A k, l \in 1..m : k # l => p[k] # p[l]
        /\ \A k, l \in 1..n : k # l => q[k] # q[l]
    <2>1. DOMAIN p = 1..m /\ DOMAIN q = 1..n
      BY <1>1, <1>2
    <2>2. (\A k \in 1..m : p[k] \in P) /\ (\A k \in 1..n : q[k] \in Q)
      BY <1>1, <1>2, <2>1
    <2> QED
      BY <2>2 DEF Segment
  <1>6. ASSUME NEW issue \in TrueIssues, issue.path \in P \cup Q
        PROVE  \E k \in 1..(m + n) : c[k] = issue
    <2>1. CASE issue.path \in P
      <3>1. PICK k \in 1..m : a[k] = issue
        BY <1>6, <2>1 DEF Segment
      <3> HIDE DEF m, n, c
      <3>2. k \in 1..(m + n) /\ c[k] = issue
        BY <1>2, <1>3, <3>1
      <3> QED
        BY <3>2
    <2>2. CASE issue.path \in Q
      <3>1. PICK k \in 1..n : b[k] = issue
        BY <1>6, <2>2 DEF Segment
      <3> HIDE DEF m, n, c
      <3>2. m + k \in (m + 1)..(m + n) /\ (m + k) - m = k
        BY <1>2
      <3>3. c[m + k] = issue
        BY <1>3, <3>1, <3>2
      <3>4. m + k \in 1..(m + n)
        BY <1>2
      <3> QED
        BY <3>3, <3>4
    <2> QED
      BY <1>6, <2>1, <2>2
  <1> HIDE DEF m, n, c, r
  <1>7. \A k \in 1..(m + n) : k \in 1..m \/ (k \in (m + 1)..(m + n) /\ k - m \in 1..n)
    BY <1>2
  <1>8. \A k \in 1..(m + n) : c[k].path = r[k]
    BY <1>3, <1>4, <1>5, <1>7
  <1>9. ASSUME NEW k \in 1..(m + n), NEW l \in 1..(m + n), k # l
        PROVE  r[k] # r[l]
    <2>1. CASE k \in 1..m /\ l \in 1..m
      BY <1>4, <1>5, <1>9, <2>1
    <2>2. CASE k \notin 1..m /\ l \notin 1..m
      <3>1. k - m \in 1..n /\ l - m \in 1..n /\ k - m # l - m
        BY <1>2, <1>7, <1>9, <2>2
      <3>2. r[k] = q[k - m] /\ r[l] = q[l - m]
        BY <1>4, <1>7, <2>2
      <3> QED
        BY <1>5, <3>1, <3>2
    <2>3. ASSUME NEW i \in 1..(m + n), NEW j \in 1..(m + n), i \in 1..m, j \notin 1..m
          PROVE  r[i] # r[j]
      <3>1. r[i] \in P
        BY <1>4, <1>5, <2>3
      <3>2. j - m \in 1..n /\ r[j] = q[j - m]
        BY <1>4, <1>7, <2>3
      <3>3. r[j] \in Q
        BY <1>5, <3>2
      <3> QED
        BY <3>1, <3>3
    <2> QED
      BY <2>1, <2>2, <2>3
  <1>10. Segment(c, r, P \cup Q)
    BY <1>3, <1>4, <1>6, <1>8, <1>9 DEF Segment
  <1> QED
    BY <1>10 DEF c, r

-----------------------------------------------------------------------------
(* The loop over the interfaces.                                           *)

\* f[n] is the concatenation of the first n sequences, up to the m-th.
Concatenations(f, seqs, m) ==
    f = [i \in 1..m |-> IF i = 1 THEN seqs[i] ELSE f[i - 1] \o seqs[i]]

LEMMA ConcatenationsExist ==
    ASSUME NEW seqs
    PROVE  \A m \in Nat : \E f : Concatenations(f, seqs, m)
  <1> DEFINE T == {m \in Nat : \E f : Concatenations(f, seqs, m)}
  <1>1. 0 \in T
    <2> DEFINE f == [i \in 1..0 |-> seqs[i]]
    <2>1. f = [i \in 1..0 |-> IF i = 1 THEN seqs[i] ELSE f[i - 1] \o seqs[i]]
      OBVIOUS
    <2> QED
      BY <2>1 DEF Concatenations
  <1>2. ASSUME NEW m \in T PROVE m + 1 \in T
    <2>1. PICK f : Concatenations(f, seqs, m)
      OBVIOUS
    <2>0. m \in Nat
      OBVIOUS
    <2> DEFINE last == IF m = 0 THEN seqs[1] ELSE f[m] \o seqs[m + 1]
               g == [i \in 1..(m + 1) |-> IF i <= m THEN f[i] ELSE last]
    <2>2. \A i \in 1..m : f[i] = IF i = 1 THEN seqs[i] ELSE f[i - 1] \o seqs[i]
      BY <2>1 DEF Concatenations
    <2>3. ASSUME NEW i \in 1..(m + 1)
          PROVE  g[i] = IF i = 1 THEN seqs[i] ELSE g[i - 1] \o seqs[i]
      <3>1. CASE i = 1 /\ m = 0
        BY <3>1
      <3>2. CASE i = 1 /\ m # 0
        <4>1. i \in 1..m /\ g[i] = f[i]
          BY <2>0, <3>2
        <4> QED
          BY <2>2, <3>2, <4>1
      <3>3. CASE i \in 2..m
        <4>1. g[i] = f[i] /\ g[i - 1] = f[i - 1] /\ i \in 1..m /\ i # 1
          BY <2>0, <3>3
        <4> QED
          BY <2>2, <4>1
      <3>4. CASE i = m + 1 /\ m # 0
        <4>1. last = f[m] \o seqs[m + 1]
          BY <3>4, Zenon
        <4> HIDE DEF last
        <4>2. g[i] = last /\ g[i - 1] = f[m] /\ i # 1
          BY <2>0, <3>4
        <4> QED
          BY <3>4, <4>1, <4>2, Zenon
      <3> QED
        BY <2>0, <3>1, <3>2, <3>3, <3>4
    <2>4. g = [i \in 1..(m + 1) |-> IF i = 1 THEN seqs[i] ELSE g[i - 1] \o seqs[i]]
      <3> DEFINE h == [i \in 1..(m + 1) |-> IF i = 1 THEN seqs[i] ELSE g[i - 1] \o seqs[i]]
      <3>1. \A i \in 1..(m + 1) : g[i] = h[i]
        BY <2>3
      <3>2. DOMAIN g = 1..(m + 1) /\ DOMAIN h = 1..(m + 1)
        OBVIOUS
      <3>3. g = [i \in DOMAIN g |-> g[i]] /\ h = [i \in DOMAIN h |-> h[i]]
        OBVIOUS
      <3> HIDE DEF g, h
      <3>4. g = h
        BY <3>1, <3>2, <3>3
      <3> QED
        BY <3>4 DEF h
    <2> HIDE DEF g
    <2>5. Concatenations(g, seqs, m + 1)
      BY <2>4 DEF Concatenations
    <2> QED
      BY <2>5
  <1> HIDE DEF T
  <1>3. \A m \in Nat : m \in T
    <2>1. T \in SUBSET Nat
      BY DEF T
    <2> QED
      BY <1>1, <1>2, <2>1, Induction
  <1> QED
    BY <1>3 DEF T

\* FlattenSeq is the last of them.
LEMMA FlattenUnfolds ==
    ASSUME NEW seqs, Len(seqs) \in Nat, Len(seqs) # 0
    PROVE  \E f : /\ FlattenSeq(seqs) = f[Len(seqs)] /\ f[1] = seqs[1]
                  /\ \A i \in 2..Len(seqs) : f[i] = f[i - 1] \o seqs[i]
  <1> DEFINE m == Len(seqs)
             f == CHOOSE g : Concatenations(g, seqs, m)
  <1>1. Concatenations(f, seqs, m)
    BY ConcatenationsExist
  <1>2. FlattenSeq(seqs) = f[m]
    BY Zenon DEF FlattenSeq, Concatenations
  <1> HIDE DEF f, m
  <1>3. m \in Nat /\ m # 0
    BY DEF m
  <1>4. \A i \in 1..m : f[i] = IF i = 1 THEN seqs[i] ELSE f[i - 1] \o seqs[i]
    BY <1>1 DEF Concatenations
  <1>5. f[1] = seqs[1] /\ \A i \in 2..m : f[i] = f[i - 1] \o seqs[i]
    <2>1. 1 \in 1..m /\ \A i \in 2..m : i \in 1..m /\ i # 1
      BY <1>3
    <2> QED
      BY <1>4, <2>1, Zenon
  <1> QED
    BY <1>2, <1>5 DEF m

\* Segments of disjoint sets of paths, flattened.
LEMMA FlattenSegments ==
    ASSUME NEW m \in Nat, NEW s, NEW t, NEW P, Len(s) = m, Len(t) = m,
           m = 0 => s = <<>> /\ t = <<>>,
           \A n \in 1..m : Segment(s[n], t[n], P[n]),
           \A n, k \in 1..m : n # k => P[n] \cap P[k] = {}
    PROVE  Segment(FlattenSeq(s), FlattenSeq(t), UNION {P[n] : n \in 1..m})
  <1>1. CASE m = 0
    <2>1. FlattenSeq(s) = <<>> /\ FlattenSeq(t) = <<>>
      BY <1>1 DEF FlattenSeq
    <2>2. Segment(<<>>, <<>>, {})
      BY DEF Segment
    <2>3. UNION {P[n] : n \in 1..m} = {}
      BY <1>1
    <2> QED
      BY <2>1, <2>2, <2>3
  <1>2. CASE m # 0
    <2>0. Len(s) \in Nat /\ Len(s) # 0 /\ Len(t) \in Nat /\ Len(t) # 0
      BY <1>2
    <2>1. PICK f : /\ FlattenSeq(s) = f[m] /\ f[1] = s[1]
                   /\ \A i \in 2..m : f[i] = f[i - 1] \o s[i]
      <3>1. \E h : /\ FlattenSeq(s) = h[Len(s)] /\ h[1] = s[1]
                  /\ \A i \in 2..Len(s) : h[i] = h[i - 1] \o s[i]
        BY <2>0, FlattenUnfolds, Zenon
      <3> QED
        BY <3>1, Len(s) = m, Zenon
    <2>2. PICK g : /\ FlattenSeq(t) = g[m] /\ g[1] = t[1]
                   /\ \A i \in 2..m : g[i] = g[i - 1] \o t[i]
      <3>1. \E h : /\ FlattenSeq(t) = h[Len(t)] /\ h[1] = t[1]
                  /\ \A i \in 2..Len(t) : h[i] = h[i - 1] \o t[i]
        BY <2>0, FlattenUnfolds, Zenon
      <3> QED
        BY <3>1, Len(t) = m, Zenon
    <2> DEFINE Upto(n) == UNION {P[k] : k \in 1..n}
               T == {n \in Nat : n + 1 <= m => Segment(f[n + 1], g[n + 1], Upto(n + 1))}
    <2>3. 0 \in T
      <3>1. Upto(1) = P[1]
        OBVIOUS
      <3>2. 1 \in 1..m
        BY <1>2
      <3>3. Segment(f[1], g[1], Upto(1))
        BY <2>1, <2>2, <3>1, <3>2
      <3> QED
        BY <3>3
    <2>4. ASSUME NEW n \in T PROVE n + 1 \in T
      <3> SUFFICES ASSUME n + 2 <= m PROVE Segment(f[n + 2], g[n + 2], Upto(n + 2))
        OBVIOUS
      <3>1. n \in Nat /\ n + 2 \in 2..m /\ n + 2 \in 1..m /\ (n + 2) - 1 = n + 1
        OBVIOUS
      <3>2. Segment(f[n + 1], g[n + 1], Upto(n + 1))
        BY <3>1
      <3>3. Segment(s[n + 2], t[n + 2], P[n + 2])
        BY <3>1
      <3>4. 1..(n + 2) = 1..(n + 1) \cup {n + 2} /\ n + 2 \notin 1..(n + 1)
        BY <3>1
      <3>5. Upto(n + 1) \cap P[n + 2] = {} /\ Upto(n + 2) = Upto(n + 1) \cup P[n + 2]
        BY <3>1, <3>4
      <3>6. f[n + 2] = f[n + 1] \o s[n + 2] /\ g[n + 2] = g[n + 1] \o t[n + 2]
        BY <2>1, <2>2, <3>1
      <3> HIDE DEF Upto
      <3>7. Segment(f[n + 1] \o s[n + 2], g[n + 1] \o t[n + 2], Upto(n + 1) \cup P[n + 2])
        BY <3>2, <3>3, <3>5, Join
      <3> QED
        BY <3>5, <3>6, <3>7
    <2>5. T \in SUBSET Nat
      OBVIOUS
    <2> HIDE DEF T
    <2>6. m - 1 \in T
      BY <1>2, <2>3, <2>4, <2>5, Induction
    <2>7. (m - 1) + 1 = m /\ m <= m
      OBVIOUS
    <2>8. Segment(f[m], g[m], Upto(m))
      <3> HIDE DEF Upto
      <3>1. (m - 1) + 1 <= m => Segment(f[(m - 1) + 1], g[(m - 1) + 1], Upto((m - 1) + 1))
        BY <2>6, Zenon DEF T
      <3> QED
        BY <2>7, <3>1
    <2> QED
      BY <2>1, <2>2, <2>8
  <1> QED
    BY <1>1, <1>2

-----------------------------------------------------------------------------
(* What finalize appends for a metric, the flags and an interface.         *)

\* Paths of metrics, flags and leaves are told apart.
LEMMA MetricIssueUnique ==
    ASSUME NEW metric \in Metrics \ {"hostname", "firmware"}, NEW issue \in TrueIssues,
           issue.path = Path(metric)
    PROVE  /\ observed[metric] # "present"
           /\ issue = [path |-> Path(metric), code |-> observed[metric]]
  <1>1. CASE issue \in MetricIssues
    BY <1>1 DEF MetricIssues, Path
  <1>2. CASE issue \in FlagIssues
    BY <1>2, FieldNames DEF FlagIssues, Path, Metrics
  <1>3. CASE issue \in LeafIssues
    <2>1. PICK n \in 1..Len(interfaces), leaf \in Leaves : issue.path = LeafPath(n, leaf)
      BY <1>3 DEF LeafIssues
    <2> QED
      BY <2>1 DEF LeafPath, Path
  <1> QED
    BY <1>1, <1>2, <1>3 DEF TrueIssues

LEMMA FlagIssueUnique ==
    ASSUME NEW flag \in FieldsOf("firmware"), NEW issue \in TrueIssues, issue.path = Path(flag)
    PROVE  /\ observed["firmware"] # "present"
           /\ issue = [path |-> Path(flag), code |-> observed["firmware"]]
  <1>1. CASE issue \in MetricIssues
    BY <1>1, FieldNames DEF MetricIssues, Path, Metrics
  <1>2. CASE issue \in FlagIssues
    BY <1>2 DEF FlagIssues, Path
  <1>3. CASE issue \in LeafIssues
    <2>1. PICK n \in 1..Len(interfaces), leaf \in Leaves : issue.path = LeafPath(n, leaf)
      BY <1>3 DEF LeafIssues
    <2> QED
      BY <2>1 DEF LeafPath, Path
  <1> QED
    BY <1>1, <1>2, <1>3 DEF TrueIssues

LEMMA LeafIssueUnique ==
    ASSUME NEW n \in Nat \ {0}, NEW leaf \in Leaves, NEW issue \in TrueIssues,
           issue.path = LeafPath(n, leaf)
    PROVE  /\ observed["network"] = "present" /\ n \in 1..Len(interfaces)
           /\ leaf \notin interfaces[n]
           /\ issue = [path |-> LeafPath(n, leaf), code |-> "temporarily_unavailable"]
  <1>1. issue \notin MetricIssues /\ issue \notin FlagIssues
    BY DEF MetricIssues, FlagIssues, Path, LeafPath
  <1>2. PICK k \in 1..Len(interfaces), l \in Leaves :
            /\ l \notin interfaces[k]
            /\ issue = [path |-> LeafPath(k, l), code |-> "temporarily_unavailable"]
            /\ observed["network"] = "present"
    BY <1>1 DEF TrueIssues, LeafIssues
  <1>3. k = n /\ l = leaf
    BY <1>2 DEF LeafPath
  <1> QED
    BY <1>2, <1>3

\* Where nothing is missing nothing is appended; where one thing is, one issue.
LEMMA NoSegment ==
    ASSUME NEW P, \A issue \in TrueIssues : issue.path \notin P
    PROVE  Segment(<<>>, <<>>, P)
  BY DEF Segment

LEMMA OneSegment ==
    ASSUME NEW one \in TrueIssues, NEW path, one.path = path,
           \A issue \in TrueIssues : issue.path = path => issue = one
    PROVE  Segment(<<one>>, <<path>>, {path})
  <1>1. <<one>> \in Seq(TrueIssues) /\ Len(<<one>>) = 1 /\ <<one>>[1] = one
    OBVIOUS
  <1>2. <<path>> \in Seq({path}) /\ Len(<<path>>) = 1 /\ <<path>>[1] = path
    OBVIOUS
  <1>3. 1..1 = {1}
    OBVIOUS
  <1> QED
    BY <1>1, <1>2, <1>3 DEF Segment

LEMMA MetricSegment ==
    ASSUME NEW metric \in Metrics \ {"hostname", "firmware"}
    PROVE  Segment(SetIssue(metric),
                   IF observed[metric] = "present" THEN <<>> ELSE <<Path(metric)>>, {Path(metric)})
  <1>1. CASE observed[metric] = "present"
    <2>1. \A issue \in TrueIssues : issue.path \notin {Path(metric)}
      BY <1>1, MetricIssueUnique
    <2> QED
      BY <1>1, <2>1, NoSegment DEF SetIssue
  <1>2. CASE observed[metric] # "present"
    <2> DEFINE one == [path |-> Path(metric), code |-> observed[metric]]
    <2>1. one \in TrueIssues /\ one.path = Path(metric)
      BY <1>2 DEF TrueIssues, MetricIssues
    <2>2. \A issue \in TrueIssues : issue.path = Path(metric) => issue = one
      BY MetricIssueUnique
    <2>3. SetIssue(metric) = <<one>>
      BY <1>2 DEF SetIssue, Issue
    <2> HIDE DEF one
    <2>4. Segment(<<one>>, <<Path(metric)>>, {Path(metric)})
      BY <2>1, <2>2, OneSegment
    <2> QED
      BY <1>2, <2>3, <2>4
  <1> QED
    BY <1>1, <1>2

LEMMA LeafSegment ==
    ASSUME NEW n \in 1..Len(interfaces), NEW leaf \in Leaves, observed["network"] = "present",
           InterfacesInv
    PROVE  Segment(SetLeaf(n, leaf),
                   IF leaf \in interfaces[n] THEN <<>> ELSE <<LeafPath(n, leaf)>>,
                   {LeafPath(n, leaf)})
  <1>0. n \in Nat \ {0}
    BY DEF InterfacesInv
  <1>1. CASE leaf \in interfaces[n]
    <2>1. \A issue \in TrueIssues : issue.path \notin {LeafPath(n, leaf)}
      BY <1>0, <1>1, LeafIssueUnique
    <2> QED
      BY <1>1, <2>1, NoSegment DEF SetLeaf
  <1>2. CASE leaf \notin interfaces[n]
    <2> DEFINE one == [path |-> LeafPath(n, leaf), code |-> "temporarily_unavailable"]
    <2>1. one \in TrueIssues /\ one.path = LeafPath(n, leaf)
      BY <1>2 DEF TrueIssues, LeafIssues
    <2>2. \A issue \in TrueIssues : issue.path = LeafPath(n, leaf) => issue = one
      BY <1>0, LeafIssueUnique
    <2>3. SetLeaf(n, leaf) = <<one>>
      BY <1>2 DEF SetLeaf, Issue
    <2> HIDE DEF one
    <2>4. Segment(<<one>>, <<LeafPath(n, leaf)>>, {LeafPath(n, leaf)})
      BY <2>1, <2>2, OneSegment
    <2> QED
      BY <1>2, <2>3, <2>4
  <1> QED
    BY <1>1, <1>2

FlagPaths == [k \in 1..4 |-> Path(FirmwareFields[k])]

LEMMA FirmwareSegment ==
    Segment(SetFirmware, IF observed["firmware"] = "present" THEN <<>> ELSE FlagPaths,
            {Path(flag) : flag \in FieldsOf("firmware")})
  <1> DEFINE P == {Path(flag) : flag \in FieldsOf("firmware")}
  <1>1. CASE observed["firmware"] = "present"
    <2>1. \A issue \in TrueIssues : issue.path \notin P
      BY <1>1, FlagIssueUnique
    <2> QED
      BY <1>1, <2>1, NoSegment DEF SetFirmware
  <1>2. CASE observed["firmware"] # "present"
    <2> DEFINE At(k) == [path |-> Path(FirmwareFields[k]), code |-> observed["firmware"]]
               s == [k \in 1..4 |-> At(k)]
    <2>1. SetFirmware = s
      BY <1>2, FlagNames DEF SetFirmware
    <2>2. \A k \in 1..4 : FirmwareFields[k] \in FieldsOf("firmware")
      BY FlagNames, FieldNames
    <2>3. \A k \in 1..4 : At(k) \in TrueIssues
      BY <1>2, <2>2 DEF TrueIssues, FlagIssues
    <2>4. s \in Seq(TrueIssues) /\ Len(s) = 4 /\ \A k \in 1..4 : s[k] = At(k)
      <3> HIDE DEF At
      <3> QED
        BY <2>3
    <2>5. FlagPaths \in Seq(P) /\ Len(FlagPaths) = 4
      <3>1. \A k \in 1..4 : Path(FirmwareFields[k]) \in P
        BY <2>2
      <3> HIDE DEF P
      <3> QED
        BY <3>1 DEF FlagPaths
    <2>6. \A k \in 1..4 : s[k].path = FlagPaths[k]
      BY <2>4 DEF FlagPaths
    <2>7. \A k, l \in 1..4 : k # l => FirmwareFields[k] # FirmwareFields[l]
      BY FlagNames
    <2>8. \A k, l \in 1..4 : k # l => FlagPaths[k] # FlagPaths[l]
      BY <2>7 DEF FlagPaths, Path
    <2>9. ASSUME NEW issue \in TrueIssues, issue.path \in P
          PROVE  \E k \in 1..4 : s[k] = issue
      <3>1. PICK flag \in FieldsOf("firmware") : issue.path = Path(flag)
        BY <2>9
      <3>2. PICK k \in 1..4 : FirmwareFields[k] = flag
        BY <3>1, FlagNames, FieldNames
      <3>3. issue = At(k)
        BY <3>1, <3>2, FlagIssueUnique
      <3> QED
        BY <2>4, <3>2, <3>3
    <2> HIDE DEF s, P
    <2>10. Segment(s, FlagPaths, P)
      BY <2>4, <2>5, <2>6, <2>8, <2>9 DEF Segment
    <2> QED
      BY <1>2, <2>1, <2>10 DEF P
  <1> QED
    BY <1>1, <1>2

-----------------------------------------------------------------------------
(* The whole list.                                                         *)

\* What finalize makes of the observations.
Documented ==
    document = [fields |-> SetFields, malformed |-> malformed,
                network |-> observed["network"] = "present",
                interfaces |-> interfaces, issues |-> Issues]

LEMMA DocumentParts ==
    ASSUME Documented
    PROVE  /\ document.fields = SetFields
           /\ document.network <=> observed["network"] = "present"
           /\ document.interfaces = interfaces /\ document.issues = Issues
           /\ document.malformed = malformed
  <1>1. document.network <=> observed["network"] = "present"
    BY Zenon DEF Documented
  <1>2. /\ document.fields = SetFields
        /\ document.interfaces = interfaces /\ document.issues = Issues
        /\ document.malformed = malformed
    BY Zenon DEF Documented
  <1> QED
    BY <1>1, <1>2

\* Paths of which nothing is missing may be added.
LEMMA Widen ==
    ASSUME NEW s, NEW t, NEW P, NEW Q, Segment(s, t, P),
           \A issue \in TrueIssues : issue.path \notin Q
    PROVE  Segment(s, t, P \cup Q)
  <1>1. t \in Seq(P \cup Q)
    BY DEF Segment
  <1> QED
    BY <1>1 DEF Segment

LeafPaths(n) == {LeafPath(n, "state")} \cup {LeafPath(n, "rx_bytes")} \cup {LeafPath(n, "tx_bytes")}
NetworkPaths == (UNION {LeafPaths(n) : n \in 1..Len(interfaces)}) \cup {Path("network")}

LEMMA InterfaceSegment ==
    ASSUME NEW n \in 1..Len(interfaces), observed["network"] = "present", InterfacesInv, Documented
    PROVE  Segment(SetLeaf(n, "state") \o SetLeaf(n, "rx_bytes") \o SetLeaf(n, "tx_bytes"),
                   ExpectLeaf(n, "state") \o ExpectLeaf(n, "rx_bytes") \o ExpectLeaf(n, "tx_bytes"),
                   LeafPaths(n))
  <1>1. ASSUME NEW leaf \in Leaves
        PROVE  Segment(SetLeaf(n, leaf), ExpectLeaf(n, leaf), {LeafPath(n, leaf)})
    <2>1. ExpectLeaf(n, leaf) = IF leaf \in interfaces[n] THEN <<>> ELSE <<LeafPath(n, leaf)>>
      BY DocumentParts DEF ExpectLeaf
    <2> QED
      BY <2>1, LeafSegment
  <1>2. /\ Segment(SetLeaf(n, "state"), ExpectLeaf(n, "state"), {LeafPath(n, "state")})
        /\ Segment(SetLeaf(n, "rx_bytes"), ExpectLeaf(n, "rx_bytes"), {LeafPath(n, "rx_bytes")})
        /\ Segment(SetLeaf(n, "tx_bytes"), ExpectLeaf(n, "tx_bytes"), {LeafPath(n, "tx_bytes")})
    BY <1>1 DEF Leaves
  <1>3. /\ {LeafPath(n, "state")} \cap {LeafPath(n, "rx_bytes")} = {}
        /\ ({LeafPath(n, "state")} \cup {LeafPath(n, "rx_bytes")})
            \cap {LeafPath(n, "tx_bytes")} = {}
    BY DEF LeafPath
  <1>4. Segment(SetLeaf(n, "state") \o SetLeaf(n, "rx_bytes"),
                ExpectLeaf(n, "state") \o ExpectLeaf(n, "rx_bytes"),
                {LeafPath(n, "state")} \cup {LeafPath(n, "rx_bytes")})
    BY <1>2, <1>3, Join
  <1>5. Segment((SetLeaf(n, "state") \o SetLeaf(n, "rx_bytes")) \o SetLeaf(n, "tx_bytes"),
                (ExpectLeaf(n, "state") \o ExpectLeaf(n, "rx_bytes")) \o ExpectLeaf(n, "tx_bytes"),
                ({LeafPath(n, "state")} \cup {LeafPath(n, "rx_bytes")})
                    \cup {LeafPath(n, "tx_bytes")})
    BY <1>2, <1>3, <1>4, Join
  <1> QED
    BY <1>5 DEF LeafPaths

LEMMA NetworkSegment ==
    ASSUME InterfacesInv, Documented
    PROVE  Segment(SetNetwork, ExpectNetwork, NetworkPaths)
  <1> DEFINE m == Len(interfaces)
             P == UNION {LeafPaths(n) : n \in 1..m}
  <1>0. m \in Nat /\ DOMAIN interfaces = 1..m
    BY DEF InterfacesInv
  <1>1. CASE observed["network"] # "present"
    <2>1. SetNetwork = SetIssue("network") /\ ExpectNetwork = <<Path("network")>>
      <3>1. ~document.network
        BY <1>1, DocumentParts
      <3> QED
        BY <1>1, <3>1, Zenon DEF SetNetwork, ExpectNetwork
    <2>2. Segment(SetIssue("network"), <<Path("network")>>, {Path("network")})
      BY <1>1, MetricSegment DEF Metrics
    <2>3. \A issue \in TrueIssues : issue.path \notin P
      BY <1>0, <1>1, LeafIssueUnique DEF LeafPaths, Leaves
    <2> HIDE DEF P
    <2>4. Segment(SetIssue("network"), <<Path("network")>>, {Path("network")} \cup P)
      BY <2>2, <2>3, Widen
    <2>5. {Path("network")} \cup P = NetworkPaths
      BY DEF P, NetworkPaths
    <2> QED
      BY <2>1, <2>4, <2>5
  <1>2. CASE observed["network"] = "present"
    <2> DEFINE Set(n) == SetLeaf(n, "state") \o SetLeaf(n, "rx_bytes") \o SetLeaf(n, "tx_bytes")
               Exp(n) == ExpectLeaf(n, "state") \o ExpectLeaf(n, "rx_bytes")
                         \o ExpectLeaf(n, "tx_bytes")
               s == [n \in 1..m |-> Set(n)]
               t == [n \in 1..m |-> Exp(n)]
               Q == [n \in 1..m |-> LeafPaths(n)]
    <2>1. SetNetwork = FlattenSeq(s)
      BY <1>0, <1>2, Zenon DEF SetNetwork
    <2>2. ExpectNetwork = FlattenSeq(t)
      <3>1. document.network /\ DOMAIN document.interfaces = 1..m
        BY <1>0, <1>2, DocumentParts
      <3> QED
        BY <3>1, Zenon DEF ExpectNetwork
    <2>3. \A n \in 1..m : Segment(Set(n), Exp(n), LeafPaths(n))
      BY <1>2, InterfaceSegment
    <2> HIDE DEF Set, Exp, m
    <2>4. Len(s) = m /\ Len(t) = m /\ (m = 0 => s = <<>> /\ t = <<>>)
      BY <1>0
    <2>5. \A n \in 1..m : Segment(s[n], t[n], Q[n])
      BY <2>3
    <2>6. \A n, k \in 1..m : n # k => Q[n] \cap Q[k] = {}
      BY <1>0 DEF LeafPaths, LeafPath
    <2> HIDE DEF s, t, Q
    <2>7. Segment(FlattenSeq(s), FlattenSeq(t), UNION {Q[n] : n \in 1..m})
      BY <1>0, <2>4, <2>5, <2>6, FlattenSegments
    <2>8. UNION {Q[n] : n \in 1..m} = P
      BY DEF Q
    <2>9. \A issue \in TrueIssues : issue.path \notin {Path("network")}
      BY <1>2, MetricIssueUnique DEF Metrics
    <2> HIDE DEF P
    <2>10. Segment(FlattenSeq(s), FlattenSeq(t), P \cup {Path("network")})
      BY <2>7, <2>8, <2>9, Widen
    <2>11. P \cup {Path("network")} = NetworkPaths
      BY DEF P, NetworkPaths, m
    <2> QED
      BY <2>1, <2>2, <2>10, <2>11
  <1> QED
    BY <1>1, <1>2

AllPaths ==
    {Path("uptime")} \cup {Path("logicalCPUCount")} \cup {Path("load")} \cup {Path("memory")}
    \cup {Path("root")} \cup {Path("temperature")}
    \cup {Path(flag) : flag \in FieldsOf("firmware")} \cup NetworkPaths \cup {Path("utilization")}

LEMMA NetworkPathsApart ==
    ASSUME InterfacesInv, NEW name, Path(name) \in NetworkPaths
    PROVE  name = "network"
  <1>1. Len(interfaces) \in Nat
    BY DEF InterfacesInv
  <1> QED
    BY <1>1 DEF NetworkPaths, LeafPaths, LeafPath, Path

\* The encoder asks for one field of the metric.
LEMMA ExpectSegment ==
    ASSUME Documented, NEW metric \in Metrics \ {"hostname", "firmware"},
           NEW field \in FieldsOf(metric)
    PROVE  Segment(SetIssue(metric), Expect(field, Path(metric)), {Path(metric)})
  <1>1. Expect(field, Path(metric)) =
            IF observed[metric] = "present" THEN <<>> ELSE <<Path(metric)>>
    BY DocumentParts, FieldSet DEF Expect
  <1> QED
    BY <1>1, MetricSegment

\* It asks for one flag after the other where finalize appends all four.
LEMMA FlagsExpected ==
    ASSUME Documented, NEW P, NEW s \in Seq(P)
    PROVE  s \o ExpectFlag(1) \o ExpectFlag(2) \o ExpectFlag(3) \o ExpectFlag(4)
            = s \o (IF observed["firmware"] = "present" THEN <<>> ELSE FlagPaths)
  <1>1. \A k \in 1..4 : FirmwareFields[k] \in FieldsOf("firmware")
    BY FlagNames, FieldNames
  <1>2. \A k \in 1..4 : ExpectFlag(k) =
            IF observed["firmware"] = "present" THEN <<>> ELSE <<Path(FirmwareFields[k])>>
    BY <1>1, DocumentParts, FieldSet DEF ExpectFlag, Expect, Metrics
  <1> DEFINE p(k) == Path(FirmwareFields[k])
  <1>3. CASE observed["firmware"] = "present"
    <2>1. /\ ExpectFlag(1) = <<>> /\ ExpectFlag(2) = <<>> /\ ExpectFlag(3) = <<>>
          /\ ExpectFlag(4) = <<>>
      BY <1>2, <1>3
    <2>2. s \o <<>> = s
      OBVIOUS
    <2> QED
      BY <1>3, <2>1, <2>2
  <1>4. CASE observed["firmware"] # "present"
    <2>1. /\ ExpectFlag(1) = <<p(1)>> /\ ExpectFlag(2) = <<p(2)>> /\ ExpectFlag(3) = <<p(3)>>
          /\ ExpectFlag(4) = <<p(4)>>
      BY <1>2, <1>4
    <2>2. FlagPaths = <<p(1), p(2), p(3), p(4)>>
      BY DEF FlagPaths
    <2> HIDE DEF p
    <2>3. s \o <<p(1)>> \o <<p(2)>> \o <<p(3)>> \o <<p(4)>> = s \o <<p(1), p(2), p(3), p(4)>>
      OBVIOUS
    <2> QED
      BY <1>4, <2>1, <2>2, <2>3
  <1> QED
    BY <1>3, <1>4

\* The issues of a document are those it ought to have, in the order the
\* encoder expects.
LEMMA IssuesSegment ==
    ASSUME InterfacesInv, Documented
    PROVE  Segment(Issues, Expected, AllPaths)
  <1> DEFINE s1 == SetIssue("uptime") \o SetIssue("logicalCPUCount")
             s2 == s1 \o SetIssue("load")
             s3 == s2 \o SetIssue("memory")
             s4 == s3 \o SetIssue("root")
             s5 == s4 \o SetIssue("temperature")
             s6 == s5 \o SetFirmware
             s7 == s6 \o SetNetwork
             flags == IF observed["firmware"] = "present" THEN <<>> ELSE FlagPaths
             t1 == Expect("uptime", Path("uptime"))
                   \o Expect("logicalCPUCount", Path("logicalCPUCount"))
             t2 == t1 \o Expect("one_minute", Path("load"))
             t3 == t2 \o Expect("memory_total", Path("memory"))
             t4 == t3 \o Expect("root_total", Path("root"))
             t5 == t4 \o Expect("temperature", Path("temperature"))
             t6 == t5 \o flags
             t7 == t6 \o ExpectNetwork
             P1 == {Path("uptime")} \cup {Path("logicalCPUCount")}
             P2 == P1 \cup {Path("load")}
             P3 == P2 \cup {Path("memory")}
             P4 == P3 \cup {Path("root")}
             P5 == P4 \cup {Path("temperature")}
             F == {Path(flag) : flag \in FieldsOf("firmware")}
             P6 == P5 \cup F
             P7 == P6 \cup NetworkPaths
  <1>1. /\ P1 \cap {Path("load")} = {} /\ P2 \cap {Path("memory")} = {}
        /\ P3 \cap {Path("root")} = {} /\ P4 \cap {Path("temperature")} = {}
        /\ {Path("uptime")} \cap {Path("logicalCPUCount")} = {} /\ P5 \cap F = {}
        /\ P6 \cap {Path("utilization")} = {}
    BY FieldNames DEF Path
  <1>2. P6 \cap NetworkPaths = {} /\ {Path("utilization")} \cap NetworkPaths = {}
    <2>1. Path("network") \notin P6
      BY FieldNames DEF Path
    <2>2. \A path \in P6 \cup {Path("utilization")} : \E name : path = Path(name)
      OBVIOUS
    <2>3. Path("utilization") # Path("network")
      BY DEF Path
    <2> HIDE DEF P6
    <2> QED
      BY <2>1, <2>2, <2>3, NetworkPathsApart
  <1>3. P7 \cap {Path("utilization")} = {}
    BY <1>1, <1>2
  <1>4. Issues = s7 \o SetIssue("utilization")
    BY Zenon DEF Issues
  <1>5. AllPaths = P7 \cup {Path("utilization")}
    BY Zenon DEF AllPaths
  <1>6. /\ Segment(SetIssue("uptime"), Expect("uptime", Path("uptime")), {Path("uptime")})
        /\ Segment(SetIssue("logicalCPUCount"), Expect("logicalCPUCount", Path("logicalCPUCount")),
                   {Path("logicalCPUCount")})
        /\ Segment(SetIssue("load"), Expect("one_minute", Path("load")), {Path("load")})
        /\ Segment(SetIssue("memory"), Expect("memory_total", Path("memory")), {Path("memory")})
        /\ Segment(SetIssue("root"), Expect("root_total", Path("root")), {Path("root")})
        /\ Segment(SetIssue("temperature"), Expect("temperature", Path("temperature")),
                   {Path("temperature")})
        /\ Segment(SetIssue("utilization"), Expect("utilization", Path("utilization")),
                   {Path("utilization")})
    <2>1. /\ "uptime" \in FieldsOf("uptime") /\ "logicalCPUCount" \in FieldsOf("logicalCPUCount")
          /\ "one_minute" \in FieldsOf("load") /\ "memory_total" \in FieldsOf("memory")
          /\ "root_total" \in FieldsOf("root") /\ "temperature" \in FieldsOf("temperature")
          /\ "utilization" \in FieldsOf("utilization")
      BY FieldNames
    <2>2. {"uptime", "logicalCPUCount", "load", "memory", "root", "temperature", "utilization"}
            \subseteq Metrics \ {"hostname", "firmware"}
      BY DEF Metrics
    <2> QED
      BY <2>1, <2>2, ExpectSegment
  <1>7. Segment(SetFirmware, flags, F)
    BY FirmwareSegment
  <1>8. Segment(SetNetwork, ExpectNetwork, NetworkPaths)
    BY NetworkSegment
  <1> HIDE DEF flags, F
  <1>11. Segment(s1, t1, P1)
    BY <1>1, <1>6, Join
  <1> HIDE DEF s1, t1, P1
  <1>12. Segment(s2, t2, P2)
    BY <1>1, <1>6, <1>11, Join
  <1> HIDE DEF s2, t2, P2
  <1>13. Segment(s3, t3, P3)
    BY <1>1, <1>6, <1>12, Join
  <1> HIDE DEF s3, t3, P3
  <1>14. Segment(s4, t4, P4)
    BY <1>1, <1>6, <1>13, Join
  <1> HIDE DEF s4, t4, P4
  <1>15. Segment(s5, t5, P5)
    BY <1>1, <1>6, <1>14, Join
  <1> HIDE DEF s5, t5, P5
  <1>16. Segment(s6, t6, P6)
    BY <1>1, <1>7, <1>15, Join
  <1>17. t5 \o ExpectFlag(1) \o ExpectFlag(2) \o ExpectFlag(3) \o ExpectFlag(4) = t6
    <2>1. t5 \in Seq(P5)
      BY <1>15 DEF Segment
    <2> QED
      BY <2>1, FlagsExpected, Zenon DEF flags
  <1> HIDE DEF s6, t6, P6
  <1>18. Segment(s7, t7, P7)
    BY <1>2, <1>8, <1>16, Join
  <1>19. Expected = t7 \o Expect("utilization", Path("utilization"))
    <2>1. Expected = ((t5 \o ExpectFlag(1) \o ExpectFlag(2) \o ExpectFlag(3) \o ExpectFlag(4))
                        \o ExpectNetwork) \o Expect("utilization", Path("utilization"))
      BY Zenon DEF Expected, t5, t4, t3, t2, t1
    <2> QED
      BY <1>17, <2>1, Zenon
  <1> HIDE DEF s7, t7, P7
  <1>20. Segment(s7 \o SetIssue("utilization"), t7 \o Expect("utilization", Path("utilization")),
                 P7 \cup {Path("utilization")})
    BY <1>3, <1>6, <1>18, Join
  <1> QED
    BY <1>4, <1>5, <1>19, <1>20

\* Every issue has a place in the list.
LEMMA PathsComplete == ASSUME NEW issue \in TrueIssues PROVE issue.path \in AllPaths
  <1>1. CASE issue \in MetricIssues
    <2>1. PICK m \in Metrics \ {"hostname", "firmware"} : issue.path = Path(m)
      BY <1>1 DEF MetricIssues
    <2> QED
      BY <2>1 DEF AllPaths, NetworkPaths, Metrics
  <1>2. CASE issue \in FlagIssues
    <2>1. PICK flag \in FieldsOf("firmware") : issue.path = Path(flag)
      BY <1>2 DEF FlagIssues
    <2> QED
      BY <2>1 DEF AllPaths
  <1>3. CASE issue \in LeafIssues
    <2>1. PICK n \in 1..Len(interfaces), leaf \in Leaves : issue.path = LeafPath(n, leaf)
      BY <1>3 DEF LeafIssues
    <2>2. issue.path \in LeafPaths(n)
      BY <2>1 DEF LeafPaths, Leaves
    <2> QED
      BY <2>1, <2>2 DEF AllPaths, NetworkPaths
  <1> QED
    BY <1>1, <1>2, <1>3 DEF TrueIssues

\* So the document has them all, and only them.
LEMMA IssuesExact ==
    ASSUME InterfacesInv, Documented
    PROVE  /\ DOMAIN document.issues = 1..Len(document.issues)
           /\ Len(document.issues) \in Nat /\ Len(document.issues) = Len(Expected)
           /\ \A k \in DOMAIN document.issues :
                document.issues[k] \in TrueIssues /\ document.issues[k].path = Expected[k]
           /\ \A k, l \in DOMAIN document.issues :
                k # l => document.issues[k].path # document.issues[l].path
           /\ \A issue \in TrueIssues : \E k \in DOMAIN document.issues : document.issues[k] = issue
  <1> DEFINE s == document.issues
             t == Expected
  <1>1. Segment(s, t, AllPaths)
    BY IssuesSegment, DocumentParts
  <1> HIDE DEF s, t
  <1>2. s \in Seq(TrueIssues) /\ Len(t) = Len(s)
    BY <1>1 DEF Segment
  <1>3. Len(s) \in Nat /\ DOMAIN s = 1..Len(s) /\ \A k \in 1..Len(s) : s[k] \in TrueIssues
    BY <1>2
  <1>4. /\ \A k \in 1..Len(s) : s[k].path = t[k]
        /\ \A k, l \in 1..Len(s) : k # l => t[k] # t[l]
        /\ \A issue \in TrueIssues : issue.path \in AllPaths => \E k \in 1..Len(s) : s[k] = issue
    BY <1>1 DEF Segment
  <1>5. \A issue \in TrueIssues : \E k \in 1..Len(s) : s[k] = issue
    BY <1>4, PathsComplete
  <1>6. \A k, l \in 1..Len(s) : k # l => s[k].path # s[l].path
    BY <1>4
  <1>7. /\ DOMAIN s = 1..Len(s) /\ Len(s) \in Nat /\ Len(s) = Len(t)
        /\ \A k \in DOMAIN s : s[k] \in TrueIssues /\ s[k].path = t[k]
        /\ \A k, l \in DOMAIN s : k # l => s[k].path # s[l].path
        /\ \A issue \in TrueIssues : \E k \in DOMAIN s : s[k] = issue
    BY <1>2, <1>3, <1>4, <1>5, <1>6
  <1> QED
    BY <1>7 DEF s, t

\* Encode finds what finalize built coherent.
LEMMA EncoderSatisfied ==
    ASSUME ObservedInv, InterfacesInv, MalformedInv, Documented
    PROVE  Coherent /\ IssuesValid
  <1>1. ASSUME NEW metric \in Metrics PROVE AllOrNone(FieldsOf(metric))
    <2>1. \A field \in FieldsOf(metric) :
            field \in document.fields <=> observed[metric] = "present"
      BY FieldSet, DocumentParts
    <2>2. CASE observed[metric] = "present"
      <3>1. FieldsOf(metric) \cap document.fields = FieldsOf(metric)
        BY <2>1, <2>2
      <3> QED
        BY <3>1 DEF AllOrNone
    <2>3. CASE observed[metric] # "present"
      <3>1. FieldsOf(metric) \cap document.fields = {}
        BY <2>1, <2>3
      <3> QED
        BY <3>1 DEF AllOrNone
    <2> QED
      BY <2>2, <2>3
  <1>2. Coherent
    <2>1. {"load", "memory", "root", "firmware"} \subseteq Metrics
      BY DEF Metrics
    <2>2. Len(document.interfaces) <= MaximumInterfaces /\ document.malformed = {}
      BY DocumentParts DEF InterfacesInv, MalformedInv
    <2> QED
      BY <1>1, <2>1, <2>2 DEF Coherent
  <1>3. \A issue \in TrueIssues : issue.code \in Reasons
    <2>1. \A m \in Metrics : observed[m] # "present" => observed[m] \in Reasons
      BY DEF ObservedInv, Outcomes
    <2>2. "firmware" \in Metrics /\ "temporarily_unavailable" \in Reasons
      BY DEF Metrics, Reasons
    <2>3. \A issue \in MetricIssues : issue.code \in Reasons
      BY <2>1 DEF MetricIssues
    <2>4. \A issue \in FlagIssues : issue.code \in Reasons
      BY <2>1, <2>2 DEF FlagIssues
    <2>5. \A issue \in LeafIssues : issue.code \in Reasons
      BY <2>2 DEF LeafIssues
    <2> QED
      BY <2>3, <2>4, <2>5 DEF TrueIssues
  <1>4. ASSUME NEW k \in DOMAIN document.issues, NEW f \in DOMAIN FirmwareFields,
               document.issues[k].path = Path(FirmwareFields[f])
        PROVE  document.issues[k].code = observed["firmware"]
    <2>1. FirmwareFields[f] \in FieldsOf("firmware")
      BY FlagNames, FieldNames
    <2>2. document.issues[k] \in TrueIssues
      BY IssuesExact
    <2>3. document.issues[k] = [path |-> Path(FirmwareFields[f]), code |-> observed["firmware"]]
      BY <1>4, <2>1, <2>2, FlagIssueUnique
    <2> QED
      BY <2>3
  <1>5. IssuesValid
    BY <1>3, <1>4, IssuesExact DEF IssuesValid
  <1> QED
    BY <1>2, <1>5

-----------------------------------------------------------------------------
(* The cycle.                                                              *)

DocumentInv == pc \in {"encode", "done"} => Documented
ResultInv ==
    /\ pc # "done" => result = "none"
    /\ pc = "encode" => observed["hostname"] = "present"
    /\ pc = "done" =>
        result = IF observed["hostname"] = "present" /\ Usable THEN "served" ELSE "useless"

\* The inductive invariant.
IInv == ObservationInv /\ DocumentInv /\ ResultInv

\* The end of the cycle is finalize's and Encode's to reach.
LEMMA DomainsLeft ==
    ASSUME ResultInv, NEW domain \in DOMAIN DomainAfter, Leave(domain)
    PROVE  DocumentInv' /\ ResultInv'
  <1>1. domain \in {"host", "cpuLoad", "memory", "root", "raspberryPi", "network", "copyCPU"}
    BY DEF DomainAfter
  <1>2. DomainAfter[domain] \notin {"encode", "done"}
    BY <1>1 DEF DomainAfter
  <1>3. pc' \notin {"encode", "done"} /\ result' = "none"
    BY <1>1, <1>2 DEF Leave, ResultInv
  <1> QED
    BY <1>3 DEF DocumentInv, ResultInv

\* The document is a function of the observations.
LEMMA DocumentedStable ==
    ASSUME UNCHANGED <<observed, interfaces>>
    PROVE  SetFields' = SetFields /\ Issues' = Issues
  <1>1. SetFields' = SetFields
    BY DEF SetFields
  <1>2. \A metric : SetIssue(metric)' = SetIssue(metric)
    BY DEF SetIssue
  <1>3. SetFirmware' = SetFirmware
    BY DEF SetFirmware
  <1>4. SetNetwork' = SetNetwork
    BY DEF SetNetwork, SetLeaf, SetIssue
  <1>5. Issues' = Issues
    BY <1>2, <1>3, <1>4 DEF Issues
  <1> QED
    BY <1>1, <1>5

LEMMA CycleStep == IInv /\ [Next]_vars => DocumentInv' /\ ResultInv'
  <1> SUFFICES ASSUME ObservedInv, InterfacesInv, MalformedInv, DocumentInv, ResultInv,
                      [Next]_vars
               PROVE  DocumentInv' /\ ResultInv'
    BY DEF IInv, ObservationInv
  <1>0. DOMAIN DomainAfter =
            {"host", "cpuLoad", "memory", "root", "raspberryPi", "network", "copyCPU"}
    BY DEF DomainAfter
  <1>1. CASE \E domain \in DOMAIN DomainAfter : Leave(domain)
    BY <1>1, DomainsLeft
  <1>2. CASE Finalize
    <2>1. UNCHANGED <<observed, interfaces, malformed>> /\ result = "none"
      BY <1>2 DEF Finalize, ResultInv
    <2>2. Documented'
      <3>1. document' = [fields |-> SetFields, malformed |-> malformed,
                         network |-> observed["network"] = "present",
                         interfaces |-> interfaces, issues |-> Issues]
        BY <1>2 DEF Finalize
      <3>2. SetFields' = SetFields /\ Issues' = Issues
        BY <2>1, DocumentedStable
      <3> QED
        BY <2>1, <3>1, <3>2, Zenon DEF Documented
    <2>3. CASE observed["hostname"] = "present"
      <3>1. pc' = "encode" /\ result' = "none"
        BY <1>2, <2>1, <2>3 DEF Finalize
      <3> QED
        BY <2>1, <2>2, <2>3, <3>1 DEF DocumentInv, ResultInv
    <2>4. CASE observed["hostname"] # "present"
      <3>1. pc' = "done" /\ result' = "useless"
        BY <1>2, <2>4 DEF Finalize
      <3> QED
        BY <2>1, <2>2, <2>4, <3>1 DEF DocumentInv, ResultInv
    <2> QED
      BY <2>3, <2>4
  <1>3. CASE Encode
    <2>1. /\ pc = "encode" /\ pc' = "done"
          /\ UNCHANGED <<observed, interfaces, malformed, document>>
          /\ observed["hostname"] = "present"
      BY <1>3 DEF Encode, ResultInv
    <2>2. Documented
      BY <2>1 DEF DocumentInv
    <2>3. Coherent /\ IssuesValid
      BY <2>2, EncoderSatisfied
    <2>4. result' = IF Usable THEN "served" ELSE "useless"
      BY <1>3, <2>3 DEF Encode
    <2>5. Usable' <=> Usable
      BY <2>1 DEF Usable
    <2>6. Documented'
      <3>1. SetFields' = SetFields /\ Issues' = Issues
        BY <2>1, DocumentedStable
      <3> QED
        BY <2>1, <2>2, <3>1, Zenon DEF Documented
    <2> QED
      BY <2>1, <2>4, <2>5, <2>6 DEF DocumentInv, ResultInv
  <1>4. CASE UNCHANGED vars
    <2>1. UNCHANGED <<pc, observed, interfaces, malformed, document, result>>
      BY <1>4 DEF vars
    <2>2. SetFields' = SetFields /\ Issues' = Issues
      BY <2>1, DocumentedStable
    <2>3. Documented' <=> Documented
      BY <2>1, <2>2, Zenon DEF Documented
    <2>4. Usable' <=> Usable
      BY <2>1 DEF Usable
    <2> QED
      BY <2>1, <2>3, <2>4 DEF DocumentInv, ResultInv
  <1> QED
    <2>1. DomainLate \/ CollectHost \/ CollectCPULoad \/ CollectMemory \/ CollectRootFilesystem
          \/ CollectRaspberryPi \/ CollectNetwork \/ CopyCPU
            => \E domain \in DOMAIN DomainAfter : Leave(domain)
      BY <1>0 DEF DomainLate, CollectHost, CollectCPULoad, CollectMemory, CollectRootFilesystem,
                  CollectRaspberryPi, CollectNetwork, CopyCPU
    <2>2. Terminated => UNCHANGED vars
      BY DEF Terminated
    <2> QED
      BY <1>1, <1>2, <1>3, <1>4, <2>1, <2>2 DEF Next

THEOREM Invariance == Spec => []IInv
  <1>1. Init => IInv
    BY ObservationInit DEF Init, IInv, DocumentInv, ResultInv
  <1>2. IInv /\ [Next]_vars => IInv'
    BY ObservationStep, CycleStep DEF IInv
  <1> QED
    BY <1>1, <1>2, PTL DEF Spec

-----------------------------------------------------------------------------
(* What follows.                                                           *)

\* For integers of any width: the count parseCPUTopology reports is that of
\* the CPUs of the list, and the bytes parseMemory and collectRootFilesystem
\* report are the products of the kernel's numbers, although every sum and
\* product of the code wraps.
THEOREM QuantitiesExact == Spec => []ExactQuantities
  <1>1. IInv => ExactQuantities
    BY DEF IInv, ObservationInv
  <1> QED
    BY <1>1, Invariance, PTL

\* Whatever the platform answers, and for any number of interfaces, the
\* issues finalize appends are the ones Encode's validation counts, in its
\* order and with one code for the four flags, and the counts and bytes of the
\* collectors are ones it takes: it never reports a defect.
THEOREM EncoderNeverRefuses == Spec => []EncoderAccepts
  <1>1. IInv => EncoderAccepts
    BY DEF IInv, ResultInv, EncoderAccepts
  <1> QED
    BY <1>1, Invariance, PTL

\* A cycle ends in a document exactly when there is a hostname and a value or
\* an interface to report, which what ProbeReadiness asks for guarantees.
THEOREM ServedExactlyWhenUseful == Spec => []ServedWhenUseful
  <1>1. ASSUME IInv, result # "none" PROVE ServedWhenUseful
    <2>1. /\ pc = "done" /\ Documented
          /\ result = IF observed["hostname"] = "present" /\ Usable THEN "served" ELSE "useless"
      BY <1>1 DEF IInv, ResultInv, DocumentInv
    <2> DEFINE Value == \E metric \in Metrics \ {"hostname", "network"} :
                            observed[metric] = "present"
    <2>2. SetFields # {} <=> Value
      <3>1. \A metric \in Metrics \ {"hostname", "network"} : FieldsOf(metric) # {}
        BY FieldsExist
      <3>2. \A metric \in {"hostname", "network"} : FieldsOf(metric) = {}
        BY FieldNames
      <3> QED
        BY <3>1, <3>2 DEF SetFields
    <2>3. Usable <=> Value \/ interfaces # <<>>
      BY <2>1, <2>2, DocumentParts DEF Usable
    <2>4. ProbeReadiness => observed["hostname"] = "present" /\ Value
      BY DEF ProbeReadiness, Metrics
    <2> HIDE DEF Value
    <2>5. result = "served" <=> observed["hostname"] = "present" /\ (interfaces # <<>> \/ Value)
      BY <2>1, <2>3
    <2> QED
      BY <2>4, <2>5 DEF ServedWhenUseful, Value
  <1>2. IInv => ServedWhenUseful
    BY <1>1 DEF ServedWhenUseful
  <1> QED
    BY <1>2, Invariance, PTL

\* A served document has all the fields of a metric that is present and no
\* issue about it, or no field and an issue with the collector's reason, and
\* it names nothing twice.
THEOREM DocumentsHonest == Spec => []HonestDocument
  <1>1. ASSUME IInv, result = "served" PROVE HonestDocument
    <2>1. InterfacesInv /\ Documented
      BY <1>1 DEF IInv, ObservationInv, ResultInv, DocumentInv
    <2>2. ASSUME NEW metric \in Metrics
          PROVE  \A field \in FieldsOf(metric) :
                    field \in document.fields <=> observed[metric] = "present"
      BY <2>1, FieldSet, DocumentParts
    <2>3. ASSUME NEW metric \in Metrics \ {"hostname", "firmware"}
          PROVE  /\ IssuesOf(metric) = {k \in DOMAIN document.issues :
                                            document.issues[k].path = Path(metric)}
                 /\ \A k \in IssuesOf(metric) :
                        observed[metric] # "present" /\ document.issues[k].code = observed[metric]
                 /\ observed[metric] # "present" => IssuesOf(metric) # {}
      <3>1. IssuesOf(metric) =
                {k \in DOMAIN document.issues : document.issues[k].path = Path(metric)}
        BY <2>3 DEF IssuesOf
      <3>2. ASSUME NEW k \in IssuesOf(metric)
            PROVE  observed[metric] # "present" /\ document.issues[k].code = observed[metric]
        <4>1. document.issues[k] \in TrueIssues /\ document.issues[k].path = Path(metric)
          BY <2>1, <3>1, <3>2, IssuesExact
        <4>2. /\ observed[metric] # "present"
              /\ document.issues[k] = [path |-> Path(metric), code |-> observed[metric]]
          BY <4>1, MetricIssueUnique
        <4> QED
          BY <4>2
      <3>3. ASSUME observed[metric] # "present" PROVE IssuesOf(metric) # {}
        <4> DEFINE one == [path |-> Path(metric), code |-> observed[metric]]
        <4>1. one \in TrueIssues
          BY <3>3 DEF TrueIssues, MetricIssues
        <4>2. PICK k \in DOMAIN document.issues : document.issues[k] = one
          BY <2>1, <4>1, IssuesExact
        <4> QED
          BY <3>1, <4>2
      <3> QED
        BY <3>1, <3>2, <3>3
    <2>4. /\ \A k \in IssuesOf("firmware") :
                /\ observed["firmware"] # "present"
                /\ document.issues[k].code = observed["firmware"]
          /\ observed["firmware"] # "present" => IssuesOf("firmware") # {}
      <3>1. IssuesOf("firmware") =
                {k \in DOMAIN document.issues :
                    document.issues[k].path \in
                        {Path("firmware")} \cup {Path(f) : f \in FieldsOf("firmware")}}
        BY DEF IssuesOf
      <3>2. ASSUME NEW k \in IssuesOf("firmware")
            PROVE  /\ observed["firmware"] # "present"
                   /\ document.issues[k].code = observed["firmware"]
        <4>1. document.issues[k] \in TrueIssues
          BY <2>1, <3>1, <3>2, IssuesExact
        <4>2. document.issues[k].path \in AllPaths
          BY <4>1, PathsComplete
        <4>3. Path("firmware") \notin AllPaths
          <5>1. Path("firmware") \notin NetworkPaths
            BY <2>1, NetworkPathsApart
          <5> QED
            BY <5>1, FieldNames DEF AllPaths, Path
        <4>4. PICK f \in FieldsOf("firmware") : document.issues[k].path = Path(f)
          BY <3>1, <3>2, <4>2, <4>3
        <4>5. /\ observed["firmware"] # "present"
              /\ document.issues[k] = [path |-> Path(f), code |-> observed["firmware"]]
          BY <4>1, <4>4, FlagIssueUnique
        <4> QED
          BY <4>5
      <3>3. ASSUME observed["firmware"] # "present" PROVE IssuesOf("firmware") # {}
        <4>1. PICK f : f \in FieldsOf("firmware")
          BY FieldNames
        <4> DEFINE one == [path |-> Path(f), code |-> observed["firmware"]]
        <4>2. one \in TrueIssues
          BY <3>3, <4>1 DEF TrueIssues, FlagIssues
        <4>3. PICK k \in DOMAIN document.issues : document.issues[k] = one
          BY <2>1, <4>2, IssuesExact
        <4> QED
          BY <3>1, <4>1, <4>3
      <3> QED
        BY <3>2, <3>3
    <2>5. ASSUME NEW metric \in Metrics \ {"hostname"}
          PROVE  IF observed[metric] = "present"
                 THEN FieldsOf(metric) \subseteq document.fields /\ IssuesOf(metric) = {}
                 ELSE /\ FieldsOf(metric) \cap document.fields = {}
                      /\ IssuesOf(metric) # {}
                      /\ \A k \in IssuesOf(metric) : document.issues[k].code = observed[metric]
      <3>1. /\ \A k \in IssuesOf(metric) :
                observed[metric] # "present" /\ document.issues[k].code = observed[metric]
            /\ observed[metric] # "present" => IssuesOf(metric) # {}
        BY <2>3, <2>4
      <3> QED
        BY <2>2, <3>1
    <2>6. \A k, l \in DOMAIN document.issues :
            k # l => document.issues[k].path # document.issues[l].path
      BY <2>1, IssuesExact
    <2> QED
      BY <2>5, <2>6 DEF HonestDocument
  <1>2. IInv => HonestDocument
    BY <1>1 DEF HonestDocument
  <1> QED
    BY <1>2, Invariance, PTL
=============================================================================
