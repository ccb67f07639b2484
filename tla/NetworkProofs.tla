--------------------------- MODULE NetworkProofs ---------------------------
(***************************************************************************)
(* The search of NetworkCollector for any dump: any number of links, in    *)
(* any order, whatever topology they form.                                 *)
(***************************************************************************)
EXTENDS NetworkCollector, FiniteSetTheorems, WellFoundedInduction, TLAPS

(* The inductive invariant. ************************************************)

\* How far the collection is determines what it has found.
PhaseInv ==
    /\ pc \in {"dumping", "resolving", "checking", "searching", "done"}
    /\ links \in Seq(Link)
    /\ position \in Nat \ {0}
    /\ pc = "dumping" => position = 1
    /\ pc \in {"dumping", "resolving"} =>
        /\ Len(links) <= MaximumLinks
        /\ \A p \in position..Len(links) : links[p] \in LinkInputs(p)
    /\ pc \in {"dumping", "resolving", "checking"} =>
        external = {} /\ internal = {} /\ stack = <<>> /\ interfaces = <<>>
    /\ pc # "done" => outcome = "none" /\ cause = "none"

\* What is resolved is resolved for good: to true only for links that are
\* external-capable, to false only where nothing needed is.
ResolvedInv ==
    /\ external \subseteq External
    /\ internal \subseteq Known
    /\ \A i \in internal : ~Physical(i) /\ Needs(i) \subseteq internal

\* Each call on the stack is of a link that the calls before it need, so that
\* ranks fall along the stack.
Ranks(rank) == \A i \in Known : \A j \in Needs(i) : rank[j] < rank[i]
StackInv ==
    /\ stack \in Seq(Known)
    /\ \A rank \in [Known -> 0..MaximumLinks] :
        Ranks(rank) =>
            \A d, e \in DOMAIN stack : d < e => rank[stack[e]] < rank[stack[d]]

\* The names appended are those of the external-capable links passed so far.
NamesBefore(n) == {links[p].name : p \in {q \in 1..n : links[q].index \in External}}
LoopInv ==
    /\ position <= Len(links) + 1
    /\ interfaces \in Seq(Nat)
    /\ ToSet(interfaces) = NamesBefore(position - 1)

SearchInv == pc = "searching" => WellFormed /\ ResolvedInv /\ StackInv /\ LoopInv

IInv == PhaseInv /\ SearchInv /\ ReportedIsExternal /\ CyclesOnly

-----------------------------------------------------------------------------
(* The topology.                                                           *)

\* A set of positions has a first one.
LEMMA FirstPosition ==
    ASSUME NEW T \in SUBSET Nat, T # {}
    PROVE  \E x \in T : \A y \in T : x <= y
  <1> DEFINE R == {ss \in Nat \X Nat : ss[1] < ss[2]}
  <1>1. IsWellFoundedOn(R, Nat)
    BY NatLessThanWellFounded, Zenon DEF OpToRel
  <1> HIDE DEF R
  <1>2. \E x \in T : \A y \in T : <<y, x>> \notin R
    BY <1>1, WFMin
  <1>3. \A x, y \in T : <<y, x>> \notin R => x <= y
    <2> SUFFICES ASSUME NEW x \in T, NEW y \in T, y < x PROVE <<y, x>> \in R
      OBVIOUS
    <2>1. <<y, x>> \in Nat \X Nat
      OBVIOUS
    <2> QED
      BY <2>1 DEF R
  <1> QED
    BY <1>2, <1>3

\* Appending to a sequence adds to its elements.
LEMMA ToSetAppend ==
    ASSUME NEW S, NEW s \in Seq(S), NEW x \in S
    PROVE  ToSet(Append(s, x)) = ToSet(s) \cup {x}
  <1> DEFINE n == Len(s)
             t == Append(s, x)
  <1>1. n \in Nat /\ DOMAIN s = 1..n /\ DOMAIN t = 1..(n + 1)
    OBVIOUS
  <1>2. t[n + 1] = x /\ \A k \in 1..n : t[k] = s[k]
    OBVIOUS
  <1> HIDE DEF n, t
  <1>3. 1..(n + 1) = 1..n \cup {n + 1}
    BY <1>1
  <1>4. {t[k] : k \in DOMAIN t} = {s[k] : k \in DOMAIN s} \cup {x}
    BY <1>1, <1>2, <1>3
  <1> QED
    BY <1>4 DEF ToSet, t

\* linksByIndex finds a link that has the index.
LEMMA LinkOfKnown ==
    ASSUME NEW i \in Known
    PROVE  \E p \in DOMAIN links : links[p].index = i /\ LinkOf(i) = links[p]
  BY DEF Known, LinkOf

\* In a topology that was accepted a link needs links of the dump.
LEMMA NeedsKnown ==
    ASSUME WellFormed, NEW i \in Known
    PROVE  Needs(i) \subseteq Known
  <1>1. PICK p \in DOMAIN links : links[p].index = i /\ LinkOf(i) = links[p]
    BY LinkOfKnown
  <1>2. LinkOf(i).kind = "vlan" => LinkOf(i).lower \in Known
    BY <1>1 DEF WellFormed
  <1>3. {links[q].index : q \in Members(i)} \subseteq Known
    BY DEF Members, Known
  <1> QED
    BY <1>2, <1>3 DEF Needs

\* The call that comes next is of a link that is pending.
LEMMA CalleePending ==
    ASSUME links \in Seq(Link), WellFormed, NEW i \in Known, Pending(i) # {}
    PROVE  Callee(i) \in Pending(i)
  <1> DEFINE Positions == {p \in DOMAIN links : links[p].index \in Pending(i)}
  <1>1. Positions \in SUBSET Nat
    OBVIOUS
  <1>2. Positions # {}
    <2>1. PICK j \in Pending(i) : TRUE
      OBVIOUS
    <2>2. j \in Known
      BY NeedsKnown DEF Pending
    <2> QED
      BY <2>2 DEF Known
  <1>3. \E x \in Positions : \A y \in Positions : x <= y
    BY <1>1, <1>2, FirstPosition
  <1>4. \E p \in DOMAIN links :
            /\ links[p].index \in Pending(i)
            /\ \A q \in DOMAIN links : q < p => links[q].index \notin Pending(i)
    BY <1>3
  <1> QED
    BY <1>4, Zenon DEF Callee

\* Physical links are external-capable.
LEMMA PhysicalExternal ==
    ASSUME NEW i \in Known, Physical(i)
    PROVE  i \in External
  BY DEF External, ClosedUnder

\* So is a link that needs one that is.
LEMMA NeedsExternal ==
    ASSUME NEW i \in Known, NEW j \in Needs(i), j \in External
    PROVE  i \in External
  BY DEF External, ClosedUnder

\* A link that was resolved to false is not: the others are a closed set.
LEMMA InternalNotExternal ==
    ASSUME WellFormed, ResolvedInv
    PROVE  External \cap internal = {}
  <1> DEFINE rest == Known \ internal
  <1>1. rest \in SUBSET Known
    OBVIOUS
  <1>2. ASSUME NEW i \in Known, Physical(i) \/ Needs(i) \cap rest # {} PROVE i \in rest
    BY <1>2 DEF ResolvedInv
  <1>3. ClosedUnder(rest)
    BY <1>2 DEF ClosedUnder
  <1> QED
    BY <1>1, <1>3 DEF External

\* The topology is that of the links.
LEMMA Frame ==
    ASSUME links' = links
    PROVE  /\ Known' = Known /\ External' = External
           /\ WellFormed' = WellFormed
           /\ \A i : Physical(i)' = Physical(i) /\ Needs(i)' = Needs(i)
  <1>1. Known' = Known /\ WellFormed' = WellFormed
    BY DEF Known, WellFormed, Distinct
  <1>2. ASSUME NEW i PROVE LinkOf(i)' = LinkOf(i)
    BY Zenon DEF LinkOf
  <1>3. ASSUME NEW i PROVE Physical(i)' = Physical(i) /\ Needs(i)' = Needs(i)
    BY <1>2 DEF Physical, Needs, Searched, Members
  <1>4. External' = External
    BY <1>1, <1>3 DEF External, ClosedUnder
  <1> QED
    BY <1>1, <1>3, <1>4

-----------------------------------------------------------------------------
(* The steps.                                                              *)

LEMMA InitInv == Init => IInv
  BY LinkAssumption DEF Init, IInv, PhaseInv, SearchInv, ReportedIsExternal, CyclesOnly

\* A failure other than a cycle reports nothing.
LEMMA FailInv ==
    ASSUME IInv, NEW reason \in Reasons, NEW why, why # "cycle", Fail(reason, why),
           links' \in Seq(Link)
    PROVE  IInv'
  <1>1. PhaseInv'
    BY DEF IInv, PhaseInv, Fail
  <1>2. SearchInv' /\ ReportedIsExternal' /\ CyclesOnly'
    BY DEF Fail, SearchInv, ReportedIsExternal, CyclesOnly, Reasons
  <1> QED
    BY <1>1, <1>2 DEF IInv

\* An error of the platform has a reason.
LEMMA FailureReason ==
    ASSUME NEW error \in Errors
    PROVE  acquisitionFailure(error, "unsupported") \in Reasons
  BY DEF Errors, acquisitionFailure, Reasons

\* The dump.
LEMMA DumpInv == ASSUME IInv, Dump PROVE IInv'
  <1>1. CASE \E error \in Errors : DumpFails(error)
    BY <1>1, FailureReason, FailInv DEF DumpFails
  <1>2. CASE DecodeFails
    BY <1>2, FailInv DEF DecodeFails, Reasons
  <1>3. ASSUME NEW link \in LinkInputs(Len(links) + 1), ReceiveLink(link) PROVE IInv'
    <2>1. CASE Len(links) = MaximumLinks
      BY <1>3, <2>1, FailInv DEF ReceiveLink, Reasons
    <2>2. CASE Len(links) # MaximumLinks
      <3>1. /\ pc = "dumping" /\ links' = Append(links, link)
            /\ UNCHANGED <<pc, position, searchVars, reported, outcome, cause>>
        BY <1>3, <2>2 DEF ReceiveLink
      <3>2. Len(links) \in Nat /\ Len(links) < MaximumLinks /\ links \in Seq(Link)
        BY <2>2, <3>1, LinkAssumption DEF IInv, PhaseInv
      <3>3. link \in Link
        BY <3>2, LinkAssumption, InputsAssumption
      <3>4. PhaseInv'
        <4>1. \A p \in 1..Len(links') : links'[p] \in LinkInputs(p)
          BY <3>1, <3>2 DEF IInv, PhaseInv
        <4> QED
          BY <3>1, <3>2, <3>3, <4>1, LinkAssumption DEF IInv, PhaseInv, searchVars
      <3>5. SearchInv' /\ ReportedIsExternal' /\ CyclesOnly'
        BY <3>1 DEF IInv, PhaseInv, SearchInv, ReportedIsExternal, CyclesOnly
      <3> QED
        BY <3>4, <3>5 DEF IInv
    <2> QED
      BY <2>1, <2>2
  <1>4. CASE ReceiveDone
    <2>1. PhaseInv'
      BY <1>4 DEF IInv, PhaseInv, ReceiveDone, searchVars
    <2>2. SearchInv' /\ ReportedIsExternal' /\ CyclesOnly'
      BY <1>4 DEF IInv, PhaseInv, ReceiveDone, SearchInv, ReportedIsExternal, CyclesOnly
    <2> QED
      BY <2>1, <2>2 DEF IInv
  <1> QED
    BY <1>1, <1>2, <1>3, <1>4 DEF Dump

\* The sysfs lookups.
LEMMA ResolveInv == ASSUME IInv, ResolveStep \/ ResolvesEnd PROVE IInv'
  <1>1. CASE Resolve
    <2>1. PICK path \in Paths(links[position]) : links' = [links EXCEPT ![position].path = path]
      BY <1>1 DEF Resolve
    <2>2. links \in Seq(Link) /\ position \in 1..Len(links) /\ position \in 1..(MaximumLinks + 1)
      BY <1>1, LinkAssumption DEF Resolve, IInv, PhaseInv
    <2>3. links[position] \in LinkInputs(position)
      BY <1>1, <2>2 DEF Resolve, IInv, PhaseInv
    <2>4. path \in DevicePaths
      BY <2>1, <2>2, <2>3, InputsAssumption
    <2>5. links' \in Seq(Link) /\ Len(links') = Len(links)
      <3> DEFINE found == [links[position] EXCEPT !.path = path]
      <3>1. found \in Link
        <4>1. links[position] \in Link
          BY <2>2
        <4> QED
          BY <4>1, <2>4, Zenon DEF Link
      <3>2. links' = [links EXCEPT ![position] = found]
        BY <2>1
      <3> HIDE DEF found
      <3> QED
        BY <2>2, <3>1, <3>2
    <2>6. \A p \in (position + 1)..Len(links) : links'[p] = links[p]
      BY <2>1, <2>2
    <2>7. PhaseInv'
      BY <1>1, <2>2, <2>5, <2>6 DEF Resolve, IInv, PhaseInv, searchVars
    <2>8. SearchInv' /\ ReportedIsExternal' /\ CyclesOnly'
      BY <1>1 DEF IInv, PhaseInv, Resolve, SearchInv, ReportedIsExternal, CyclesOnly
    <2> QED
      BY <2>7, <2>8 DEF IInv
  <1>2. ASSUME NEW error \in Errors, NEW why \in {"vanished", "absent", "read"},
               ResolveFails(error, why)
        PROVE  IInv'
    BY <1>2, FailureReason, FailInv DEF ResolveFails
  <1>3. CASE ResolvesEnd
    <2>1. PhaseInv'
      BY <1>3 DEF IInv, PhaseInv, ResolvesEnd, searchVars
    <2>2. SearchInv' /\ ReportedIsExternal' /\ CyclesOnly'
      BY <1>3 DEF IInv, PhaseInv, ResolvesEnd, SearchInv, ReportedIsExternal, CyclesOnly
    <2> QED
      BY <2>1, <2>2 DEF IInv
  <1> QED
    BY <1>1, <1>2, <1>3 DEF ResolveStep, Errors

\* newLinkTopology: the search begins with nothing resolved.
LEMMA TopologyInv == ASSUME IInv, CheckTopology PROVE IInv'
  <1>1. CASE WellFormed
    <2>1. /\ pc = "checking" /\ pc' = "searching" /\ position' = 1
          /\ UNCHANGED <<links, external, internal, stack, interfaces, reported, outcome, cause>>
      BY <1>1 DEF CheckTopology, searchVars
    <2>2. PhaseInv'
      BY <2>1 DEF IInv, PhaseInv
    <2>3. WellFormed'
      BY <1>1, <2>1, Frame
    <2>4. external' = {} /\ internal' = {} /\ stack' = <<>> /\ interfaces' = <<>>
      BY <2>1 DEF IInv, PhaseInv
    <2>5. ResolvedInv' /\ StackInv'
      BY <2>4 DEF ResolvedInv, StackInv
    <2>6. LoopInv'
      <3>1. links \in Seq(Link)
        BY DEF IInv, PhaseInv
      <3>2. ToSet(interfaces') = {} /\ NamesBefore(position - 1)' = {}
        BY <2>1, <2>4 DEF ToSet, NamesBefore
      <3> QED
        BY <2>1, <2>4, <3>1, <3>2 DEF LoopInv
    <2>7. ReportedIsExternal' /\ CyclesOnly'
      BY <2>1 DEF IInv, PhaseInv, ReportedIsExternal, CyclesOnly
    <2> QED
      BY <2>2, <2>3, <2>5, <2>6, <2>7 DEF IInv, SearchInv
  <1>2. CASE ~WellFormed
    BY <1>2, FailInv DEF CheckTopology, Reasons, IInv, PhaseInv
  <1> QED
    BY <1>1, <1>2

\* What a step of the search leaves alone.
LEMMA SearchFrame ==
    ASSUME IInv, pc = "searching",
           UNCHANGED <<pc, links, interfaces, position, reported, outcome, cause>>
    PROVE  PhaseInv' /\ WellFormed' /\ LoopInv' /\ ReportedIsExternal' /\ CyclesOnly'
  <1>1. External' = External /\ WellFormed'
    BY Frame DEF IInv, SearchInv
  <1>2. NamesBefore(position - 1)' = NamesBefore(position - 1)
    BY <1>1 DEF NamesBefore
  <1>3. LoopInv'
    BY <1>2 DEF IInv, SearchInv, LoopInv
  <1>4. PhaseInv'
    BY DEF IInv, PhaseInv
  <1>5. ReportedIsExternal' /\ CyclesOnly'
    BY DEF IInv, PhaseInv, ReportedIsExternal, CyclesOnly
  <1> QED
    BY <1>1, <1>3, <1>4, <1>5

\* The innermost call is of a link of the dump.
LEMMA TopKnown == ASSUME StackInv, stack # <<>> PROVE Top \in Known /\ Len(stack) \in Nat \ {0}
  BY DEF StackInv, Top

\* A call returns: to true for a link that is physical or needs one that is
\* resolved to true, to false once all it needs is resolved to false.
LEMMA ReturnInv == ASSUME IInv, SearchReturn PROVE IInv'
  <1>1. /\ pc = "searching" /\ stack # <<>> /\ Settled(Top)
        /\ UNCHANGED <<pc, links, interfaces, position, reported, outcome, cause>>
        /\ stack' = SubSeq(stack, 1, Len(stack) - 1)
    BY DEF SearchReturn
  <1>2. WellFormed /\ ResolvedInv /\ StackInv /\ links \in Seq(Link)
    BY <1>1 DEF IInv, SearchInv, PhaseInv
  <1>3. Top \in Known /\ Len(stack) \in Nat \ {0}
    BY <1>1, <1>2, TopKnown
  <1>4. /\ Known' = Known /\ External' = External
        /\ \A i : Physical(i)' = Physical(i) /\ Needs(i)' = Needs(i)
    BY <1>1, Frame
  <1>5. ResultOf(Top) => Top \in External
    <2>1. CASE Physical(Top)
      BY <1>3, <2>1, PhysicalExternal
    <2>2. CASE Pending(Top) # {}
      <3>1. Callee(Top) \in Pending(Top)
        BY <1>2, <1>3, <2>2, CalleePending
      <3>2. Callee(Top) \in Needs(Top) /\ Callee(Top) \in External
        BY <1>1, <1>2, <2>2, <3>1 DEF Settled, Pending, ResolvedInv
      <3> QED
        BY <1>3, <3>2, NeedsExternal
    <2> QED
      BY <2>1, <2>2 DEF ResultOf
  <1>6. ~ResultOf(Top) => ~Physical(Top) /\ Needs(Top) \subseteq internal
    BY DEF ResultOf, Pending
  <1>7. ResolvedInv'
    <2>1. external' \subseteq External'
      BY <1>2, <1>4, <1>5 DEF SearchReturn, ResolvedInv
    <2>2. internal' \subseteq Known'
      BY <1>2, <1>3, <1>4 DEF SearchReturn, ResolvedInv
    <2>3. ASSUME NEW i \in internal' PROVE ~Physical(i)' /\ Needs(i)' \subseteq internal'
      <3>1. ~Physical(i) /\ Needs(i) \subseteq internal /\ internal \subseteq internal'
        BY <1>2, <1>6, <2>3 DEF SearchReturn, ResolvedInv
      <3> QED
        BY <1>4, <3>1
    <2> QED
      BY <2>1, <2>2, <2>3 DEF ResolvedInv
  <1>8. StackInv'
    <2>1. stack' \in Seq(Known') /\ DOMAIN stack' \subseteq DOMAIN stack
      BY <1>1, <1>2, <1>3, <1>4 DEF StackInv
    <2>2. \A d \in DOMAIN stack' : stack'[d] = stack[d]
      BY <1>1, <1>2, <1>3 DEF StackInv
    <2>3. \A rank : Ranks(rank)' = Ranks(rank)
      BY <1>4 DEF Ranks
    <2> QED
      BY <1>2, <1>4, <2>1, <2>2, <2>3 DEF StackInv
  <1> QED
    BY <1>1, <1>7, <1>8, SearchFrame DEF IInv, SearchInv

\* A call is made of a link that ranks below the caller.
LEMMA CallInv == ASSUME IInv, SearchCall PROVE IInv'
  <1>1. /\ pc = "searching" /\ stack # <<>> /\ ~Settled(Top)
        /\ UNCHANGED <<pc, links, external, internal, interfaces, position>>
        /\ UNCHANGED <<reported, outcome, cause>>
        /\ stack' = Append(stack, Callee(Top))
    BY DEF SearchCall
  <1>2. WellFormed /\ ResolvedInv /\ StackInv /\ links \in Seq(Link)
    BY <1>1 DEF IInv, SearchInv, PhaseInv
  <1>3. Top \in Known /\ Len(stack) \in Nat \ {0}
    BY <1>1, <1>2, TopKnown
  <1>4. /\ Known' = Known /\ External' = External
        /\ \A i : Physical(i)' = Physical(i) /\ Needs(i)' = Needs(i)
    BY <1>1, Frame
  <1>5. Callee(Top) \in Needs(Top) /\ Callee(Top) \in Known
    <2>1. Callee(Top) \in Pending(Top)
      BY <1>1, <1>2, <1>3, CalleePending DEF Settled
    <2> QED
      BY <1>2, <1>3, <2>1, NeedsKnown DEF Pending
  <1>6. ResolvedInv'
    BY <1>1, <1>2, <1>4 DEF ResolvedInv
  <1>7. StackInv'
    <2> DEFINE n == Len(stack)
               callee == Callee(Top)
    <2>1. stack' \in Seq(Known') /\ DOMAIN stack' = 1..(n + 1) /\ stack \in Seq(Known)
      BY <1>1, <1>2, <1>4, <1>5 DEF StackInv
    <2>2. stack'[n + 1] = callee /\ \A d \in 1..n : stack'[d] = stack[d]
      BY <1>1, <1>2, <1>3 DEF StackInv
    <2>5. n \in Nat \ {0} /\ DOMAIN stack = 1..n /\ stack[n] = Top
      BY <1>2, <1>3 DEF StackInv, Top
    <2> HIDE DEF n, callee
    <2>3. ASSUME NEW rank \in [Known -> 0..MaximumLinks], Ranks(rank),
                 NEW d \in 1..(n + 1), NEW e \in 1..(n + 1), d < e
          PROVE  rank[stack'[e]] < rank[stack'[d]]
      <3>1. CASE e # n + 1
        <4>1. /\ d \in DOMAIN stack /\ e \in DOMAIN stack
              /\ stack'[d] = stack[d] /\ stack'[e] = stack[e]
          BY <2>2, <2>3, <2>5, <3>1
        <4> QED
          BY <1>2, <2>3, <4>1 DEF StackInv
      <3>2. CASE e = n + 1
        <4>1. rank[callee] < rank[Top]
          BY <1>3, <1>5, <2>3 DEF Ranks, callee
        <4>2. d \in 1..n /\ stack'[d] = stack[d] /\ stack'[e] = callee
          BY <2>2, <2>3, <2>5, <3>2
        <4>3. d # n => rank[Top] < rank[stack[d]]
          <5>1. d # n => d \in DOMAIN stack /\ n \in DOMAIN stack /\ d < n
            BY <2>5, <4>2
          <5>2. d # n => rank[stack[n]] < rank[stack[d]]
            BY <1>2, <2>3, <5>1 DEF StackInv
          <5> QED
            BY <2>5, <5>2
        <4>4. rank[callee] \in Int /\ rank[Top] \in Int /\ rank[stack[d]] \in Int
          BY <1>3, <1>5, <2>1, <2>3, <2>5, <4>2, LinkAssumption DEF callee
        <4> QED
          BY <2>5, <4>1, <4>2, <4>3, <4>4
      <3> QED
        BY <3>1, <3>2
    <2>4. \A rank : Ranks(rank)' = Ranks(rank)
      BY <1>4 DEF Ranks
    <2> QED
      BY <1>4, <2>1, <2>3, <2>4 DEF StackInv
  <1> QED
    BY <1>1, <1>6, <1>7, SearchFrame DEF IInv, SearchInv

\* A call that is already under way is refused only where no ranking exists.
LEMMA CycleInv == ASSUME IInv, SearchCycle PROVE IInv'
  <1>1. /\ pc = "searching" /\ stack # <<>> /\ ~Settled(Top) /\ Callee(Top) \in Visiting
        /\ links' = links /\ pc' = "done" /\ outcome' = "temporarily_unavailable"
        /\ UNCHANGED <<position, external, internal, stack, interfaces, reported>>
    BY DEF SearchCycle, Calls, Fail, searchVars
  <1>2. WellFormed /\ ResolvedInv /\ StackInv /\ links \in Seq(Link)
    BY <1>1 DEF IInv, SearchInv, PhaseInv
  <1>3. Top \in Known /\ Len(stack) \in Nat \ {0}
    BY <1>1, <1>2, TopKnown
  <1>4. Callee(Top) \in Needs(Top)
    BY <1>1, <1>2, <1>3, CalleePending DEF Settled, Pending
  <1>5. ~Acyclic
    <2> SUFFICES ASSUME Acyclic PROVE FALSE
      OBVIOUS
    <2>1. PICK rank \in [Known -> 0..MaximumLinks] : Ranks(rank)
      BY DEF Acyclic, Ranks
    <2>2. rank[Callee(Top)] < rank[Top]
      BY <1>3, <1>4, <2>1 DEF Ranks
    <2>3. PICK d \in DOMAIN stack : Callee(Top) = stack[d]
      BY <1>1 DEF Visiting
    <2>4. /\ d \in 1..Len(stack) /\ Len(stack) \in DOMAIN stack
          /\ stack[d] \in Known /\ stack[Len(stack)] = Top
      BY <1>2, <1>3 DEF StackInv, Top
    <2>5. d # Len(stack) => rank[Top] < rank[stack[d]]
      <3>1. d # Len(stack) => d < Len(stack)
        BY <1>3, <2>4
      <3>2. \A a, b \in DOMAIN stack : a < b => rank[stack[b]] < rank[stack[a]]
        BY <1>2, <2>1, Zenon DEF StackInv
      <3>3. d < Len(stack) => rank[stack[Len(stack)]] < rank[stack[d]]
        BY <2>3, <2>4, <3>2, Zenon
      <3> QED
        BY <2>4, <3>1, <3>3
    <2>6. rank[Top] \in Int /\ rank[stack[d]] \in Int
      BY <1>3, <2>1, <2>4, LinkAssumption
    <2> QED
      BY <2>2, <2>3, <2>4, <2>5, <2>6
  <1>6. Known' = Known /\ \A i : Needs(i)' = Needs(i)
    BY <1>1, Frame
  <1>7. ~Acyclic'
    BY <1>5, <1>6 DEF Acyclic
  <1>8. PhaseInv'
    BY <1>1, <1>2 DEF IInv, PhaseInv
  <1>9. SearchInv' /\ ReportedIsExternal' /\ CyclesOnly'
    BY <1>1, <1>7 DEF SearchInv, ReportedIsExternal, CyclesOnly
  <1> QED
    BY <1>8, <1>9 DEF IInv

\* collectNetwork asks for a link it does not know the result of.
LEMMA AskInv == ASSUME IInv, CollectAsk PROVE IInv'
  <1>1. /\ pc = "searching" /\ stack' = <<Asked>> /\ position <= Len(links)
        /\ UNCHANGED <<pc, links, external, internal, interfaces, position>>
        /\ UNCHANGED <<reported, outcome, cause>>
    BY DEF CollectAsk
  <1>2. WellFormed /\ ResolvedInv /\ links \in Seq(Link) /\ position \in Nat \ {0}
    BY <1>1 DEF IInv, SearchInv, PhaseInv
  <1>3. Known' = Known /\ External' = External
        /\ \A i : Physical(i)' = Physical(i) /\ Needs(i)' = Needs(i)
    BY <1>1, Frame
  <1>4. Asked \in Known
    BY <1>1, <1>2 DEF Asked, Known
  <1>5. ResolvedInv'
    BY <1>1, <1>2, <1>3 DEF ResolvedInv
  <1>6. StackInv'
    BY <1>1, <1>3, <1>4 DEF StackInv
  <1> QED
    BY <1>1, <1>5, <1>6, SearchFrame DEF IInv, SearchInv

\* It appends the name of a link that is external-capable, and passes others.
LEMMA AppendInv == ASSUME IInv, CollectAppend PROVE IInv'
  <1>1. /\ pc = "searching" /\ position <= Len(links) /\ Asked \in external \cup internal
        /\ interfaces' = IF Reports(Asked) THEN Append(interfaces, links[position].name)
                                           ELSE interfaces
        /\ position' = position + 1
        /\ UNCHANGED <<pc, links, external, internal, stack, reported, outcome, cause>>
    BY DEF CollectAppend
  <1>2. /\ WellFormed /\ ResolvedInv /\ StackInv /\ LoopInv
        /\ links \in Seq(Link) /\ position \in Nat \ {0}
    BY <1>1 DEF IInv, SearchInv, PhaseInv
  <1>3. /\ Known' = Known /\ External' = External /\ WellFormed'
        /\ \A i : Physical(i)' = Physical(i) /\ Needs(i)' = Needs(i)
    BY <1>1, <1>2, Frame
  <1>4. Reports(Asked) <=> Asked \in External
    BY <1>1, <1>2, InternalNotExternal DEF Reports, ResolvedInv
  <1>5. PhaseInv' /\ ReportedIsExternal' /\ CyclesOnly'
    BY <1>1, <1>2 DEF IInv, PhaseInv, ReportedIsExternal, CyclesOnly
  <1>6. ResolvedInv'
    BY <1>1, <1>2, <1>3 DEF ResolvedInv
  <1>7. StackInv'
    <2>1. \A rank : Ranks(rank)' = Ranks(rank)
      BY <1>3 DEF Ranks
    <2> QED
      BY <1>1, <1>2, <1>3, <2>1 DEF StackInv
  <1>8. LoopInv'
    <2> DEFINE name == links[position].name
    <2>1. name \in Nat /\ interfaces \in Seq(Nat) /\ position \in DOMAIN links
      <3>1. position \in DOMAIN links /\ interfaces \in Seq(Nat)
        BY <1>1, <1>2 DEF LoopInv
      <3>2. links[position] \in Link
        BY <1>2, <3>1
      <3> QED
        BY <3>1, <3>2 DEF Link
    <2>2. NamesBefore(position - 1)' = NamesBefore(position)
      BY <1>1, <1>2, <1>3 DEF NamesBefore
    <2>3. 1..position = 1..(position - 1) \cup {position}
      BY <1>2
    <2>4. NamesBefore(position) =
            IF Asked \in External THEN NamesBefore(position - 1) \cup {name}
                                  ELSE NamesBefore(position - 1)
      BY <2>3 DEF NamesBefore, Asked
    <2>5. ToSet(Append(interfaces, name)) = ToSet(interfaces) \cup {name}
      BY <2>1, ToSetAppend
    <2>6. ToSet(interfaces') = NamesBefore(position)
      BY <1>1, <1>2, <1>4, <2>4, <2>5 DEF LoopInv
    <2>7. interfaces' \in Seq(Nat)
      BY <1>1, <2>1
    <2> QED
      BY <1>1, <1>2, <2>2, <2>6, <2>7 DEF LoopInv
  <1> QED
    BY <1>3, <1>5, <1>6, <1>7, <1>8 DEF IInv, SearchInv

\* When all links are passed the names are those of the external-capable ones.
LEMMA EndInv == ASSUME IInv, CollectEnd PROVE IInv'
  <1>1. /\ pc = "searching" /\ position > Len(links)
        /\ pc' = "done" /\ outcome' = "present" /\ reported' = SortedNames(ToSet(interfaces))
        /\ UNCHANGED <<links, position, external, internal, stack, interfaces, cause>>
    BY DEF CollectEnd, searchVars
  <1>2. LoopInv /\ links \in Seq(Link) /\ position \in Nat \ {0} /\ cause = "none"
    BY <1>1 DEF IInv, SearchInv, PhaseInv
  <1>3. position - 1 = Len(links)
    BY <1>1, <1>2 DEF LoopInv
  <1>4. NamesBefore(position - 1) = ExternalNames
    BY <1>2, <1>3 DEF NamesBefore, ExternalNames
  <1>5. ExternalNames' = ExternalNames
    BY <1>1, Frame DEF ExternalNames
  <1>6. ReportedIsExternal'
    <2>1. reported' = SortedNames(ExternalNames)
      BY <1>1, <1>2, <1>4 DEF LoopInv
    <2> QED
      BY <1>5, <2>1 DEF ReportedIsExternal
  <1>7. PhaseInv' /\ SearchInv' /\ CyclesOnly'
    BY <1>1, <1>2 DEF IInv, PhaseInv, SearchInv, CyclesOnly
  <1> QED
    BY <1>6, <1>7 DEF IInv

LEMMA StepInv == IInv /\ [Next]_vars => IInv'
  <1> SUFFICES ASSUME IInv, [Next]_vars PROVE IInv'
    OBVIOUS
  <1>1. CASE Next /\ ~Terminated
    BY <1>1, DumpInv, ResolveInv, TopologyInv, ReturnInv, CallInv, CycleInv, AskInv, AppendInv,
       EndInv DEF Next, Search
  <1>2. CASE UNCHANGED vars
    <2>1. /\ UNCHANGED <<pc, links, position, external, internal, stack, interfaces>>
          /\ UNCHANGED <<reported, outcome, cause>>
      BY <1>2 DEF vars, searchVars
    <2>2. /\ Known' = Known /\ External' = External /\ WellFormed' = WellFormed
          /\ \A i : Physical(i)' = Physical(i) /\ Needs(i)' = Needs(i)
      BY <2>1, Frame
    <2>3. PhaseInv'
      BY <2>1 DEF IInv, PhaseInv
    <2>4. SearchInv'
      <3>1. ASSUME pc = "searching" PROVE ResolvedInv' /\ LoopInv'
        BY <2>1, <2>2, <3>1 DEF IInv, SearchInv, ResolvedInv, LoopInv, NamesBefore
      <3>2. ASSUME pc = "searching" PROVE StackInv'
        <4>1. \A rank : Ranks(rank)' = Ranks(rank)
          BY <2>2 DEF Ranks
        <4> QED
          BY <2>1, <2>2, <3>2, <4>1 DEF IInv, SearchInv, StackInv
      <3> QED
        BY <2>1, <2>2, <3>1, <3>2 DEF IInv, SearchInv
    <2>5. ReportedIsExternal'
      <3>1. ExternalNames' = ExternalNames
        BY <2>1, <2>2 DEF ExternalNames
      <3> QED
        BY <2>1, <3>1 DEF IInv, ReportedIsExternal
    <2>6. CyclesOnly'
      <3>1. Acyclic' = Acyclic
        BY <2>2 DEF Acyclic
      <3> QED
        BY <2>1, <3>1 DEF IInv, CyclesOnly
    <2> QED
      BY <2>3, <2>4, <2>5, <2>6 DEF IInv
  <1> QED
    BY <1>1, <1>2 DEF Terminated

-----------------------------------------------------------------------------
(* What the network collector guarantees.                                  *)

\* The invariant holds for dumps of any size.
THEOREM Invariance == Spec => []IInv
  BY InitInv, StepInv, PTL DEF Spec

\* collectNetwork reports the external-capable interfaces, all of them and no
\* others, whatever order and topology the kernel's links come in.
THEOREM ReportsExternal == Spec => []ReportedIsExternal
  <1>1. IInv => ReportedIsExternal
    BY DEF IInv
  <1> QED
    BY <1>1, Invariance, PTL

\* externallyCapable refuses a topology as cyclic only when it is.
THEOREM RefusesCyclesOnly == Spec => []CyclesOnly
  <1>1. IInv => CyclesOnly
    BY DEF IInv
  <1> QED
    BY <1>1, Invariance, PTL

-----------------------------------------------------------------------------
(* The length of a search.                                                 *)

\* Calls are of different links that have no result yet.
Unresolved == Known \ (external \cup internal)
FreshInv ==
    pc = "searching" =>
        /\ \A d \in DOMAIN stack : stack[d] \in Unresolved
        /\ \A d, e \in DOMAIN stack : d # e => stack[d] # stack[e]

\* The steps that are left at most: a call and a return for each link without
\* a result, less the calls under way, and the turns of collectNetwork's loop.
Budget == (Len(links) + 1 - position) + 2 * Cardinality(Unresolved) - Len(stack)

LEMMA UnresolvedFinite ==
    ASSUME links \in Seq(Link)
    PROVE  /\ IsFiniteSet(Unresolved)
           /\ Cardinality(Unresolved) \in Nat /\ Cardinality(Unresolved) <= Len(links)
  <1> DEFINE n == Len(links)
             f == [p \in 1..n |-> links[p].index]
  <1>1. n \in Nat /\ DOMAIN links = 1..n
    OBVIOUS
  <1>2. f \in Surjection(1..n, Known)
    BY <1>1 DEF Surjection, Known
  <1>3. IsFiniteSet(1..n) /\ Cardinality(1..n) = n
    <2> HIDE DEF n
    <2>1. Cardinality(1..n) = IF 1 > n THEN 0 ELSE n - 1 + 1
      BY <1>1, FS_Interval
    <2> QED
      BY <1>1, <2>1, FS_Interval
  <1> HIDE DEF f, n
  <1>4. IsFiniteSet(Known) /\ Cardinality(Known) <= n
    BY <1>2, <1>3, FS_Surjection
  <1>5. Unresolved \in SUBSET Known
    BY DEF Unresolved
  <1>6. IsFiniteSet(Unresolved) /\ Cardinality(Unresolved) <= Cardinality(Known)
    BY <1>4, <1>5, FS_Subset
  <1>7. Cardinality(Unresolved) \in Nat /\ Cardinality(Known) \in Nat
    BY <1>4, <1>6, FS_CardinalityType
  <1> QED
    BY <1>1, <1>4, <1>6, <1>7 DEF n

\* The stack cannot outgrow the links without a result.
LEMMA BudgetBounds ==
    ASSUME IInv, FreshInv, pc = "searching"
    PROVE  Budget \in 0..(3 * Len(links))
  <1> DEFINE n == Len(links)
             d == Len(stack)
             u == Cardinality(Unresolved)
  <1>1. /\ links \in Seq(Link) /\ stack \in Seq(Known) /\ position \in Nat \ {0}
        /\ position <= n + 1
    BY DEF IInv, PhaseInv, SearchInv, StackInv, LoopInv
  <1>2. IsFiniteSet(Unresolved) /\ u \in Nat /\ u <= n /\ n \in Nat /\ d \in Nat
    BY <1>1, UnresolvedFinite
  <1>3. d <= u
    <2> SUFFICES ASSUME u < d PROVE FALSE
      BY <1>2
    <2>1. DOMAIN stack = 1..d /\ stack \in [1..d -> Unresolved]
      BY <1>1 DEF FreshInv
    <2>2. IsFiniteSet(1..d) /\ Cardinality(1..d) = d
      <3> HIDE DEF d
      <3>1. Cardinality(1..d) = IF 1 > d THEN 0 ELSE d - 1 + 1
        BY <1>2, FS_Interval
      <3> QED
        BY <1>2, <3>1, FS_Interval
    <2> HIDE DEF d, u
    <2>3. Cardinality(Unresolved) < Cardinality(1..d)
      BY <2>2 DEF u
    <2>4. \E k, l \in 1..d : k # l /\ stack[k] = stack[l]
      BY <1>2, <2>1, <2>2, <2>3, FS_PigeonHole
    <2> QED
      BY <2>1, <2>4 DEF FreshInv
  <1>4. Budget = (n + 1 - position) + 2 * u - d
    BY DEF Budget
  <1> HIDE DEF n, d, u
  <1>5. Budget \in 0..(3 * n)
    BY <1>1, <1>2, <1>3, <1>4
  <1> QED
    BY <1>5 DEF n

LEMMA FreshInit == Init => FreshInv
  BY DEF Init, FreshInv

\* A return resolves the innermost link.
LEMMA ReturnFresh ==
    ASSUME IInv, FreshInv, SearchReturn
    PROVE  FreshInv' /\ Budget' = Budget - 1
  <1> DEFINE d == Len(stack)
             u == Cardinality(Unresolved)
  <1>1. /\ pc = "searching" /\ stack # <<>> /\ stack' = SubSeq(stack, 1, d - 1)
        /\ external' \cup internal' = external \cup internal \cup {Top}
        /\ UNCHANGED <<pc, links, position>>
    BY DEF SearchReturn
  <1>2. /\ links \in Seq(Link) /\ stack \in Seq(Known) /\ position \in Nat \ {0}
        /\ Top \in Known /\ d \in Nat \ {0}
    BY <1>1, TopKnown DEF IInv, PhaseInv, SearchInv, StackInv
  <1>3. /\ DOMAIN stack = 1..d /\ DOMAIN stack' = 1..(d - 1) /\ Len(stack') = d - 1
        /\ \A k \in 1..(d - 1) : stack'[k] = stack[k]
    <2> DEFINE s == SubSeq(stack, 1, d - 1)
    <2>1. d - 1 \in Nat
      BY <1>2
    <2>2. s \in Seq(Known) /\ Len(s) = d - 1 /\ \A k \in 1..(d - 1) : s[k] = stack[k]
      <3>1. s \in Seq(Known)
        BY <1>2, <2>1
      <3>2. Len(s) = d - 1
        BY <1>2, <2>1
      <3>3. \A k \in 1..(d - 1) : s[k] = stack[k]
        BY <1>2, <2>1
      <3> QED
        BY <3>1, <3>2, <3>3
    <2>3. DOMAIN s = 1..(d - 1) /\ DOMAIN stack = 1..d
      BY <1>2, <2>1, <2>2
    <2> HIDE DEF s
    <2>4. stack' = s
      BY <1>1 DEF s
    <2> QED
      BY <2>2, <2>3, <2>4
  <1>4. Known' = Known
    BY <1>1, Frame
  <1>5. Unresolved' = Unresolved \ {Top}
    BY <1>1, <1>4 DEF Unresolved
  <1>6. Top = stack[d] /\ d \in DOMAIN stack /\ Top \in Unresolved
    BY <1>1, <1>2, <1>3 DEF Top, FreshInv
  <1>7. FreshInv'
    <2>1. ASSUME NEW k \in 1..(d - 1)
          PROVE  k \in DOMAIN stack /\ stack'[k] \in Unresolved'
      <3>1. k \in 1..d /\ k # d
        BY <1>2
      <3>2. stack[k] \in Unresolved /\ stack[k] # stack[d]
        BY <1>1, <1>3, <1>6, <3>1 DEF FreshInv
      <3> QED
        BY <1>3, <1>5, <1>6, <3>1, <3>2
    <2>2. \A k, l \in 1..(d - 1) : k # l => stack'[k] # stack'[l]
      BY <1>1, <1>3, <2>1 DEF FreshInv
    <2> QED
      BY <1>3, <2>1, <2>2 DEF FreshInv
  <1>8. u \in Nat /\ IsFiniteSet(Unresolved)
    BY <1>2, UnresolvedFinite
  <1>9. Cardinality(Unresolved') = u - 1
    BY <1>5, <1>6, <1>8, FS_RemoveElement
  <1> DEFINE n == Len(links)
             c == Cardinality(Unresolved')
             e == Len(stack')
  <1>10. n \in Nat /\ Budget = (n + 1 - position) + 2 * u - d
    BY <1>2 DEF Budget
  <1>11. Budget' = (n + 1 - position) + 2 * c - e
    BY <1>1 DEF Budget
  <1>12. c = u - 1 /\ e = d - 1
    BY <1>3, <1>9
  <1> HIDE DEF n, c, d, e, u
  <1> QED
    BY <1>2, <1>7, <1>8, <1>10, <1>11, <1>12

\* A call is of a link that has no result and is not being searched.
LEMMA PushFresh ==
    ASSUME IInv, FreshInv, pc = "searching", NEW i \in Unresolved, i \notin Visiting,
           stack' = Append(stack, i),
           UNCHANGED <<pc, links, position, external, internal>>
    PROVE  FreshInv' /\ Budget' = Budget - 1
  <1> DEFINE d == Len(stack)
             u == Cardinality(Unresolved)
             n == Len(links)
             e == Len(stack')
  <1>1. links \in Seq(Link) /\ stack \in Seq(Known) /\ position \in Nat \ {0} /\ i \in Known
    BY DEF IInv, PhaseInv, SearchInv, StackInv, Unresolved
  <1>2. d \in Nat /\ DOMAIN stack = 1..d /\ DOMAIN stack' = 1..(d + 1) /\ e = d + 1
    BY <1>1
  <1>3. stack'[d + 1] = i /\ \A k \in 1..d : stack'[k] = stack[k]
    BY <1>1
  <1>4. Known' = Known
    BY Frame
  <1>5. Unresolved' = Unresolved
    BY <1>4 DEF Unresolved
  <1>6. \A k \in 1..d : stack[k] # i
    BY <1>2 DEF Visiting
  <1>7. u \in Nat /\ n \in Nat
    BY <1>1, UnresolvedFinite
  <1>8. Budget = (n + 1 - position) + 2 * u - d
    BY DEF Budget
  <1>9. Budget' = (n + 1 - position) + 2 * u - e
    BY <1>5 DEF Budget
  <1> HIDE DEF d, e, u, n
  <1>10. 1..(d + 1) = 1..d \cup {d + 1} /\ d + 1 \notin 1..d
    BY <1>2
  <1>11. FreshInv'
    <2>1. \A k \in 1..(d + 1) : stack'[k] \in Unresolved'
      BY <1>2, <1>3, <1>5, <1>10 DEF FreshInv
    <2>2. \A k, l \in 1..(d + 1) : k # l => stack'[k] # stack'[l]
      BY <1>2, <1>3, <1>6, <1>10 DEF FreshInv
    <2> QED
      BY <1>2, <2>1, <2>2 DEF FreshInv
  <1> QED
    BY <1>1, <1>2, <1>7, <1>8, <1>9, <1>11

\* A step of the search ends it or uses up one unit.
LEMMA SearchSpends ==
    ASSUME IInv, FreshInv, Search
    PROVE  FreshInv' /\ (pc' = "done" \/ Budget' = Budget - 1)
  <1>0. pc = "searching"
    BY DEF Search, SearchReturn, SearchCall, SearchCycle, CollectAsk, CollectAppend, CollectEnd
  <1>a. links \in Seq(Link) /\ position \in Nat \ {0} /\ StackInv /\ WellFormed
    BY <1>0 DEF IInv, PhaseInv, SearchInv
  <1>1. CASE SearchReturn
    BY <1>1, ReturnFresh
  <1>2. CASE SearchCall
    <2>1. /\ stack # <<>> /\ ~Settled(Top) /\ Callee(Top) \notin Visiting
          /\ stack' = Append(stack, Callee(Top))
          /\ UNCHANGED <<pc, links, position, external, internal>>
      BY <1>2 DEF SearchCall, Calls
    <2>2. Pending(Top) # {} /\ Callee(Top) \notin external /\ Top \in Known
      BY <1>a, <2>1, TopKnown DEF Settled
    <2>3. Callee(Top) \in Pending(Top)
      BY <1>a, <2>2, CalleePending
    <2>4. Callee(Top) \in Unresolved
      BY <1>a, <2>2, <2>3, NeedsKnown DEF Pending, Unresolved
    <2> QED
      BY <1>0, <2>1, <2>4, PushFresh
  <1>3. CASE SearchCycle \/ CollectEnd
    <2>1. pc' = "done"
      BY <1>3 DEF SearchCycle, CollectEnd, Fail
    <2> QED
      BY <2>1 DEF FreshInv
  <1>4. CASE CollectAsk
    <2>1. /\ stack = <<>> /\ stack' = <<Asked>> /\ position <= Len(links)
          /\ Asked \notin external \cup internal
          /\ UNCHANGED <<pc, links, position, external, internal>>
      BY <1>4 DEF CollectAsk
    <2>2. Asked \in Unresolved
      BY <1>a, <2>1 DEF Asked, Known, Unresolved
    <2>3. stack' = Append(stack, Asked) /\ Asked \notin Visiting
      BY <2>1 DEF Visiting
    <2> QED
      BY <1>0, <2>1, <2>2, <2>3, PushFresh
  <1>5. CASE CollectAppend
    <2>1. position' = position + 1 /\ UNCHANGED <<pc, links, stack, external, internal>>
      BY <1>5 DEF CollectAppend
    <2>2. Known' = Known
      BY <2>1, Frame
    <2>3. Unresolved' = Unresolved
      BY <2>1, <2>2 DEF Unresolved
    <2>4. FreshInv'
      BY <2>1, <2>3 DEF FreshInv
    <2> DEFINE n == Len(links)
               u == Cardinality(Unresolved)
               d == Len(stack)
    <2>5. n \in Nat /\ u \in Nat /\ d \in Nat
      BY <1>a, UnresolvedFinite DEF StackInv
    <2>6. Budget = (n + 1 - position) + 2 * u - d
      BY DEF Budget
    <2>7. Budget' = (n + 1 - (position + 1)) + 2 * u - d
      BY <2>1, <2>3 DEF Budget
    <2> HIDE DEF n, u, d
    <2> QED
      BY <1>a, <2>4, <2>5, <2>6, <2>7
  <1> QED
    BY <1>1, <1>2, <1>3, <1>4, <1>5 DEF Search

LEMMA FreshStep == IInv /\ FreshInv /\ [Next]_vars => FreshInv'
  <1> SUFFICES ASSUME IInv, FreshInv, [Next]_vars PROVE FreshInv'
    OBVIOUS
  <1>1. CASE Search
    BY <1>1, SearchSpends
  <1>2. CASE CheckTopology
    <2>1. pc' = "searching" => stack' = <<>>
      BY <1>2 DEF CheckTopology, Fail, searchVars, IInv, PhaseInv
    <2> QED
      BY <2>1 DEF FreshInv
  <1>3. CASE Dump \/ ResolveStep \/ ResolvesEnd
    <2>1. pc' # "searching"
      BY <1>3 DEF Dump, DumpFails, DecodeFails, ReceiveLink, ReceiveDone, ResolveStep, Resolve,
                  ResolveFails, ResolvesEnd, Fail
    <2> QED
      BY <2>1 DEF FreshInv
  <1>4. CASE UNCHANGED vars
    <2>1. UNCHANGED <<pc, links, stack, external, internal>>
      BY <1>4 DEF vars, searchVars
    <2>2. Unresolved' = Unresolved
      BY <2>1, Frame DEF Unresolved
    <2> QED
      BY <2>1, <2>2 DEF FreshInv
  <1> QED
    BY <1>1, <1>2, <1>3, <1>4 DEF Next, Terminated

\* The classification of a dump is linear: it takes at most three steps per
\* link and one more, because results are kept from one search for the next
\* and no call is of a link that is being searched.
THEOREM SearchLinear ==
    Spec => /\ [](pc = "searching" => Budget \in 0..(3 * Len(links)))
            /\ [][Search => pc' = "done" \/ Budget' = Budget - 1]_vars
  <1>1. IInv /\ FreshInv => (pc = "searching" => Budget \in 0..(3 * Len(links)))
    BY BudgetBounds
  <1>2. IInv /\ FreshInv /\ [Next]_vars => [Search => pc' = "done" \/ Budget' = Budget - 1]_vars
    BY SearchSpends
  <1> QED
    BY <1>1, <1>2, Invariance, FreshInit, FreshStep, PTL DEF Spec
=============================================================================
