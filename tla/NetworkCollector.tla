-------------------------- MODULE NetworkCollector --------------------------
(***************************************************************************)
(* The network collector (src/internal/observe/network.go) over the link   *)
(* source (src/internal/platform): the kernel's links are dumped over      *)
(* netlink, the device of each is looked up in sysfs, and the topology     *)
(* they form is searched for the links that reach a physical device.       *)
(*                                                                         *)
(* The kernel goes on while the dump is read: a link may be gone when its  *)
(* device is looked up, and the links of one dump need not fit together.   *)
(* The recursion of externallyCapable is a stack of link indexes; since    *)
(* every call that returns has stored its result in resolved, a caller     *)
(* that goes on reads it there.                                            *)
(***************************************************************************)
EXTENDS Outcome, Naturals, Sequences, FiniteSets, SequencesExt

CONSTANTS
    Indexes,        \* interface indexes
    NoIndex,        \* a nil pointer to an index
    LinkInputs(_),  \* what the n-th link of a dump may be
    Paths(_),       \* what the sysfs entry of a link may point to
    MaximumLinks    \* maximumLinks and maximumInterfaces

ASSUME LinkAssumption == MaximumLinks \in Nat \ {0} /\ NoIndex \notin Indexes

VARIABLES
    pc,             \* where collectNetwork is
    links,          \* the links of the dump; path is filled in afterwards
    position,       \* the loop variable of Links, then of collectNetwork
    external,       \* the indexes resolved to true
    internal,       \* the indexes resolved to false
    stack,          \* the calls of externallyCapable, innermost last
    interfaces,     \* the names collectNetwork has appended
    reported,       \* the same, sorted
    outcome,        \* what collectNetwork returned
    cause           \* history: why it failed

searchVars == <<external, internal, stack, interfaces>>
vars == <<pc, links, position, searchVars, reported, outcome, cause>>

Kinds == {"", "vlan", "bond", "bridge"}
DevicePaths == {"unread", "physical", "virtual", "elsewhere"}
Link ==
    [index : Indexes, name : Nat, ethernet : BOOLEAN, kind : Kinds,
     lower : Indexes \cup {NoIndex}, master : Indexes \cup {NoIndex}, path : DevicePaths]

TypeOK ==
    /\ pc \in {"dumping", "resolving", "checking", "searching", "done"}
    /\ links \in Seq(Link)
    /\ position \in Nat
    /\ {external, internal} \subseteq SUBSET Indexes
    /\ stack \in Seq(Indexes)
    /\ {interfaces, reported} \subseteq Seq(Nat)
    /\ outcome \in {"none", "present"} \cup Reasons

\* A decoded link has no device path yet; looking one up gives a path.
ASSUME InputsAssumption ==
    \A n \in 1..(MaximumLinks + 1) :
        /\ LinkInputs(n) \subseteq Link
        /\ \A link \in LinkInputs(n) : Paths(link) \subseteq DevicePaths

Init ==
    /\ pc = "dumping"
    /\ links = <<>>
    /\ position = 1
    /\ external = {} /\ internal = {}
    /\ stack = <<>>
    /\ interfaces = <<>> /\ reported = <<>>
    /\ outcome = "none"
    /\ cause = "none"

Fail(reason, why) ==
    /\ pc' = "done"
    /\ outcome' = reason
    /\ cause' = why
    /\ UNCHANGED <<position, searchVars, reported>>

-----------------------------------------------------------------------------
(* readLinks and Links.                                                    *)

\* The socket, a receive or its deadline fails, the dump is too large, or the
\* kernel answers with an error.
DumpFails(error) ==
    /\ pc = "dumping"
    /\ Fail(acquisitionFailure(error, "unsupported"), "dump")
    /\ links' = <<>>

\* The attributes of a link are truncated or lack its identity.
DecodeFails ==
    /\ pc = "dumping"
    /\ Fail("temporarily_unavailable", "decode")
    /\ links' = <<>>

\* Messages of another sequence number, and acknowledgements, are skipped.
ReceiveLink(link) ==
    /\ pc = "dumping"
    /\ IF Len(links) = MaximumLinks
       THEN Fail("temporarily_unavailable", "limit") /\ links' = <<>>
       ELSE /\ links' = Append(links, link)
            /\ UNCHANGED <<pc, position, searchVars, reported, outcome, cause>>

ReceiveDone ==
    /\ pc = "dumping"
    /\ pc' = "resolving"
    /\ UNCHANGED <<links, position, searchVars, reported, outcome, cause>>

Resolve ==
    /\ pc = "resolving"
    /\ position <= Len(links)
    /\ \E path \in Paths(links[position]) : links' = [links EXCEPT ![position].path = path]
    /\ position' = position + 1
    /\ UNCHANGED <<pc, searchVars, reported, outcome, cause>>

\* Readlink fails for a link that was removed or renamed since the dump, for
\* all links where there is no sysfs, and for reasons of its own.
ResolveFails(error, why) ==
    /\ pc = "resolving"
    /\ position <= Len(links)
    /\ Fail(acquisitionFailure(error, "unsupported"), why)
    /\ links' = <<>>

ResolvesEnd ==
    /\ pc = "resolving"
    /\ position > Len(links)
    /\ pc' = "checking"
    /\ UNCHANGED <<links, position, searchVars, reported, outcome, cause>>

-----------------------------------------------------------------------------
(* newLinkTopology.                                                        *)

Known == {links[p].index : p \in DOMAIN links}
LinkOf(i) == links[CHOOSE p \in DOMAIN links : links[p].index = i]

Distinct ==
    \A p, q \in DOMAIN links :
        p # q => links[p].index # links[q].index /\ links[p].name # links[q].name

WellFormed ==
    /\ Distinct
    /\ \A p \in DOMAIN links :
        /\ links[p].path # "elsewhere"
        /\ links[p].master \in Known \cup {NoIndex}
        /\ links[p].kind = "vlan" => links[p].lower \in Known

CheckTopology ==
    /\ pc = "checking"
    /\ IF WellFormed
       THEN /\ pc' = "searching"
            /\ position' = 1
            /\ UNCHANGED <<links, searchVars, reported, outcome, cause>>
       ELSE Fail("temporarily_unavailable", "malformed") /\ UNCHANGED links

-----------------------------------------------------------------------------
(* externallyCapable.                                                      *)

Members(i) == {p \in DOMAIN links : links[p].master = i}

\* A link that is neither Ethernet nor more than loopback is not searched.
Searched(i) == LinkOf(i).ethernet /\ LinkOf(i).path # "physical"

\* The links whose result the result of i depends on.
Needs(i) ==
    CASE ~Searched(i) -> {}
      [] LinkOf(i).kind = "vlan" -> {LinkOf(i).lower}
      [] LinkOf(i).kind \in {"bond", "bridge"} -> {links[p].index : p \in Members(i)}
      [] OTHER -> {}

Top == stack[Len(stack)]
Visiting == {stack[d] : d \in DOMAIN stack}

\* The loop over the members has passed those that resolved to false and
\* stops at the first of the others; a vlan has one lower link.
PendingMutant(i) == Needs(i) \ (internal \cup Visiting)
Pending(i) == Needs(i) \ internal
Callee(i) ==
    LET first == CHOOSE p \in DOMAIN links :
                    /\ links[p].index \in Pending(i)
                    /\ \A q \in DOMAIN links : q < p => links[q].index \notin Pending(i)
    IN  links[first].index

\* What the innermost call returns once it calls no more.
Physical(i) == LinkOf(i).ethernet /\ LinkOf(i).path = "physical"
SettledMutant(i) == Pending(i) = {}
Settled(i) == Pending(i) # {} => Callee(i) \in external
ResultOf(i) == Physical(i) \/ Pending(i) # {}

SearchReturn ==
    /\ pc = "searching" /\ stack # <<>>
    /\ Settled(Top)
    /\ external' = IF ResultOf(Top) THEN external \cup {Top} ELSE external
    /\ internal' = IF ResultOf(Top) THEN internal ELSE internal \cup {Top}
    /\ stack' = SubSeq(stack, 1, Len(stack) - 1)
    /\ UNCHANGED <<pc, links, position, interfaces, reported, outcome, cause>>

CallsMutant(i) == Len(stack) < 2
Calls(i) == i \notin Visiting

SearchCall ==
    /\ pc = "searching" /\ stack # <<>>
    /\ ~Settled(Top)
    /\ Calls(Callee(Top))
    /\ stack' = Append(stack, Callee(Top))
    /\ UNCHANGED <<pc, links, position, external, internal, interfaces, reported, outcome, cause>>

\* The error unwinds every call; deferred deletes empty visiting.
SearchCycle ==
    /\ pc = "searching" /\ stack # <<>>
    /\ ~Settled(Top)
    /\ ~Calls(Callee(Top))
    /\ Fail("temporarily_unavailable", "cycle")
    /\ UNCHANGED links

-----------------------------------------------------------------------------
(* The loop of collectNetwork, which asks for every link.                  *)

Asked == links[position].index
Reports(i) == i \in external

CollectAsk ==
    /\ pc = "searching" /\ stack = <<>>
    /\ position <= Len(links)
    /\ Asked \notin external \cup internal
    /\ stack' = <<Asked>>
    /\ UNCHANGED <<pc, links, position, external, internal, interfaces, reported, outcome, cause>>

CollectAppend ==
    /\ pc = "searching" /\ stack = <<>>
    /\ position <= Len(links)
    /\ Asked \in external \cup internal
    /\ interfaces' = IF Reports(Asked) THEN Append(interfaces, links[position].name)
                                       ELSE interfaces
    /\ position' = position + 1
    /\ UNCHANGED <<pc, links, external, internal, stack, reported, outcome, cause>>

SortedNames(names) == SetToSortSeq(names, <)

CollectEnd ==
    /\ pc = "searching" /\ stack = <<>>
    /\ position > Len(links)
    /\ pc' = "done"
    /\ outcome' = "present"
    /\ reported' = SortedNames(ToSet(interfaces))
    /\ UNCHANGED <<links, position, searchVars, cause>>

-----------------------------------------------------------------------------
Dump ==
    \/ \E error \in Errors : DumpFails(error)
    \/ DecodeFails
    \/ \E link \in LinkInputs(Len(links) + 1) : ReceiveLink(link)
    \/ ReceiveDone
ResolveStep ==
    \/ Resolve
    \/ ResolveFails("not_exist", "vanished")
    \/ position = 1 /\ ResolveFails("not_exist", "absent")
    \/ \E error \in {"permission", "other"} : ResolveFails(error, "read")
Search == SearchReturn \/ SearchCall \/ SearchCycle \/ CollectAsk \/ CollectAppend \/ CollectEnd

Terminated == pc = "done" /\ UNCHANGED vars

Next == Dump \/ ResolveStep \/ ResolvesEnd \/ CheckTopology \/ Search \/ Terminated

Spec == Init /\ [][Next]_vars

\* The search is computation: it goes on by itself.
FairSpec == Spec /\ WF_vars(CheckTopology) /\ WF_vars(Search)

-----------------------------------------------------------------------------
(* Safety.                                                                 *)

\* "External-capable": a link that is physical Ethernet, or a vlan, bond or
\* bridge one of whose lower links is.  The least set closed under this,
\* whether or not the links form a cycle.
ClosedUnder(set) == \A i \in Known : Physical(i) \/ Needs(i) \cap set # {} => i \in set
External == {i \in Known : \A set \in SUBSET Known : ClosedUnder(set) => i \in set}

\* The interfaces a snapshot reports are the external-capable ones, no more
\* (the search fails closed) and no less, once and by name, as validateNetwork
\* and the encoder require, whatever order the kernel lists the links in, and
\* although results are kept from one search for the next.
ExternalNames == {links[p].name : p \in {q \in DOMAIN links : links[q].index \in External}}
ReportedIsExternal == outcome = "present" => reported = SortedNames(ExternalNames)

\* Only a real cycle is taken for one: a topology that can be ranked is
\* classified.
Acyclic ==
    \E rank \in [Known -> 0..MaximumLinks] :
        \A i \in Known : \A j \in Needs(i) : rank[j] < rank[i]
CyclesOnly == cause = "cycle" => ~Acyclic

-----------------------------------------------------------------------------
(* Liveness.                                                               *)

\* A search ends, whatever graph the links form.
SearchEnds == pc = "checking" ~> pc = "done"

-----------------------------------------------------------------------------
(* What the documentation says and the code does not do.                   *)

\* "disappearance ... temporarily_unavailable" (docs/architecture-v0.1.md): a
\* link that is gone when its device is looked up does not make the network
\* group unsupported.
DisappearanceTemporary == cause = "vanished" => outcome = "temporarily_unavailable"
=============================================================================
