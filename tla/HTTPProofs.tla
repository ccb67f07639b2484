----------------------------- MODULE HTTPProofs -----------------------------
(***************************************************************************)
(* The safety of RequestHandler for any requests and any capacity, and of  *)
(* LimitedListener for any connections, closers and limit.                 *)
(***************************************************************************)
EXTENDS RequestHandler, LimitedListener, FiniteSetTheorems, TLAPS

(* The inductive invariant of the handler. *********************************)

Holders == {r \in Requests : at[r] \in Holding}

\* Where a request is determines whether its header is out.
HeaderInv ==
    \A r \in Requests :
        /\ at[r] \in {"new", "entry", "admit", "provider", "checkFailed", "decide", "write200",
                      "write500", "recover500"} => statuses[r] = <<>>
        /\ at[r] \in {"refused", "body", "body500", "announce", "lastWords"} =>
             Len(statuses[r]) = 1
        /\ at[r] \in {"leave", "done"} => gone[r] \/ Len(statuses[r]) = 1
        /\ Len(statuses[r]) <= 1

\* A request whose provider returned after a failure gets no further than the
\* second look at the flag, and from there to an error reply or to a panic.
DoomedPlaces == {"checkFailed", "body", "leave", "recovered", "recover500", "lastWords", "done"}
DocumentHeader == <<200>>
DoomedInv ==
    \A r \in doomed :
        /\ failed
        /\ at[r] \in DoomedPlaces
        /\ statuses[r] # DocumentHeader

\* The flag is set before the failure is answered and announced.  Until it is
\* announced somebody is on the way to do so.
OnTheWay == {"write500", "body500", "announce", "recovered", "recover500", "lastWords"}
FailureInv ==
    /\ fatalCalls = IF once = "unused" THEN 0 ELSE 1
    /\ once \in Requests => at[once] \in {"announce", "lastWords"}
    /\ once # "unused" => failed
    /\ \A r \in Requests :
        at[r] \in {"write500", "body500", "announce", "recover500", "lastWords"} => failed
    /\ failed => once # "unused" \/ \E r \in Requests : at[r] \in OnTheWay

AdmissionInv == IsFiniteSet(Holders) /\ AdmissionAccounting

IInv == TypeOK /\ AdmissionInv /\ HeaderInv /\ DoomedInv /\ FailureInv

-----------------------------------------------------------------------------
(* The admission.                                                          *)

\* Admission adds a holder.
LEMMA EnterHolding ==
    ASSUME IInv, NEW r \in Requests, NEW place \in Holding, at[r] \notin Holding,
           Admits, admission' = admission + 1, at' = [at EXCEPT ![r] = place]
    PROVE  AdmissionInv'
  <1>1. Holders' = Holders \cup {r} /\ r \notin Holders
    BY DEF IInv, TypeOK, Holders
  <1>2. IsFiniteSet(Holders) /\ admission = Cardinality(Holders)
    BY DEF IInv, AdmissionInv, AdmissionAccounting, Holders
  <1>3. IsFiniteSet(Holders') /\ Cardinality(Holders') = Cardinality(Holders) + 1
    BY <1>1, <1>2, FS_AddElement
  <1>4. admission' \in 0..Capacity
    BY CapacityAssumption DEF IInv, TypeOK, Admits
  <1> QED
    BY <1>2, <1>3, <1>4 DEF AdmissionInv, AdmissionAccounting, Holders

\* The deferred receive removes one, so it finds a token.
LEMMA LeaveHolding ==
    ASSUME IInv, NEW r \in Requests, NEW place \in Places \ Holding, at[r] \in Holding,
           admission' = Release, at' = [at EXCEPT ![r] = place]
    PROVE  AdmissionInv'
  <1>1. Holders' = Holders \ {r} /\ r \in Holders
    BY DEF IInv, TypeOK, Holders
  <1>2. IsFiniteSet(Holders) /\ admission = Cardinality(Holders)
    BY DEF IInv, AdmissionInv, AdmissionAccounting, Holders
  <1>3. IsFiniteSet(Holders') /\ Cardinality(Holders') = Cardinality(Holders) - 1
    BY <1>1, <1>2, FS_RemoveElement
  <1>4. Cardinality(Holders') \in Nat
    BY <1>3, FS_CardinalityType
  <1>5. admission' \in 0..Capacity
    BY <1>2, <1>3, <1>4, CapacityAssumption DEF IInv, TypeOK, Release
  <1> QED
    BY <1>2, <1>3, <1>5 DEF AdmissionInv, AdmissionAccounting, Holders, Release

\* Other steps neither enter nor leave.
LEMMA StayHolding ==
    ASSUME IInv, NEW r \in Requests, NEW place \in Places, at[r] \in Holding <=> place \in Holding,
           admission' = admission, at' = [at EXCEPT ![r] = place]
    PROVE  AdmissionInv'
  <1>1. Holders' = Holders
    BY DEF IInv, TypeOK, Holders
  <1> QED
    BY <1>1 DEF IInv, AdmissionInv, AdmissionAccounting, Holders

-----------------------------------------------------------------------------
(* The steps.                                                              *)

LEMMA InitInv == Init => IInv
  <1> SUFFICES ASSUME Init PROVE IInv
    OBVIOUS
  <1>1. TypeOK
    <2>1. gone \in [Requests -> BOOLEAN] /\ failed \in BOOLEAN
      BY Zenon DEF Init
    <2>2. admission \in 0..Capacity /\ fatalCalls \in Nat
      BY CapacityAssumption DEF Init
    <2>3. /\ at \in [Requests -> Places]
          /\ answer \in [Requests -> {"none"} \cup Answers]
          /\ statuses \in [Requests -> Seq({200, 400, 500, 503})]
      BY DEF Init, Places, Early
    <2> QED
      BY <2>1, <2>2, <2>3 DEF Init, TypeOK
  <1>2. Holders = {}
    BY DEF Init, Holders, Holding
  <1>3. IsFiniteSet(Holders) /\ Cardinality(Holders) = 0
    BY <1>2, FS_EmptySet
  <1>6. AdmissionInv
    BY <1>3, CapacityAssumption DEF AdmissionInv, AdmissionAccounting, Holders, Init
  <1>4. HeaderInv /\ DoomedInv
    BY DEF Init, HeaderInv, DoomedInv
  <1>5. FailureInv
    BY RequestsAssumption DEF Init, FailureInv
  <1> QED
    BY <1>1, <1>4, <1>5, <1>6 DEF IInv

\* A request that is not past its answer is not doomed, so its step, which may set the flag,
\* leaves those that are alone.
LEMMA UndoomedMoves ==
    ASSUME IInv, NEW r \in Requests, at[r] \notin DoomedPlaces,
           UNCHANGED doomed, failed => failed',
           \A q \in Requests \ {r} : at'[q] = at[q] /\ statuses'[q] = statuses[q]
    PROVE  DoomedInv'
  <1>1. doomed \subseteq Requests \ {r}
    BY DEF IInv, TypeOK, DoomedInv
  <1> QED
    BY <1>1 DEF IInv, DoomedInv

\* Nor does a step that stays where doomed requests may be and writes no 200.
LEMMA DoomedMoves ==
    ASSUME IInv, NEW r \in Requests, at'[r] \in DoomedPlaces,
           UNCHANGED doomed, failed => failed',
           statuses'[r] = statuses[r] \/ statuses'[r] # DocumentHeader,
           \A q \in Requests \ {r} : at'[q] = at[q] /\ statuses'[q] = statuses[q]
    PROVE  DoomedInv'
  <1> SUFFICES ASSUME NEW q \in doomed
               PROVE  failed' /\ at'[q] \in DoomedPlaces /\ statuses'[q] # DocumentHeader
    BY DEF DoomedInv
  <1>1. q \in Requests /\ failed /\ at[q] \in DoomedPlaces /\ statuses[q] # DocumentHeader
    BY DEF IInv, TypeOK, DoomedInv
  <1>2. CASE q = r
    BY <1>1, <1>2
  <1>3. CASE q # r
    BY <1>1, <1>3
  <1> QED
    BY <1>2, <1>3

\* The client.
LEMMA EnvironmentStep ==
    ASSUME IInv, NEW r \in Requests, ClientLeaves(r)
    PROVE  IInv'
  <1>1. TypeOK'
    <2>1. gone' \in [Requests -> BOOLEAN]
      BY Zenon DEF IInv, TypeOK, ClientLeaves
    <2> QED
      BY <2>1 DEF IInv, TypeOK, ClientLeaves
  <1>2. AdmissionInv'
    BY DEF IInv, AdmissionInv, AdmissionAccounting, Holders, ClientLeaves
  <1>3. HeaderInv'
    <2>1. UNCHANGED <<at, statuses>> /\ \A q \in Requests : gone[q] => gone'[q]
      BY DEF IInv, TypeOK, ClientLeaves
    <2> QED
      BY <2>1, Zenon DEF IInv, HeaderInv
  <1>4. DoomedInv' /\ FailureInv'
    BY DEF IInv, DoomedInv, FailureInv, OnTheWay, ClientLeaves
  <1> QED
    BY <1>1, <1>2, <1>3, <1>4 DEF IInv

\* Before admission.
LEMMA RefusalStep ==
    ASSUME IInv, NEW r \in Requests,
           Accept(r) \/ RefuseInvalid(r) \/ CheckEntry(r) \/ RefuseBusy(r) \/ RefusalBody(r)
    PROVE  IInv'
  <1>1. CASE Accept(r)
    <2>1. TypeOK'
      BY <1>1 DEF IInv, TypeOK, Accept, Goto, Respond, Places, Early, Holding
    <2>2. AdmissionInv'
      BY <1>1, StayHolding DEF Accept, Goto, Places, Early, Holding
    <2>3. HeaderInv'
      BY <1>1 DEF IInv, TypeOK, HeaderInv, Accept, Goto, Respond
    <2>4. DoomedInv'
      <3>1. /\ at[r] \notin DoomedPlaces
            /\ UNCHANGED doomed /\ (failed => failed')
        BY <1>1 DEF Accept, Goto, Respond, DoomedPlaces
      <3>2. \A q \in Requests \ {r} : at'[q] = at[q] /\ statuses'[q] = statuses[q]
        BY <1>1 DEF IInv, TypeOK, Accept, Goto, Respond
      <3> QED
        BY <3>1, <3>2, UndoomedMoves
    <2>5. FailureInv'
      BY <1>1, RequestsAssumption DEF IInv, TypeOK, FailureInv, OnTheWay, Accept, Goto
    <2> QED
      BY <2>1, <2>2, <2>3, <2>4, <2>5 DEF IInv
  <1>2. CASE RefuseInvalid(r)
    <2>1. TypeOK'
      BY <1>2 DEF IInv, TypeOK, RefuseInvalid, Refuse, Goto, Respond, Places, Early, Holding
    <2>2. AdmissionInv'
      BY <1>2, StayHolding DEF RefuseInvalid, Refuse, Goto, Places, Early, Holding
    <2>3. HeaderInv'
      BY <1>2 DEF IInv, TypeOK, HeaderInv, RefuseInvalid, Refuse, Goto, Respond
    <2>4. DoomedInv'
      <3>1. /\ at[r] \notin DoomedPlaces
            /\ UNCHANGED doomed /\ (failed => failed')
        BY <1>2 DEF RefuseInvalid, Refuse, Goto, Respond, DoomedPlaces
      <3>2. \A q \in Requests \ {r} : at'[q] = at[q] /\ statuses'[q] = statuses[q]
        BY <1>2 DEF IInv, TypeOK, RefuseInvalid, Refuse, Goto, Respond
      <3> QED
        BY <3>1, <3>2, UndoomedMoves
    <2>5. FailureInv'
      BY <1>2, RequestsAssumption DEF IInv, TypeOK, FailureInv, OnTheWay, RefuseInvalid,
                                         Refuse, Goto
    <2> QED
      BY <2>1, <2>2, <2>3, <2>4, <2>5 DEF IInv
  <1>3. CASE CheckEntry(r) /\ failed
    <2>0. /\ at[r] = "entry" /\ at' = [at EXCEPT ![r] = "refused"] /\ failed
          /\ statuses' = [statuses EXCEPT ![r] = Append(@, 503)]
          /\ UNCHANGED <<admission, failed, once, fatalCalls, gone, answer, doomed>>
      BY <1>3 DEF CheckEntry, Refuse, Goto, Respond
    <2>1. TypeOK'
      BY <2>0 DEF IInv, TypeOK, Places, Early, Holding
    <2>2. AdmissionInv'
      BY <2>0, StayHolding DEF Places, Early, Holding
    <2>3. HeaderInv'
      BY <2>0 DEF IInv, TypeOK, HeaderInv
    <2>4. DoomedInv'
      <3>1. /\ at[r] \notin DoomedPlaces
            /\ UNCHANGED doomed /\ (failed => failed')
        BY <2>0 DEF DoomedPlaces
      <3>2. \A q \in Requests \ {r} : at'[q] = at[q] /\ statuses'[q] = statuses[q]
        BY <2>0 DEF IInv, TypeOK
      <3> QED
        BY <3>1, <3>2, UndoomedMoves
    <2>5. FailureInv'
      BY <2>0, RequestsAssumption DEF IInv, TypeOK, FailureInv, OnTheWay
    <2> QED
      BY <2>1, <2>2, <2>3, <2>4, <2>5 DEF IInv
  <1>4. CASE CheckEntry(r) /\ ~failed
    <2>0. /\ at[r] = "entry" /\ at' = [at EXCEPT ![r] = "admit"] /\ ~failed
          /\ statuses' = statuses
          /\ UNCHANGED <<admission, failed, once, fatalCalls, gone, answer, doomed>>
      BY <1>4 DEF CheckEntry, Refuse, Goto, Respond
    <2>1. TypeOK'
      BY <2>0 DEF IInv, TypeOK, Places, Early, Holding
    <2>2. AdmissionInv'
      BY <2>0, StayHolding DEF Places, Early, Holding
    <2>3. HeaderInv'
      BY <2>0 DEF IInv, TypeOK, HeaderInv
    <2>4. DoomedInv'
      <3>1. /\ at[r] \notin DoomedPlaces
            /\ UNCHANGED doomed /\ (failed => failed')
        BY <2>0 DEF DoomedPlaces
      <3>2. \A q \in Requests \ {r} : at'[q] = at[q] /\ statuses'[q] = statuses[q]
        BY <2>0 DEF IInv, TypeOK
      <3> QED
        BY <3>1, <3>2, UndoomedMoves
    <2>5. FailureInv'
      BY <2>0, RequestsAssumption DEF IInv, TypeOK, FailureInv, OnTheWay
    <2> QED
      BY <2>1, <2>2, <2>3, <2>4, <2>5 DEF IInv
  <1>5. CASE RefuseBusy(r)
    <2>1. TypeOK'
      BY <1>5 DEF IInv, TypeOK, RefuseBusy, Refuse, Goto, Respond, Places, Early, Holding
    <2>2. AdmissionInv'
      BY <1>5, StayHolding DEF RefuseBusy, Refuse, Goto, Places, Early, Holding
    <2>3. HeaderInv'
      BY <1>5 DEF IInv, TypeOK, HeaderInv, RefuseBusy, Refuse, Goto, Respond
    <2>4. DoomedInv'
      <3>1. /\ at[r] \notin DoomedPlaces
            /\ UNCHANGED doomed /\ (failed => failed')
        BY <1>5 DEF RefuseBusy, Refuse, Goto, Respond, DoomedPlaces
      <3>2. \A q \in Requests \ {r} : at'[q] = at[q] /\ statuses'[q] = statuses[q]
        BY <1>5 DEF IInv, TypeOK, RefuseBusy, Refuse, Goto, Respond
      <3> QED
        BY <3>1, <3>2, UndoomedMoves
    <2>5. FailureInv'
      BY <1>5, RequestsAssumption DEF IInv, TypeOK, FailureInv, OnTheWay, RefuseBusy, Refuse, Goto
    <2> QED
      BY <2>1, <2>2, <2>3, <2>4, <2>5 DEF IInv
  <1>6. CASE RefusalBody(r)
    <2>1. TypeOK'
      BY <1>6 DEF IInv, TypeOK, RefusalBody, Goto, Respond, Places, Early, Holding
    <2>2. AdmissionInv'
      BY <1>6, StayHolding DEF RefusalBody, Goto, Places, Early, Holding
    <2>3. HeaderInv'
      BY <1>6 DEF IInv, TypeOK, HeaderInv, RefusalBody, Goto, Respond
    <2>4. DoomedInv'
      <3>1. /\ at[r] \notin DoomedPlaces
            /\ UNCHANGED doomed /\ (failed => failed')
        BY <1>6 DEF RefusalBody, Goto, Respond, DoomedPlaces
      <3>2. \A q \in Requests \ {r} : at'[q] = at[q] /\ statuses'[q] = statuses[q]
        BY <1>6 DEF IInv, TypeOK, RefusalBody, Goto, Respond
      <3> QED
        BY <3>1, <3>2, UndoomedMoves
    <2>5. FailureInv'
      BY <1>6, RequestsAssumption DEF IInv, TypeOK, FailureInv, OnTheWay, RefusalBody, Goto
    <2> QED
      BY <2>1, <2>2, <2>3, <2>4, <2>5 DEF IInv
  <1> QED
    BY <1>1, <1>2, <1>3, <1>4, <1>5, <1>6

\* The send to admission.
LEMMA AdmitStep ==
    ASSUME IInv, NEW r \in Requests,
           Admit(r)
    PROVE  IInv'
  <1>1. CASE Admit(r)
    <2>1. AdmissionInv'
      BY <1>1, EnterHolding DEF Admit, Goto, Places, Early, Holding
    <2>2. TypeOK'
      BY <1>1, <2>1 DEF IInv, TypeOK, AdmissionInv, AdmissionAccounting, Admit, Goto, Places,
                            Holding
    <2>3. HeaderInv'
      BY <1>1 DEF IInv, TypeOK, HeaderInv, Admit, Goto, Respond
    <2>4. DoomedInv'
      <3>1. /\ at[r] \notin DoomedPlaces
            /\ UNCHANGED doomed /\ (failed => failed')
        BY <1>1 DEF Admit, DoomedPlaces
      <3>2. \A q \in Requests \ {r} : at'[q] = at[q] /\ statuses'[q] = statuses[q]
        BY <1>1 DEF IInv, TypeOK, Admit, Goto
      <3> QED
        BY <3>1, <3>2, UndoomedMoves
    <2>5. FailureInv'
      BY <1>1, RequestsAssumption DEF IInv, TypeOK, FailureInv, OnTheWay, Admit, Goto
    <2> QED
      BY <2>1, <2>2, <2>3, <2>4, <2>5 DEF IInv
  <1> QED
    BY <1>1

\* The second look at the flag and the switch.
LEMMA DecisionStep ==
    ASSUME IInv, NEW r \in Requests,
           \/ CheckFailed(r) \/ DecideUseless(r) \/ DecideError(r)
           \/ DecideLate(r) \/ DecideInvalid(r) \/ DecideDocument(r)
    PROVE  IInv'
  <1>1. CASE CheckFailed(r) /\ FailedMeanwhile
    <2>0. /\ at[r] = "checkFailed" /\ at' = [at EXCEPT ![r] = "body"] /\ failed
          /\ statuses' = [statuses EXCEPT ![r] = Append(@, 500)]
          /\ UNCHANGED <<admission, failed, once, fatalCalls, gone, answer, doomed>>
      BY <1>1 DEF CheckFailed, Goto, Respond, FailedMeanwhile
    <2>1. TypeOK'
      BY <2>0 DEF IInv, TypeOK, Places, Early, Holding
    <2>2. AdmissionInv'
      BY <2>0, StayHolding DEF Places, Early, Holding
    <2>3. HeaderInv'
      BY <2>0 DEF IInv, TypeOK, HeaderInv
    <2>4. DoomedInv'
      <3>1. at'[r] \in DoomedPlaces /\ UNCHANGED <<doomed, failed>>
        BY <2>0 DEF IInv, TypeOK, DoomedPlaces
      <3>2. \A q \in Requests \ {r} : at'[q] = at[q] /\ statuses'[q] = statuses[q]
        BY <2>0 DEF IInv, TypeOK
      <3>3. statuses[r] = <<>>
        BY <2>0 DEF IInv, HeaderInv
      <3>4. statuses'[r] = <<500>>
        BY <2>0, <3>3 DEF IInv, TypeOK
      <3>5. statuses'[r] # DocumentHeader
        BY <3>4 DEF DocumentHeader
      <3> QED
        BY <3>1, <3>2, <3>5, DoomedMoves
    <2>5. FailureInv'
      BY <2>0, RequestsAssumption DEF IInv, TypeOK, FailureInv, OnTheWay
    <2> QED
      BY <2>1, <2>2, <2>3, <2>4, <2>5 DEF IInv
  <1>2. CASE CheckFailed(r) /\ ~FailedMeanwhile
    <2>0. /\ at[r] = "checkFailed" /\ at' = [at EXCEPT ![r] = "decide"] /\ ~failed
          /\ statuses' = statuses
          /\ UNCHANGED <<admission, failed, once, fatalCalls, gone, answer, doomed>>
      BY <1>2 DEF CheckFailed, Goto, Respond, FailedMeanwhile
    <2>1. TypeOK'
      BY <2>0 DEF IInv, TypeOK, Places, Early, Holding
    <2>2. AdmissionInv'
      BY <2>0, StayHolding DEF Places, Early, Holding
    <2>3. HeaderInv'
      BY <2>0 DEF IInv, TypeOK, HeaderInv
    <2>4. DoomedInv'
      <3>1. doomed = {}
        BY <2>0 DEF IInv, DoomedInv
      <3> QED
        BY <2>0, <3>1 DEF DoomedInv
    <2>5. FailureInv'
      BY <2>0, RequestsAssumption DEF IInv, TypeOK, FailureInv, OnTheWay
    <2> QED
      BY <2>1, <2>2, <2>3, <2>4, <2>5 DEF IInv
  <1>3. CASE DecideUseless(r)
    <2>1. TypeOK'
      BY <1>3 DEF IInv, TypeOK, DecideUseless, Goto, Respond, Places, Early, Holding
    <2>2. AdmissionInv'
      BY <1>3, StayHolding DEF DecideUseless, Goto, Places, Early, Holding
    <2>3. HeaderInv'
      BY <1>3 DEF IInv, TypeOK, HeaderInv, DecideUseless, Goto, Respond
    <2>4. DoomedInv'
      <3>1. /\ at[r] \notin DoomedPlaces
            /\ UNCHANGED doomed /\ (failed => failed')
        BY <1>3 DEF DecideUseless, Goto, Respond, DoomedPlaces
      <3>2. \A q \in Requests \ {r} : at'[q] = at[q] /\ statuses'[q] = statuses[q]
        BY <1>3 DEF IInv, TypeOK, DecideUseless, Goto, Respond
      <3> QED
        BY <3>1, <3>2, UndoomedMoves
    <2>5. FailureInv'
      BY <1>3, RequestsAssumption DEF IInv, TypeOK, FailureInv, OnTheWay, DecideUseless, Goto
    <2> QED
      BY <2>1, <2>2, <2>3, <2>4, <2>5 DEF IInv
  <1>4. CASE DecideError(r)
    <2>1. TypeOK'
      BY <1>4 DEF IInv, TypeOK, DecideError, Goto, Respond, Places, Early, Holding
    <2>2. AdmissionInv'
      BY <1>4, StayHolding DEF DecideError, Goto, Places, Early, Holding
    <2>3. HeaderInv'
      BY <1>4 DEF IInv, TypeOK, HeaderInv, DecideError, Goto, Respond
    <2>4. DoomedInv'
      <3>1. /\ at[r] \notin DoomedPlaces
            /\ UNCHANGED doomed /\ (failed => failed')
        BY <1>4 DEF DecideError, Goto, Respond, DoomedPlaces
      <3>2. \A q \in Requests \ {r} : at'[q] = at[q] /\ statuses'[q] = statuses[q]
        BY <1>4 DEF IInv, TypeOK, DecideError, Goto, Respond
      <3> QED
        BY <3>1, <3>2, UndoomedMoves
    <2>5. FailureInv'
      BY <1>4, RequestsAssumption DEF IInv, TypeOK, FailureInv, OnTheWay, DecideError, Goto
    <2> QED
      BY <2>1, <2>2, <2>3, <2>4, <2>5 DEF IInv
  <1>5. CASE DecideLate(r)
    <2>1. TypeOK'
      BY <1>5 DEF IInv, TypeOK, DecideLate, Goto, Respond, Places, Early, Holding
    <2>2. AdmissionInv'
      BY <1>5, StayHolding DEF DecideLate, Goto, Places, Early, Holding
    <2>3. HeaderInv'
      BY <1>5 DEF IInv, TypeOK, HeaderInv, DecideLate, Goto, Respond
    <2>4. DoomedInv'
      <3>1. /\ at[r] \notin DoomedPlaces
            /\ UNCHANGED doomed /\ (failed => failed')
        BY <1>5 DEF DecideLate, Goto, Respond, DoomedPlaces
      <3>2. \A q \in Requests \ {r} : at'[q] = at[q] /\ statuses'[q] = statuses[q]
        BY <1>5 DEF IInv, TypeOK, DecideLate, Goto, Respond
      <3> QED
        BY <3>1, <3>2, UndoomedMoves
    <2>5. FailureInv'
      BY <1>5, RequestsAssumption DEF IInv, TypeOK, FailureInv, OnTheWay, DecideLate, Goto
    <2> QED
      BY <2>1, <2>2, <2>3, <2>4, <2>5 DEF IInv
  <1>6. CASE DecideInvalid(r)
    <2>1. TypeOK'
      BY <1>6 DEF IInv, TypeOK, DecideInvalid, Goto, Respond, Places, Early, Holding
    <2>2. AdmissionInv'
      BY <1>6, StayHolding DEF DecideInvalid, Goto, Places, Early, Holding
    <2>3. HeaderInv'
      BY <1>6 DEF IInv, TypeOK, HeaderInv, DecideInvalid, Goto, Respond
    <2>4. DoomedInv'
      <3>1. /\ at[r] \notin DoomedPlaces
            /\ UNCHANGED doomed /\ (failed => failed')
        BY <1>6 DEF DecideInvalid, Goto, Respond, DoomedPlaces
      <3>2. \A q \in Requests \ {r} : at'[q] = at[q] /\ statuses'[q] = statuses[q]
        BY <1>6 DEF IInv, TypeOK, DecideInvalid, Goto, Respond
      <3> QED
        BY <3>1, <3>2, UndoomedMoves
    <2>5. FailureInv'
      BY <1>6, RequestsAssumption DEF IInv, TypeOK, FailureInv, OnTheWay, DecideInvalid, Goto
    <2> QED
      BY <2>1, <2>2, <2>3, <2>4, <2>5 DEF IInv
  <1>7. CASE DecideDocument(r)
    <2>1. TypeOK'
      BY <1>7 DEF IInv, TypeOK, DecideDocument, Goto, Respond, Places, Early, Holding
    <2>2. AdmissionInv'
      BY <1>7, StayHolding DEF DecideDocument, Goto, Places, Early, Holding
    <2>3. HeaderInv'
      BY <1>7 DEF IInv, TypeOK, HeaderInv, DecideDocument, Goto, Respond
    <2>4. DoomedInv'
      <3>1. /\ at[r] \notin DoomedPlaces
            /\ UNCHANGED doomed /\ (failed => failed')
        BY <1>7 DEF DecideDocument, Goto, Respond, DoomedPlaces
      <3>2. \A q \in Requests \ {r} : at'[q] = at[q] /\ statuses'[q] = statuses[q]
        BY <1>7 DEF IInv, TypeOK, DecideDocument, Goto, Respond
      <3> QED
        BY <3>1, <3>2, UndoomedMoves
    <2>5. FailureInv'
      BY <1>7, RequestsAssumption DEF IInv, TypeOK, FailureInv, OnTheWay, DecideDocument, Goto
    <2> QED
      BY <2>1, <2>2, <2>3, <2>4, <2>5 DEF IInv
  <1> QED
    BY <1>1, <1>2, <1>3, <1>4, <1>5, <1>6, <1>7

\* The writes of the header and the body, and recover.
LEMMA WriteStep ==
    ASSUME IInv, NEW r \in Requests,
           \/ WriteHeader200(r) \/ WriteBody(r) \/ WriteInternalError(r) \/ WriteInternalBody(r)
           \/ Recover(r) \/ RecoverWrite(r)
    PROVE  IInv'
  <1>1. CASE WriteHeader200(r)
    <2>1. TypeOK'
      BY <1>1 DEF IInv, TypeOK, WriteHeader200, Goto, Respond, Places, Early, Holding
    <2>2. AdmissionInv'
      BY <1>1, StayHolding DEF WriteHeader200, Goto, Places, Early, Holding
    <2>3. HeaderInv'
      BY <1>1 DEF IInv, TypeOK, HeaderInv, WriteHeader200, Goto, Respond
    <2>4. DoomedInv'
      <3>1. /\ at[r] \notin DoomedPlaces
            /\ UNCHANGED doomed /\ (failed => failed')
        BY <1>1 DEF WriteHeader200, Goto, Respond, DoomedPlaces
      <3>2. \A q \in Requests \ {r} : at'[q] = at[q] /\ statuses'[q] = statuses[q]
        BY <1>1 DEF IInv, TypeOK, WriteHeader200, Goto, Respond
      <3> QED
        BY <3>1, <3>2, UndoomedMoves
    <2>5. FailureInv'
      BY <1>1, RequestsAssumption DEF IInv, TypeOK, FailureInv, OnTheWay, WriteHeader200, Goto
    <2> QED
      BY <2>1, <2>2, <2>3, <2>4, <2>5 DEF IInv
  <1>2. CASE WriteBody(r)
    <2>1. TypeOK'
      BY <1>2 DEF IInv, TypeOK, WriteBody, Goto, Respond, Places, Early, Holding
    <2>2. AdmissionInv'
      BY <1>2, StayHolding DEF WriteBody, Goto, Places, Early, Holding
    <2>3. HeaderInv'
      BY <1>2 DEF IInv, TypeOK, HeaderInv, WriteBody, Goto, Respond
    <2>4. DoomedInv'
      <3>1. at'[r] \in DoomedPlaces /\ UNCHANGED <<doomed, statuses>> /\ (failed => failed')
        BY <1>2 DEF IInv, TypeOK, WriteBody, Goto, DoomedPlaces
      <3>2. \A q \in Requests \ {r} : at'[q] = at[q] /\ statuses'[q] = statuses[q]
        BY <1>2 DEF IInv, TypeOK, WriteBody, Goto, Respond
      <3> QED
        BY <3>1, <3>2, DoomedMoves
    <2>5. FailureInv'
      BY <1>2, RequestsAssumption DEF IInv, TypeOK, FailureInv, OnTheWay, WriteBody, Goto
    <2> QED
      BY <2>1, <2>2, <2>3, <2>4, <2>5 DEF IInv
  <1>3. CASE WriteInternalError(r)
    <2>1. TypeOK'
      BY <1>3 DEF IInv, TypeOK, WriteInternalError, Goto, Respond, Places, Early, Holding
    <2>2. AdmissionInv'
      BY <1>3, StayHolding DEF WriteInternalError, Goto, Places, Early, Holding
    <2>3. HeaderInv'
      BY <1>3 DEF IInv, TypeOK, HeaderInv, WriteInternalError, Goto, Respond
    <2>4. DoomedInv'
      <3>1. /\ at[r] \notin DoomedPlaces
            /\ UNCHANGED doomed /\ (failed => failed')
        BY <1>3 DEF WriteInternalError, Goto, Respond, DoomedPlaces
      <3>2. \A q \in Requests \ {r} : at'[q] = at[q] /\ statuses'[q] = statuses[q]
        BY <1>3 DEF IInv, TypeOK, WriteInternalError, Goto, Respond
      <3> QED
        BY <3>1, <3>2, UndoomedMoves
    <2>5. FailureInv'
      BY <1>3, RequestsAssumption DEF IInv, TypeOK, FailureInv, OnTheWay, WriteInternalError, Goto
    <2> QED
      BY <2>1, <2>2, <2>3, <2>4, <2>5 DEF IInv
  <1>4. CASE WriteInternalBody(r)
    <2>1. TypeOK'
      BY <1>4 DEF IInv, TypeOK, WriteInternalBody, Goto, Respond, Places, Early, Holding
    <2>2. AdmissionInv'
      BY <1>4, StayHolding DEF WriteInternalBody, Goto, Places, Early, Holding
    <2>3. HeaderInv'
      BY <1>4 DEF IInv, TypeOK, HeaderInv, WriteInternalBody, Goto, Respond
    <2>4. DoomedInv'
      <3>1. /\ at[r] \notin DoomedPlaces
            /\ UNCHANGED doomed /\ (failed => failed')
        BY <1>4 DEF WriteInternalBody, Goto, Respond, DoomedPlaces
      <3>2. \A q \in Requests \ {r} : at'[q] = at[q] /\ statuses'[q] = statuses[q]
        BY <1>4 DEF IInv, TypeOK, WriteInternalBody, Goto, Respond
      <3> QED
        BY <3>1, <3>2, UndoomedMoves
    <2>5. FailureInv'
      BY <1>4, RequestsAssumption DEF IInv, TypeOK, FailureInv, OnTheWay, WriteInternalBody, Goto
    <2> QED
      BY <2>1, <2>2, <2>3, <2>4, <2>5 DEF IInv
  <1>5. CASE Recover(r) /\ Uncommitted(r)
    <2>1. TypeOK'
      BY <1>5 DEF IInv, TypeOK, Recover, Uncommitted, Goto, Respond, Places, Early, Holding
    <2>2. AdmissionInv'
      BY <1>5, StayHolding DEF Recover, Uncommitted, Goto, Places, Early, Holding
    <2>3. HeaderInv'
      BY <1>5 DEF IInv, TypeOK, HeaderInv, Recover, Uncommitted, Goto, Respond
    <2>4. DoomedInv'
      <3>1. at'[r] \in DoomedPlaces /\ UNCHANGED <<doomed, statuses>> /\ (failed => failed')
        BY <1>5 DEF IInv, TypeOK, Recover, Uncommitted, Goto, DoomedPlaces
      <3>2. \A q \in Requests \ {r} : at'[q] = at[q] /\ statuses'[q] = statuses[q]
        BY <1>5 DEF IInv, TypeOK, Recover, Uncommitted, Goto, Respond
      <3> QED
        BY <3>1, <3>2, DoomedMoves
    <2>5. FailureInv'
      BY <1>5, RequestsAssumption DEF IInv, TypeOK, FailureInv, OnTheWay, Recover, Uncommitted, Goto
    <2> QED
      BY <2>1, <2>2, <2>3, <2>4, <2>5 DEF IInv
  <1>6. CASE Recover(r) /\ ~Uncommitted(r)
    <2>1. TypeOK'
      BY <1>6 DEF IInv, TypeOK, Recover, Goto, Respond, Places, Early, Holding
    <2>2. AdmissionInv'
      BY <1>6, StayHolding DEF Recover, Goto, Places, Early, Holding
    <2>0. Len(statuses[r]) = 1
      <3> DEFINE n == Len(statuses[r])
      <3>1. statuses[r] \in Seq({200, 400, 500, 503})
        BY DEF IInv, TypeOK
      <3>2. statuses[r] # <<>>
        BY <1>6 DEF Uncommitted
      <3>3. n \in Nat /\ n # 0
        BY <3>1, <3>2
      <3>4. n <= 1
        BY DEF IInv, HeaderInv
      <3> HIDE DEF n
      <3>5. n = 1
        BY <3>3, <3>4
      <3> QED
        BY <3>5 DEF n
    <2>3. HeaderInv'
      BY <1>6, <2>0 DEF IInv, TypeOK, HeaderInv, Recover, Goto
    <2>4. DoomedInv'
      <3>1. at'[r] \in DoomedPlaces /\ UNCHANGED <<doomed, statuses>> /\ (failed => failed')
        BY <1>6 DEF IInv, TypeOK, Recover, Goto, DoomedPlaces
      <3>2. \A q \in Requests \ {r} : at'[q] = at[q] /\ statuses'[q] = statuses[q]
        BY <1>6 DEF IInv, TypeOK, Recover, Goto, Respond
      <3> QED
        BY <3>1, <3>2, DoomedMoves
    <2>5. FailureInv'
      BY <1>6, RequestsAssumption DEF IInv, TypeOK, FailureInv, OnTheWay, Recover, Goto
    <2> QED
      BY <2>1, <2>2, <2>3, <2>4, <2>5 DEF IInv
  <1>7. CASE RecoverWrite(r)
    <2>1. TypeOK'
      BY <1>7 DEF IInv, TypeOK, RecoverWrite, Goto, Respond, Places, Early, Holding
    <2>2. AdmissionInv'
      BY <1>7, StayHolding DEF RecoverWrite, Goto, Places, Early, Holding
    <2>3. HeaderInv'
      BY <1>7 DEF IInv, TypeOK, HeaderInv, RecoverWrite, Goto, Respond
    <2>4. DoomedInv'
      <3>1. /\ at'[r] \in DoomedPlaces /\ UNCHANGED <<doomed, failed>>
            /\ statuses[r] = <<>> /\ statuses' = [statuses EXCEPT ![r] = Append(@, 500)]
        BY <1>7 DEF IInv, TypeOK, HeaderInv, RecoverWrite, Goto, Respond, DoomedPlaces
      <3>2. \A q \in Requests \ {r} : at'[q] = at[q] /\ statuses'[q] = statuses[q]
        BY <1>7 DEF IInv, TypeOK, RecoverWrite, Goto, Respond
      <3>3. statuses'[r] = <<500>>
        BY <3>1 DEF IInv, TypeOK
      <3>4. statuses'[r] # DocumentHeader
        BY <3>3 DEF DocumentHeader
      <3> QED
        BY <3>1, <3>2, <3>4, DoomedMoves
    <2>5. FailureInv'
      BY <1>7, RequestsAssumption DEF IInv, TypeOK, FailureInv, OnTheWay, RecoverWrite, Goto
    <2> QED
      BY <2>1, <2>2, <2>3, <2>4, <2>5 DEF IInv
  <1> QED
    BY <1>1, <1>2, <1>3, <1>4, <1>5, <1>6, <1>7

\* The end of fatalOnce.Do.
LEMMA OnceLeaveStep ==
    ASSUME IInv, NEW r \in Requests,
           OnceReturn(r) \/ OncePass(r)
    PROVE  IInv'
  <1>1. CASE OnceReturn(r) /\ at[r] = "announce"
    <2>1. TypeOK'
      BY <1>1 DEF IInv, TypeOK, OnceReturn, AfterOnce, Goto, Respond, Places, Early, Holding
    <2>2. AdmissionInv'
      BY <1>1, StayHolding DEF OnceReturn, AfterOnce, Goto, Places, Early, Holding
    <2>3. HeaderInv'
      BY <1>1 DEF IInv, TypeOK, HeaderInv, OnceReturn, AfterOnce, Goto, Respond
    <2>4. DoomedInv'
      <3>1. at'[r] \in DoomedPlaces /\ UNCHANGED <<doomed, statuses>> /\ (failed => failed')
        BY <1>1 DEF IInv, TypeOK, OnceReturn, AfterOnce, Goto, DoomedPlaces
      <3>2. \A q \in Requests \ {r} : at'[q] = at[q] /\ statuses'[q] = statuses[q]
        BY <1>1 DEF IInv, TypeOK, OnceReturn, AfterOnce, Goto, Respond
      <3> QED
        BY <3>1, <3>2, DoomedMoves
    <2>5. FailureInv'
      BY <1>1, RequestsAssumption DEF IInv, TypeOK, FailureInv, OnTheWay, OnceReturn,
                                         AfterOnce, Goto
    <2> QED
      BY <2>1, <2>2, <2>3, <2>4, <2>5 DEF IInv
  <1>2. CASE OnceReturn(r) /\ at[r] = "lastWords"
    <2>1. TypeOK'
      BY <1>2 DEF IInv, TypeOK, OnceReturn, AfterOnce, Goto, Respond, Places, Early, Holding
    <2>2. AdmissionInv'
      BY <1>2, StayHolding DEF OnceReturn, AfterOnce, Goto, Places, Early, Holding
    <2>3. HeaderInv'
      BY <1>2 DEF IInv, TypeOK, HeaderInv, OnceReturn, AfterOnce, Goto, Respond
    <2>4. DoomedInv'
      <3>1. at'[r] \in DoomedPlaces /\ UNCHANGED <<doomed, statuses>> /\ (failed => failed')
        BY <1>2 DEF IInv, TypeOK, OnceReturn, AfterOnce, Goto, DoomedPlaces
      <3>2. \A q \in Requests \ {r} : at'[q] = at[q] /\ statuses'[q] = statuses[q]
        BY <1>2 DEF IInv, TypeOK, OnceReturn, AfterOnce, Goto, Respond
      <3> QED
        BY <3>1, <3>2, DoomedMoves
    <2>5. FailureInv'
      BY <1>2, RequestsAssumption DEF IInv, TypeOK, FailureInv, OnTheWay, OnceReturn,
                                         AfterOnce, Goto
    <2> QED
      BY <2>1, <2>2, <2>3, <2>4, <2>5 DEF IInv
  <1>3. CASE OncePass(r) /\ at[r] = "announce"
    <2>1. TypeOK'
      BY <1>3 DEF IInv, TypeOK, OncePass, AfterOnce, Goto, Respond, Places, Early, Holding
    <2>2. AdmissionInv'
      BY <1>3, StayHolding DEF OncePass, AfterOnce, Goto, Places, Early, Holding
    <2>3. HeaderInv'
      BY <1>3 DEF IInv, TypeOK, HeaderInv, OncePass, AfterOnce, Goto, Respond
    <2>4. DoomedInv'
      <3>1. at'[r] \in DoomedPlaces /\ UNCHANGED <<doomed, statuses>> /\ (failed => failed')
        BY <1>3 DEF IInv, TypeOK, OncePass, AfterOnce, Goto, DoomedPlaces
      <3>2. \A q \in Requests \ {r} : at'[q] = at[q] /\ statuses'[q] = statuses[q]
        BY <1>3 DEF IInv, TypeOK, OncePass, AfterOnce, Goto, Respond
      <3> QED
        BY <3>1, <3>2, DoomedMoves
    <2>5. FailureInv'
      BY <1>3, RequestsAssumption DEF IInv, TypeOK, FailureInv, OnTheWay, OncePass, AfterOnce, Goto
    <2> QED
      BY <2>1, <2>2, <2>3, <2>4, <2>5 DEF IInv
  <1>4. CASE OncePass(r) /\ at[r] = "lastWords"
    <2>1. TypeOK'
      BY <1>4 DEF IInv, TypeOK, OncePass, AfterOnce, Goto, Respond, Places, Early, Holding
    <2>2. AdmissionInv'
      BY <1>4, StayHolding DEF OncePass, AfterOnce, Goto, Places, Early, Holding
    <2>3. HeaderInv'
      BY <1>4 DEF IInv, TypeOK, HeaderInv, OncePass, AfterOnce, Goto, Respond
    <2>4. DoomedInv'
      <3>1. at'[r] \in DoomedPlaces /\ UNCHANGED <<doomed, statuses>> /\ (failed => failed')
        BY <1>4 DEF IInv, TypeOK, OncePass, AfterOnce, Goto, DoomedPlaces
      <3>2. \A q \in Requests \ {r} : at'[q] = at[q] /\ statuses'[q] = statuses[q]
        BY <1>4 DEF IInv, TypeOK, OncePass, AfterOnce, Goto, Respond
      <3> QED
        BY <3>1, <3>2, DoomedMoves
    <2>5. FailureInv'
      BY <1>4, RequestsAssumption DEF IInv, TypeOK, FailureInv, OnTheWay, OncePass, AfterOnce, Goto
    <2> QED
      BY <2>1, <2>2, <2>3, <2>4, <2>5 DEF IInv
  <1>5. at[r] \in {"announce", "lastWords"}
    BY DEF IInv, FailureInv, OnceReturn, OncePass
  <1> QED
    BY <1>1, <1>2, <1>3, <1>4, <1>5

\* The deferred release, at the end and when a panic unwinds, and a panic that
\* has nothing to release.
LEMMA ReleaseStep ==
    ASSUME IInv, NEW r \in Requests,
           Leave(r) \/ Panic(r) \/ PanicEarly(r)
    PROVE  IInv'
  <1>1. CASE Leave(r)
    <2>1. AdmissionInv'
      BY <1>1, LeaveHolding DEF Leave, Goto, Places, Early, Holding
    <2>2. TypeOK'
      BY <1>1, <2>1 DEF IInv, TypeOK, AdmissionInv, AdmissionAccounting, Leave, Goto, Places,
                     Early
    <2>3. HeaderInv'
      BY <1>1 DEF IInv, TypeOK, HeaderInv, Leave, Goto
    <2>4. DoomedInv'
      <3>1. at'[r] \in DoomedPlaces /\ UNCHANGED <<doomed, failed, statuses>>
        BY <1>1 DEF IInv, TypeOK, Leave, Goto, DoomedPlaces
      <3>2. \A q \in Requests \ {r} : at'[q] = at[q] /\ statuses'[q] = statuses[q]
        BY <1>1 DEF IInv, TypeOK, Leave, Goto
      <3> QED
        BY <3>1, <3>2, DoomedMoves
    <2>5. FailureInv'
      BY <1>1, RequestsAssumption DEF IInv, TypeOK, FailureInv, OnTheWay, Leave, Goto
    <2> QED
      BY <2>1, <2>2, <2>3, <2>4, <2>5 DEF IInv
  <1>2. CASE Panic(r)
    <2>1. AdmissionInv'
      BY <1>2, LeaveHolding DEF Panic, Goto, Places, Early, Holding
    <2>2. TypeOK'
      BY <1>2, <2>1 DEF IInv, TypeOK, AdmissionInv, AdmissionAccounting, Panic, Goto, Places,
                     Early
    <2>3. HeaderInv'
      BY <1>2 DEF IInv, TypeOK, HeaderInv, Panic, Goto
    <2>4. DoomedInv'
      <3>1. at'[r] \in DoomedPlaces /\ UNCHANGED <<doomed, failed, statuses>>
        BY <1>2 DEF IInv, TypeOK, Panic, Goto, DoomedPlaces
      <3>2. \A q \in Requests \ {r} : at'[q] = at[q] /\ statuses'[q] = statuses[q]
        BY <1>2 DEF IInv, TypeOK, Panic, Goto
      <3> QED
        BY <3>1, <3>2, DoomedMoves
    <2>5. FailureInv'
      BY <1>2, RequestsAssumption DEF IInv, TypeOK, FailureInv, OnTheWay, Panic, Goto
    <2> QED
      BY <2>1, <2>2, <2>3, <2>4, <2>5 DEF IInv
  <1>3. CASE PanicEarly(r)
    <2>1. TypeOK'
      BY <1>3 DEF IInv, TypeOK, PanicEarly, Goto, Places, Early, Holding
    <2>2. AdmissionInv'
      BY <1>3, StayHolding DEF PanicEarly, Goto, Places, Early, Holding
    <2>3. HeaderInv'
      BY <1>3 DEF IInv, TypeOK, HeaderInv, PanicEarly, Early, Goto, Respond
    <2>4. DoomedInv'
      <3>1. at'[r] \in DoomedPlaces /\ UNCHANGED <<doomed, statuses>> /\ (failed => failed')
        BY <1>3 DEF IInv, TypeOK, PanicEarly, Early, Goto, DoomedPlaces
      <3>2. \A q \in Requests \ {r} : at'[q] = at[q] /\ statuses'[q] = statuses[q]
        BY <1>3 DEF IInv, TypeOK, PanicEarly, Early, Goto, Respond
      <3> QED
        BY <3>1, <3>2, DoomedMoves
    <2>5. FailureInv'
      BY <1>3, RequestsAssumption DEF IInv, TypeOK, FailureInv, OnTheWay, PanicEarly, Early, Goto
    <2> QED
      BY <2>1, <2>2, <2>3, <2>4, <2>5 DEF IInv
  <1> QED
    BY <1>1, <1>2, <1>3

\* fatal is called.
LEMMA OnceEnterStep ==
    ASSUME IInv, NEW r \in Requests, OnceEnter(r)
    PROVE  IInv'
  <1>1. TypeOK'
    BY DEF IInv, TypeOK, OnceEnter
  <1>2. AdmissionInv'
    BY DEF IInv, AdmissionInv, AdmissionAccounting, Holders, OnceEnter
  <1>3. HeaderInv' /\ DoomedInv'
    BY DEF IInv, HeaderInv, DoomedInv, OnceEnter
  <1>4. FailureInv'
    <2>1. once = "unused" /\ fatalCalls = 0 /\ failed
      BY DEF IInv, FailureInv, OnceEnter, OnceFree
    <2>2. once' = r /\ r # "unused" /\ fatalCalls' = 1
      BY <2>1, RequestsAssumption DEF OnceEnter
    <2> QED
      BY <2>1, <2>2 DEF IInv, FailureInv, OnceEnter
  <1> QED
    BY <1>1, <1>2, <1>3, <1>4 DEF IInv

\* The provider returns; a failure may have been stored meanwhile.
LEMMA ProviderStep ==
    ASSUME IInv, NEW r \in Requests, Provide(r)
    PROVE  IInv'
  <1> PICK a \in Answers : ProviderReturns(r, a)
    BY DEF Provide
  <1> DEFINE place == IF gone[r] THEN "leave" ELSE "checkFailed"
  <1>1. place \in {"leave", "checkFailed"} /\ at' = [at EXCEPT ![r] = place] /\ at[r] = "provider"
    BY DEF ProviderReturns, Goto
  <1>2. (place = "leave" => gone[r]) /\ statuses[r] = <<>>
    BY <1>1 DEF IInv, HeaderInv
  <1> HIDE DEF place
  <1>3. TypeOK'
    BY <1>1 DEF IInv, TypeOK, ProviderReturns, Places, Early, Holding
  <1>4. AdmissionInv'
    BY <1>1, StayHolding DEF ProviderReturns, Places, Early, Holding
  <1>5. HeaderInv'
    BY <1>1, <1>2 DEF IInv, TypeOK, HeaderInv, ProviderReturns
  <1>6. DoomedInv'
    <2>1. doomed' \subseteq doomed \cup {r} /\ (r \in doomed' => failed)
      BY <1>1 DEF IInv, DoomedInv, ProviderReturns
    <2> SUFFICES ASSUME NEW q \in doomed'
                 PROVE  /\ failed'
                        /\ at'[q] \in DoomedPlaces
                        /\ statuses'[q] # DocumentHeader
      BY DEF DoomedInv
    <2>2. CASE q = r
      BY <1>1, <1>2, <2>1, <2>2 DEF IInv, TypeOK, ProviderReturns, DoomedPlaces, DocumentHeader
    <2>3. CASE q # r
      <3>1. q \in doomed /\ q \in Requests /\ at'[q] = at[q] /\ statuses' = statuses
        BY <1>1, <2>1, <2>3 DEF IInv, TypeOK, ProviderReturns
      <3> QED
        BY <3>1 DEF IInv, DoomedInv, ProviderReturns
    <2> QED
      BY <2>2, <2>3
  <1>7. FailureInv'
    BY <1>1, RequestsAssumption DEF IInv, TypeOK, FailureInv, OnTheWay, ProviderReturns
  <1> QED
    BY <1>3, <1>4, <1>5, <1>6, <1>7 DEF IInv

LEMMA StepInv == IInv /\ [Next]_vars => IInv'
  <1> SUFFICES ASSUME IInv, [Next]_vars PROVE IInv'
    OBVIOUS
  <1>1. ASSUME NEW r \in Requests,
               \/ Accept(r) \/ RefuseInvalid(r) \/ ClientLeaves(r)
               \/ Serve(r) \/ Provide(r) \/ PanicEarly(r) \/ Panic(r)
        PROVE  IInv'
    BY <1>1, EnvironmentStep, RefusalStep, AdmitStep, DecisionStep, WriteStep, OnceEnterStep,
       OnceLeaveStep, ReleaseStep, ProviderStep DEF Serve
  <1>2. CASE UNCHANGED vars
    <2>1. TypeOK' /\ HeaderInv' /\ DoomedInv' /\ FailureInv'
      BY <1>2 DEF IInv, TypeOK, HeaderInv, DoomedInv, FailureInv, OnTheWay, vars
    <2>2. AdmissionInv'
      BY <1>2 DEF IInv, AdmissionInv, AdmissionAccounting, Holders, vars
    <2> QED
      BY <2>1, <2>2 DEF IInv
  <1> QED
    BY <1>1, <1>2 DEF Next, Finished

-----------------------------------------------------------------------------
(* What the handler guarantees.                                            *)

\* The invariant holds for any number of requests and any capacity.
THEOREM Invariance == Spec => []IInv
  BY InitInv, StepInv, PTL DEF Spec

\* The variables of the handler have the types of their fields in the code.
THEOREM TypeCorrect == Spec => []TypeOK
  <1>1. IInv => TypeOK
    BY DEF IInv
  <1> QED
    BY <1>1, Invariance, PTL

\* len(admission) is the number of requests between their admission and
\* their deferred release: none is lost and the receive never blocks.
THEOREM AdmissionAccounted == Spec => []AdmissionAccounting
  <1>1. IInv => AdmissionAccounting
    BY DEF IInv, AdmissionInv
  <1> QED
    BY <1>1, Invariance, PTL

\* No path through ServeHTTP, a panic on it included, writes two headers, and
\* none ends without one unless the client has left.
THEOREM EachAnsweredOnce == Spec => []AnsweredOnce
  <1>1. IInv => AnsweredOnce
    <2> SUFFICES ASSUME IInv, NEW r \in Requests
                 PROVE  /\ Len(statuses[r]) <= 1
                        /\ (at[r] = "done" /\ ~gone[r]) => statuses[r] # <<>>
      BY DEF AnsweredOnce
    <2>1. statuses[r] # <<>> \/ Len(statuses[r]) = 0
      OBVIOUS
    <2> QED
      BY <2>1 DEF IInv, HeaderInv
  <1> QED
    BY <1>1, Invariance, PTL

\* No document for a provider call that returned after a failure was stored.
THEOREM NoDocumentServedAfterFailure == Spec => []NoDocumentAfterFailure
  <1>1. IInv => NoDocumentAfterFailure
    BY DEF IInv, DoomedInv, DocumentHeader, NoDocumentAfterFailure
  <1> QED
    BY <1>1, Invariance, PTL

\* fatal is called at most once, and a failure that stops service has been
\* announced by the time no handler is on its way.
THEOREM FailuresAnnounced == Spec => []FailureAnnounced
  <1>1. IInv => FailureAnnounced
    <2> SUFFICES ASSUME IInv PROVE FailureAnnounced
      OBVIOUS
    <2>1. fatalCalls \in {0, 1} /\ (fatalCalls = 1 <=> once # "unused")
      BY DEF IInv, FailureInv
    <2>2. ASSUME \A r \in Requests : at[r] \in {"new", "done"} PROVE failed <=> fatalCalls = 1
      BY <2>1, <2>2 DEF IInv, FailureInv, OnTheWay
    <2> QED
      BY <2>1, <2>2 DEF FailureAnnounced
  <1> QED
    BY <1>1, Invariance, PTL

-----------------------------------------------------------------------------
(* A request takes a bounded number of steps.                              *)

\* How far a place is from the end, panics included.  A caller of fatalOnce
\* that runs fatal takes one step more than one that finds it done.
Distance(place) ==
    CASE place = "new" -> 11
      [] place = "entry" -> 10
      [] place = "admit" -> 9
      [] place = "provider" -> 8
      [] place = "checkFailed" -> 7
      [] place = "decide" -> 6
      [] place \in {"write200", "write500"} -> 5
      [] place \in {"refused", "body", "body500"} -> 4
      [] place = "recovered" -> 3
      [] place \in {"announce", "recover500"} -> 2
      [] place \in {"leave", "lastWords"} -> 1
      [] OTHER -> 0
StepsLeft(r) == Distance(at[r]) + IF once = "unused" THEN 1 ELSE 0

HandlerStep(r) ==
    \/ Accept(r) \/ RefuseInvalid(r) \/ Serve(r) \/ Provide(r)
    \/ PanicEarly(r) \/ Panic(r)

LinearStep ==
    \A r \in Requests :
        /\ StepsLeft(r) \in 0..12
        /\ StepsLeft(r)' <= StepsLeft(r)
        /\ HandlerStep(r) => StepsLeft(r)' < StepsLeft(r)

\* A step of a handler moves its request towards the end, or takes fatalOnce.
LEMMA HandlerMoves ==
    ASSUME IInv, NEW r \in Requests, HandlerStep(r)
    PROVE  /\ \A q \in Requests \ {r} : at'[q] = at[q]
           /\ once' = "unused" => once = "unused"
           /\ \/ Distance(at'[r]) < Distance(at[r])
              \/ at'[r] = at[r] /\ once = "unused" /\ once' # "unused"
  <1> USE DEF IInv, TypeOK, Distance, Goto
  <1>1. CASE \/ Accept(r) \/ RefuseInvalid(r) \/ CheckEntry(r) \/ Admit(r)
             \/ RefuseBusy(r) \/ RefusalBody(r)
    BY <1>1 DEF Accept, RefuseInvalid, CheckEntry, Admit, RefuseBusy, Refuse, RefusalBody
  <1>2. CASE Provide(r)
    BY <1>2 DEF Provide, ProviderReturns
  <1>3. CASE \/ CheckFailed(r) \/ DecideUseless(r) \/ DecideError(r)
             \/ DecideLate(r) \/ DecideInvalid(r) \/ DecideDocument(r)
    BY <1>3 DEF CheckFailed, DecideUseless, DecideError, DecideLate, DecideInvalid, DecideDocument
  <1>4. CASE \/ WriteHeader200(r) \/ WriteBody(r)
             \/ WriteInternalError(r) \/ WriteInternalBody(r)
    BY <1>4 DEF WriteHeader200, WriteBody, WriteInternalError, WriteInternalBody
  <1>5. CASE OnceEnter(r)
    BY <1>5, RequestsAssumption DEF OnceEnter, OnceFree
  <1>6. CASE OnceReturn(r) \/ OncePass(r)
    BY <1>6, RequestsAssumption DEF OnceReturn, OncePass, AfterOnce, FailureInv
  <1>7. CASE Leave(r) \/ Panic(r) \/ PanicEarly(r)
    BY <1>7 DEF Leave, Panic, PanicEarly, Early
  <1>8. CASE Recover(r) \/ RecoverWrite(r)
    BY <1>8 DEF Recover, RecoverWrite
  <1> QED
    BY <1>1, <1>2, <1>3, <1>4, <1>5, <1>6, <1>7, <1>8 DEF HandlerStep, Serve

\* No step of ServeHTTP can be repeated: each uses up one of twelve, whatever
\* other requests, clients and deadlines do, and nothing adds to them.
THEOREM RequestsLinear == Spec => [][LinearStep]_vars
  <1>1. \A place : Distance(place) \in 0..11
    BY DEF Distance
  <1>2. ASSUME IInv, [Next]_vars, NEW r \in Requests
        PROVE  /\ StepsLeft(r) \in 0..12
               /\ StepsLeft(r)' <= StepsLeft(r)
               /\ HandlerStep(r) => StepsLeft(r)' < StepsLeft(r)
    <2>1. Distance(at[r]) \in 0..11 /\ Distance(at'[r]) \in 0..11
      BY <1>1
    <2>2. CASE HandlerStep(r)
      BY <2>1, <2>2, <1>2, HandlerMoves DEF StepsLeft
    <2>3. ASSUME NEW q \in Requests, q # r, HandlerStep(q) PROVE StepsLeft(r)' <= StepsLeft(r)
      BY <2>1, <2>3, <1>2, HandlerMoves DEF StepsLeft
    <2>4. CASE \A q \in Requests : ~HandlerStep(q)
      <3>1. UNCHANGED <<at, once>>
        BY <2>4, <1>2 DEF Next, HandlerStep, ClientLeaves, Finished, vars
      <3> QED
        BY <2>1, <2>4, <3>1 DEF StepsLeft
    <2>5. StepsLeft(r) \in 0..12
      BY <2>1 DEF StepsLeft
    <2> QED
      BY <2>1, <2>2, <2>3, <2>4, <2>5 DEF StepsLeft
  <1>3. IInv /\ [Next]_vars => [LinearStep]_vars
    BY <1>2 DEF LinearStep
  <1> QED
    BY <1>3, Invariance, PTL DEF Spec

-----------------------------------------------------------------------------
(* The listener under the server.                                          *)

\* Only connections that were accepted are closed or released; those that are
\* not released and the Accept under way hold the slots.
Taken == IF acceptor \in {"accepting", "failing"} THEN 1 ELSE 0
ClosingInv ==
    /\ \A k \in Closers : closing[k] # NoConnection => conn[closing[k]] # "absent"
    /\ \A c \in released : conn[c] # "absent"
ListenerInv ==
    /\ ListenerTypeOK /\ ClosingInv
    /\ IsFiniteSet(Unreleased)
    /\ slots = Cardinality(Unreleased) + Taken

LEMMA ListenerInitInv == ASSUME ListenerInit PROVE ListenerInv
  <1>1. Unreleased = {}
    BY DEF ListenerInit, Unreleased
  <1>2. IsFiniteSet(Unreleased) /\ Cardinality(Unreleased) = 0
    BY <1>1, FS_EmptySet
  <1>3. closed \in BOOLEAN /\ innerClosed \in BOOLEAN
    BY Zenon DEF ListenerInit
  <1>4. ListenerTypeOK
    BY <1>3, LimitAssumption DEF ListenerInit, ListenerTypeOK
  <1>5. ClosingInv /\ Taken = 0
    BY DEF ListenerInit, ClosingInv, Taken
  <1> QED
    BY <1>2, <1>4, <1>5 DEF ListenerInv, ListenerInit

\* Accept takes a slot, keeps it or hands it on, and gives it back when the
\* TCP listener fails.
LEMMA AcceptInv ==
    ASSUME ListenerInv, AcceptSteps PROVE ListenerInv'
  <1>1. Unreleased' = Unreleased /\ ClosingInv'
    BY DEF ListenerInv, ClosingInv, Unreleased, AcceptSteps, TakeSlot, AcceptSeesClosed,
           AcceptFails, AcceptGivesUp
  <1> DEFINE n == Cardinality(Unreleased)
  <1>2. n \in Nat /\ slots = n + Taken /\ slots \in 0..Limit
    BY FS_CardinalityType DEF ListenerInv, ListenerTypeOK
  <1>3. n' = n /\ IsFiniteSet(Unreleased')
    BY <1>1 DEF ListenerInv
  <1> HIDE DEF n
  <1>4. slots' = n + Taken' /\ slots' \in 0..Limit
    BY <1>2, LimitAssumption DEF Taken, AcceptSteps, TakeSlot, MayTake, AcceptSeesClosed,
                                 AcceptFails, AcceptGivesUp
  <1>5. ListenerTypeOK'
    BY <1>4 DEF ListenerInv, ListenerTypeOK, AcceptSteps, TakeSlot, AcceptSeesClosed,
                AcceptFails, AcceptGivesUp
  <1> QED
    BY <1>1, <1>3, <1>4, <1>5 DEF ListenerInv, n

\* The slot passes from Accept to the connection.
LEMMA ConnectionInv ==
    ASSUME ListenerInv, NEW c \in Connections, AcceptConnection(c)
    PROVE  ListenerInv'
  <1>1. c \notin released
    BY DEF ListenerInv, ClosingInv, AcceptConnection
  <1>2. Unreleased' = Unreleased \cup {c} /\ c \notin Unreleased
    BY <1>1 DEF ListenerInv, ListenerTypeOK, Unreleased, AcceptConnection
  <1>3. /\ IsFiniteSet(Unreleased')
        /\ Cardinality(Unreleased') = Cardinality(Unreleased) + 1
    BY <1>2, FS_AddElement DEF ListenerInv
  <1>4. Taken = 1 /\ Taken' = 0
    BY DEF Taken, AcceptConnection
  <1>5. ListenerTypeOK' /\ ClosingInv'
    BY DEF ListenerInv, ClosingInv, ListenerTypeOK, AcceptConnection
  <1>6. Cardinality(Unreleased) \in Nat
    BY FS_CardinalityType DEF ListenerInv
  <1> QED
    BY <1>3, <1>4, <1>5, <1>6 DEF ListenerInv, AcceptConnection

\* releaseOnce gives the slot back for the first of those who close.
LEMMA CloserInv ==
    ASSUME ListenerInv, NEW k \in Closers, CloserSteps(k)
    PROVE  ListenerInv'
  <1>1. CASE ReleaseSlot(k)
    <2> DEFINE c == closing[k]
    <2>1. c \in Connections /\ c \notin released /\ conn[c] # "absent"
      BY <1>1 DEF ListenerInv, ClosingInv, ListenerTypeOK, ReleaseSlot, FirstRelease
    <2>2. c \in Unreleased /\ Unreleased' = Unreleased \ {c}
      BY <1>1, <2>1 DEF Unreleased, ReleaseSlot
    <2>3. /\ IsFiniteSet(Unreleased')
          /\ Cardinality(Unreleased') = Cardinality(Unreleased) - 1
      BY <2>2, FS_RemoveElement DEF ListenerInv
    <2>4. Taken' = Taken /\ Taken \in Nat
      BY <1>1 DEF Taken, ReleaseSlot
    <2>5. Cardinality(Unreleased) \in Nat
      BY FS_CardinalityType DEF ListenerInv
    <2>6. slots' = Cardinality(Unreleased') + Taken'
      BY <1>1, <2>3, <2>4, <2>5 DEF ListenerInv, ReleaseSlot
    <2>7. ListenerTypeOK' /\ ClosingInv'
      BY <1>1, <2>1, LimitAssumption DEF ListenerInv, ClosingInv, ListenerTypeOK, ReleaseSlot
    <2> QED
      BY <2>3, <2>6, <2>7 DEF ListenerInv
  <1>2. CASE ReleaseAgain(k)
    <2>1. Unreleased' = Unreleased /\ Taken' = Taken
      BY <1>2 DEF Unreleased, Taken, ReleaseAgain
    <2>2. ListenerTypeOK' /\ ClosingInv'
      BY <1>2 DEF ListenerInv, ClosingInv, ListenerTypeOK, ReleaseAgain
    <2> QED
      BY <1>2, <2>1, <2>2 DEF ListenerInv, ReleaseAgain
  <1> QED
    BY <1>1, <1>2 DEF CloserSteps

LEMMA SocketInv ==
    ASSUME ListenerInv, NEW k \in Closers, NEW c \in Connections, CloseSocket(k, c)
    PROVE  ListenerInv'
  <1>1. Unreleased' = Unreleased /\ Taken' = Taken
    BY DEF ListenerInv, ListenerTypeOK, Unreleased, Taken, CloseSocket
  <1>2. ListenerTypeOK' /\ ClosingInv'
    BY DEF ListenerInv, ClosingInv, ListenerTypeOK, CloseSocket
  <1> QED
    BY <1>1, <1>2 DEF ListenerInv, CloseSocket

\* Close of the listener, and steps that change nothing.
LEMMA CloseInv ==
    ASSUME ListenerInv, CloseChannel \/ CloseInner \/ UNCHANGED listenerVars
    PROVE  ListenerInv'
  <1>1. UNCHANGED <<slots, acceptor, conn, released, closing>>
    BY DEF CloseChannel, CloseInner, listenerVars
  <1>2. Unreleased' = Unreleased /\ Taken' = Taken /\ ClosingInv'
    BY <1>1 DEF ListenerInv, ClosingInv, Unreleased, Taken
  <1>3. {closed', innerClosed'} \subseteq BOOLEAN
    BY Zenon DEF ListenerInv, ListenerTypeOK, CloseChannel, CloseInner, listenerVars
  <1>4. ListenerTypeOK'
    BY <1>1, <1>3 DEF ListenerInv, ListenerTypeOK
  <1> QED
    BY <1>1, <1>2, <1>4 DEF ListenerInv

LEMMA ListenerStep == ListenerInv /\ [ListenerNext]_listenerVars => ListenerInv'
  BY AcceptInv, ConnectionInv, CloserInv, SocketInv, CloseInv
     DEF ListenerNext, ListenerFinished

LEMMA ListenerInvariance == ListenerSpec => []ListenerInv
  <1>1. ListenerInit => ListenerInv
    BY ListenerInitInv
  <1> QED
    BY <1>1, ListenerStep, PTL DEF ListenerSpec

\* The slots are those of the open connections and of the Accept under way,
\* however often connections are closed and however Accept fails.
THEOREM SlotsAccounted == ListenerSpec => []SlotAccounting
  <1>1. ListenerInv => SlotAccounting
    <2> SUFFICES ASSUME ListenerInv PROVE SlotAccounting
      OBVIOUS
    <2>1. slots = Cardinality(Unreleased) + Taken
      BY DEF ListenerInv
    <2>2. slots \in 0..Limit
      BY DEF ListenerInv, ListenerTypeOK
    <2> QED
      BY <2>1, <2>2 DEF Taken, SlotAccounting
  <1> QED
    BY <1>1, ListenerInvariance, PTL

-----------------------------------------------------------------------------
(* Close ends Accept.                                                      *)

Returned == acceptor = "returned"
Draining == closed /\ innerClosed
DrainsAt(place) == Draining /\ acceptor = place

\* Where the guard of a step of Accept or of Close holds, the step is enabled:
\* its definition assigns every variable and changes one.  The provers cannot
\* evaluate ENABLED, so this is a hypothesis of AcceptAlwaysEnds.
AcceptEnabled ==
    /\ closed /\ ~innerClosed => ENABLED <<CloseInner>>_listenerVars
    /\ DrainsAt("waiting") => ENABLED <<TakeSlot \/ AcceptSeesClosed>>_listenerVars
    /\ DrainsAt("accepting") => ENABLED <<innerClosed /\ AcceptFails>>_listenerVars
    /\ DrainsAt("failing") => ENABLED <<AcceptGivesUp>>_listenerVars

\* Once the TCP listener is closed Accept only moves towards its return.
LEMMA AcceptMoves ==
    ASSUME ListenerInv, [ListenerNext]_listenerVars
    PROVE  /\ closed => closed'
           /\ Draining => Draining'
           /\ Returned => Returned'
           /\ CloseInner => Draining'
           /\ DrainsAt("waiting") =>
                DrainsAt("waiting")' \/ DrainsAt("accepting")' \/ Returned'
           /\ DrainsAt("accepting") => DrainsAt("accepting")' \/ DrainsAt("failing")'
           /\ DrainsAt("failing") => DrainsAt("failing")' \/ Returned'
           /\ DrainsAt("waiting") /\ (TakeSlot \/ AcceptSeesClosed) =>
                DrainsAt("accepting")' \/ Returned'
           /\ DrainsAt("accepting") /\ AcceptFails => DrainsAt("failing")'
           /\ DrainsAt("failing") /\ AcceptGivesUp => Returned'
  BY DEF ListenerInv, ListenerTypeOK, ListenerNext, listenerVars, Returned, Draining, DrainsAt,
         AcceptSteps, TakeSlot, AcceptSeesClosed, AcceptFails, AcceptGivesUp, AcceptConnection,
         CloseChannel, CloseInner, CloserSteps, ReleaseSlot, ReleaseAgain, CloseSocket,
         ListenerFinished, SeesClosed

\* After Close the Accept of the Serve loop returns for good, even if every
\* slot is taken by connections that are never closed.
THEOREM AcceptAlwaysEnds == FairListenerSpec /\ []AcceptEnabled => CloseEndsAccept
  <1>1. ListenerInv => (Draining => \/ DrainsAt("waiting") \/ DrainsAt("accepting")
                                    \/ DrainsAt("failing") \/ Returned)
    BY DEF ListenerInv, ListenerTypeOK, DrainsAt, Returned
  <1>2. closed /\ innerClosed => Draining
    BY DEF Draining
  <1>3. Returned <=> acceptor = "returned"
    BY DEF Returned
  <1> QED
    BY <1>1, <1>2, <1>3, AcceptMoves, ListenerInvariance, PTL
       DEF FairListenerSpec, ListenerSpec, AcceptEnabled, CloseEndsAccept
=============================================================================
