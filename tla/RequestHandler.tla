--------------------------- MODULE RequestHandler ---------------------------
(***************************************************************************)
(* The snapshot endpoint (src/internal/httpapi/handler.go).  net/http runs *)
(* ServeHTTP in a goroutine per request; the handlers share the admission  *)
(* channel, the failed flag and fatalOnce.  Between any two reads or       *)
(* writes of these another handler, the client or the deadline may act.    *)
(***************************************************************************)
EXTENDS Naturals, FiniteSets, Sequences

CONSTANTS
    Requests,
    Capacity        \* maximumAdmittedRequests

ASSUME CapacityAssumption == Capacity \in Nat \ {0}
ASSUME RequestsAssumption == Requests \cap {"unused", "done"} = {}

\* What the provider may return.  "useless" stands for ErrNoUsefulSnapshot
\* and the two context errors, "error" for any other error and for a panic,
\* "invalid" for an encoded document that is not valid or too large.
Answers == {"document", "invalid", "useless", "error"}

VARIABLES
    at,             \* where ServeHTTP is, for each request
    admission,      \* len(admission)
    failed,
    once,           \* fatalOnce: "unused", or the request that runs it, or "done"
    fatalCalls,     \* how often fatal was called
    gone,           \* request.Context() is done: the client has left
    answer,         \* what the provider returned to a request
    statuses,       \* the headers written to a request's response
    doomed          \* history: the requests whose provider returned after a failure

vars == <<at, admission, failed, once, fatalCalls, gone, answer, statuses, doomed>>

\* The places at which a request holds an admission slot.
Holding == {"provider", "checkFailed", "decide", "write200", "body", "write500", "body500",
            "announce", "leave"}

\* Those before admission.
Early == {"new", "entry", "admit", "refused"}

Places == Early \cup Holding \cup {"recovered", "recover500", "lastWords", "done"}

TypeOK ==
    /\ at \in [Requests -> Places]
    /\ admission \in 0..Capacity
    /\ failed \in BOOLEAN
    /\ once \in {"unused", "done"} \cup Requests
    /\ fatalCalls \in Nat
    /\ gone \in [Requests -> BOOLEAN]
    /\ answer \in [Requests -> {"none"} \cup Answers]
    /\ statuses \in [Requests -> Seq({200, 400, 500, 503})]
    /\ doomed \subseteq Requests

Init ==
    /\ at = [r \in Requests |-> "new"]
    /\ admission = 0
    /\ failed = FALSE
    /\ once = "unused"
    /\ fatalCalls = 0
    /\ gone = [r \in Requests |-> FALSE]
    /\ answer = [r \in Requests |-> "none"]
    /\ statuses = [r \in Requests |-> <<>>]
    /\ doomed = {}

-----------------------------------------------------------------------------
Goto(r, place) == at' = [at EXCEPT ![r] = place]
Respond(r, status) == statuses' = [statuses EXCEPT ![r] = Append(@, status)]

\* The deferred receive from admission.
ReleaseMutant == IF failed THEN admission ELSE admission - 1
Release == admission - 1

\* The client leaves while the handler still looks.
ClientLeaves(r) ==
    /\ at[r] \in {"provider", "checkFailed", "decide"} /\ ~gone[r]
    /\ gone' = [gone EXCEPT ![r] = TRUE]
    /\ UNCHANGED <<at, admission, failed, once, fatalCalls, answer, statuses, doomed>>

\* writeError before the admission writes the header; RefusalBody writes the rest.
Refuse(r, status) == Respond(r, status) /\ Goto(r, "refused")

\* The path, method, query and body checks.  Their statuses 400, 404 and 405
\* are one here.
RefuseInvalid(r) ==
    /\ at[r] = "new"
    /\ Refuse(r, 400)
    /\ UNCHANGED <<admission, failed, once, fatalCalls, gone, answer, doomed>>

Accept(r) ==
    /\ at[r] = "new"
    /\ Goto(r, "entry")
    /\ UNCHANGED <<admission, failed, once, fatalCalls, gone, answer, statuses, doomed>>

CheckEntry(r) ==
    /\ at[r] = "entry"
    /\ IF failed
       THEN Refuse(r, 503)
       ELSE Goto(r, "admit") /\ UNCHANGED statuses
    /\ UNCHANGED <<admission, failed, once, fatalCalls, gone, answer, doomed>>

\* The select that sends to admission or takes the default branch.
Admits == admission < Capacity

Admit(r) ==
    /\ at[r] = "admit"
    /\ Admits
    /\ admission' = admission + 1
    /\ Goto(r, "provider")
    /\ UNCHANGED <<failed, once, fatalCalls, gone, answer, statuses, doomed>>

RefuseBusy(r) ==
    /\ at[r] = "admit"
    /\ ~Admits
    /\ Refuse(r, 503)
    /\ UNCHANGED <<admission, failed, once, fatalCalls, gone, answer, doomed>>

RefusalBody(r) ==
    /\ at[r] = "refused"
    /\ Goto(r, "done")
    /\ UNCHANGED <<admission, failed, once, fatalCalls, gone, answer, statuses, doomed>>

\* callProvider returns; request.Context().Err() is read next.
ProviderReturns(r, a) ==
    /\ at[r] = "provider"
    /\ answer' = [answer EXCEPT ![r] = a]
    /\ doomed' = IF failed THEN doomed \cup {r} ELSE doomed
    /\ Goto(r, IF gone[r] THEN "leave" ELSE "checkFailed")
    /\ UNCHANGED <<admission, failed, once, fatalCalls, gone, statuses>>

FailedMeanwhileMutant == FALSE
FailedMeanwhile == failed

CheckFailed(r) ==
    /\ at[r] = "checkFailed"
    /\ IF FailedMeanwhile
       THEN Respond(r, 500) /\ Goto(r, "body")
       ELSE Goto(r, "decide") /\ UNCHANGED statuses
    /\ UNCHANGED <<admission, failed, once, fatalCalls, gone, answer, doomed>>

\* The switch on the provider's error.
DecideUseless(r) ==
    /\ at[r] = "decide" /\ answer[r] = "useless"
    /\ Respond(r, 503) /\ Goto(r, "body")
    /\ UNCHANGED <<admission, failed, once, fatalCalls, gone, answer, doomed>>

DecideError(r) ==
    /\ at[r] = "decide" /\ answer[r] = "error"
    /\ failed' = TRUE
    /\ Goto(r, "write500")
    /\ UNCHANGED <<admission, once, fatalCalls, gone, answer, statuses, doomed>>

\* ctx.Err() is read before the document is looked at: it is set once the client
\* has left, and may be at any time, for the handler's deadline may pass.
DecideLate(r) ==
    /\ at[r] = "decide" /\ answer[r] \in {"document", "invalid"}
    /\ Respond(r, 503) /\ Goto(r, "body")
    /\ UNCHANGED <<admission, failed, once, fatalCalls, gone, answer, doomed>>

DecideInvalid(r) ==
    /\ at[r] = "decide" /\ answer[r] = "invalid"
    /\ ~gone[r]
    /\ failed' = TRUE
    /\ Goto(r, "write500")
    /\ UNCHANGED <<admission, once, fatalCalls, gone, answer, statuses, doomed>>

DecideDocument(r) ==
    /\ at[r] = "decide" /\ answer[r] = "document"
    /\ ~gone[r]
    /\ Goto(r, "write200")
    /\ UNCHANGED <<admission, failed, once, fatalCalls, gone, answer, statuses, doomed>>

WriteHeader200(r) ==
    /\ at[r] = "write200"
    /\ Respond(r, 200) /\ Goto(r, "body")
    /\ UNCHANGED <<admission, failed, once, fatalCalls, gone, answer, doomed>>

\* The body of the document, or of the error answered by a step above.
WriteBody(r) ==
    /\ at[r] = "body"
    /\ Goto(r, "leave")
    /\ UNCHANGED <<admission, failed, once, fatalCalls, gone, answer, statuses, doomed>>

WriteInternalError(r) ==
    /\ at[r] = "write500"
    /\ Respond(r, 500) /\ Goto(r, "body500")
    /\ UNCHANGED <<admission, failed, once, fatalCalls, gone, answer, doomed>>

WriteInternalBody(r) ==
    /\ at[r] = "body500"
    /\ Goto(r, "announce")
    /\ UNCHANGED <<admission, failed, once, fatalCalls, gone, answer, statuses, doomed>>

-----------------------------------------------------------------------------
(* fatalOnce.Do, from writeInternalError and from the recover handler.     *)
(* While the first caller is in fatal, the others wait in Do.              *)

AfterOnce(r) == IF at[r] = "announce" THEN "leave" ELSE "done"

OnceFreeMutant == once \in {"unused", "done"}
OnceFree == once = "unused"

OnceEnter(r) ==
    /\ at[r] \in {"announce", "lastWords"}
    /\ OnceFree
    /\ once' = r
    /\ fatalCalls' = fatalCalls + 1
    /\ UNCHANGED <<at, admission, failed, gone, answer, statuses, doomed>>

OnceReturn(r) ==
    /\ once = r
    /\ once' = "done"
    /\ Goto(r, AfterOnce(r))
    /\ UNCHANGED <<admission, failed, fatalCalls, gone, answer, statuses, doomed>>

OncePass(r) ==
    /\ at[r] \in {"announce", "lastWords"}
    /\ once = "done"
    /\ Goto(r, AfterOnce(r))
    /\ UNCHANGED <<admission, failed, once, fatalCalls, gone, answer, statuses, doomed>>

\* serveHTTP returns: the deferred functions run.
Leave(r) ==
    /\ at[r] = "leave"
    /\ admission' = Release
    /\ Goto(r, "done")
    /\ UNCHANGED <<failed, once, fatalCalls, gone, answer, statuses, doomed>>

-----------------------------------------------------------------------------
(* A panic in serveHTTP.  Unwinding runs the deferred release first, if the *)
(* request was admitted; recover then stores failed, answers unless the    *)
(* header is out, and announces the panic.                                 *)

PanicEarly(r) ==
    /\ at[r] \in Early
    /\ Goto(r, "recovered")
    /\ UNCHANGED <<admission, failed, once, fatalCalls, gone, answer, statuses, doomed>>

Panic(r) ==
    /\ at[r] \in {"checkFailed", "decide", "write200", "body", "write500", "body500"}
    /\ admission' = Release
    /\ Goto(r, "recovered")
    /\ UNCHANGED <<failed, once, fatalCalls, gone, answer, statuses, doomed>>

UncommittedMutant(r) == TRUE
Uncommitted(r) == statuses[r] = <<>>

Recover(r) ==
    /\ at[r] = "recovered"
    /\ failed' = TRUE
    /\ Goto(r, IF Uncommitted(r) THEN "recover500" ELSE "lastWords")
    /\ UNCHANGED <<admission, once, fatalCalls, gone, answer, statuses, doomed>>

RecoverWrite(r) ==
    /\ at[r] = "recover500"
    /\ Respond(r, 500) /\ Goto(r, "lastWords")
    /\ UNCHANGED <<admission, failed, once, fatalCalls, gone, answer, doomed>>

-----------------------------------------------------------------------------
\* One step of the goroutine that serves r.
Serve(r) ==
    \/ CheckEntry(r) \/ Admit(r) \/ RefuseBusy(r) \/ RefusalBody(r)
    \/ CheckFailed(r) \/ DecideUseless(r) \/ DecideError(r)
    \/ DecideLate(r) \/ DecideInvalid(r) \/ DecideDocument(r)
    \/ WriteHeader200(r) \/ WriteBody(r) \/ WriteInternalError(r) \/ WriteInternalBody(r)
    \/ OnceEnter(r) \/ OnceReturn(r) \/ OncePass(r) \/ Leave(r)
    \/ Recover(r) \/ RecoverWrite(r)

Provide(r) == \E a \in Answers : ProviderReturns(r, a)

Finished == (\A r \in Requests : at[r] = "done") /\ UNCHANGED vars

Next ==
    \/ \E r \in Requests :
          \/ Accept(r) \/ RefuseInvalid(r) \/ ClientLeaves(r)
          \/ Serve(r) \/ Provide(r) \/ PanicEarly(r) \/ Panic(r)
    \/ Finished

Spec == Init /\ [][Next]_vars

-----------------------------------------------------------------------------
(* Properties.                                                             *)

\* The admission channel holds one token per request between its admission
\* and its deferred release, panics included: the receive never blocks and
\* no slot is lost, so the endpoint can always return to full capacity.
AdmissionAccounting ==
    admission = Cardinality({r \in Requests : at[r] \in Holding}) /\ admission \in 0..Capacity

\* A response's header is written at most once, whatever path, or panic on
\* it, a request takes, and a request that is over has been answered unless
\* its client has left.  That every request gets there follows from the
\* absence of deadlocks: no step of a handler can be repeated.
AnsweredOnce ==
    \A r \in Requests :
        /\ Len(statuses[r]) <= 1
        /\ (at[r] = "done" /\ ~gone[r]) => statuses[r] # <<>>

\* Once a failure is stored no document leaves the endpoint for a request
\* whose provider call had not returned by then.
NoDocumentAfterFailure == \A r \in doomed : statuses[r] # <<200>>

\* fatal runs at most once.  When no handler is on its way any more, it has
\* run if and only if the endpoint is failed: a failure that stops service
\* always reaches the lifecycle, which restarts the process.
FailureAnnounced ==
    /\ fatalCalls <= 1
    /\ (\A r \in Requests : at[r] \in {"new", "done"}) => (failed <=> fatalCalls = 1)

=============================================================================
