-------------------------- MODULE LimitedListener --------------------------
(***************************************************************************)
(* limitedListener and limitedConnection (src/internal/httpapi/server.go): *)
(* a listener that lets at most Limit connections be open.  One goroutine, *)
(* http.Server.Serve, calls Accept in a loop; each connection is closed by *)
(* its own goroutine and, in shutdown, by Server.Close too, concurrently.  *)
(***************************************************************************)
EXTENDS Naturals, FiniteSets

CONSTANTS
    Connections,    \* the connections clients open
    Closers,        \* the goroutines that close connections
    Limit,          \* maximumConnections
    NoConnection

ASSUME LimitAssumption == Limit \in Nat \ {0}
ASSUME NoConnectionAssumption == NoConnection \notin Connections

VARIABLES
    slots,          \* len(slots)
    closed,         \* the closed channel is closed
    innerClosed,    \* the TCP listener is closed
    acceptor,       \* Accept: "waiting" for a slot, "accepting", "failing", "returned"
    conn,           \* for each connection: "absent", "open" or "shut"
    released,       \* the connections whose releaseOnce is used up
    closing         \* what each closer is about to release

listenerVars == <<slots, closed, innerClosed, acceptor, conn, released, closing>>

ListenerTypeOK ==
    /\ slots \in 0..Limit
    /\ {closed, innerClosed} \subseteq BOOLEAN
    /\ acceptor \in {"waiting", "accepting", "failing", "returned"}
    /\ conn \in [Connections -> {"absent", "open", "shut"}]
    /\ released \subseteq Connections
    /\ closing \in [Closers -> Connections \cup {NoConnection}]

ListenerInit ==
    /\ slots = 0
    /\ closed = FALSE
    /\ innerClosed = FALSE
    /\ acceptor = "waiting"
    /\ conn = [c \in Connections |-> "absent"]
    /\ released = {}
    /\ closing = [k \in Closers |-> NoConnection]

-----------------------------------------------------------------------------
(* Accept.  Either branch of its select may be taken when both are ready.  *)

MayTake == slots < Limit

TakeSlot ==
    /\ acceptor = "waiting"
    /\ MayTake
    /\ slots' = slots + 1
    /\ acceptor' = "accepting"
    /\ UNCHANGED <<closed, innerClosed, conn, released, closing>>

SeesClosedMutant == closed /\ MayTake
SeesClosed == closed

AcceptSeesClosed ==
    /\ acceptor = "waiting"
    /\ SeesClosed
    /\ acceptor' = "returned"
    /\ UNCHANGED <<slots, closed, innerClosed, conn, released, closing>>

\* The connection is handed to its goroutine and the Serve loop calls Accept
\* again.
AcceptConnection(c) ==
    /\ acceptor = "accepting"
    /\ ~innerClosed
    /\ conn[c] = "absent"
    /\ conn' = [conn EXCEPT ![c] = "open"]
    /\ acceptor' = "waiting"
    /\ UNCHANGED <<slots, closed, innerClosed, released, closing>>

\* The TCP listener fails, always once it is closed, now and then otherwise.
AcceptFails ==
    /\ acceptor = "accepting"
    /\ acceptor' = "failing"
    /\ UNCHANGED <<slots, closed, innerClosed, conn, released, closing>>

\* The Serve loop tries again after a temporary error, and otherwise ends.
AcceptGivesUp ==
    /\ acceptor = "failing"
    /\ slots' = slots - 1
    /\ acceptor' \in IF innerClosed THEN {"returned"} ELSE {"waiting", "returned"}
    /\ UNCHANGED <<closed, innerClosed, conn, released, closing>>

-----------------------------------------------------------------------------
(* Close of the listener: the channel first, then the TCP listener.        *)

CloseChannel ==
    /\ ~closed
    /\ closed' = TRUE
    /\ UNCHANGED <<slots, innerClosed, acceptor, conn, released, closing>>

CloseInner ==
    /\ closed /\ ~innerClosed
    /\ innerClosed' = TRUE
    /\ UNCHANGED <<slots, closed, acceptor, conn, released, closing>>

-----------------------------------------------------------------------------
(* Close of a connection by a closer: the socket, then releaseOnce.        *)

CloseSocket(k, c) ==
    /\ closing[k] = NoConnection
    /\ conn[c] # "absent"
    /\ conn' = [conn EXCEPT ![c] = "shut"]
    /\ closing' = [closing EXCEPT ![k] = c]
    /\ UNCHANGED <<slots, closed, innerClosed, acceptor, released>>

FirstReleaseMutant(c) == TRUE
FirstRelease(c) == c \notin released

ReleaseSlot(k) ==
    /\ closing[k] # NoConnection
    /\ FirstRelease(closing[k])
    /\ slots > 0
    /\ slots' = slots - 1
    /\ released' = released \cup {closing[k]}
    /\ closing' = [closing EXCEPT ![k] = NoConnection]
    /\ UNCHANGED <<closed, innerClosed, acceptor, conn>>

ReleaseAgain(k) ==
    /\ closing[k] # NoConnection
    /\ ~FirstRelease(closing[k])
    /\ closing' = [closing EXCEPT ![k] = NoConnection]
    /\ UNCHANGED <<slots, closed, innerClosed, acceptor, conn, released>>

-----------------------------------------------------------------------------
AcceptSteps == TakeSlot \/ AcceptSeesClosed \/ AcceptFails \/ AcceptGivesUp
CloserSteps(k) == ReleaseSlot(k) \/ ReleaseAgain(k)

ListenerFinished ==
    /\ acceptor = "returned" /\ innerClosed
    /\ \A k \in Closers : closing[k] = NoConnection
    /\ UNCHANGED listenerVars

ListenerNext ==
    \/ AcceptSteps \/ \E c \in Connections : AcceptConnection(c)
    \/ CloseChannel \/ CloseInner
    \/ \E k \in Closers : CloserSteps(k) \/ \E c \in Connections : CloseSocket(k, c)
    \/ ListenerFinished

ListenerSpec == ListenerInit /\ [][ListenerNext]_listenerVars

\* Goroutines that can run do; a TCP listener that is closed makes its Accept
\* fail.  Clients need not connect and connections need not be closed.
FairListenerSpec ==
    /\ ListenerSpec
    /\ WF_listenerVars(TakeSlot \/ AcceptSeesClosed) /\ WF_listenerVars(AcceptGivesUp)
    /\ WF_listenerVars(innerClosed /\ AcceptFails)
    /\ WF_listenerVars(CloseInner)
    /\ \A k \in Closers : WF_listenerVars(CloserSteps(k))

-----------------------------------------------------------------------------
(* Properties.                                                             *)

Unreleased == {c \in Connections : conn[c] # "absent"} \ released

\* A slot is held for each connection that has not been released, and by the
\* Accept that is under way, however often a connection is closed and however
\* Accept fails: no slot leaks and none is given back twice.  So at most
\* Limit sockets are open, and the receive of a release never blocks.
SlotAccounting ==
    /\ slots = Cardinality(Unreleased) + IF acceptor \in {"accepting", "failing"} THEN 1 ELSE 0
    /\ slots \in 0..Limit

\* Close ends Serve, even when every slot is taken by connections nobody
\* closes, and whichever branch of its select Accept takes.
CloseEndsAccept == closed ~> acceptor = "returned"
=============================================================================
