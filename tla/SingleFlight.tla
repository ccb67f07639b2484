---------------------------- MODULE SingleFlight ----------------------------
(***************************************************************************)
(* What the coordinator promises its callers, without goroutines, domains  *)
(* or deadlines: at most one flight is under way; a caller is answered by  *)
(* a flight that was under way at some moment of its call, by its own      *)
(* context, or by the defect that closed admission; after a defect no      *)
(* flight begins.                                                          *)
(***************************************************************************)
CONSTANTS
    Callers,    \* calls; a flight is named after the call that began it
    Results,    \* what a flight can end with; "defect" closes admission
    NoFlight

VARIABLES
    running,    \* the flight under way, or NoFlight
    closed,     \* a defect has closed admission
    result,     \* the result of every flight, "pending" until it ends
    caller,     \* "out", "in" or "done"
    answer,     \* what each caller was told
    window      \* the flights under way at some moment since the call arrived

vars == <<running, closed, result, caller, answer, window>>

Init ==
    /\ running = NoFlight
    /\ closed = FALSE
    /\ result = [c \in Callers |-> "pending"]
    /\ caller = [r \in Callers |-> "out"]
    /\ answer = [r \in Callers |-> "pending"]
    /\ window = [r \in Callers |-> {}]

Arrived(r, state) ==
    /\ caller[r] = "out"
    /\ caller' = [caller EXCEPT ![r] = state]
    /\ window' = [window EXCEPT ![r] = {running} \ {NoFlight}]
    /\ UNCHANGED <<running, result>>

Arrive(r) ==
    /\ Arrived(r, "in")
    /\ UNCHANGED <<closed, answer>>

\* The call itself is defective and closes admission.
ArriveDefective(r) ==
    /\ Arrived(r, "in")
    /\ closed' = TRUE
    /\ UNCHANGED answer

ArriveCanceled(r) ==
    /\ Arrived(r, "done")
    /\ answer' = [answer EXCEPT ![r] = "requestErr"]
    /\ UNCHANGED closed

Begin(c) ==
    /\ caller[c] = "in" /\ result[c] = "pending"
    /\ running = NoFlight /\ ~closed
    /\ running' = c
    /\ window' = [r \in Callers |->
                    IF caller[r] = "out" THEN {} ELSE window[r] \cup {c}]
    /\ UNCHANGED <<closed, result, caller, answer>>

Land(c) ==
    /\ running = c
    /\ running' = NoFlight
    /\ \E end \in Results :
          /\ result' = [result EXCEPT ![c] = end]
          /\ closed' = (closed \/ end = "defect")
    /\ UNCHANGED <<caller, answer, window>>

Told(r, what) ==
    /\ caller[r] = "in"
    /\ caller' = [caller EXCEPT ![r] = "done"]
    /\ answer' = [answer EXCEPT ![r] = what]
    /\ UNCHANGED <<running, closed, result, window>>

Answer(r) ==
    \E c \in window[r] : result[c] # "pending" /\ Told(r, result[c])
Reject(r) == closed /\ Told(r, "defect")
Detach(r) == Told(r, "requestErr")

Next ==
    \E r \in Callers :
        \/ Arrive(r) \/ ArriveDefective(r) \/ ArriveCanceled(r)
        \/ Begin(r) \/ Land(r)
        \/ Answer(r) \/ Reject(r) \/ Detach(r)

Spec == Init /\ [][Next]_vars
=============================================================================
