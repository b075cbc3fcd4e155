---------------------------- MODULE FifoDatabase ----------------------------
(***************************************************************************)
(* What app/database.py promises to the coroutines that call it, without   *)
(* its thread, its queue and its events: calls are numbered as they are    *)
(* made, take effect one by one in this order, are answered after their    *)
(* effect, and none is left when close() returns.  DatabaseWorker          *)
(* implements this specification.                                          *)
(***************************************************************************)
EXTENDS Naturals, Sequences

VARIABLES
    calls,      \* how many calls were made
    effects,    \* the calls that took effect, in this order
    answered,   \* the calls whose result may be read
    lost,       \* did the last attempt to open the database fail?
    state       \* "open", "join" while close() waits, "closed"

vars == <<calls, effects, answered, lost, state>>

Init ==
    /\ calls = 0
    /\ effects = <<>>
    /\ answered = {}
    /\ lost = FALSE
    /\ state = "open"

\* A call tries again to open a database that could not be opened.
Call ==
    /\ state = "open"
    /\ calls' = calls + 1
    /\ lost' = FALSE
    /\ UNCHANGED <<effects, answered, state>>

\* The oldest call that has not taken effect does.
TakeEffect ==
    /\ state # "closed" /\ ~ lost
    /\ Len(effects) < calls
    /\ effects' = Append(effects, Len(effects) + 1)
    /\ UNCHANGED <<calls, answered, lost, state>>

Answer ==
    /\ state # "closed" /\ ~ lost
    /\ \E n \in 1..Len(effects) : answered' = answered \cup {n}
    /\ UNCHANGED <<calls, effects, lost, state>>

Fail ==
    /\ state # "closed"
    /\ lost' = TRUE
    /\ UNCHANGED <<calls, effects, answered, state>>

Close ==
    /\ state = "open"
    /\ state' = "join"
    /\ UNCHANGED <<calls, effects, answered, lost>>

\* close() returns, at once when the database was never opened.  Only a
\* database that failed to open leaves calls without effect or answer.
Closed ==
    /\ state # "closed"
    /\ answered = 1..calls \/ lost
    /\ state' = "closed"
    /\ UNCHANGED <<calls, effects, answered, lost>>

Next == Call \/ TakeEffect \/ Answer \/ Fail \/ Close \/ Closed

Spec == Init /\ [][Next]_vars
=============================================================================
