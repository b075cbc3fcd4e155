--------------------------- MODULE DatabaseWorker ---------------------------
(***************************************************************************)
(* Database._run, _worker and close (app/database.py): coroutines hand     *)
(* closures to one SQLite thread through a FIFO queue and poll an Event    *)
(* for the answer.  The coroutines interleave at awaits only, the thread   *)
(* at any point.                                                           *)
(*                                                                         *)
(* The other modules treat a database call as one atomic step at the       *)
(* moment of the call; the properties of this one are why they may.        *)
(***************************************************************************)
EXTENDS Naturals, Sequences, FiniteSets

CONSTANTS
    Callers,     \* coroutines that use the database
    Threads,     \* names for the threads the code may start
    MaxCalls,    \* bound: the number of calls
    NoThread,
    Stop         \* _STOP

ASSUME WorkerAssumption ==
    /\ MaxCalls \in Nat
    /\ NoThread \notin Threads
    /\ Stop \notin Nat

VARIABLES
    closed,   \* self._closed
    handle,   \* self._thread
    thread,   \* the threads and the task each has in hand, 0 for none
    tasks,    \* self._tasks
    calls,    \* how many calls were made; the n-th call is task n
    waiting,  \* the task each caller polls, 0 for none
    done,     \* tasks whose event is set
    applied,  \* the tasks in the order in which their closures ran
    closing   \* where close() is, and the thread it joins

vars == <<closed, handle, thread, tasks, calls, waiting, done, applied, closing>>

NewThread == [pc |-> "none", task |-> 0]

Alive(t) == t # NoThread /\ thread[t].pc \in {"connect", "get", "run", "signal"}

Init ==
    /\ closed = FALSE
    /\ handle = NoThread
    /\ thread = [t \in Threads |-> NewThread]
    /\ tasks = <<>>
    /\ calls = 0
    /\ waiting = [c \in Callers |-> 0]
    /\ done = {}
    /\ applied = <<>>
    /\ closing = [pc |-> "open", thread |-> NoThread]

-----------------------------------------------------------------------------
\* Mutant: every call starts a thread.
EnsureAnother ==
    \E t \in Threads :
        /\ thread[t].pc = "none"
        /\ thread' = [thread EXCEPT ![t].pc = "connect"]
        /\ handle' = t

\* _ensure_worker: start a thread unless the last one is alive.
EnsureWorker ==
    IF Alive(handle) THEN UNCHANGED <<handle, thread>>
    ELSE \E t \in Threads :
            /\ thread[t].pc = "none"
            /\ thread' = [thread EXCEPT ![t].pc = "connect"]
            /\ handle' = t

\* _run, up to its polling loop: nothing is awaited in between.
Call(c) ==
    /\ waiting[c] = 0
    /\ ~ closed
    /\ calls < MaxCalls
    /\ EnsureWorker
    /\ calls' = calls + 1
    /\ tasks' = Append(tasks, calls + 1)
    /\ waiting' = [waiting EXCEPT ![c] = calls + 1]
    /\ UNCHANGED <<closed, done, applied, closing>>

\* The poll finds the event set.
Answer(c) ==
    /\ waiting[c] \in done
    /\ waiting' = [waiting EXCEPT ![c] = 0]
    /\ UNCHANGED <<closed, handle, thread, tasks, calls, done, applied, closing>>

\* The caller is cancelled while it polls; its task stays in the queue.
Abandon(c) ==
    /\ waiting[c] # 0
    /\ waiting' = [waiting EXCEPT ![c] = 0]
    /\ UNCHANGED <<closed, handle, thread, tasks, calls, done, applied, closing>>

-----------------------------------------------------------------------------
\* Mutants: close() does not refuse later calls; _STOP overtakes the tasks;
\* _STOP is never put.
CloseStaysOpen ==
    /\ closing.pc = "open"
    /\ closed' = FALSE
    /\ closing' = [pc |-> "join", thread |-> handle]
    /\ tasks' = Append(tasks, Stop)
    /\ UNCHANGED <<handle, thread, calls, waiting, done, applied>>

CloseAtOnce ==
    /\ ~ closed
    /\ closed' = TRUE
    /\ handle' = NoThread
    /\ closing' = [pc |-> IF handle = NoThread THEN "closed" ELSE "join", thread |-> handle]
    /\ tasks' = IF handle = NoThread THEN tasks ELSE <<Stop>> \o tasks
    /\ UNCHANGED <<thread, calls, waiting, done, applied>>

CloseSilently ==
    /\ ~ closed
    /\ closed' = TRUE
    /\ handle' = NoThread
    /\ closing' = [pc |-> IF handle = NoThread THEN "closed" ELSE "join", thread |-> handle]
    /\ UNCHANGED <<thread, tasks, calls, waiting, done, applied>>

\* close() puts _STOP behind the tasks and joins the thread.
Close ==
    /\ ~ closed
    /\ closed' = TRUE
    /\ handle' = NoThread
    /\ closing' = [pc |-> IF handle = NoThread THEN "closed" ELSE "join", thread |-> handle]
    /\ tasks' = IF handle = NoThread THEN tasks ELSE Append(tasks, Stop)
    /\ UNCHANGED <<thread, calls, waiting, done, applied>>

Joined ==
    /\ closing.pc = "join"
    /\ ~ Alive(closing.thread)
    /\ closing' = [closing EXCEPT !.pc = "closed"]
    /\ UNCHANGED <<closed, handle, thread, tasks, calls, waiting, done, applied>>

-----------------------------------------------------------------------------
\* The thread connects, then gets a task, runs it and sets its event.
Goto(t, pc) == thread' = [thread EXCEPT ![t].pc = pc]

Connect(t) ==
    /\ thread[t].pc = "connect"
    /\ Goto(t, "get")
    /\ UNCHANGED <<closed, handle, tasks, calls, waiting, done, applied, closing>>

ConnectRaises(t) ==
    /\ thread[t].pc = "connect"
    /\ Goto(t, "failed")
    /\ UNCHANGED <<closed, handle, tasks, calls, waiting, done, applied, closing>>

\* Mutant: the event is set when the task is taken.
GetAndSignal(t) ==
    /\ thread[t].pc = "get"
    /\ tasks # <<>>
    /\ tasks' = Tail(tasks)
    /\ thread' = [thread EXCEPT ![t] =
                    IF Head(tasks) = Stop THEN [pc |-> "dead", task |-> 0]
                    ELSE [pc |-> "run", task |-> Head(tasks)]]
    /\ done' = done \cup {Head(tasks)}
    /\ UNCHANGED <<closed, handle, calls, waiting, applied, closing>>

Get(t) ==
    /\ thread[t].pc = "get"
    /\ tasks # <<>>
    /\ tasks' = Tail(tasks)
    /\ thread' = [thread EXCEPT ![t] =
                    IF Head(tasks) = Stop THEN [pc |-> "dead", task |-> 0]
                    ELSE [pc |-> "run", task |-> Head(tasks)]]
    /\ UNCHANGED <<closed, handle, calls, waiting, done, applied, closing>>

\* The closure commits, or raises: the event is set either way.
Run(t) ==
    /\ thread[t].pc = "run"
    /\ applied' = Append(applied, thread[t].task)
    /\ Goto(t, "signal")
    /\ UNCHANGED <<closed, handle, tasks, calls, waiting, done, closing>>

Signal(t) ==
    /\ thread[t].pc = "signal"
    /\ done' = done \cup {thread[t].task}
    /\ thread' = [thread EXCEPT ![t] = [pc |-> "get", task |-> 0]]
    /\ UNCHANGED <<closed, handle, tasks, calls, waiting, applied, closing>>

Thread(t) == Connect(t) \/ ConnectRaises(t) \/ Get(t) \/ Run(t) \/ Signal(t)

Next ==
    \/ \E c \in Callers : Call(c) \/ Answer(c) \/ Abandon(c)
    \/ Close \/ Joined
    \/ \E t \in Threads : Thread(t)

Spec == Init /\ [][Next]_vars

\* The operating system runs the thread, the event loop the pollers.
FairSpec ==
    /\ Spec
    /\ \A t \in Threads : WF_vars(Thread(t))
    /\ \A c \in Callers : WF_vars(Answer(c))
    /\ WF_vars(Joined)

-----------------------------------------------------------------------------
(* Database calls take effect one after the other, in the order in which   *)
(* the coroutines made them: this is what lets a call be modelled as a     *)
(* single step at the moment it is made.                                   *)
EffectsInCallOrder == \A i \in DOMAIN applied : applied[i] = i

\* The thread that was started last could not open the database.
OpenFailed == \E t \in {handle, closing.thread} \ {NoThread} : thread[t].pc = "failed"

(* When close() has returned, every call made before it has taken effect:  *)
(* what the worker wrote while it was cancelled is in the database.  Only  *)
(* a last thread that could not open the database leaves calls undone.     *)
ClosedIsDrained == closing.pc = "closed" => Len(applied) = calls \/ OpenFailed

(* Every call is answered, also when close() comes in between.             *)
EveryCallAnswered ==
    \A c \in Callers : waiting[c] # 0 ~> (waiting[c] = 0 \/ OpenFailed)

(* close() returns, also when the thread has failed.                       *)
CloseReturns == closing.pc = "join" ~> closing.pc = "closed"
=============================================================================
