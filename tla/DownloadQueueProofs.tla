------------------------- MODULE DownloadQueueProofs -------------------------
(***************************************************************************)
(* Safety of DownloadQueue for every number of jobs, messages, requests,   *)
(* retries and restarts.                                                   *)
(***************************************************************************)
EXTENDS DownloadQueue, FiniteSetTheorems, SequenceTheorems, TLAPS

(* A worker or a caller that is past its first step holds a job of the     *)
(* table.  Without it the row a worker reads need not exist.               *)
WorkersOK ==
    /\ worker \in [Workers -> WorkerType]
    /\ \A w \in Workers : worker[w].pc \notin {"none", "idle"} => worker[w].job \in JobIds

CallsOK ==
    /\ call \in [Callers -> CallType]
    /\ \A c \in Callers : call[c].pc # "idle" => call[c].job \in JobIds

TypeInv == TypeOK /\ WorkersOK /\ CallsOK

-----------------------------------------------------------------------------
(* What the statements on the table return is a table.                     *)

LEMMA RowTypes ==
    /\ AbsentRow \in Row
    /\ \A m \in Messages : NewRow(m) \in Row
BY TableAssumption DEF AbsentRow, NewRow, Row, States

LEMMA InsertType ==
    ASSUME NEW t \in [JobIds -> Row], NEW j \in JobIds, NEW m \in Messages
    PROVE  Insert(t, j, m) \in [JobIds -> Row]
BY RowTypes DEF Insert

LEMMA RecoverType ==
    ASSUME NEW t \in [JobIds -> Row]
    PROVE  Recover(t) \in [JobIds -> Row]
BY DEF Recover, Row, States

LEMMA TransitionType ==
    ASSUME NEW t \in [JobIds -> Row], NEW j \in JobIds, NEW from, NEW to \in States
    PROVE  Transition(t, j, from, to) \in [JobIds -> Row]
BY DEF Transition, Row, States

LEMMA TransitionRetryType ==
    ASSUME NEW t \in [JobIds -> Row], NEW j \in JobIds, NEW to \in States, NEW n \in Nat
    PROVE  TransitionRetry(t, j, to, n) \in [JobIds -> Row]
BY DEF TransitionRetry, Row, States

LEMMA RequestTypes ==
    ASSUME NEW t \in [JobIds -> Row], NEW j \in JobIds
    PROVE  /\ RequestCancel(t, j) \in [JobIds -> Row]
           /\ Retry(t, j) \in [JobIds -> Row]
           /\ ClearHistory(t) \in [JobIds -> Row]
BY RowTypes DEF RequestCancel, Retry, ClearHistory, Row, States

LEMMA QueuedType ==
    ASSUME NEW t \in [JobIds -> Row]
    PROVE  Queued(t) \subseteq [id : JobIds, msg : Messages \cup {0}]
BY DEF Queued, Row

LEMMA NoJobFacts ==
    /\ NoWorker \in WorkerType
    /\ IdleWorker \in WorkerType
    /\ IdleCall \in CallType
BY RowTypes DEF NoWorker, IdleWorker, IdleCall, WorkerType, CallType,
    WorkerPcs, CallerPcs, ProcessPcs, TryPcs

-----------------------------------------------------------------------------
LEMMA InitType == Init => TypeInv
<1> SUFFICES ASSUME Init PROVE TypeInv
  OBVIOUS
<1> USE DEF Init
<1>1. rows \in [JobIds -> Row]
  BY RowTypes DEF EmptyTable
<1>2. nextId \in 1..(MaxJobs + 1)
  BY TableAssumption
<1>3. /\ lastSeen \in Nat /\ restarts \in Nat /\ active \in Int
      /\ queue \in Seq(JobIds) /\ phase \in Phases
  BY DEF Phases
<1>4. serving \in BOOLEAN /\ known \subseteq JobIds
  OBVIOUS
<1>5. todo \subseteq [id : JobIds, msg : Messages \cup {0}]
  OBVIOUS
<1>6. WorkersOK /\ CallsOK
  BY NoJobFacts DEF WorkersOK, CallsOK, NoWorker, IdleCall
<1> QED
  BY <1>1, <1>2, <1>3, <1>4, <1>5, <1>6, Zenon DEF TypeInv, TypeOK, WorkersOK, CallsOK

-----------------------------------------------------------------------------
(* The ways a worker and a caller move.                                    *)

LEMMA GotoType ==
    ASSUME WorkersOK, NEW w \in Workers, NEW pc \in WorkerPcs, Goto(w, pc),
           worker[w].pc \notin {"none", "idle"}
    PROVE  WorkersOK'
BY DEF WorkersOK, Goto, WorkerType

LEMMA GetType ==
    ASSUME TypeOK, WorkersOK, NEW w \in Workers, NEW pc \in WorkerPcs, Get(w, pc),
           worker[w].pc \notin {"none", "idle"}
    PROVE  WorkersOK'
<1>1. rows[worker[w].job] \in Row
  BY DEF WorkersOK, TypeOK
<1> QED
  BY <1>1 DEF WorkersOK, Get, WorkerType

LEMMA LeaveType ==
    ASSUME TypeOK, WorkersOK, NEW w \in Workers, Leave(w)
    PROVE  WorkersOK' /\ known' \subseteq JobIds
<1>1. IdleWorker \in WorkerType /\ IdleWorker.pc = "idle"
  BY NoJobFacts DEF IdleWorker
<1> QED
  BY <1>1 DEF WorkersOK, TypeOK, Leave

LEMMA CallIdleType ==
    ASSUME CallsOK, NEW c \in Callers, call' = [call EXCEPT ![c] = IdleCall]
    PROVE  CallsOK'
<1>1. IdleCall \in CallType /\ IdleCall.pc = "idle"
  BY NoJobFacts DEF IdleCall
<1> QED
  BY <1>1 DEF CallsOK

LEMMA CallWantType ==
    ASSUME CallsOK, NEW c \in Callers, NEW j \in JobIds,
           call' = [call EXCEPT ![c] = [pc |-> "want", job |-> j, snap |-> AbsentRow]]
    PROVE  CallsOK'
BY RowTypes DEF CallsOK, CallType, CallerPcs

LEMMA CheckType ==
    ASSUME TypeOK, CallsOK, NEW c \in Callers, NEW j \in JobIds, EnqueueCheck(c, j)
    PROVE  CallsOK'
<1>1. CASE j \in known
  BY <1>1, CallIdleType DEF EnqueueCheck
<1>2. CASE j \notin known
  <2>1. rows[j] \in Row
    BY DEF TypeOK
  <2> QED
    BY <1>2, <2>1 DEF EnqueueCheck, CallsOK, CallType, CallerPcs
<1> QED
  BY <1>1, <1>2

-----------------------------------------------------------------------------
(* A worker's step changes the table, the queue, the known set, the        *)
(* counter and the worker, and nothing else.                               *)
LEMMA WorkType ==
    ASSUME TypeInv, NEW w \in Workers, Work(w)
    PROVE  TypeInv'
<1> USE DEF TypeInv
<1> USE DEF WorkerPcs, ProcessPcs, TryPcs
<1>1. ASSUME rows' \in [JobIds -> Row], queue' \in Seq(JobIds), known' \subseteq JobIds,
             active' \in Int, WorkersOK',
             UNCHANGED <<nextId, lastSeen, restarts, phase, serving, call, todo>>
      PROVE  TypeInv'
  <2>1. CallsOK'
    BY <1>1 DEF CallsOK
  <2> QED
    BY <1>1, <2>1, Zenon DEF TypeOK, WorkersOK
<1>2. /\ rows \in [JobIds -> Row] /\ queue \in Seq(JobIds) /\ known \subseteq JobIds
      /\ active \in Int
  BY DEF TypeOK
<1>3. /\ active + 1 \in Int /\ active - 1 \in Int
  BY <1>2
<1>4. worker[w].pc \notin {"none", "idle"} => worker[w].job \in JobIds
  BY DEF WorkersOK
<1>5. CASE Take(w)
  <2>1. /\ Head(queue) \in JobIds /\ Tail(queue) \in Seq(JobIds)
    BY <1>2, <1>5, HeadTailProperties DEF Take
  <2>2. rows[Head(queue)] \in Row
    BY <1>2, <2>1
  <2>3. WorkersOK'
    BY <1>5, <2>1, <2>2 DEF Take, WorkersOK, WorkerType
  <2> QED
    BY <1>1, <1>2, <1>5, <2>1, <2>3 DEF Take, durable
<1>6. CASE Attempt(w)
  <2>1. rows[worker[w].job] \in Row
    BY <1>2, <1>4, <1>6 DEF Attempt
  <2>2. WorkersOK'
    BY <1>6, <2>1 DEF Attempt, WorkersOK, WorkerType
  <2> QED
    BY <1>1, <1>2, <1>3, <1>6, <2>2 DEF Attempt, durable
<1>7. CASE NextItem(w)
  <2>1. WorkersOK' /\ known' \subseteq JobIds
    BY <1>7, LeaveType DEF NextItem
  <2> QED
    BY <1>1, <1>2, <1>7, <2>1 DEF NextItem, durable
<1>8. CASE EndProcess(w)
  <2>1. WorkersOK'
    BY <1>8, GetType DEF EndProcess, Returned
  <2> QED
    BY <1>1, <1>2, <1>3, <1>8, <2>1 DEF EndProcess, durable
<1>9. CASE CancelBeforeStart(w) \/ PauseForDisk(w) \/ BeginDownload(w) \/ ProgressCancels(w) \/ FinishDownload(w)
  <2>1. worker[w].pc \notin {"none", "idle"}
    BY <1>9 DEF CancelBeforeStart, PauseForDisk, BeginDownload, ProgressCancels, FinishDownload, Startable
  <2>2. WorkersOK'
    BY <1>9, <2>1, GotoType DEF CancelBeforeStart, PauseForDisk, BeginDownload, ProgressCancels, FinishDownload
  <2>3. rows' \in [JobIds -> Row]
    BY <1>2, <1>4, <1>9, <2>1, TransitionType
    DEF CancelBeforeStart, PauseForDisk, BeginDownload, ProgressCancels, FinishDownload, States
  <2> QED
    BY <1>1, <1>2, <1>9, <2>2, <2>3
    DEF CancelBeforeStart, PauseForDisk, BeginDownload, ProgressCancels, FinishDownload
<1>10. CASE UnhandledError(w)
  <2>1. WorkersOK' /\ known' \subseteq JobIds
    BY <1>10, LeaveType DEF UnhandledError
  <2> QED
    BY <1>1, <1>2, <1>3, <1>10, <2>1 DEF UnhandledError, durable
<1>11. CASE Connect(w) \/ ProgressContinues(w)
  <2>1. WorkersOK'
    BY <1>11, GotoType DEF Connect, ProgressContinues
  <2> QED
    BY <1>1, <1>2, <1>11, <2>1 DEF Connect, ProgressContinues, durable
<1>12. CASE Progress(w) \/ DownloadError(w)
  <2>1. WorkersOK'
    BY <1>12, GetType DEF Progress, DownloadError
  <2> QED
    BY <1>1, <1>2, <1>12, <2>1 DEF Progress, DownloadError, durable
<1>13. CASE Failure(w)
  <2>1. WorkersOK'
    BY <1>13, GotoType DEF Failure
  <2>2. worker[w].snap.retries + 1 \in Nat
    BY DEF WorkersOK, WorkerType, Row
  <2>3. rows' \in [JobIds -> Row]
    BY <1>2, <1>4, <1>13, <2>2, TransitionRetryType DEF Failure, States
  <2> QED
    BY <1>1, <1>2, <1>13, <2>1, <2>3 DEF Failure
<1> QED
  BY <1>5, <1>6, <1>7, <1>8, <1>9, <1>10, <1>11, <1>12, <1>13 DEF Work, Process

(* enqueue, the message handler and the start-up of the queue.             *)
LEMMA EnqueueType ==
    ASSUME TypeInv, Enqueuing
    PROVE  TypeInv'
<1> USE DEF TypeInv
<1> PICK c \in Callers : Enqueue(c) \/ EnqueuePut(c)
  BY DEF Enqueuing
<1>1. ASSUME queue' \in Seq(JobIds), known' \subseteq JobIds, CallsOK',
             UNCHANGED <<durable, phase, serving, active, worker, todo>>
      PROVE  TypeInv'
  <2>1. WorkersOK'
    BY <1>1 DEF WorkersOK
  <2> QED
    BY <1>1, <2>1, Zenon DEF TypeOK, CallsOK, durable
<1>2. queue \in Seq(JobIds) /\ known \subseteq JobIds
  BY DEF TypeOK
<1>3. CASE Enqueue(c)
  <2>1. CallsOK'
    BY <1>3, CheckType DEF Enqueue, CallsOK
  <2> QED
    BY <1>1, <1>2, <1>3, <2>1 DEF Enqueue
<1>4. CASE EnqueuePut(c)
  <2>1. call[c].job \in JobIds
    BY <1>4 DEF EnqueuePut, CallsOK
  <2>2. CallsOK'
    BY <1>4, CallIdleType DEF EnqueuePut
  <2>3. Append(queue, call[c].job) \in Seq(JobIds)
    BY <1>2, <2>1, AppendProperties
  <2>4. queue' \in Seq(JobIds) /\ known' \subseteq JobIds
    BY <1>2, <1>4, <2>1, <2>3 DEF EnqueuePut
  <2> QED
    BY <1>1, <1>4, <2>2, <2>4 DEF EnqueuePut
<1> QED
  BY <1>3, <1>4

LEMMA ReceiveType ==
    ASSUME TypeInv, NEW m \in Messages, Receive(m)
    PROVE  TypeInv'
<1> USE DEF TypeInv
<1>1. lastSeen' \in Nat
  BY TableAssumption DEF Receive, TypeOK
<1>2. WorkersOK'
  BY DEF Receive, WorkersOK
<1>3. /\ rows' \in [JobIds -> Row]
      /\ nextId' \in 1..(MaxJobs + 1)
      /\ CallsOK'
  <2>1. CASE Duplicate(rows, m)
    <3>1. UNCHANGED <<rows, nextId, call>>
      BY <2>1 DEF Receive
    <3> QED
      BY <3>1 DEF TypeOK, CallsOK
  <2>2. CASE ~ Duplicate(rows, m)
    <3>1. /\ nextId \in JobIds
          /\ nextId + 1 \in 1..(MaxJobs + 1)
      BY <2>2, TableAssumption DEF Receive, TypeOK, JobIds
    <3>2. rows' \in [JobIds -> Row]
      BY <2>2, <3>1, InsertType DEF Receive, TypeOK
    <3>3. "intake" \in Callers
      BY DEF Callers
    <3>4. CallsOK'
      BY <2>2, <3>1, <3>3, CallWantType DEF Receive
    <3> QED
      BY <2>2, <3>1, <3>2, <3>4 DEF Receive
  <2> QED
    BY <2>1, <2>2
<1>4. UNCHANGED <<restarts, phase, serving, queue, known, active, todo>>
  BY DEF Receive
<1> QED
  BY <1>1, <1>2, <1>3, <1>4, Zenon DEF TypeOK, WorkersOK, CallsOK

LEMMA StartType ==
    ASSUME TypeInv, Start
    PROVE  TypeInv'
<1> USE DEF TypeInv
<1>1. ASSUME phase' \in Phases, serving' \in BOOLEAN,
             todo' \subseteq [id : JobIds, msg : Messages \cup {0}], WorkersOK', CallsOK',
             UNCHANGED <<durable, queue, known, active>>
      PROVE  TypeInv'
  BY <1>1, Zenon DEF TypeOK, WorkersOK, CallsOK, durable
<1>2. /\ phase \in Phases /\ serving \in BOOLEAN /\ rows \in [JobIds -> Row]
      /\ todo \subseteq [id : JobIds, msg : Messages \cup {0}]
  BY DEF TypeOK
<1>3. CASE TelegramStart \/ TelegramStartFails
  <2>1. WorkersOK' /\ CallsOK'
    BY <1>3 DEF TelegramStart, TelegramStartFails, WorkersOK, CallsOK, tasks
  <2> QED
    BY <1>1, <1>2, <1>3, <2>1 DEF TelegramStart, TelegramStartFails, tasks, Phases
<1>4. CASE StartQueue
  <2>1. WorkersOK' /\ CallsOK'
    BY <1>4 DEF StartQueue, WorkersOK, CallsOK
  <2>2. todo' \subseteq [id : JobIds, msg : Messages \cup {0}]
    BY <1>2, <1>4, QueuedType DEF StartQueue
  <2>3. phase' \in Phases /\ serving' \in BOOLEAN
    BY <1>2, <1>4 DEF StartQueue, Phases
  <2> QED
    BY <1>1, <1>4, <2>1, <2>2, <2>3 DEF StartQueue
<1>5. CASE ScanNext
  <2> PICK e \in todo : EnqueueCheck("scan", e.id) /\ todo' = todo \ {e}
    BY <1>5 DEF ScanNext
  <2>1. e.id \in JobIds /\ "scan" \in Callers
    BY <1>2 DEF Callers
  <2>2. CallsOK'
    BY <2>1, CheckType
  <2>3. WorkersOK'
    BY <1>5 DEF ScanNext, WorkersOK
  <2> QED
    BY <1>1, <1>2, <1>5, <2>2, <2>3 DEF ScanNext
<1>6. ASSUME NEW w \in Workers, ScanDone(w) PROVE TypeInv'
  <2>1. WorkersOK'
    BY <1>6, NoJobFacts DEF ScanDone, WorkersOK, IdleWorker
  <2>2. CallsOK'
    BY <1>6 DEF ScanDone, CallsOK
  <2> QED
    BY <1>1, <1>2, <1>6, <2>1, <2>2 DEF ScanDone, Phases
<1> QED
  BY <1>3, <1>4, <1>5, <1>6 DEF Start

(* The requests of the dashboard, and the life of the process.             *)
LEMMA UserType ==
    ASSUME TypeInv, User
    PROVE  TypeInv'
<1> USE DEF TypeInv
<1>1. ASSUME rows' \in [JobIds -> Row], phase' \in Phases, CallsOK',
             UNCHANGED <<nextId, lastSeen, restarts, serving, queue, known, active, worker, todo>>
      PROVE  TypeInv'
  <2>1. WorkersOK'
    BY <1>1 DEF WorkersOK
  <2> QED
    BY <1>1, <2>1, Zenon DEF TypeOK, CallsOK
<1>2. rows \in [JobIds -> Row] /\ phase \in Phases
  BY DEF TypeOK
<1>3. ASSUME NEW r \in Requests, NEW j \in JobIds, RetryRequest(r, j) PROVE TypeInv'
  <2>1. CallsOK'
    BY <1>3, CallWantType DEF RetryRequest, Callers
  <2> QED
    BY <1>1, <1>2, <1>3, <2>1, RequestTypes DEF RetryRequest
<1>4. ASSUME NEW j \in JobIds, CancelRequest(j) PROVE TypeInv'
  BY <1>1, <1>2, <1>4, RequestTypes DEF CancelRequest, CallsOK, tasks
<1>5. CASE ClearRequest
  <2>1. rows' \in [JobIds -> Row]
    BY <1>2, <1>5, RowTypes DEF ClearRequest, ClearHistory
  <2> QED
    BY <1>1, <1>2, <1>5, <2>1 DEF ClearRequest, CallsOK, tasks
<1>6. CASE Relogin
  BY <1>1, <1>2, <1>6 DEF Relogin, CallsOK, tasks, durable, Phases
<1> QED
  BY <1>3, <1>4, <1>5, <1>6 DEF User

LEMMA EnvironmentType ==
    ASSUME TypeInv, Environment
    PROVE  TypeInv'
<1> USE DEF TypeInv
<1>1. [w \in Workers |-> NoWorker] \in [Workers -> WorkerType]
  BY NoJobFacts
<1>2. ASSUME worker' = [w \in Workers |-> NoWorker] PROVE WorkersOK'
  BY <1>1, <1>2 DEF WorkersOK, NoWorker
<1>3. CASE Exit \/ Crash
  <2>1. Halt
    BY <1>3 DEF Exit, Crash
  <2>2. CallsOK'
    BY <2>1, NoJobFacts DEF Halt, CallsOK, IdleCall
  <2>3. phase' \in Phases /\ queue' \in Seq(JobIds) /\ active' \in Int
    BY <2>1 DEF Halt, Phases
  <2>4. /\ serving' \in BOOLEAN /\ known' \subseteq JobIds
        /\ todo' \subseteq [id : JobIds, msg : Messages \cup {0}]
    BY <2>1 DEF Halt
  <2>5. WorkersOK' /\ UNCHANGED <<rows, nextId, lastSeen, restarts>>
    BY <1>2, <2>1 DEF Halt, durable
  <2> QED
    BY <2>2, <2>3, <2>4, <2>5, Zenon DEF TypeOK, WorkersOK, CallsOK
<1>4. CASE Shutdown
  <2>1. CallsOK'
    BY <1>4 DEF Shutdown, CallsOK
  <2>2. rows' \in [JobIds -> Row]
    BY <1>4 DEF Shutdown, TypeOK, Row, States
  <2>3. active' \in Int
    <3>1. worker \in [Workers -> WorkerType] /\ active \in Int
      BY DEF TypeOK
    <3> DEFINE busy == {w \in Workers : Processing(w)}
    <3>2. IsFiniteSet(busy)
      BY QueueAssumption, FS_Subset
    <3>3. Cardinality(busy) \in Nat
      BY <3>2, FS_CardinalityType
    <3>4. active' = active - Cardinality(busy)
      BY <1>4 DEF Shutdown
    <3> HIDE DEF busy
    <3> QED
      BY <3>1, <3>3, <3>4
  <2>4. phase' \in Phases /\ serving' \in BOOLEAN /\ known' \subseteq JobIds
    BY <1>4 DEF Shutdown, Phases, TypeOK
  <2>5. WorkersOK' /\ UNCHANGED <<nextId, lastSeen, restarts, queue, todo>>
    BY <1>2, <1>4 DEF Shutdown
  <2> QED
    BY <2>1, <2>2, <2>3, <2>4, <2>5, Zenon DEF TypeOK, WorkersOK, CallsOK
<1>5. CASE Boot
  <2>1. WorkersOK' /\ CallsOK'
    BY <1>5 DEF Boot, WorkersOK, CallsOK, tasks
  <2>2. rows' \in [JobIds -> Row] /\ restarts' \in Nat
    BY <1>5, RecoverType DEF Boot, TypeOK
  <2>3. phase' \in Phases
    BY <1>5 DEF Boot, Phases
  <2>4. UNCHANGED <<nextId, lastSeen, serving, queue, known, active, todo>>
    BY <1>5 DEF Boot, tasks
  <2> QED
    BY <2>1, <2>2, <2>3, <2>4, Zenon DEF TypeOK, WorkersOK, CallsOK
<1> QED
  BY <1>3, <1>4, <1>5 DEF Environment

LEMMA TypeStep == TypeInv /\ [Next]_vars => TypeInv'
<1> SUFFICES ASSUME TypeInv, [Next]_vars PROVE TypeInv'
  OBVIOUS
<1>1. CASE Next
  BY <1>1, ReceiveType, WorkType, EnqueueType, StartType, UserType, EnvironmentType DEF Next
<1>2. CASE UNCHANGED vars
  BY <1>2, Zenon DEF TypeInv, TypeOK, WorkersOK, CallsOK, vars, durable, tasks
<1> QED
  BY <1>1, <1>2

(* The state of the queue is always what its parts are meant to hold: a    *)
(* table of rows, a queue of existing job numbers, workers and callers     *)
(* with a job in hand (QueueManager, downloader.py, telegram_client.py).   *)
THEOREM TypeCorrect == Spec => []TypeOK
<1>1. Spec => []TypeInv
  BY InitType, TypeStep, PTL DEF Spec
<1>2. TypeInv => TypeOK
  BY DEF TypeInv
<1> QED
  BY <1>1, <1>2, PTL

-----------------------------------------------------------------------------
(* One worker.  AtMostOneActive is not inductive: that the counter is      *)
(* right says nothing about a second worker that is still idle.  What      *)
(* keeps it away is that start() scans and creates a worker only when none *)
(* runs, and that no worker can appear while it scans.                     *)
SingleWorker ==
    /\ \A v, w \in Workers : worker[v].pc # "none" /\ worker[w].pc # "none" => v = w
    /\ phase \in {"down", "scanning", "stopping"} => ~ Running
    /\ active = IF \E w \in Workers : Processing(w) THEN 1 ELSE 0

LEMMA SingleInit == Init => SingleWorker
BY DEF Init, SingleWorker, Running, Processing, NoWorker, ProcessPcs, TryPcs

\* A step of the only worker enters process(), leaves it, or does neither.
LEMMA SingleMove ==
    ASSUME TypeInv, SingleWorker, NEW w \in Workers,
           worker[w].pc # "none", worker'[w].pc # "none",
           \A v \in Workers \ {w} : worker'[v] = worker[v],
           phase' = phase,
           \/ active' = active /\ (Processing(w) <=> Processing(w)')
           \/ active' = active + 1 /\ ~ Processing(w) /\ Processing(w)'
           \/ active' = active - 1 /\ Processing(w) /\ ~ Processing(w)'
    PROVE  SingleWorker'
<1>1. \A v \in Workers \ {w} : worker[v].pc = "none" /\ worker'[v].pc = "none"
  BY DEF SingleWorker
<1>2. \A v \in Workers \ {w} : ~ Processing(v) /\ ~ Processing(v)'
  BY <1>1 DEF Processing, ProcessPcs, TryPcs
<1>3. active = IF Processing(w) THEN 1 ELSE 0
  BY <1>2 DEF SingleWorker
<1>4. active' = IF Processing(w)' THEN 1 ELSE 0
  BY <1>3
<1>5. active' = IF \E v \in Workers : Processing(v)' THEN 1 ELSE 0
  BY <1>2, <1>4
<1>6. phase' \notin {"down", "scanning", "stopping"}
  BY DEF SingleWorker, Running
<1> QED
  BY <1>1, <1>5, <1>6 DEF SingleWorker

LEMMA SingleWork ==
    ASSUME TypeInv, SingleWorker, NEW w \in Workers, Work(w)
    PROVE  SingleWorker'
<1> USE DEF Processing, ProcessPcs, TryPcs
<1>1. worker \in [Workers -> WorkerType]
  BY DEF TypeInv, TypeOK
<1> USE <1>1 DEF WorkerType
<1>2. CASE Take(w)
  BY <1>2, SingleMove DEF Take
<1>3. CASE Attempt(w)
  BY <1>3, SingleMove DEF Attempt
<1>4. CASE NextItem(w)
  BY <1>4, SingleMove DEF NextItem, Leave, IdleWorker
<1>5. CASE EndProcess(w)
  BY <1>5, SingleMove DEF EndProcess, Returned, Get
<1>6. CASE CancelBeforeStart(w) \/ PauseForDisk(w) \/ BeginDownload(w) \/ Failure(w)
  BY <1>6, SingleMove DEF CancelBeforeStart, PauseForDisk, BeginDownload, Failure, Startable, Goto
<1>7. CASE UnhandledError(w)
  BY <1>7, SingleMove DEF UnhandledError, Startable, Leave, IdleWorker
<1>8. CASE Connect(w) \/ ProgressCancels(w) \/ ProgressContinues(w) \/ FinishDownload(w)
  BY <1>8, SingleMove DEF Connect, ProgressCancels, ProgressContinues, FinishDownload, Goto
<1>9. CASE Progress(w) \/ DownloadError(w)
  BY <1>9, SingleMove DEF Progress, DownloadError, Get
<1> QED
  BY <1>2, <1>3, <1>4, <1>5, <1>6, <1>7, <1>8, <1>9 DEF Work, Process

LEMMA SingleStep == TypeInv /\ SingleWorker /\ [Next]_vars => SingleWorker'
<1> SUFFICES ASSUME TypeInv, SingleWorker, [Next]_vars PROVE SingleWorker'
  OBVIOUS
<1>1. ASSUME UNCHANGED <<worker, active>>,
             phase' \in {"down", "scanning", "stopping"} => ~ Running
      PROVE  SingleWorker'
  BY <1>1 DEF SingleWorker, Running, Processing
<1>2. ASSUME worker' = [w \in Workers |-> NoWorker], active' = 0 PROVE SingleWorker'
  BY <1>2 DEF SingleWorker, Running, Processing, NoWorker, ProcessPcs, TryPcs
<1>3. ASSUME NEW m \in Messages, Receive(m) PROVE SingleWorker'
  BY <1>1, <1>3 DEF Receive, SingleWorker
<1>4. ASSUME NEW w \in Workers, Work(w) PROVE SingleWorker'
  BY <1>4, SingleWork
<1>5. CASE Enqueuing
  BY <1>1, <1>5 DEF Enqueuing, Enqueue, EnqueuePut, SingleWorker
<1>6. CASE TelegramStart \/ TelegramStartFails \/ StartQueue \/ ScanNext
  BY <1>1, <1>6 DEF TelegramStart, TelegramStartFails, StartQueue, ScanNext, SingleWorker, tasks
<1>7. ASSUME NEW w \in Workers, ScanDone(w) PROVE SingleWorker'
  <2>1. ~ Running /\ worker \in [Workers -> WorkerType]
    BY <1>7 DEF ScanDone, SingleWorker, TypeInv, TypeOK
  <2>2. \A v \in Workers : worker'[v].pc = IF v = w THEN "idle" ELSE "none"
    BY <1>7, <2>1 DEF ScanDone, Running, IdleWorker
  <2>3. \A v \in Workers : ~ Processing(v) /\ ~ Processing(v)'
    BY <2>1, <2>2 DEF Running, Processing, ProcessPcs, TryPcs
  <2>4. active' = 0 /\ phase' = "up"
    BY <1>7, <2>3 DEF ScanDone, SingleWorker
  <2> QED
    BY <2>2, <2>3, <2>4 DEF SingleWorker
<1>8. CASE User
  BY <1>1, <1>8 DEF User, RetryRequest, CancelRequest, ClearRequest, Relogin, SingleWorker, tasks
<1>9. CASE Shutdown
  <2> DEFINE busy == {w \in Workers : Processing(w)}
  <2>1. active = Cardinality(busy)
    <3>1. CASE \E w \in Workers : Processing(w)
      <4> PICK w \in Workers : Processing(w)
        BY <3>1
      <4>1. busy = {w}
        BY DEF SingleWorker, Processing, ProcessPcs, TryPcs
      <4> QED
        BY <3>1, <4>1, FS_Singleton DEF SingleWorker
    <3>2. CASE ~ \E w \in Workers : Processing(w)
      BY <3>2, FS_EmptySet DEF SingleWorker
    <3> QED
      BY <3>1, <3>2
  <2>2. active' = active - Cardinality(busy) /\ active \in Int
    BY <1>9 DEF Shutdown, TypeInv, TypeOK
  <2>3. active' = 0
    BY <2>1, <2>2
  <2> QED
    BY <1>2, <1>9, <2>3 DEF Shutdown
<1>10. CASE Exit \/ Crash
  BY <1>2, <1>10 DEF Exit, Crash, Halt
<1>11. CASE Boot
  BY <1>1, <1>11 DEF Boot, SingleWorker, tasks
<1>12. CASE UNCHANGED vars
  BY <1>1, <1>12 DEF vars, tasks, SingleWorker
<1> QED
  BY <1>3, <1>4, <1>5, <1>6, <1>7, <1>8, <1>9, <1>10, <1>11, <1>12
  DEF Next, Start, Environment

(* The "CONCURRENCY VIOLATION" of QueueManager._worker never happens.      *)
THEOREM NeverTwoActive == Spec => []AtMostOneActive
<1>1. Spec => [](TypeInv /\ SingleWorker)
  BY InitType, TypeStep, SingleInit, SingleStep, PTL DEF Spec
<1>2. SingleWorker => AtMostOneActive
  <2> SUFFICES ASSUME SingleWorker PROVE AtMostOneActive
    OBVIOUS
  <2>1. CASE \E w \in Workers : Processing(w)
    <3> PICK w \in Workers : Processing(w)
      BY <2>1
    <3>1. {v \in Workers : Processing(v)} = {w}
      BY DEF SingleWorker, Processing, ProcessPcs, TryPcs
    <3>2. active = 1 /\ Cardinality({w}) = 1
      BY FS_Singleton DEF SingleWorker
    <3> QED
      BY <3>1, <3>2 DEF AtMostOneActive
  <2>2. CASE ~ \E w \in Workers : Processing(w)
    <3>1. {v \in Workers : Processing(v)} = {}
      BY <2>2
    <3>2. active = 0 /\ Cardinality({v \in Workers : Processing(v)}) = 0
      BY <2>2, <3>1, FS_EmptySet DEF SingleWorker
    <3> QED
      BY <3>2 DEF AtMostOneActive
  <2> QED
    BY <2>1, <2>2
<1> QED
  BY <1>1, <1>2, PTL

-----------------------------------------------------------------------------
(* The row of a transfer.  DownloadingIsHeld is not inductive: between the *)
(* read of a row and the decision that rests on it the row must not leave  *)
(* the state that was read, and _failure must write what it finds.         *)
Transferring == {"mark", "transfer", "progress"}

HandOK(w) ==
    /\ worker[w].pc \in Transferring => rows[worker[w].job].state = "downloading"
    /\ Startable(w) => rows[worker[w].job].state \in Waiting
    /\ worker[w].pc = "failure" /\ worker[w].snap.state = "absent"
        => rows[worker[w].job].state # "downloading"

Holds(w, j) == worker[w].job = j /\ worker[w].pc \in Transferring \cup {"failure"}

RowsHeld ==
    phase \notin {"down", "stopping"} =>
        \A j \in JobIds : rows[j].state = "downloading" => \E w \in Workers : Holds(w, j)

FreshIds == \A j \in JobIds : j >= nextId => rows[j].state = "absent"

HeldInv == FreshIds /\ (\A w \in Workers : HandOK(w)) /\ RowsHeld

LEMMA HeldInit == Init => HeldInv
BY DEF Init, HeldInv, FreshIds, HandOK, RowsHeld, Startable, EmptyTable,
    AbsentRow, NoWorker, Transferring

\* Nobody holds a row while no worker, or one that holds nothing, runs.
LEMMA NothingHeld ==
    ASSUME SingleWorker, RowsHeld, phase \notin {"down", "stopping"},
           NEW w \in Workers, worker[w].pc \notin Transferring \cup {"none", "failure"}
    PROVE  \A j \in JobIds : rows[j].state # "downloading"
BY DEF SingleWorker, RowsHeld, Holds, Transferring

\* A step of the dashboard, of a caller or of the start: the workers stay,
\* rows that wait or are downloaded still do, no other row is downloaded.
LEMMA HeldElsewhere ==
    ASSUME TypeInv, HeldInv, FreshIds', UNCHANGED worker,
           phase \in {"down", "stopping"} => phase' \in {"down", "stopping"},
           \A j \in JobIds :
             /\ rows[j].state = "downloading" <=> rows'[j].state = "downloading"
             /\ rows[j].state \in Waiting => rows'[j].state \in Waiting
    PROVE  HeldInv'
<1>1. \A w \in Workers : worker[w].pc \notin {"none", "idle"} => worker[w].job \in JobIds
  BY DEF TypeInv, WorkersOK
<1>2. \A w \in Workers : HandOK(w)'
  <2> TAKE w \in Workers
  <2>1. HandOK(w)
    BY DEF HeldInv
  <2> QED
    BY <1>1, <2>1 DEF HandOK, Startable, Transferring
<1>3. RowsHeld'
  BY DEF HeldInv, RowsHeld, Holds
<1> QED
  BY <1>2, <1>3 DEF HeldInv

\* A step of the worker changes at most the row of its job, keeps its hand
\* right, and holds that row if the row is downloaded.
LEMMA HeldMove ==
    ASSUME TypeInv, SingleWorker, HeldInv, NEW w \in Workers,
           worker[w].pc # "none",
           \A v \in Workers \ {w} : worker'[v] = worker[v],
           phase' = phase, nextId' = nextId,
           \A j \in JobIds : j # worker[w].job => rows'[j] = rows[j],
           \A j \in JobIds : rows[j].state = "absent" => rows'[j].state = "absent",
           HandOK(w)',
           worker[w].job \in JobIds /\ rows'[worker[w].job].state = "downloading"
             => worker'[w].job = worker[w].job /\ worker'[w].pc \in Transferring \cup {"failure"}
    PROVE  HeldInv'
<1>1. FreshIds'
  BY DEF HeldInv, FreshIds
<1>2. \A v \in Workers \ {w} : worker'[v].pc = "none"
  BY DEF SingleWorker
<1>3. \A v \in Workers : HandOK(v)'
  BY <1>2 DEF HandOK, Startable, Transferring
<1>4. RowsHeld'
  <2> SUFFICES ASSUME phase' \notin {"down", "stopping"},
                      NEW j \in JobIds, rows'[j].state = "downloading"
               PROVE  Holds(w, j)'
    BY DEF RowsHeld
  <2>1. CASE j = worker[w].job
    BY <2>1 DEF Holds
  <2>2. CASE j # worker[w].job
    <3>1. rows[j].state = "downloading"
      BY <2>2
    <3>2. PICK v \in Workers : Holds(v, j)
      BY <3>1 DEF HeldInv, RowsHeld
    <3>3. v = w
      BY <3>2 DEF SingleWorker, Holds, Transferring
    <3> QED
      BY <2>2, <3>2, <3>3 DEF Holds
  <2> QED
    BY <2>1, <2>2
<1> QED
  BY <1>1, <1>3, <1>4 DEF HeldInv

\* What an UPDATE does to the states of the table.
LEMMA TransitionStates ==
    ASSUME NEW t \in [JobIds -> Row], NEW j \in JobIds, NEW from, NEW to \in States
    PROVE  LET u == Transition(t, j, from, to) IN
           /\ \A k \in JobIds : k # j => u[k] = t[k]
           /\ u[j].state = IF t[j].state \in from \ {"absent"} THEN to ELSE t[j].state
           /\ \A k \in JobIds : t[k].state = "absent" => u[k].state = "absent"
BY DEF Transition, Row

\* Every step of the worker; a storage error would leave the row behind.
LEMMA HeldWork ==
    ASSUME ~ StorageFaults, TypeInv, SingleWorker, HeldInv, NEW w \in Workers, Work(w)
    PROVE  HeldInv'
<1> DEFINE j == worker[w].job
<1>1. /\ worker \in [Workers -> WorkerType] /\ rows \in [JobIds -> Row]
      /\ j \in JobIds \/ worker[w].pc \in {"none", "idle"}
  BY DEF TypeInv, TypeOK, WorkersOK
<1>2. worker[w].pc # "none"
  BY DEF Work, Process, Take, Attempt, NextItem, EndProcess, Returned, CancelBeforeStart,
    PauseForDisk, BeginDownload, UnhandledError, Startable, Connect, Progress,
    ProgressCancels, ProgressContinues, FinishDownload, DownloadError, Failure
<1>3. phase \notin {"down", "stopping"}
  BY <1>2 DEF SingleWorker, Running
<1>4. HandOK(w) /\ RowsHeld
  BY DEF HeldInv
<1>5. worker[w].pc \notin Transferring \cup {"failure"} =>
        \A k \in JobIds : rows[k].state # "downloading"
  BY <1>2, <1>3, <1>4, NothingHeld
<1> USE <1>1 DEF WorkerType
<1> HIDE DEF j
<1>6. CASE Take(w)
  BY <1>2, <1>5, <1>6, HeldMove DEF Take, durable, HandOK, Startable, Transferring
<1>7. CASE Attempt(w)
  BY <1>2, <1>5, <1>7, HeldMove DEF Attempt, durable, HandOK, Startable, Transferring
<1>8. CASE NextItem(w)
  BY <1>2, <1>5, <1>8, HeldMove
  DEF NextItem, Leave, IdleWorker, durable, HandOK, Startable, Transferring
<1>9. CASE EndProcess(w)
  BY <1>2, <1>5, <1>9, HeldMove
  DEF EndProcess, Returned, Get, durable, HandOK, Startable, Transferring
<1>10. CASE CancelBeforeStart(w) \/ PauseForDisk(w)
  <2>1. \E to \in {"cancelled", "paused"} :
          /\ rows' = Transition(rows, j, States, to)
          /\ to \in States
    BY <1>10 DEF CancelBeforeStart, PauseForDisk, States, j
  <2>2. j \in JobIds /\ worker[w].pc = "start" /\ Goto(w, "returning") /\ UNCHANGED <<phase, nextId>>
    BY <1>10 DEF CancelBeforeStart, PauseForDisk, Startable
  <2>3. /\ \A k \in JobIds : k # j => rows'[k] = rows[k]
        /\ \A k \in JobIds : rows[k].state = "absent" => rows'[k].state = "absent"
        /\ rows'[j].state # "downloading"
    BY <1>5, <2>1, <2>2, TransitionStates DEF Transferring
  <2> QED
    BY <1>2, <2>2, <2>3, HeldMove DEF Goto, HandOK, Startable, Transferring, j
<1>11. CASE BeginDownload(w)
  BY <1>2, <1>4, <1>11, HeldMove
  DEF BeginDownload, Goto, Transition, j, Row, Waiting, HandOK, Startable, Transferring
<1>12. CASE Connect(w) \/ Progress(w) \/ ProgressContinues(w)
  BY <1>2, <1>4, <1>12, HeldMove
  DEF Connect, Progress, ProgressContinues, Goto, Get, durable, j, HandOK, Startable, Transferring
<1>13. CASE ProgressCancels(w) \/ FinishDownload(w)
  <2>1. \E to \in {"cancelled", "completed"} :
          /\ rows' = Transition(rows, j, States, to)
          /\ to \in States
    BY <1>13 DEF ProgressCancels, FinishDownload, States, j
  <2>2. /\ j \in JobIds /\ worker[w].pc \in Transferring /\ UNCHANGED <<phase, nextId>>
        /\ Goto(w, "returning") \/ Goto(w, "finish")
    BY <1>13 DEF ProgressCancels, FinishDownload, Transferring
  <2>3. rows[j].state = "downloading"
    BY <1>4, <2>2 DEF HandOK, j
  <2>4. /\ \A k \in JobIds : k # j => rows'[k] = rows[k]
        /\ \A k \in JobIds : rows[k].state = "absent" => rows'[k].state = "absent"
        /\ rows'[j].state # "downloading"
    BY <2>1, <2>2, <2>3, TransitionStates DEF States
  <2> QED
    BY <1>2, <2>2, <2>4, HeldMove DEF Goto, HandOK, Startable, Transferring, j
<1>14. CASE DownloadError(w)
  BY <1>2, <1>4, <1>5, <1>14, HeldMove
  DEF DownloadError, Get, durable, j, HandOK, Startable, Transferring
<1>15. CASE Failure(w)
  BY <1>2, <1>4, <1>15, HeldMove
  DEF Failure, TransitionRetry, Exists, Goto, j, Row, HandOK, Startable, Transferring
<1>16. ~ UnhandledError(w)
  BY DEF UnhandledError
<1> QED
  BY <1>6, <1>7, <1>8, <1>9, <1>10, <1>11, <1>12, <1>13, <1>14, <1>15, <1>16
  DEF Work, Process

\* A new row takes the next id, so it never replaces one a worker holds.
LEMMA HeldReceive ==
    ASSUME TypeInv, HeldInv, NEW m \in Messages, Receive(m)
    PROVE  HeldInv'
<1>1. CASE Duplicate(rows, m)
  BY <1>1, HeldElsewhere DEF Receive, HeldInv, FreshIds
<1>2. CASE ~ Duplicate(rows, m)
  <2>1. nextId \in JobIds /\ rows \in [JobIds -> Row]
    BY <1>2, TableAssumption DEF Receive, TypeInv, TypeOK, JobIds
  <2>2. rows[nextId].state = "absent"
    BY <2>1 DEF HeldInv, FreshIds, JobIds
  <2>3. rows' = [rows EXCEPT ![nextId] = NewRow(m)] /\ nextId' = nextId + 1
    BY <1>2 DEF Receive, Insert
  <2>4. \A j \in JobIds : rows'[j] = IF j = nextId THEN NewRow(m) ELSE rows[j]
    BY <2>1, <2>3
  <2>5. FreshIds'
    BY <2>1, <2>3, <2>4 DEF HeldInv, FreshIds, JobIds
  <2>6. \A j \in JobIds :
          /\ rows[j].state = "downloading" <=> rows'[j].state = "downloading"
          /\ rows[j].state \in Waiting => rows'[j].state \in Waiting
    BY <2>2, <2>4 DEF NewRow, Waiting
  <2> QED
    BY <2>5, <2>6, HeldElsewhere DEF Receive
<1> QED
  BY <1>1, <1>2

LEMMA HeldUser ==
    ASSUME TypeInv, HeldInv, User
    PROVE  HeldInv'
<1>1. rows \in [JobIds -> Row]
  BY DEF TypeInv, TypeOK
<1>2. ASSUME UNCHANGED <<nextId, worker, phase>>,
             \A j \in JobIds :
               /\ rows[j].state \in {"absent", "queued", "paused", "downloading"}
                    => rows'[j].state = rows[j].state
               /\ rows'[j].state # "downloading" \/ rows[j].state = "downloading"
      PROVE  HeldInv'
  BY <1>2, HeldElsewhere DEF HeldInv, FreshIds, Waiting
<1>3. ASSUME NEW r \in Requests, NEW j \in JobIds, RetryRequest(r, j) PROVE HeldInv'
  BY <1>1, <1>2, <1>3 DEF RetryRequest, Retryable, Retry, Row
<1>4. ASSUME NEW j \in JobIds, CancelRequest(j) PROVE HeldInv'
  BY <1>1, <1>2, <1>4 DEF CancelRequest, RequestCancel, Row, tasks
<1>5. CASE ClearRequest
  BY <1>1, <1>2, <1>5 DEF ClearRequest, ClearHistory, Finished, AbsentRow, tasks
<1>6. CASE Relogin
  BY <1>6, HeldElsewhere DEF Relogin, durable, tasks, HeldInv, FreshIds
<1> QED
  BY <1>3, <1>4, <1>5, <1>6 DEF User

LEMMA HeldEnvironment ==
    ASSUME TypeInv, SingleWorker, HeldInv, Environment
    PROVE  HeldInv'
<1>1. ASSUME \A w \in Workers : worker'[w].pc = "none" PROVE \A w \in Workers : HandOK(w)'
  BY <1>1 DEF HandOK, Startable, Transferring
<1>2. rows \in [JobIds -> Row]
  BY DEF TypeInv, TypeOK
<1>3. CASE Shutdown
  <2>1. FreshIds'
    BY <1>2, <1>3 DEF Shutdown, HeldInv, FreshIds, Exists
  <2> QED
    BY <1>1, <1>3, <2>1 DEF Shutdown, HeldInv, RowsHeld, NoWorker
<1>4. CASE Exit \/ Crash
  BY <1>1, <1>4 DEF Exit, Crash, Halt, durable, HeldInv, FreshIds, RowsHeld, NoWorker
<1>5. CASE Boot
  <2>1. \A w \in Workers : worker'[w].pc = "none"
    BY <1>5 DEF Boot, tasks, SingleWorker, Running
  <2>2. \A j \in JobIds :
          /\ rows'[j].state # "downloading"
          /\ rows[j].state = "absent" => rows'[j].state = "absent"
    BY <1>2, <1>5 DEF Boot, Recover, Row
  <2>3. FreshIds' /\ RowsHeld'
    BY <1>5, <2>2 DEF Boot, HeldInv, FreshIds, RowsHeld
  <2> QED
    BY <1>1, <2>1, <2>3 DEF HeldInv
<1> QED
  BY <1>3, <1>4, <1>5 DEF Environment

LEMMA HeldStep ==
    ASSUME ~ StorageFaults, TypeInv, SingleWorker, HeldInv, [Next]_vars
    PROVE  HeldInv'
<1>1. ASSUME UNCHANGED <<rows, nextId, worker>>,
             phase \in {"down", "stopping"} => phase' \in {"down", "stopping"}
      PROVE  HeldInv'
  BY <1>1, HeldElsewhere DEF HeldInv, FreshIds
<1>2. CASE Enqueuing
  BY <1>1, <1>2 DEF Enqueuing, Enqueue, EnqueuePut, durable
<1>3. CASE TelegramStart \/ TelegramStartFails \/ StartQueue \/ ScanNext
  BY <1>1, <1>3 DEF TelegramStart, TelegramStartFails, StartQueue, ScanNext, durable, tasks
<1>4. ASSUME NEW w \in Workers, ScanDone(w) PROVE HeldInv'
  <2>1. ~ Running /\ phase = "scanning"
    BY <1>4 DEF ScanDone, SingleWorker
  <2>2. \A j \in JobIds : rows[j].state # "downloading"
    BY <2>1 DEF HeldInv, RowsHeld, Holds, Running, Transferring
  <2>3. \A v \in Workers : worker'[v].pc \in {"none", "idle"}
    BY <1>4, <2>1 DEF ScanDone, Running, IdleWorker, TypeInv, TypeOK
  <2> QED
    BY <1>4, <2>2, <2>3
    DEF ScanDone, durable, HeldInv, FreshIds, RowsHeld, HandOK, Startable, Transferring
<1>5. CASE UNCHANGED vars
  BY <1>1, <1>5 DEF vars, durable, tasks
<1> QED
  BY <1>2, <1>3, <1>4, <1>5, HeldReceive, HeldWork, HeldUser, HeldEnvironment
  DEF Next, Start

(* While the application runs, a row is DOWNLOADING exactly when the worker *)
(* is transferring that job, through crashes, shutdowns, cancels, retries,  *)
(* cleared history and new logins; the ways out of process() that leave it  *)
(* behind are the unhandled storage errors (downloader.py, process).        *)
THEOREM TransferHoldsItsRow ==
    ASSUME ~ StorageFaults
    PROVE  Spec => []DownloadingIsHeld
<1>1. TypeInv /\ SingleWorker /\ HeldInv /\ [Next]_vars => HeldInv'
  BY HeldStep
<1>2. HeldInv => DownloadingIsHeld
  BY DEF HeldInv, HandOK, RowsHeld, Holds, Transferring, DownloadingIsHeld
<1>3. Spec => []HeldInv
  BY <1>1, InitType, TypeStep, SingleInit, SingleStep, HeldInit, PTL DEF Spec
<1> QED
  BY <1>2, <1>3, PTL
=============================================================================
