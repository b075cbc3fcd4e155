-------------------------- MODULE QueueJobsProofs --------------------------
(***************************************************************************)
(* What happens to each job, for every number of jobs, messages, requests, *)
(* retries and restarts: its row moves along JobLifecycle, no second row   *)
(* for its file is made, once completed it stays so, and while it waits    *)
(* somebody has it.                                                        *)
(***************************************************************************)
EXTENDS QueueRefinement, DownloadQueueProofs

(* What a worker's hand guarantees of its row, with every fault.  Unlike   *)
(* HandOK of DownloadQueueProofs it also speaks of the rows that are over: *)
(* after the move the row is COMPLETED, or cleared, until process() ends.  *)
HandSteady(w) ==
    LET s == rows[worker[w].job].state IN
    /\ worker[w].pc \in Transferring => s = "downloading"
    /\ Startable(w) => s \in Waiting
    /\ worker[w].pc = "finish" => s \in {"completed", "absent"}
    /\ worker[w].pc = "failure" =>
        s = "downloading" \/ (RefreshMayRaise /\ s \in {"completed", "absent"})
    /\ worker[w].pc \in {"finish", "failure"} => worker[w].job < nextId

SteadyInv == FreshIds /\ \A w \in Workers : HandSteady(w)

\* Job j is the only one that moves: from one of the states, to another one.
RowMoves(j, from, to) ==
    /\ j \in JobIds
    /\ rows[j].state \in from
    /\ rows'[j].state = to
    /\ rows'[j].msg = rows[j].msg
    /\ \A k \in JobIds \ {j} : rows'[k] = rows[k]

NothingMoves ==
    \A k \in JobIds : rows'[k].state = rows[k].state /\ rows'[k].msg = rows[k].msg

\* The moves that process() makes with job j; w is its worker.
ProcessMoves(w, j) ==
    \/ NothingMoves
    \/ RowMoves(j, Waiting \cup {"downloading"}, "cancelled")
    \/ RowMoves(j, {"queued"}, "paused")
    \/ RowMoves(j, Waiting, "downloading")
    \/ \E to \in {"completed", "queued", "failed"} : RowMoves(j, {"downloading"}, to)
    \/ /\ RefreshMayRaise
       /\ worker[w].pc = "failure"
       /\ \E to \in {"queued", "failed"} : RowMoves(j, {"completed"}, to)

\* What everybody else does to the table.
RowArrives(m) ==
    /\ nextId \in JobIds
    /\ rows[nextId].state = "absent"
    /\ ~ Duplicate(rows, m)
    /\ rows'[nextId] = NewRow(m)
    /\ \A k \in JobIds \ {nextId} : rows'[k] = rows[k]
    /\ nextId' = nextId + 1

HistoryGoes ==
    \A k \in JobIds : rows'[k] = IF rows[k].state \in Finished THEN AbsentRow ELSE rows[k]

StartRecovers ==
    \A k \in JobIds :
        /\ rows'[k].state = IF rows[k].state = "downloading" THEN "queued" ELSE rows[k].state
        /\ rows'[k].msg = rows[k].msg

\* A shutdown queues the row of the attempt it interrupts, if there is one.
ShutdownQueues ==
    /\ Stoppable
    /\ \/ NothingMoves
       \/ \E w \in Workers :
            \/ RowMoves(worker[w].job, {"downloading"}, "queued")
            \/ worker[w].pc = "finish" /\ RowMoves(worker[w].job, {"completed"}, "queued")

RowSteps ==
    \/ \E m \in Messages : RowArrives(m)
    \/ /\ nextId' = nextId
       /\ \/ NothingMoves \/ HistoryGoes \/ StartRecovers \/ ShutdownQueues
          \/ \E w \in Workers : ProcessMoves(w, worker[w].job)
          \/ UserRetries /\ \E j \in JobIds : RowMoves(j, {"failed", "cancelled"}, "queued")

-----------------------------------------------------------------------------
LEMMA InitSteady == Init => SteadyInv
BY DEF Init, SteadyInv, FreshIds, HandSteady, Startable, EmptyTable, AbsentRow,
    NoWorker, Transferring

\* The state of a row that exists belongs to an id that was given out.
LEMMA GivenIds ==
    ASSUME TypeInv, SteadyInv, NEW j \in JobIds, rows[j].state # "absent"
    PROVE  j < nextId
BY DEF SteadyInv, FreshIds, TypeInv, TypeOK, JobIds

LEMMA ProcessRows ==
    ASSUME TypeInv, SteadyInv, NEW w \in Workers, Work(w)
    PROVE  ProcessMoves(w, worker[w].job) /\ nextId' = nextId
<1> DEFINE j == worker[w].job
<1>1. /\ worker \in [Workers -> WorkerType] /\ rows \in [JobIds -> Row]
      /\ j \in JobIds \/ worker[w].pc \in {"none", "idle"}
  BY DEF TypeInv, TypeOK, WorkersOK
<1>2. HandSteady(w)
  BY DEF SteadyInv
<1>3. nextId' = nextId
  BY DEF Work, Process, Take, Attempt, NextItem, EndProcess, CancelBeforeStart, PauseForDisk,
    BeginDownload, UnhandledError, Connect, Progress, ProgressCancels, ProgressContinues,
    FinishDownload, DownloadError, Failure, durable
<1> USE <1>1, <1>3
<1> HIDE DEF j
<1>4. CASE UNCHANGED rows
  BY <1>4 DEF ProcessMoves, NothingMoves
<1>5. CASE CancelBeforeStart(w) \/ PauseForDisk(w)
  <2>1. PICK to \in {"cancelled", "paused"} : rows' = Transition(rows, j, States, to)
    BY <1>5 DEF CancelBeforeStart, PauseForDisk, j
  <2>2. j \in JobIds /\ rows[j].state \in Waiting
    BY <1>2, <1>5 DEF CancelBeforeStart, PauseForDisk, Startable, HandSteady, j
  <2>3. RowMoves(j, {rows[j].state}, to)
    BY <2>1, <2>2 DEF Transition, RowMoves, States, Waiting, Row
  <2> QED
    BY <2>2, <2>3 DEF ProcessMoves, RowMoves, NothingMoves, Waiting, j
<1>6. CASE BeginDownload(w)
  <2>1. j \in JobIds /\ rows[j].state \in Waiting
    BY <1>2, <1>6 DEF BeginDownload, Startable, HandSteady, j
  <2>2. RowMoves(j, Waiting, "downloading")
    BY <1>6, <2>1 DEF BeginDownload, Transition, RowMoves, Waiting, Row, j
  <2> QED
    BY <2>2 DEF ProcessMoves, j
<1>7. CASE ProgressCancels(w) \/ FinishDownload(w)
  <2>1. PICK to \in {"cancelled", "completed"} : rows' = Transition(rows, j, States, to)
    BY <1>7 DEF ProgressCancels, FinishDownload, j
  <2>2. j \in JobIds /\ rows[j].state = "downloading"
    BY <1>2, <1>7 DEF ProgressCancels, FinishDownload, HandSteady, Transferring, j
  <2>3. RowMoves(j, {"downloading"}, to)
    BY <2>1, <2>2 DEF Transition, RowMoves, States, Row
  <2> QED
    BY <2>3 DEF ProcessMoves, RowMoves, j
<1>8. CASE Failure(w)
  <2>1. worker[w].pc = "failure" /\ j \in JobIds
    BY <1>8 DEF Failure
  <2>2. CASE UNCHANGED rows
    BY <1>4, <2>2
  <2>3. CASE rows' # rows
    <3>1. PICK to \in {"queued", "failed"}, n \in Nat : rows' = TransitionRetry(rows, j, to, n)
      BY <1>8, <2>3 DEF Failure, WorkerType, Row, j
    <3>2. Exists(rows, j)
      BY <2>3, <3>1 DEF TransitionRetry
    <3>3. RowMoves(j, {rows[j].state}, to)
      BY <2>1, <3>1, <3>2 DEF TransitionRetry, RowMoves, Row
    <3>4. rows[j].state = "downloading" \/ (RefreshMayRaise /\ rows[j].state = "completed")
      BY <1>2, <2>1, <3>2 DEF HandSteady, Exists, j
    <3> QED
      BY <2>1, <3>3, <3>4 DEF ProcessMoves, j
  <2> QED
    BY <2>2, <2>3
<1>9. \/ UNCHANGED rows
      \/ CancelBeforeStart(w) \/ PauseForDisk(w) \/ BeginDownload(w)
      \/ ProgressCancels(w) \/ FinishDownload(w) \/ Failure(w)
  BY DEF Work, Process, Take, Attempt, NextItem, EndProcess, UnhandledError, Connect,
    Progress, ProgressContinues, DownloadError, durable
<1> QED
  BY <1>4, <1>5, <1>6, <1>7, <1>8, <1>9

(* A step of the worker, with the states of the rows it may change.        *)
LEMMA SteadyMove ==
    ASSUME TypeInv, SingleWorker, SteadyInv, NEW w \in Workers,
           worker[w].pc # "none", nextId' = nextId,
           ProcessMoves(w, worker[w].job),
           \A v \in Workers \ {w} : worker'[v] = worker[v],
           HandSteady(w)'
    PROVE  SteadyInv'
<1>1. \A k \in JobIds : rows[k].state = "absent" => rows'[k].state = "absent"
  BY DEF ProcessMoves, NothingMoves, RowMoves, Waiting
<1>2. FreshIds'
  BY <1>1 DEF SteadyInv, FreshIds
<1>3. \A v \in Workers \ {w} : worker'[v].pc = "none"
  BY DEF SingleWorker
<1>4. \A v \in Workers : HandSteady(v)'
  BY <1>3 DEF HandSteady, Startable, Transferring
<1> QED
  BY <1>2, <1>4 DEF SteadyInv

LEMMA SteadyWork ==
    ASSUME TypeInv, SingleWorker, SteadyInv, NEW w \in Workers, Work(w)
    PROVE  SteadyInv'
<1>1. /\ worker \in [Workers -> WorkerType] /\ rows \in [JobIds -> Row]
      /\ worker[w].job \in JobIds \/ worker[w].pc \in {"none", "idle"}
  BY DEF TypeInv, TypeOK, WorkersOK
<1>2. worker[w].pc # "none"
  BY DEF Work, Process, Take, Attempt, NextItem, EndProcess, Returned, CancelBeforeStart,
    PauseForDisk, BeginDownload, UnhandledError, Startable, Connect, Progress,
    ProgressCancels, ProgressContinues, FinishDownload, DownloadError, Failure
<1>3. ProcessMoves(w, worker[w].job) /\ nextId' = nextId
  BY ProcessRows
<1>4. HandSteady(w)
  BY DEF SteadyInv
<1>5. worker[w].job \in JobIds /\ rows[worker[w].job].state # "absent" => worker[w].job < nextId
  BY GivenIds
<1> USE <1>1, <1>2, <1>3, <1>4 DEF WorkerType
<1>6. CASE Take(w) \/ Attempt(w) \/ NextItem(w) \/ UnhandledError(w)
  <2>1. /\ worker'[w].pc \in {"check", "start", "idle"}
        /\ worker'[w].pc = "start" =>
             worker'[w].snap = rows[worker[w].job] /\ worker'[w].job = worker[w].job
        /\ UNCHANGED rows
        /\ \A v \in Workers \ {w} : worker'[v] = worker[v]
    BY <1>6 DEF Take, Attempt, NextItem, UnhandledError, Leave, IdleWorker, durable
  <2> QED
    BY <2>1, SteadyMove DEF HandSteady, Startable, Transferring
<1>7. CASE EndProcess(w) \/ CancelBeforeStart(w) \/ PauseForDisk(w) \/ ProgressCancels(w) \/ Failure(w)
  <2>1. /\ worker'[w].pc \in {"check", "returning"}
        /\ \A v \in Workers \ {w} : worker'[v] = worker[v]
    BY <1>7 DEF EndProcess, CancelBeforeStart, PauseForDisk, ProgressCancels, Failure, Get, Goto
  <2> QED
    BY <2>1, SteadyMove DEF HandSteady, Startable, Transferring
<1>8. CASE BeginDownload(w)
  BY <1>8, SteadyMove
  DEF BeginDownload, Goto, Transition, Row, Waiting, HandSteady, Startable, Transferring
<1>9. CASE Connect(w) \/ Progress(w) \/ ProgressContinues(w)
  BY <1>9, SteadyMove
  DEF Connect, Progress, ProgressContinues, Goto, Get, durable, HandSteady, Startable, Transferring
<1>10. CASE FinishDownload(w)
  BY <1>5, <1>10, SteadyMove
  DEF FinishDownload, Goto, Transition, Row, States, HandSteady, Startable, Transferring
<1>11. CASE DownloadError(w)
  BY <1>5, <1>11, SteadyMove
  DEF DownloadError, Get, durable, HandSteady, Startable, Transferring
<1> QED
  BY <1>6, <1>7, <1>8, <1>9, <1>10, <1>11 DEF Work, Process

(* The steps of everybody else: no worker moves, and no row in a hand does.*)
LEMMA SteadyElsewhere ==
    ASSUME TypeInv, SteadyInv, FreshIds', nextId' \in {nextId, nextId + 1}, UNCHANGED worker,
           \A j \in JobIds :
             /\ rows[j].state \in Waiting \cup {"downloading"} => rows'[j].state = rows[j].state
             /\ rows[j].state = "completed" => rows'[j].state \in {"completed", "absent"}
             /\ rows[j].state = "absent" /\ j < nextId => rows'[j].state = "absent"
    PROVE  SteadyInv'
<1>1. \A w \in Workers : HandSteady(w)'
  <2> TAKE w \in Workers
  <2>1. HandSteady(w) /\ (worker[w].pc \notin {"none", "idle"} => worker[w].job \in JobIds)
    BY DEF SteadyInv, TypeInv, WorkersOK
  <2>2. worker[w].pc \in {"finish", "failure"} => worker[w].job < nextId'
    BY <2>1, TableAssumption DEF HandSteady, JobIds, TypeInv, TypeOK
  <2> QED
    BY <2>1, <2>2 DEF HandSteady, Startable, Transferring, Waiting
<1> QED
  BY <1>1 DEF SteadyInv

-----------------------------------------------------------------------------
(* Every step of the application, seen from the table.                     *)
LEMMA TableSteps ==
    ASSUME TypeInv, SingleWorker, SteadyInv, [Next]_vars
    PROVE  RowSteps
<1>1. rows \in [JobIds -> Row]
  BY DEF TypeInv, TypeOK
<1>2. CASE UNCHANGED <<rows, nextId>>
  BY <1>2 DEF RowSteps, NothingMoves
<1>3. ASSUME NEW m \in Messages, Receive(m) PROVE RowSteps
  <2>1. CASE Duplicate(rows, m)
    BY <1>2, <1>3, <2>1 DEF Receive
  <2>2. CASE ~ Duplicate(rows, m)
    <3>1. nextId \in JobIds
      BY <1>3, <2>2, TableAssumption DEF Receive, TypeInv, TypeOK, JobIds
    <3>2. rows[nextId].state = "absent"
      BY <3>1, TableAssumption DEF SteadyInv, FreshIds, JobIds
    <3>3. RowArrives(m)
      BY <1>1, <1>3, <2>2, <3>1, <3>2 DEF Receive, Insert, RowArrives
    <3> QED
      BY <3>3 DEF RowSteps
  <2> QED
    BY <2>1, <2>2
<1>4. ASSUME NEW w \in Workers, Work(w) PROVE RowSteps
  BY <1>4, ProcessRows DEF RowSteps
<1>5. CASE Enqueuing
  BY <1>2, <1>5 DEF Enqueuing, Enqueue, EnqueuePut, durable
<1>6. CASE Start
  BY <1>2, <1>6 DEF Start, TelegramStart, TelegramStartFails, StartQueue, ScanNext, ScanDone, durable
<1>7. ASSUME NEW r \in Requests, NEW j \in JobIds, RetryRequest(r, j) PROVE RowSteps
  <2>1. RowMoves(j, {"failed", "cancelled"}, "queued")
    BY <1>1, <1>7 DEF RetryRequest, Retryable, Retry, Row, RowMoves
  <2> QED
    BY <1>7, <2>1 DEF RetryRequest, RowSteps
<1>8. ASSUME NEW j \in JobIds, CancelRequest(j) PROVE RowSteps
  <2>1. NothingMoves
    BY <1>1, <1>8 DEF CancelRequest, RequestCancel, Row, NothingMoves
  <2> QED
    BY <1>8, <2>1 DEF CancelRequest, RowSteps
<1>9. CASE ClearRequest
  <2>1. HistoryGoes
    BY <1>9 DEF ClearRequest, ClearHistory, HistoryGoes
  <2> QED
    BY <1>9, <2>1 DEF ClearRequest, RowSteps
<1>10. CASE Relogin
  BY <1>2, <1>10 DEF Relogin, durable
<1>11. CASE Shutdown
  <2> DEFINE hit == {j \in JobIds : /\ rows[j].state # "absent"
                                    /\ \E w \in Workers : worker[w].pc \in TryPcs /\ worker[w].job = j}
  <2>1. /\ Stoppable /\ nextId' = nextId
        /\ rows' = [j \in JobIds |-> IF j \in hit THEN [rows[j] EXCEPT !.state = "queued"] ELSE rows[j]]
    BY <1>11 DEF Shutdown, Exists
  <2>2. CASE hit = {}
    BY <2>1, <2>2 DEF NothingMoves, ShutdownQueues, RowSteps
  <2>3. CASE hit # {}
    <3>1. PICK w \in Workers : /\ worker[w].pc \in TryPcs /\ worker[w].job \in JobIds
                               /\ rows[worker[w].job].state # "absent"
      BY <2>3
    <3>2. \A v \in Workers : worker[v].pc \in TryPcs => v = w
      BY <3>1 DEF SingleWorker, TryPcs
    <3>3. hit = {worker[w].job}
      BY <3>1, <3>2
    <3>4. \/ rows[worker[w].job].state = "downloading"
          \/ rows[worker[w].job].state = "completed" /\ worker[w].pc = "finish"
      BY <3>1 DEF SteadyInv, HandSteady, TryPcs, Transferring
    <3>5. RowMoves(worker[w].job, {rows[worker[w].job].state}, "queued")
      BY <1>1, <2>1, <3>1, <3>3 DEF RowMoves, Row
    <3>6. ShutdownQueues
      BY <2>1, <3>4, <3>5 DEF ShutdownQueues
    <3> QED
      BY <2>1, <3>6 DEF RowSteps
  <2> QED
    BY <2>2, <2>3
<1>12. CASE Exit \/ Crash
  BY <1>2, <1>12 DEF Exit, Crash, Halt, durable
<1>13. CASE Boot
  <2>1. StartRecovers
    BY <1>1, <1>13 DEF Boot, Recover, StartRecovers, Row
  <2> QED
    BY <1>13, <2>1 DEF Boot, RowSteps
<1>14. CASE UNCHANGED vars
  BY <1>2, <1>14 DEF vars, durable
<1> QED
  BY <1>3, <1>4, <1>5, <1>6, <1>7, <1>8, <1>9, <1>10, <1>11, <1>12, <1>13, <1>14
  DEF Next, User, Environment

LEMMA FreshStep ==
    ASSUME TypeInv, SteadyInv, RowSteps
    PROVE  FreshIds'
<1>1. nextId \in Nat /\ \A j \in JobIds : j \in Nat /\ (j >= nextId => rows[j].state = "absent")
  BY TableAssumption DEF TypeInv, TypeOK, SteadyInv, FreshIds, JobIds
<1>2. ASSUME NEW m \in Messages, RowArrives(m) PROVE FreshIds'
  BY <1>1, <1>2 DEF RowArrives, FreshIds
<1>3. ASSUME nextId' = nextId,
             \A j \in JobIds : rows[j].state = "absent" => rows'[j].state = "absent"
      PROVE  FreshIds'
  BY <1>1, <1>3 DEF FreshIds
<1>4. ASSUME NEW w \in Workers, nextId' = nextId, ProcessMoves(w, worker[w].job) PROVE FreshIds'
  <2>1. \A j \in JobIds : rows[j].state = "absent" => rows'[j].state = "absent"
    BY <1>4 DEF ProcessMoves, NothingMoves, RowMoves, Waiting
  <2> QED
    BY <1>3, <1>4, <2>1
<1>5. ASSUME NEW j \in JobIds, nextId' = nextId, RowMoves(j, {"failed", "cancelled"}, "queued")
      PROVE  FreshIds'
  BY <1>3, <1>5 DEF RowMoves
<1>6. CASE nextId' = nextId /\ (NothingMoves \/ HistoryGoes \/ StartRecovers \/ ShutdownQueues)
  BY <1>3, <1>6 DEF NothingMoves, HistoryGoes, StartRecovers, ShutdownQueues, RowMoves, AbsentRow
<1> QED
  BY <1>2, <1>4, <1>5, <1>6 DEF RowSteps

LEMMA SteadyStep ==
    ASSUME TypeInv, SingleWorker, SteadyInv, [Next]_vars
    PROVE  SteadyInv'
<1>1. FreshIds'
  BY TableSteps, FreshStep
<1>2. ASSUME NEW w \in Workers, Work(w) PROVE SteadyInv'
  BY <1>2, SteadyWork
<1>3. ASSUME \A w \in Workers : worker'[w].pc \in {"none", "idle"} PROVE SteadyInv'
  BY <1>1, <1>3 DEF SteadyInv, HandSteady, Startable, Transferring
<1>4. ASSUME UNCHANGED <<rows, nextId, worker>> PROVE SteadyInv'
  BY <1>4 DEF SteadyInv, FreshIds, HandSteady, Startable
<1>5. ASSUME NEW m \in Messages, Receive(m) PROVE SteadyInv'
  <2>1. CASE Duplicate(rows, m)
    BY <1>4, <1>5, <2>1 DEF Receive
  <2>2. CASE ~ Duplicate(rows, m)
    <3>1. \A k \in JobIds : k # nextId => rows'[k] = rows[k]
      BY <1>5, <2>2 DEF Receive, Insert, TypeInv, TypeOK
    <3>2. nextId \in JobIds => rows[nextId].state = "absent"
      BY TableAssumption DEF SteadyInv, FreshIds, JobIds
    <3>3. nextId' = nextId + 1 /\ UNCHANGED worker
      BY <1>5, <2>2 DEF Receive
    <3>4. ASSUME NEW k \in JobIds
          PROVE  /\ rows[k].state \in Waiting \cup {"downloading"} => rows'[k].state = rows[k].state
                 /\ rows[k].state = "completed" => rows'[k].state \in {"completed", "absent"}
                 /\ rows[k].state = "absent" /\ k < nextId => rows'[k].state = "absent"
      <4>1. CASE k = nextId
        <5>1. rows[k].state = "absent" /\ ~ (k < nextId)
          BY <3>2, <4>1, TableAssumption DEF JobIds
        <5> QED
          BY <5>1 DEF Waiting
      <4>2. CASE k # nextId
        BY <3>1, <4>2
      <4> QED
        BY <4>1, <4>2
    <3> QED
      BY <1>1, <3>3, <3>4, SteadyElsewhere
  <2> QED
    BY <2>1, <2>2
<1>6. CASE Enqueuing
  BY <1>4, <1>6 DEF Enqueuing, Enqueue, EnqueuePut, durable
<1>7. CASE TelegramStart \/ TelegramStartFails \/ StartQueue \/ ScanNext
  BY <1>4, <1>7 DEF TelegramStart, TelegramStartFails, StartQueue, ScanNext, durable, tasks
<1>8. ASSUME NEW w \in Workers, ScanDone(w) PROVE SteadyInv'
  <2>1. \A v \in Workers : worker[v].pc = "none"
    BY <1>8 DEF ScanDone, SingleWorker, Running
  <2> QED
    BY <1>3, <1>8, <2>1 DEF ScanDone, IdleWorker, TypeInv, TypeOK
<1>9. CASE User
  <2>1. rows \in [JobIds -> Row]
    BY DEF TypeInv, TypeOK
  <2>2. ASSUME UNCHANGED <<nextId, worker>>,
               \A j \in JobIds :
                 /\ rows[j].state \in Waiting \cup {"downloading"} => rows'[j].state = rows[j].state
                 /\ rows[j].state = "completed" => rows'[j].state \in {"completed", "absent"}
                 /\ rows[j].state = "absent" => rows'[j].state = "absent"
        PROVE  SteadyInv'
    BY <1>1, <2>2, SteadyElsewhere
  <2>3. ASSUME NEW r \in Requests, NEW j \in JobIds, RetryRequest(r, j) PROVE SteadyInv'
    BY <2>1, <2>2, <2>3 DEF RetryRequest, Retryable, Retry, Waiting, Row
  <2>4. ASSUME NEW j \in JobIds, CancelRequest(j) PROVE SteadyInv'
    BY <2>1, <2>2, <2>4 DEF CancelRequest, RequestCancel, tasks, Waiting, Row
  <2>5. CASE ClearRequest
    BY <2>1, <2>2, <2>5 DEF ClearRequest, ClearHistory, Finished, AbsentRow, tasks, Waiting
  <2>6. CASE Relogin
    BY <1>4, <2>6 DEF Relogin, durable, tasks
  <2> QED
    BY <1>9, <2>3, <2>4, <2>5, <2>6 DEF User
<1>10. CASE Shutdown \/ Exit \/ Crash
  BY <1>3, <1>10 DEF Shutdown, Exit, Crash, Halt, NoWorker
<1>11. CASE Boot
  BY <1>3, <1>11 DEF Boot, tasks, SingleWorker, Running
<1>12. CASE UNCHANGED vars
  BY <1>4, <1>12 DEF vars, durable, tasks
<1> QED
  BY <1>2, <1>5, <1>6, <1>7, <1>8, <1>9, <1>10, <1>11, <1>12 DEF Next, Start, Environment

THEOREM SteadyInvariant == Spec => [](TypeInv /\ SingleWorker /\ SteadyInv)
BY InitType, TypeStep, SingleInit, SingleStep, InitSteady, SteadyStep, PTL DEF Spec

-----------------------------------------------------------------------------
\* The property CompletedIsFinal, of one step.
KeepsCompleted ==
    \A j \in JobIds :
        /\ rows[j].state = "completed"
        /\ ~ \E w \in Workers : worker[w].job = j /\ worker[w].pc \in {"finish", "failure"}
        => rows'[j].state \in {"completed", "absent"}

(* Past the Jellyfin refresh a completed job stays completed until its row  *)
(* is cleared, whatever is retried, cancelled, shut down, killed or started *)
(* again: no coroutine still writes what it decided before.                 *)
THEOREM CompletedStaysCompleted == Spec => CompletedIsFinal
<1>1. ASSUME TypeInv, SingleWorker, SteadyInv, [Next]_vars PROVE KeepsCompleted
  <2> SUFFICES ASSUME NEW j \in JobIds, rows[j].state = "completed",
                      \A w \in Workers : worker[w].job = j => worker[w].pc \notin {"finish", "failure"}
               PROVE  rows'[j].state \in {"completed", "absent"}
    BY DEF KeepsCompleted
  <2>1. RowSteps
    BY <1>1, TableSteps
  <2>2. ASSUME NEW m \in Messages, RowArrives(m) PROVE rows'[j] = rows[j]
    BY <2>2 DEF RowArrives
  <2>3. ASSUME NEW w \in Workers, ProcessMoves(w, worker[w].job)
        PROVE  rows'[j].state = "completed"
    BY <2>3 DEF ProcessMoves, NothingMoves, RowMoves, Waiting
  <2>4. ASSUME NEW k \in JobIds, RowMoves(k, {"failed", "cancelled"}, "queued")
        PROVE  rows'[j] = rows[j]
    BY <2>4 DEF RowMoves
  <2>5. CASE NothingMoves \/ HistoryGoes \/ StartRecovers \/ ShutdownQueues
    BY <2>5 DEF NothingMoves, HistoryGoes, StartRecovers, ShutdownQueues, RowMoves, AbsentRow
  <2> QED
    BY <2>1, <2>2, <2>3, <2>4, <2>5 DEF RowSteps
<1>2. UNCHANGED vars => UNCHANGED rows
  BY DEF vars, durable
<1>3. TypeInv /\ SingleWorker /\ SteadyInv /\ [Next]_vars => [KeepsCompleted]_vars
  BY <1>1
<1> QED
  BY <1>3, SteadyInvariant, PTL DEF Spec, CompletedIsFinal, KeepsCompleted

-----------------------------------------------------------------------------
\* A state that holds the file was not entered from one that does not.
HoldingStays ==
    \A j \in JobIds :
        rows'[j].state \in Holding => rows[j].state \in Holding /\ rows'[j].msg = rows[j].msg

LEMMA HoldingStep ==
    ASSUME ~ UserRetries, RowSteps, \A m \in Messages : ~ RowArrives(m)
    PROVE  HoldingStays
<1>1. ASSUME NEW w \in Workers, ProcessMoves(w, worker[w].job) PROVE HoldingStays
  BY <1>1 DEF ProcessMoves, NothingMoves, RowMoves, Waiting, Holding, HoldingStays
<1>2. CASE NothingMoves \/ HistoryGoes \/ StartRecovers \/ ShutdownQueues
  BY <1>2 DEF NothingMoves, HistoryGoes, StartRecovers, ShutdownQueues, RowMoves, AbsentRow, Holding,
    Finished, HoldingStays
<1> QED
  BY <1>1, <1>2 DEF RowSteps

(* add_download keeps its promise: as long as nobody retries by hand, two   *)
(* rows of one document are never both queued, downloading, paused or       *)
(* completed, whatever order messages, failures, restarts and cleared       *)
(* history come in.  (retry() does not look for another row.)               *)
THEOREM NoSecondRow ==
    ASSUME ~ UserRetries
    PROVE  Spec => []OneRowPerFile
<1>1. Init => OneRowPerFile
  BY DEF Init, OneRowPerFile, EmptyTable, AbsentRow, Holding
<1>2. ASSUME TypeInv, SingleWorker, SteadyInv, OneRowPerFile, [Next]_vars PROVE OneRowPerFile'
  <2>1. RowSteps
    BY <1>2, TableSteps
  <2>2. ASSUME NEW m \in Messages, RowArrives(m) PROVE OneRowPerFile'
    <3>1. \A j \in JobIds : rows[j].state \in Holding => ~ SameFile(rows[j].msg, m)
      BY <2>2 DEF RowArrives, Duplicate, Exists, Holding
    <3>2. rows'[nextId].msg = m
      BY <2>2 DEF RowArrives, NewRow
    <3>3. ASSUME NEW j \in JobIds, j # nextId
          PROVE  rows'[j] = rows[j]
      BY <2>2, <3>3 DEF RowArrives
    <3> QED
      BY <1>2, <3>1, <3>2, <3>3 DEF OneRowPerFile, SameFile
  <2>3. CASE \A m \in Messages : ~ RowArrives(m)
    BY <1>2, <2>1, <2>3, HoldingStep DEF HoldingStays, OneRowPerFile
  <2> QED
    BY <2>2, <2>3
<1> QED
  BY <1>1, <1>2, SteadyInvariant, PTL DEF Spec

-----------------------------------------------------------------------------
(* The refinement: what the table shows of a step is a move of one job.    *)
Status == [j \in JobIds |-> StatusOf(j)]

LEMMA MoveRefines ==
    ASSUME TypeInv, SteadyInv, nextId' = nextId, NEW j, NEW from, NEW to,
           from \subseteq States \ {"absent"}, to \in States \ {"absent"},
           RowMoves(j, from, to)
    PROVE  Lifecycle!Move(j, from, to)
<1>1. j \in JobIds /\ Status[j] \in from
  BY DEF RowMoves, Status, StatusOf, Exists
<1>2. Status' = [Status EXCEPT ![j] = to]
  BY DEF RowMoves, Status, StatusOf, Exists
<1> QED
  BY <1>1, <1>2 DEF Lifecycle!Move, Status

(* Where the application does leave the lifecycle: a refresh of Jellyfin    *)
(* that a shutdown or an error interrupts queues, or fails, the completed   *)
(* job it was for.                                                          *)
RefreshUndoes ==
    \E w \in Workers :
        \/ /\ Stoppable /\ worker[w].pc = "finish"
           /\ Lifecycle!Move(worker[w].job, {"completed"}, "queued")
        \/ /\ RefreshMayRaise /\ worker[w].pc = "failure"
           /\ \E to \in {"queued", "failed"} : Lifecycle!Move(worker[w].job, {"completed"}, to)

LEMMA ProcessRefines ==
    ASSUME TypeInv, SteadyInv, nextId' = nextId,
           NEW w \in Workers, ProcessMoves(w, worker[w].job)
    PROVE  [Lifecycle!Next \/ RefreshUndoes]_Status
<1> DEFINE j == worker[w].job
<1>1. CASE NothingMoves
  <2>1. Status' = Status
    BY <1>1 DEF NothingMoves, Status, StatusOf, Exists
  <2> QED
    BY <2>1
<1>2. CASE RowMoves(j, Waiting \cup {"downloading"}, "cancelled")
  <2>1. RowMoves(j, {"queued", "paused", "downloading"}, "cancelled")
    BY <1>2 DEF RowMoves, Waiting
  <2>2. Lifecycle!Cancel(j) /\ j \in JobIds
    BY <2>1, MoveRefines DEF RowMoves, States, Lifecycle!Cancel
  <2> QED
    BY <2>2 DEF Lifecycle!Next
<1>3. CASE RowMoves(j, {"queued"}, "paused")
  BY <1>3, MoveRefines DEF RowMoves, States, Lifecycle!Next, Lifecycle!Pause
<1>4. CASE RowMoves(j, Waiting, "downloading")
  BY <1>4, MoveRefines DEF RowMoves, Waiting, States, Lifecycle!Next, Lifecycle!Begin
<1>5. CASE \E to \in {"completed", "queued", "failed"} : RowMoves(j, {"downloading"}, to)
  BY <1>5, MoveRefines
  DEF RowMoves, States, Lifecycle!Next, Lifecycle!Complete, Lifecycle!Requeue, Lifecycle!Fail
<1>6. CASE /\ RefreshMayRaise /\ worker[w].pc = "failure"
           /\ \E to \in {"queued", "failed"} : RowMoves(j, {"completed"}, to)
  BY <1>6, MoveRefines DEF States, RefreshUndoes
<1> QED
  BY <1>1, <1>2, <1>3, <1>4, <1>5, <1>6 DEF ProcessMoves

LEMMA StepRefines ==
    ASSUME TypeInv, SteadyInv, RowSteps
    PROVE  [Lifecycle!Next \/ RefreshUndoes]_Status
<1>1. nextId \in Nat /\ \A k \in JobIds : k \in Nat
  BY TableAssumption DEF TypeInv, TypeOK, JobIds
<1>2. ASSUME NEW m \in Messages, RowArrives(m) PROVE Lifecycle!Submit(nextId) /\ nextId \in JobIds
  <2>1. nextId \in JobIds /\ Status[nextId] = "new"
    BY <1>1, <1>2 DEF RowArrives, Status, StatusOf, Exists
  <2>2. rows'[nextId].state = "queued" /\ nextId' = nextId + 1
    BY <1>2 DEF RowArrives, NewRow
  <2>3. ASSUME NEW k \in JobIds \ {nextId} PROVE rows'[k] = rows[k] /\ (k < nextId' <=> k < nextId)
    BY <1>1, <1>2, <2>3 DEF RowArrives
  <2>4. Status' = [Status EXCEPT ![nextId] = "queued"]
    BY <2>2, <2>3 DEF Status, StatusOf, Exists
  <2> QED
    BY <2>1, <2>4 DEF Lifecycle!Submit, Lifecycle!Move, Status
<1>3. ASSUME NEW w \in Workers, nextId' = nextId, ProcessMoves(w, worker[w].job)
      PROVE  [Lifecycle!Next \/ RefreshUndoes]_Status
  BY <1>3, ProcessRefines
<1>4. ASSUME NEW j \in JobIds, nextId' = nextId, RowMoves(j, {"failed", "cancelled"}, "queued")
      PROVE  Lifecycle!Retry(j)
  BY <1>4, MoveRefines DEF States, Lifecycle!Retry
<1>5. CASE nextId' = nextId /\ NothingMoves
  <2>1. Status' = Status
    BY <1>5 DEF NothingMoves, Status, StatusOf, Exists
  <2> QED
    BY <2>1
<1>6. CASE nextId' = nextId /\ HistoryGoes
  <2>1. \A k \in JobIds : rows[k].state # "absent" => k < nextId
    BY GivenIds
  <2>2. \A k \in JobIds : StatusOf(k)' = IF StatusOf(k) \in Lifecycle!Over THEN "cleared" ELSE StatusOf(k)
    BY <1>6, <2>1 DEF HistoryGoes, StatusOf, Exists, Finished, AbsentRow, Lifecycle!Over
  <2>3. Lifecycle!Clear
    BY <2>2 DEF Lifecycle!Clear
  <2> QED
    BY <2>3 DEF Lifecycle!Next
<1>7. CASE nextId' = nextId /\ StartRecovers
  <2>1. \A k \in JobIds : StatusOf(k)' = IF StatusOf(k) = "downloading" THEN "queued" ELSE StatusOf(k)
    BY <1>7 DEF StartRecovers, StatusOf, Exists
  <2>2. Lifecycle!Recover
    BY <2>1 DEF Lifecycle!Recover
  <2> QED
    BY <2>2 DEF Lifecycle!Next
<1>8. CASE nextId' = nextId /\ ShutdownQueues
  <2>1. CASE NothingMoves
    BY <1>5, <1>8, <2>1
  <2>2. ASSUME NEW w \in Workers, RowMoves(worker[w].job, {"downloading"}, "queued")
        PROVE  Lifecycle!Requeue(worker[w].job) /\ worker[w].job \in JobIds
    BY <1>8, <2>2, MoveRefines DEF RowMoves, States, Lifecycle!Requeue
  <2>3. ASSUME NEW w \in Workers, worker[w].pc = "finish",
               RowMoves(worker[w].job, {"completed"}, "queued")
        PROVE  RefreshUndoes
    BY <1>8, <2>3, MoveRefines DEF States, RefreshUndoes, ShutdownQueues
  <2> QED
    BY <1>8, <2>1, <2>2, <2>3 DEF ShutdownQueues, Lifecycle!Next
<1> QED
  BY <1>2, <1>3, <1>4, <1>5, <1>6, <1>7, <1>8 DEF RowSteps, Lifecycle!Next

(* Every step of the queue, with every fault, moves at most one job, along  *)
(* its lifecycle, or recovers after a start, or clears the history; only an *)
(* interrupted refresh of Jellyfin takes back a job that was completed.     *)
THEOREM QueueFollowsLifecycle == Spec => Lifecycle!Init /\ [][Lifecycle!Next \/ RefreshUndoes]_Status
<1>1. Init => Lifecycle!Init
  BY TableAssumption DEF Init, Lifecycle!Init, StatusOf, Exists, EmptyTable, AbsentRow, JobIds
<1>2. TypeInv /\ SingleWorker /\ SteadyInv /\ [Next]_vars => [Lifecycle!Next \/ RefreshUndoes]_Status
  BY TableSteps, StepRefines
<1> QED
  BY <1>1, <1>2, SteadyInvariant, PTL DEF Spec

(* Without shutdowns, and as long as the Jellyfin refresh raises nothing    *)
(* but httpx.HTTPError, the queue implements the lifecycle: no coroutine    *)
(* writes over what another one has done.                                   *)
THEOREM QueueImplementsLifecycle ==
    ASSUME ~ RefreshMayRaise, ~ Stoppable
    PROVE  Spec => ImplementsLifecycle
<1>1. [Lifecycle!Next \/ RefreshUndoes]_Status => [Lifecycle!Next]_Status
  BY DEF RefreshUndoes
<1> QED
  BY <1>1, QueueFollowsLifecycle, PTL DEF ImplementsLifecycle, Lifecycle!Spec, Status

-----------------------------------------------------------------------------
(* Nobody forgets a job that waits.  Who is known is queued or in a hand;  *)
(* during a scan, what is not covered yet is still on the list.            *)

InQueue(q, j) == \E i \in DOMAIN q : q[i] = j

InHand(j) == \E w \in Workers : worker[w].job = j /\ worker[w].pc \notin {"none", "idle"}

KnownHeld == \A j \in known : InQueue(queue, j) \/ InHand(j)

ScanHeld ==
    phase = "scanning" =>
        \A j \in JobIds :
            rows[j].state \in Waiting => Covered(j) \/ \E e \in todo : e.id = j

\* What the worker read of a job between two attempts is still so.  A retry
\* by hand breaks this, and with it the next invariant.
CheckFresh ==
    \A w \in Workers :
        worker[w].pc = "check" /\ rows[worker[w].job].state = "queued" => MayProcess(w)

\* Nobody holds, or waits to enqueue, an id that was not given out yet.
HoldersGiven ==
    /\ \A w \in Workers : worker[w].pc \notin {"none", "idle"} => worker[w].job < nextId
    /\ \A c \in Callers : call[c].pc # "idle" => call[c].job < nextId
    /\ \A i \in DOMAIN queue : queue[i] < nextId
    /\ \A e \in todo : e.id < nextId

LEMMA QueueAppends ==
    ASSUME NEW q \in Seq(JobIds), NEW k \in JobIds
    PROVE  /\ InQueue(Append(q, k), k)
           /\ \A j : InQueue(q, j) => InQueue(Append(q, k), j)
<1>1. /\ Append(q, k) \in Seq(JobIds) /\ Len(Append(q, k)) = Len(q) + 1
      /\ \A i \in 1..Len(q) : Append(q, k)[i] = q[i]
      /\ Append(q, k)[Len(q) + 1] = k /\ Len(q) \in Nat
  OBVIOUS
<1>2. DOMAIN q = 1..Len(q) /\ DOMAIN Append(q, k) = 1..(Len(q) + 1)
  BY <1>1
<1> QED
  BY <1>1, <1>2 DEF InQueue

LEMMA QueueTakes ==
    ASSUME NEW q \in Seq(JobIds), q # <<>>, NEW j, InQueue(q, j)
    PROVE  j = Head(q) \/ InQueue(Tail(q), j)
<1>1. /\ Len(q) \in Nat /\ DOMAIN q = 1..Len(q) /\ Head(q) = q[1]
      /\ Tail(q) \in Seq(JobIds) /\ Len(Tail(q)) = Len(q) - 1
      /\ \A i \in 1..(Len(q) - 1) : Tail(q)[i] = q[i + 1]
  OBVIOUS
<1>2. DOMAIN Tail(q) = 1..(Len(q) - 1)
  BY <1>1
<1>3. PICK i \in DOMAIN q : q[i] = j
  BY DEF InQueue
<1>4. CASE i = 1
  BY <1>1, <1>3, <1>4
<1>5. CASE i # 1
  <2>1. i - 1 \in DOMAIN Tail(q) /\ Tail(q)[i - 1] = j
    BY <1>1, <1>2, <1>3, <1>5
  <2> QED
    BY <2>1 DEF InQueue
<1> QED
  BY <1>4, <1>5

LEMMA InitHeld == Init => KnownHeld /\ HoldersGiven /\ ScanHeld /\ CheckFresh /\ NoStrandedJob
BY DEF Init, HoldersGiven, IdleCall, KnownHeld, ScanHeld, CheckFresh, NoStrandedJob, Running, NoWorker

\* Every caller of enqueue that finds its job known leaves it to its holder.
LEMMA CheckCovers ==
    ASSUME TypeInv, KnownHeld, NEW c \in Callers, NEW j \in JobIds,
           EnqueueCheck(c, j), UNCHANGED <<queue, worker, rows>>,
           rows[j].state \in Waiting,
           \A w \in Workers : worker[w].job = j /\ worker[w].pc = "check" => MayProcess(w)
    PROVE  Covered(j)'
<1>1. CASE j \in known
  <2>1. InQueue(queue, j) \/ InHand(j)
    BY <1>1 DEF KnownHeld
  <2>2. ASSUME NEW w \in Workers, worker[w].pc \notin {"none", "idle"}
        PROVE  Processing(w) \/ worker[w].pc = "check"
    BY <2>2 DEF Processing, WorkerPcs, TypeInv, TypeOK, WorkerType
  <2> QED
    BY <2>1, <2>2 DEF InQueue, InHand, Covered, Processing, MayProcess
<1>2. CASE j \notin known
  <2>1. call'[c].pc = "put" /\ call'[c].job = j /\ call'[c].snap = rows[j]
    BY <1>2 DEF EnqueueCheck, TypeInv, TypeOK
  <2> QED
    BY <2>1 DEF Covered
<1> QED
  BY <1>1, <1>2

\* A caller covers its job until the job is queued, or known already.
LEMMA EnqueueCovers ==
    ASSUME TypeInv, KnownHeld, NEW c \in Callers, Enqueue(c) \/ EnqueuePut(c),
           NEW j \in JobIds, rows[j].state \in Waiting, Covered(j),
           \A w \in Workers : worker[w].job = j /\ worker[w].pc = "check" => MayProcess(w)
    PROVE  Covered(j)'
<1>1. /\ \A d \in Callers \ {c} : call'[d] = call[d]
      /\ UNCHANGED <<rows, worker>>
      /\ call \in [Callers -> CallType] /\ queue \in Seq(JobIds)
      /\ call[c].pc # "idle" /\ call[c].job \in JobIds
  BY DEF Enqueue, EnqueuePut, EnqueueCheck, durable, TypeInv, TypeOK, CallsOK
<1>2. \A k : InQueue(queue, k) => InQueue(queue', k)
  BY <1>1, QueueAppends DEF Enqueue, EnqueuePut
<1>3. CASE InQueue(queue, j)
  BY <1>2, <1>3 DEF InQueue, Covered
<1>4. CASE \E w \in Workers : worker[w].job = j /\ (Processing(w) \/ (worker[w].pc = "check" /\ MayProcess(w)))
  BY <1>1, <1>4 DEF Covered, Processing, MayProcess
<1>5. CASE \E d \in Callers \ {c} :
             /\ call[d].job = j
             /\ call[d].pc = "want" \/ (call[d].pc = "put" /\ call[d].snap.state \in Waiting)
  BY <1>1, <1>5 DEF Covered
<1>6. CASE call[c].job = j /\ call[c].pc = "want"
  BY <1>1, <1>6, CheckCovers DEF Enqueue, EnqueuePut
<1>7. CASE call[c].job = j /\ call[c].pc = "put" /\ call[c].snap.state \in Waiting
  <2>1. queue' = Append(queue, j)
    BY <1>7 DEF Enqueue, EnqueuePut
  <2> QED
    BY <1>1, <2>1, QueueAppends DEF InQueue, Covered
<1> QED
  BY <1>3, <1>4, <1>5, <1>6, <1>7 DEF Covered, InQueue

LEMMA KnownStep ==
    ASSUME TypeInv, KnownHeld, [Next]_vars
    PROVE  KnownHeld'
<1>1. /\ worker \in [Workers -> WorkerType] /\ queue \in Seq(JobIds)
      /\ \A c \in Callers : call[c].pc # "idle" => call[c].job \in JobIds
  BY DEF TypeInv, TypeOK, CallsOK
<1>2. CASE UNCHANGED <<known, queue, worker>>
  BY <1>2 DEF KnownHeld, InHand, InQueue
<1>3. ASSUME NEW w \in Workers, Take(w) PROVE KnownHeld'
  <2>1. /\ known' = known /\ queue # <<>> /\ queue' = Tail(queue)
        /\ worker'[w].job = Head(queue) /\ worker'[w].pc = "check" /\ worker[w].pc = "idle"
        /\ \A v \in Workers \ {w} : worker'[v] = worker[v]
    BY <1>1, <1>3 DEF Take
  <2> QED
    BY <1>1, <2>1, QueueTakes DEF KnownHeld, InHand
<1>4. ASSUME NEW w \in Workers, NextItem(w) \/ UnhandledError(w) PROVE KnownHeld'
  BY <1>1, <1>4 DEF NextItem, UnhandledError, Leave, KnownHeld, InHand, InQueue
<1>5. ASSUME NEW w \in Workers, UNCHANGED <<known, queue>>,
             \A v \in Workers \ {w} : worker'[v] = worker[v],
             worker'[w].job = worker[w].job, worker'[w].pc \notin {"none", "idle"}
      PROVE  KnownHeld'
  BY <1>5 DEF KnownHeld, InHand, InQueue
<1>6. ASSUME NEW w \in Workers, Attempt(w) \/ EndProcess(w) PROVE KnownHeld'
  <2>1. /\ UNCHANGED <<known, queue>> /\ \A v \in Workers \ {w} : worker'[v] = worker[v]
        /\ worker'[w].job = worker[w].job /\ worker'[w].pc \in {"start", "check"}
    BY <1>1, <1>6 DEF Attempt, EndProcess, Get, WorkerType
  <2> QED
    BY <1>5, <2>1
<1>7. ASSUME NEW w \in Workers, Process(w), ~ UnhandledError(w) PROVE KnownHeld'
  BY <1>1, <1>5, <1>7 DEF Process, CancelBeforeStart, PauseForDisk, BeginDownload, Connect,
    Progress, ProgressCancels, ProgressContinues, FinishDownload, DownloadError, Failure, Get, Goto, WorkerType
<1>8. ASSUME NEW c \in Callers, Enqueue(c) \/ EnqueuePut(c) PROVE KnownHeld'
  <2>1. CASE UNCHANGED <<known, queue>>
    BY <1>2, <1>8, <2>1 DEF Enqueue, EnqueuePut
  <2>2. CASE /\ known' = known \cup {call[c].job} /\ queue' = Append(queue, call[c].job)
             /\ call[c].pc # "idle" /\ UNCHANGED worker
    BY <1>1, <2>2, QueueAppends DEF KnownHeld, InHand
  <2> QED
    BY <1>8, <2>1, <2>2 DEF Enqueue, EnqueuePut
<1>9. ASSUME NEW w \in Workers, ScanDone(w) PROVE KnownHeld'
  BY <1>1, <1>9 DEF ScanDone, KnownHeld, InHand, InQueue
<1>10. CASE Shutdown
  BY <1>10 DEF Shutdown, KnownHeld, InHand, InQueue
<1>11. CASE Exit \/ Crash
  BY <1>11 DEF Exit, Crash, Halt, KnownHeld
<1>12. ASSUME NEW m \in Messages, Receive(m) PROVE KnownHeld'
  BY <1>2, <1>12 DEF Receive
<1>13. CASE TelegramStart \/ TelegramStartFails \/ StartQueue \/ ScanNext
  BY <1>2, <1>13 DEF TelegramStart, TelegramStartFails, StartQueue, ScanNext, tasks
<1>14. CASE User \/ Boot \/ UNCHANGED vars
  BY <1>2, <1>14 DEF User, RetryRequest, CancelRequest, ClearRequest, Relogin, Boot, vars, tasks
<1> QED
  BY <1>3, <1>4, <1>6, <1>7, <1>8, <1>9, <1>10, <1>11, <1>12, <1>13, <1>14
  DEF Next, Work, Process, Enqueuing, Start, Environment

\* A step that leaves queue, workers and callers alone covers what it did.
LEMMA SameCover ==
    ASSUME UNCHANGED <<queue, worker, call>>, NEW j, Covered(j)
    PROVE  Covered(j)'
BY DEF Covered, Processing, MayProcess

LEMMA ReceiveCovers ==
    ASSUME TypeInv, SteadyInv, NEW m \in Messages, Receive(m), NEW j \in JobIds,
           rows'[j].state \in Waiting
    PROVE  Covered(j)' \/ (rows'[j] = rows[j] /\ (Covered(j) => Covered(j)'))
<1>1. CASE Duplicate(rows, m)
  BY <1>1, SameCover DEF Receive
<1>2. CASE ~ Duplicate(rows, m)
  <2>1. /\ call[("intake")].pc = "idle" /\ "intake" \in Callers
        /\ call' = [call EXCEPT !["intake"] = [pc |-> "want", job |-> nextId, snap |-> AbsentRow]]
        /\ rows' = [rows EXCEPT ![nextId] = NewRow(m)]
        /\ call \in [Callers -> CallType]
        /\ UNCHANGED <<queue, worker>>
    BY <1>2 DEF Receive, Insert, Callers, TypeInv, TypeOK
  <2>2. CASE j = nextId
    BY <2>1, <2>2 DEF Covered
  <2>3. CASE j # nextId
    <3>1. rows'[j] = rows[j]
      BY <2>1, <2>3 DEF TypeInv, TypeOK
    <3>2. \A c \in Callers : call[c].pc # "idle" => call'[c] = call[c]
      BY <2>1
    <3>3. Covered(j) => Covered(j)'
      BY <2>1, <3>2 DEF Covered, Processing, MayProcess
    <3> QED
      BY <3>1, <3>3
  <2> QED
    BY <2>2, <2>3
<1> QED
  BY <1>1, <1>2

LEMMA UserCovers ==
    ASSUME TypeInv, User, NEW j \in JobIds, rows'[j].state \in Waiting
    PROVE  \/ UserRetries /\ Covered(j)'
           \/ rows'[j].state = rows[j].state /\ (Covered(j) => Covered(j)')
<1>1. rows \in [JobIds -> Row] /\ call \in [Callers -> CallType]
  BY DEF TypeInv, TypeOK
<1>2. ASSUME NEW r \in Requests, NEW k \in JobIds, RetryRequest(r, k)
      PROVE  UserRetries /\ (Covered(j)' \/ (rows'[j].state = rows[j].state /\ (Covered(j) => Covered(j)')))
  <2>1. /\ UserRetries /\ r \in Callers /\ call[r].pc = "idle" /\ UNCHANGED <<queue, worker>>
        /\ call' = [call EXCEPT ![r] = [pc |-> "want", job |-> k, snap |-> AbsentRow]]
    BY <1>2 DEF RetryRequest, Callers
  <2>2. \A c \in Callers : call[c].pc # "idle" => call'[c] = call[c]
    BY <1>1, <2>1
  <2>3. CASE j = k
    BY <1>1, <2>1, <2>3 DEF Covered
  <2>4. CASE j # k
    <3>1. rows'[j].state = rows[j].state
      BY <1>1, <1>2, <2>4 DEF RetryRequest, Retry
    <3>2. Covered(j) => Covered(j)'
      BY <2>1, <2>2 DEF Covered, Processing, MayProcess
    <3> QED
      BY <2>1, <3>1, <3>2
  <2> QED
    BY <2>1, <2>3, <2>4
<1>3. ASSUME NEW k \in JobIds, CancelRequest(k) PROVE rows'[j].state = rows[j].state
  BY <1>1, <1>3 DEF CancelRequest, RequestCancel, Row
<1>4. CASE ClearRequest
  <2>1. rows'[j].state = rows[j].state
    BY <1>4 DEF ClearRequest, ClearHistory, AbsentRow, Waiting
  <2> QED
    BY <1>4, <2>1, SameCover DEF ClearRequest, tasks
<1>5. CASE Relogin
  BY <1>5, SameCover DEF Relogin, durable, tasks
<1> QED
  BY <1>2, <1>3, <1>4, <1>5, SameCover DEF User, CancelRequest, tasks

\* A step of the worker that does not leave the job behind still covers it.
LEMMA WorkCovers ==
    ASSUME ~ StorageFaults, TypeInv, SingleWorker, SteadyInv, CheckFresh, NoStrandedJob,
           NEW w \in Workers, Work(w), NEW j \in JobIds, rows'[j].state = "queued"
    PROVE  Covered(j)'
<1>1. /\ worker \in [Workers -> WorkerType] /\ queue \in Seq(JobIds)
      /\ ProcessMoves(w, worker[w].job)
  BY ProcessRows DEF TypeInv, TypeOK
<1>2. worker[w].pc # "none" /\ UNCHANGED call /\ \A v \in Workers \ {w} : worker'[v] = worker[v]
  BY <1>1 DEF Work, Process, Take, Attempt, NextItem, EndProcess, Returned, CancelBeforeStart,
    PauseForDisk, BeginDownload, UnhandledError, Startable, Connect, Progress,
    ProgressCancels, ProgressContinues, FinishDownload, DownloadError, Failure, Goto, Get, Leave
<1>3. \A v \in Workers \ {w} : worker[v].pc = "none"
  BY <1>2 DEF SingleWorker
<1>4. rows[j].state = "queued" => Covered(j)
  BY <1>2 DEF NoStrandedJob, Running
<1>5. ASSUME worker'[w].pc \in ProcessPcs, worker'[w].job = worker[w].job,
             worker[w].pc # "idle", UNCHANGED queue
      PROVE  Covered(j)'
  <2>1. CASE worker[w].job = j
    BY <1>5, <2>1 DEF Covered, Processing
  <2>2. CASE worker[w].job # j
    <3>1. rows[j].state = "queued"
      BY <1>1, <2>2 DEF ProcessMoves, NothingMoves, RowMoves
    <3>2. /\ \A v \in Workers : worker[v].job = j => ~ Processing(v) /\ worker[v].pc # "check"
      BY <1>3, <2>2 DEF Processing, ProcessPcs, TryPcs
    <3> QED
      BY <1>2, <1>4, <1>5, <3>1, <3>2 DEF Covered
  <2> QED
    BY <2>1, <2>2
<1>6. CASE Take(w)
  <2>1. /\ queue # <<>> /\ queue' = Tail(queue) /\ UNCHANGED rows /\ worker[w].pc = "idle"
        /\ worker'[w].job = Head(queue) /\ worker'[w].pc = "check"
        /\ worker'[w].snap = rows[Head(queue)]
    BY <1>1, <1>6 DEF Take, durable
  <2>2. \A v \in Workers : ~ Processing(v) /\ worker[v].pc # "check"
    BY <1>3, <2>1 DEF Processing, ProcessPcs, TryPcs
  <2>3. CASE InQueue(queue, j)
    <3>1. CASE j = Head(queue)
      BY <2>1, <3>1 DEF Covered, MayProcess
    <3>2. CASE InQueue(Tail(queue), j)
      BY <2>1, <3>2 DEF InQueue, Covered
    <3> QED
      BY <1>1, <2>1, <2>3, <3>1, <3>2, QueueTakes
  <2> QED
    BY <1>2, <1>4, <2>1, <2>2, <2>3 DEF Covered, InQueue
<1>7. CASE NextItem(w)
  <2>1. /\ worker[w].pc = "check" /\ ~ MayProcess(w) /\ UNCHANGED <<rows, queue>>
    BY <1>7 DEF NextItem, durable
  <2>2. worker[w].job # j
    BY <2>1 DEF CheckFresh
  <2> QED
    BY <1>2, <1>3, <1>4, <2>1, <2>2 DEF Covered, Processing, ProcessPcs, TryPcs, MayProcess
<1>8. CASE EndProcess(w)
  <2>1. /\ Processing(w) /\ UNCHANGED <<rows, queue>>
        /\ worker'[w].pc = "check" /\ worker'[w].job = worker[w].job
        /\ worker'[w].snap = rows[worker[w].job]
    BY <1>1, <1>8 DEF EndProcess, Returned, Get, durable, WorkerType, Processing, ProcessPcs, TryPcs
  <2>2. CASE worker[w].job = j
    BY <2>1, <2>2 DEF Covered, MayProcess
  <2>3. CASE worker[w].job # j
    BY <1>2, <1>3, <1>4, <2>1, <2>3 DEF Covered, Processing, ProcessPcs, TryPcs, MayProcess
  <2> QED
    BY <2>2, <2>3
<1>9. CASE Attempt(w)
  BY <1>1, <1>5, <1>9 DEF Attempt, WorkerType, ProcessPcs, TryPcs
<1>10. CASE Process(w)
  BY <1>1, <1>5, <1>10 DEF Process, CancelBeforeStart, PauseForDisk, BeginDownload, Startable,
    UnhandledError, Connect, Progress, ProgressCancels, ProgressContinues, FinishDownload,
    DownloadError, Failure, Get, Goto, WorkerType, ProcessPcs, TryPcs
<1> QED
  BY <1>6, <1>7, <1>8, <1>9, <1>10 DEF Work

LEMMA GivenStep ==
    ASSUME TypeInv, SteadyInv, HoldersGiven, [Next]_vars
    PROVE  HoldersGiven'
<1>1. /\ worker \in [Workers -> WorkerType] /\ call \in [Callers -> CallType]
      /\ queue \in Seq(JobIds) /\ nextId \in Nat
      /\ \A j \in JobIds : j \in Nat
      /\ \A w \in Workers : worker[w].pc \notin {"none", "idle"} => worker[w].job \in JobIds
      /\ \A c \in Callers : call[c].pc # "idle" => call[c].job \in JobIds
      /\ \A e \in todo : e.id \in JobIds
      /\ \A i \in DOMAIN queue : queue[i] \in JobIds
  BY TableAssumption DEF TypeInv, TypeOK, WorkersOK, CallsOK, JobIds
<1>2. CASE UNCHANGED <<worker, call, queue, todo, nextId>>
  BY <1>2 DEF HoldersGiven
<1>3. ASSUME NEW m \in Messages, Receive(m) PROVE HoldersGiven'
  <2>1. CASE Duplicate(rows, m)
    BY <1>2, <1>3, <2>1 DEF Receive
  <2>2. CASE ~ Duplicate(rows, m)
    <3>1. /\ nextId' = nextId + 1 /\ UNCHANGED <<worker, queue, todo>>
          /\ call' = [call EXCEPT !["intake"] = [pc |-> "want", job |-> nextId, snap |-> AbsentRow]]
      BY <1>3, <2>2 DEF Receive
    <3>2. /\ \A j \in JobIds : j < nextId => j < nextId'
          /\ nextId < nextId'
      BY <1>1, <3>1
    <3>3. \A c \in Callers : call'[c] = call[c] \/ call'[c].job = nextId
      BY <1>1, <3>1
    <3>4. /\ \A w \in Workers : worker'[w].pc \notin {"none", "idle"} => worker'[w].job < nextId'
          /\ \A i \in DOMAIN queue' : queue'[i] < nextId'
          /\ \A e \in todo' : e.id < nextId'
      BY <1>1, <3>1, <3>2 DEF HoldersGiven
    <3>5. \A c \in Callers : call'[c].pc # "idle" => call'[c].job < nextId'
      BY <1>1, <3>2, <3>3 DEF HoldersGiven
    <3> QED
      BY <3>4, <3>5 DEF HoldersGiven
  <2> QED
    BY <2>1, <2>2
<1>4. ASSUME NEW w \in Workers, Work(w) PROVE HoldersGiven'
  <2>1. UNCHANGED <<call, todo, nextId>> /\ \A v \in Workers \ {w} : worker'[v] = worker[v]
    BY <1>1, <1>4 DEF Work, Process, Take, Attempt, NextItem, EndProcess, CancelBeforeStart,
      PauseForDisk, BeginDownload, UnhandledError, Connect, Progress, ProgressCancels,
      ProgressContinues, FinishDownload, DownloadError, Failure, Goto, Get, Leave, durable
  <2>2. CASE Take(w)
    <3>1. queue # <<>> /\ queue' = Tail(queue) /\ worker'[w].job = Head(queue)
      BY <1>1, <2>2 DEF Take
    <3>2. /\ 1 \in DOMAIN queue /\ Head(queue) = queue[1]
          /\ \A i \in DOMAIN Tail(queue) : i + 1 \in DOMAIN queue /\ Tail(queue)[i] = queue[i + 1]
      BY <1>1, <3>1
    <3> QED
      BY <2>1, <3>1, <3>2 DEF HoldersGiven
  <2>3. CASE ~ Take(w)
    <3>1. UNCHANGED queue /\ (worker'[w].pc = "idle" \/
            (worker'[w].job = worker[w].job /\ worker[w].pc \notin {"none", "idle"}))
      BY <1>1, <1>4, <2>3 DEF Work, Process, Attempt, NextItem, EndProcess, Returned, CancelBeforeStart,
        PauseForDisk, BeginDownload, UnhandledError, Startable, Connect, Progress, ProgressCancels,
        ProgressContinues, FinishDownload, DownloadError, Failure, Goto, Get, Leave, IdleWorker,
        WorkerType
    <3> QED
      BY <2>1, <3>1 DEF HoldersGiven
  <2> QED
    BY <2>2, <2>3
<1>5. ASSUME NEW c \in Callers, Enqueue(c) \/ EnqueuePut(c) PROVE HoldersGiven'
  <2>1. /\ UNCHANGED <<worker, todo, nextId>> /\ call[c].pc # "idle"
        /\ \A d \in Callers \ {c} : call'[d] = call[d]
        /\ call'[c].pc = "idle" \/ call'[c].job = call[c].job
    BY <1>1, <1>5 DEF Enqueue, EnqueuePut, EnqueueCheck, IdleCall, durable
  <2>2. UNCHANGED queue \/ queue' = Append(queue, call[c].job)
    BY <1>5 DEF Enqueue, EnqueuePut
  <2>3. \A i \in DOMAIN queue' : (i \in DOMAIN queue /\ queue'[i] = queue[i]) \/ queue'[i] = call[c].job
    BY <1>1, <2>1, <2>2
  <2>4. \A i \in DOMAIN queue' : queue'[i] < nextId'
    BY <2>1, <2>3 DEF HoldersGiven
  <2> QED
    BY <2>1, <2>4 DEF HoldersGiven
<1>6. CASE StartQueue
  <2>1. \A e \in Queued(rows) : e.id \in JobIds /\ rows[e.id].state # "absent"
    BY DEF Queued, Waiting
  <2>2. UNCHANGED <<worker, call, queue, nextId>> /\ \A e \in todo' : e \in todo \/ e \in Queued(rows)
    BY <1>6 DEF StartQueue, durable
  <2> QED
    BY <2>1, <2>2, GivenIds DEF HoldersGiven
<1>7. CASE ScanNext
  <2>1. PICK e \in todo : EnqueueCheck("scan", e.id) /\ todo' = todo \ {e}
    BY <1>7 DEF ScanNext
  <2>2. \A c \in Callers : call'[c] = call[c] \/ call'[c].pc = "idle" \/ call'[c].job = e.id
    BY <1>1, <2>1 DEF EnqueueCheck, IdleCall
  <2> QED
    BY <1>7, <2>1, <2>2 DEF ScanNext, durable, HoldersGiven
<1>8. ASSUME NEW w \in Workers, ScanDone(w) PROVE HoldersGiven'
  BY <1>1, <1>8 DEF ScanDone, IdleWorker, durable, HoldersGiven
<1>9. ASSUME NEW r \in Requests, NEW j \in JobIds, RetryRequest(r, j) PROVE HoldersGiven'
  <2>1. j < nextId
    BY <1>9, GivenIds DEF RetryRequest, Retryable
  <2>2. \A c \in Callers : call'[c] = call[c] \/ call'[c].job = j
    BY <1>1, <1>9 DEF RetryRequest
  <2> QED
    BY <1>9, <2>1, <2>2 DEF RetryRequest, HoldersGiven
<1>10. CASE Shutdown
  BY <1>10 DEF Shutdown, NoWorker, HoldersGiven
<1>11. CASE Exit \/ Crash
  BY <1>11 DEF Exit, Crash, Halt, NoWorker, IdleCall, durable, HoldersGiven
<1>12. CASE TelegramStart \/ TelegramStartFails \/ Boot \/ UNCHANGED vars
  BY <1>2, <1>12 DEF TelegramStart, TelegramStartFails, Boot, durable, vars, tasks
<1>13. CASE \/ \E j \in JobIds : CancelRequest(j)
            \/ ClearRequest \/ Relogin
  BY <1>2, <1>13 DEF CancelRequest, ClearRequest, Relogin, durable, tasks
<1> QED
  BY <1>3, <1>4, <1>5, <1>6, <1>7, <1>8, <1>9, <1>10, <1>11, <1>12, <1>13
  DEF Next, Enqueuing, Start, User, Environment

LEMMA FreshCheckStep ==
    ASSUME ~ UserRetries, TypeInv, SingleWorker, SteadyInv, HoldersGiven, CheckFresh, [Next]_vars
    PROVE  CheckFresh'
<1>1. worker \in [Workers -> WorkerType] /\ RowSteps
  BY TableSteps DEF TypeInv, TypeOK
<1>2. ASSUME NEW w \in Workers, Work(w) PROVE CheckFresh'
  <2>1. worker[w].pc # "none" /\ \A v \in Workers \ {w} : worker'[v] = worker[v]
    BY <1>1, <1>2 DEF Work, Process, Take, Attempt, NextItem, EndProcess, Returned, CancelBeforeStart,
      PauseForDisk, BeginDownload, UnhandledError, Startable, Connect, Progress,
      ProgressCancels, ProgressContinues, FinishDownload, DownloadError, Failure, Goto, Get, Leave
  <2>2. \A v \in Workers \ {w} : worker'[v].pc # "check"
    BY <2>1 DEF SingleWorker
  <2>3. CASE worker'[w].pc # "check"
    BY <2>2, <2>3 DEF CheckFresh
  <2>4. CASE Take(w) \/ EndProcess(w)
    <3>1. UNCHANGED rows /\ worker'[w].snap = rows[worker'[w].job]
      BY <1>1, <2>4 DEF Take, EndProcess, Get, durable, WorkerType
    <3> QED
      BY <2>2, <3>1 DEF CheckFresh, MayProcess
  <2>5. ~ (Take(w) \/ EndProcess(w)) => worker'[w].pc # "check"
    BY <1>1, <1>2 DEF Work, Process, Attempt, NextItem, CancelBeforeStart, PauseForDisk,
      BeginDownload, UnhandledError, Connect, Progress, ProgressCancels, ProgressContinues,
      FinishDownload, DownloadError, Failure, Goto, Get, Leave, IdleWorker, WorkerType
  <2> QED
    BY <2>3, <2>4, <2>5
<1>3. ASSUME \A w \in Workers : worker'[w].pc # "check" PROVE CheckFresh'
  BY <1>3 DEF CheckFresh
<1>4. ASSUME UNCHANGED worker,
             \A j \in JobIds : j < nextId /\ rows'[j].state = "queued" => rows[j].state = "queued"
      PROVE  CheckFresh'
  BY <1>4 DEF CheckFresh, HoldersGiven, MayProcess, TypeInv, WorkersOK
<1>5. ASSUME NEW m \in Messages, Receive(m) PROVE CheckFresh'
  <2>1. /\ UNCHANGED worker
        /\ \A j \in JobIds : j # nextId => rows'[j] = rows[j]
    BY <1>5 DEF Receive, Insert, TypeInv, TypeOK
  <2>2. \A j \in JobIds : j < nextId => j # nextId
    BY TableAssumption DEF TypeInv, TypeOK, JobIds
  <2> QED
    BY <1>4, <2>1, <2>2
<1>6. CASE User
  <2>1. UNCHANGED worker
    BY <1>6 DEF User, RetryRequest, CancelRequest, ClearRequest, Relogin, tasks
  <2>2. \A j \in JobIds : rows'[j].state \in Waiting => rows'[j].state = rows[j].state
    BY <1>6, UserCovers
  <2> QED
    BY <1>4, <2>1, <2>2 DEF Waiting
<1>7. CASE Enqueuing
  BY <1>4, <1>7 DEF Enqueuing, Enqueue, EnqueuePut, durable
<1>8. CASE TelegramStart \/ TelegramStartFails \/ StartQueue \/ ScanNext \/ UNCHANGED vars
  BY <1>4, <1>8 DEF TelegramStart, TelegramStartFails, StartQueue, ScanNext, durable, tasks, vars
<1>9. ASSUME NEW w \in Workers, ScanDone(w) PROVE CheckFresh'
  BY <1>1, <1>4, <1>9 DEF ScanDone, IdleWorker, durable, CheckFresh, MayProcess
<1>10. CASE Environment
  BY <1>3, <1>10 DEF Environment, Shutdown, Exit, Crash, Halt, Boot, NoWorker, tasks,
    SingleWorker, Running
<1> QED
  BY <1>2, <1>5, <1>6, <1>7, <1>8, <1>9, <1>10 DEF Next, Start

-----------------------------------------------------------------------------
\* While the table is scanned no worker runs, so what is known is queued.
LEMMA ScanStep ==
    ASSUME TypeInv, SingleWorker, SteadyInv, KnownHeld, ScanHeld, [Next]_vars
    PROVE  ScanHeld'
<1> SUFFICES ASSUME phase' = "scanning", NEW j \in JobIds, rows'[j].state \in Waiting
             PROVE  Covered(j)' \/ \E e \in todo' : e.id = j
  BY DEF ScanHeld
<1> DEFINE Listed == Covered(j) \/ \E e \in todo : e.id = j
<1>1. /\ rows[j].state \in Waiting /\ phase = "scanning" => Listed
      /\ phase = "scanning" => \A w \in Workers : worker[w].pc = "none"
  BY DEF ScanHeld, SingleWorker, Running
<1>2. CASE phase = "scanning" /\ UNCHANGED <<rows, queue, worker, call, todo>>
  BY <1>1, <1>2, SameCover
<1>3. ASSUME NEW m \in Messages, Receive(m) PROVE Covered(j)' \/ \E e \in todo' : e.id = j
  <2>1. phase = "scanning" /\ todo' = todo
    BY <1>3 DEF Receive
  <2> QED
    BY <1>1, <1>3, <2>1, ReceiveCovers
<1>4. ASSUME NEW w \in Workers, Work(w) PROVE FALSE
  <2>1. worker[w].pc # "none" /\ phase' = phase
    BY <1>4 DEF Work, Process, Take, Attempt, NextItem, EndProcess, Returned, CancelBeforeStart,
      PauseForDisk, BeginDownload, UnhandledError, Startable, Connect, Progress,
      ProgressCancels, ProgressContinues, FinishDownload, DownloadError, Failure
  <2> QED
    BY <1>1, <2>1
<1>5. ASSUME NEW c \in Callers, Enqueue(c) \/ EnqueuePut(c)
      PROVE  Covered(j)' \/ \E e \in todo' : e.id = j
  <2>1. phase = "scanning" /\ UNCHANGED <<rows, todo>>
    BY <1>5 DEF Enqueue, EnqueuePut, durable
  <2> QED
    BY <1>1, <1>5, <2>1, EnqueueCovers
<1>6. CASE StartQueue
  <2>1. todo' = Queued(rows) /\ rows' = rows
    BY <1>6 DEF StartQueue, durable
  <2>2. [id |-> j, msg |-> rows[j].msg] \in todo'
    BY <2>1 DEF Queued
  <2> QED
    BY <2>2
<1>7. CASE ScanNext
  <2>1. PICK e \in todo : EnqueueCheck("scan", e.id) /\ todo' = todo \ {e}
    BY <1>7 DEF ScanNext
  <2>2. /\ phase = "scanning" /\ call["scan"].pc = "idle" /\ "scan" \in Callers
        /\ UNCHANGED <<rows, queue, worker>>
        /\ e.id \in JobIds
    BY <1>7 DEF ScanNext, durable, Callers, TypeInv, TypeOK
  <2>3. CASE e.id = j
    BY <1>1, <2>1, <2>2, <2>3, CheckCovers
  <2>4. CASE e.id # j /\ \E f \in todo : f.id = j
    BY <2>1, <2>4
  <2>5. CASE e.id # j /\ Covered(j)
    <3>1. \A c \in Callers : call[c].pc # "idle" => call'[c] = call[c]
      BY <2>1, <2>2 DEF EnqueueCheck, TypeInv, TypeOK
    <3> QED
      BY <2>2, <2>5, <3>1 DEF Covered, Processing, MayProcess
  <2> QED
    BY <1>1, <2>2, <2>3, <2>4, <2>5
<1>8. CASE User
  <2>1. phase = "scanning" /\ todo' = todo
    BY <1>8 DEF User, RetryRequest, CancelRequest, ClearRequest, Relogin, tasks
  <2> QED
    BY <1>1, <1>8, <2>1, UserCovers
<1>9. CASE TelegramStart \/ TelegramStartFails \/ \E w \in Workers : ScanDone(w)
  BY <1>9 DEF TelegramStart, TelegramStartFails, ScanDone
<1>10. CASE Environment
  BY <1>10 DEF Environment, Shutdown, Exit, Crash, Halt, Boot
<1>11. CASE UNCHANGED vars
  BY <1>2, <1>11 DEF vars, durable, tasks
<1> QED
  BY <1>3, <1>4, <1>5, <1>6, <1>7, <1>8, <1>9, <1>10, <1>11 DEF Next, Enqueuing, Start

\* The property ScanCoversAll, of one step.
ScanEndsCovered ==
    phase = "scanning" /\ phase' = "up" =>
        \A j \in JobIds : rows[j].state \in Waiting => Covered(j)

ForgetNothing == TypeInv /\ SingleWorker /\ SteadyInv /\ KnownHeld /\ HoldersGiven /\ ScanHeld

LEMMA ScanEnds == ForgetNothing /\ [Next]_vars => ScanEndsCovered
<1> SUFFICES ASSUME ForgetNothing, [Next]_vars, phase = "scanning", phase' = "up",
                    NEW j \in JobIds, rows[j].state \in Waiting
             PROVE  Covered(j)
  BY DEF ScanEndsCovered
<1>1. \E w \in Workers : ScanDone(w)
  BY DEF Next, Receive, Work, Process, Take, Attempt, NextItem, EndProcess, CancelBeforeStart,
    PauseForDisk, BeginDownload, UnhandledError, Connect, Progress, ProgressCancels,
    ProgressContinues, FinishDownload, DownloadError, Failure, Enqueuing, Enqueue, EnqueuePut,
    Start, TelegramStart, TelegramStartFails, StartQueue, ScanNext, User, RetryRequest,
    CancelRequest, ClearRequest, Relogin, Environment, Shutdown, Exit, Crash, Halt, Boot, vars
<1>2. todo = {}
  BY <1>1 DEF ScanDone
<1> QED
  BY <1>2 DEF ForgetNothing, ScanHeld

THEOREM ForgetNothingInvariant == Spec => []ForgetNothing
<1>1. ForgetNothing /\ [Next]_vars => KnownHeld' /\ HoldersGiven' /\ ScanHeld'
  BY KnownStep, GivenStep, ScanStep DEF ForgetNothing
<1> QED
  BY <1>1, InitHeld, SteadyInvariant, PTL DEF Spec, ForgetNothing

(* When QueueManager.start creates the worker, every QUEUED and PAUSED row  *)
(* has been enqueued, whatever messages, retries and cleared history came   *)
(* during the scan, and whatever a storage error or a race left behind.     *)
THEOREM ScanMissesNothing == Spec => ScanCoversAll
<1>1. ForgetNothing /\ [Next]_vars => [ScanEndsCovered]_vars
  BY ScanEnds
<1> QED
  BY <1>1, ForgetNothingInvariant, PTL DEF Spec, ScanCoversAll, ScanEndsCovered

LEMMA StrandStep ==
    ASSUME ~ UserRetries, ~ StorageFaults, ForgetNothing, CheckFresh, NoStrandedJob, [Next]_vars
    PROVE  NoStrandedJob'
<1> SUFFICES ASSUME Running', NEW j \in JobIds, rows'[j].state = "queued"
             PROVE  Covered(j)'
  BY DEF NoStrandedJob
<1> USE DEF ForgetNothing
<1>1. /\ Running /\ rows[j].state = "queued" => Covered(j)
      /\ rows[j].state = "queued" =>
           \A w \in Workers : worker[w].job = j /\ worker[w].pc = "check" => MayProcess(w)
      /\ "queued" \in Waiting
  BY DEF NoStrandedJob, CheckFresh, Waiting
<1>2. CASE UNCHANGED <<rows, queue, worker, call>>
  BY <1>1, <1>2, SameCover DEF Running
<1>3. ASSUME NEW m \in Messages, Receive(m) PROVE Covered(j)'
  <2>1. Running
    BY <1>3 DEF Receive, Running
  <2> QED
    BY <1>1, <1>3, <2>1, ReceiveCovers
<1>4. ASSUME NEW w \in Workers, Work(w) PROVE Covered(j)'
  BY <1>4, WorkCovers
<1>5. ASSUME NEW c \in Callers, Enqueue(c) \/ EnqueuePut(c) PROVE Covered(j)'
  <2>1. Running /\ UNCHANGED rows
    BY <1>5 DEF Enqueue, EnqueuePut, durable, Running
  <2> QED
    BY <1>1, <1>5, <2>1, EnqueueCovers
<1>6. CASE TelegramStart \/ TelegramStartFails \/ StartQueue
  BY <1>2, <1>6 DEF TelegramStart, TelegramStartFails, StartQueue, durable, tasks
<1>7. CASE ScanNext
  BY <1>7 DEF ScanNext, SingleWorker, Running
<1>8. ASSUME NEW w \in Workers, ScanDone(w) PROVE Covered(j)'
  <2>1. rows[j].state = "queued" /\ todo = {} /\ phase = "scanning" /\ UNCHANGED <<queue, call>>
    BY <1>8 DEF ScanDone, durable
  <2>2. Covered(j) /\ \A v \in Workers : worker[v].pc = "none"
    BY <1>1, <2>1 DEF ScanHeld, SingleWorker, Running
  <2> QED
    BY <2>1, <2>2 DEF Covered, Processing, ProcessPcs, TryPcs
<1>9. CASE User
  <2>1. Running
    BY <1>9 DEF User, RetryRequest, CancelRequest, ClearRequest, Relogin, tasks, Running
  <2> QED
    BY <1>1, <1>9, <2>1, UserCovers
<1>10. CASE Environment
  BY <1>10 DEF Environment, Shutdown, Exit, Crash, Halt, Boot, NoWorker, tasks, SingleWorker, Running
<1>11. CASE UNCHANGED vars
  BY <1>2, <1>11 DEF vars, durable, tasks
<1> QED
  BY <1>3, <1>4, <1>5, <1>6, <1>7, <1>8, <1>9, <1>10, <1>11 DEF Next, Enqueuing, Start

(* While a worker runs a QUEUED job is in the queue, in the worker's hands  *)
(* or about to be put, for every number of jobs, callers and restarts, as   *)
(* long as nobody retries by hand (RetryRace shows why) and no storage      *)
(* error escapes from process().                                            *)
THEOREM NothingIsStranded ==
    ASSUME ~ UserRetries, ~ StorageFaults
    PROVE  Spec => []NoStrandedJob
<1>1. ForgetNothing /\ CheckFresh /\ NoStrandedJob /\ [Next]_vars => CheckFresh' /\ NoStrandedJob'
  BY FreshCheckStep, StrandStep DEF ForgetNothing
<1> QED
  BY <1>1, InitHeld, ForgetNothingInvariant, PTL DEF Spec
=============================================================================
