---------------------------- MODULE DownloadQueue ----------------------------
(***************************************************************************)
(* The download queue: QueueManager (queue_manager.py), the state changes  *)
(* Downloader.process makes to a job (downloader.py), the Telegram message *)
(* handler that feeds the queue (telegram_client.py), the retry, cancel    *)
(* and clear routes (api/routes.py) and the application lifespan that      *)
(* starts and stops them (main.py), over the `downloads` table.            *)
(*                                                                         *)
(* Everything runs on one asyncio loop, so a coroutine is interrupted only *)
(* at an await.  One action here is the code between two awaits.  A        *)
(* database call is handed to a single FIFO thread, so it takes effect in  *)
(* the order of submission: its effect, or the row it reads, belongs to    *)
(* the action that submits it, and the result is consumed by the action    *)
(* that resumes from the await (the field snap of a coroutine).            *)
(***************************************************************************)
EXTENDS JobTable, Integers, Sequences, FiniteSets

CONSTANTS
    Workers,       \* names of _worker() tasks (the code means to have one)
    Requests,      \* concurrent HTTP requests that may call enqueue
    NoJob,         \* "no job id"
    MaxRetries,    \* settings.max_retries
    MaxRetryCount, \* bound: a job is not retried by hand beyond this count
    MaxRestarts,   \* bound: how often the process starts again
    LowDisk,       \* may the free space check fail?
    RefreshMayRaise,  \* may jellyfin.refresh() raise?
    StorageFaults, \* may disk_usage, unique_destination or _resume_offset raise?
    Stoppable,     \* may the process be asked to stop?
    Crashes,       \* may the process be killed?
    UserRetries,   \* are retries requested from the dashboard?
    UserClears,    \* is the history cleared from the dashboard?
    Relogins       \* may the Telegram login be lost and made again?

ASSUME QueueAssumption ==
    /\ MaxRetries \in Nat
    /\ MaxRetryCount \in Nat
    /\ MaxRestarts \in Nat
    /\ IsFiniteSet(Workers)
    /\ NoJob \notin JobIds
    /\ "intake" \notin Requests
    /\ "scan" \notin Requests

VARIABLES
    rows,       \* the downloads table (durable)
    nextId,     \* the AUTOINCREMENT counter of the table (durable)
    lastSeen,   \* the newest message that ever reached the handler
    restarts,   \* how often the process has started again
    phase,      \* of the lifespan and start_telegram_runtime
    serving,    \* has lifespan() yielded, so that requests are served?
    queue,      \* QueueManager.queue
    known,      \* QueueManager._known
    active,     \* QueueManager.active_downloads
    worker,     \* the _worker() tasks
    call,       \* the callers of QueueManager.enqueue
    todo        \* what QueueManager.start has still to enqueue

durable == <<rows, nextId, lastSeen, restarts>>
tasks == <<queue, known, active, worker, call, todo>>
vars == <<durable, phase, serving, tasks>>

Callers == Requests \cup {"intake", "scan"}

Phases == {"down", "connecting", "listening", "scanning", "up", "offline", "stopping"}

\* Where a worker task is suspended.  The three "try" points are those
\* where cancelling the task runs the CancelledError handler of process.
TryPcs == {"transfer", "progress", "finish"}
ProcessPcs == {"start", "mark", "failure", "returning"} \cup TryPcs
WorkerPcs == {"none", "idle", "check"} \cup ProcessPcs
CallerPcs == {"idle", "want", "put"}

NoWorker == [pc |-> "none", job |-> NoJob, snap |-> AbsentRow, first |-> FALSE]
IdleWorker == [pc |-> "idle", job |-> NoJob, snap |-> AbsentRow, first |-> FALSE]
IdleCall == [pc |-> "idle", job |-> NoJob, snap |-> AbsentRow]

Running == \E w \in Workers : worker[w].pc # "none"
Processing(w) == worker[w].pc \in ProcessPcs

Init ==
    /\ rows = EmptyTable
    /\ nextId = 1
    /\ lastSeen = 0
    /\ restarts = 0
    /\ phase = "down"
    /\ serving = FALSE
    /\ queue = <<>>
    /\ known = {}
    /\ active = 0
    /\ worker = [w \in Workers |-> NoWorker]
    /\ call = [c \in Callers |-> IdleCall]
    /\ todo = {}

-----------------------------------------------------------------------------
(* enqueue: the known set is tested, the row is read, and only when the    *)
(* answer is back the job is marked known and put.                         *)

EnqueueCheck(c, j) ==
    call' = [call EXCEPT ![c] =
                IF j \in known THEN IdleCall
                ELSE [pc |-> "put", job |-> j, snap |-> rows[j]]]

EnqueuePut(c) ==
    /\ call[c].pc = "put"
    /\ IF call[c].snap.state \in Waiting
       THEN /\ known' = known \cup {call[c].job}
            /\ queue' = Append(queue, call[c].job)
       ELSE UNCHANGED <<known, queue>>
    /\ call' = [call EXCEPT ![c] = IdleCall]
    /\ UNCHANGED <<durable, phase, serving, active, worker, todo>>

\* The message handler and the retry route await something between their
\* own write and the call of enqueue.
Enqueue(c) ==
    /\ call[c].pc = "want"
    /\ EnqueueCheck(c, call[c].job)
    /\ UNCHANGED <<durable, phase, serving, queue, known, active, worker, todo>>

-----------------------------------------------------------------------------
(* The message handler.  Updates are sequential: the next one waits until  *)
(* this one has returned.  A message may be delivered again.  At a shutdown *)
(* the listener is stopped after the worker, so messages still arrive then. *)
(* (They also arrive in a shutdown without a listener, which changes no    *)
(* more than a message before it would have.)                              *)

Receive(m) ==
    /\ phase \in {"listening", "scanning", "up", "stopping"}
    /\ call["intake"].pc = "idle"
    /\ m <= lastSeen + 1
    /\ lastSeen' = IF m > lastSeen THEN m ELSE lastSeen
    /\ IF Duplicate(rows, m)
       THEN UNCHANGED <<rows, nextId, call>>
       ELSE /\ nextId <= MaxJobs
            /\ rows' = Insert(rows, nextId, m)
            /\ nextId' = nextId + 1
            /\ call' = [call EXCEPT !["intake"] =
                          [pc |-> "want", job |-> nextId, snap |-> AbsentRow]]
    /\ UNCHANGED <<restarts, phase, serving, queue, known, active, worker, todo>>

-----------------------------------------------------------------------------
(* start_telegram_runtime and QueueManager.start.  The handler is          *)
(* registered before the table is scanned.                                 *)

TelegramStart ==
    /\ phase = "connecting"
    /\ phase' = "listening"
    /\ UNCHANGED <<durable, serving, tasks>>

\* The session is not authorized, Telegram is not there, or get_me fails
\* when the handler is registered already.
TelegramStartFails ==
    /\ phase \in {"connecting", "listening"}
    /\ phase' = "offline"
    /\ serving' = TRUE
    /\ UNCHANGED <<durable, tasks>>

\* Mutant: the test for a running worker is forgotten.
StartQueueAgain ==
    /\ phase = "listening"
    /\ phase' = "scanning"
    /\ todo' = Queued(rows)
    /\ UNCHANGED <<durable, serving, queue, known, active, worker, call>>

StartQueue ==
    /\ phase = "listening"
    /\ IF Running
       THEN /\ phase' = "up"
            /\ serving' = TRUE
            /\ UNCHANGED todo
       ELSE /\ phase' = "scanning"
            /\ todo' = Queued(rows)
            /\ UNCHANGED serving
    /\ UNCHANGED <<durable, queue, known, active, worker, call>>

\* The next id of queued_ids(), oldest message first.
ScanNext ==
    /\ phase = "scanning"
    /\ call["scan"].pc = "idle"
    /\ \E e \in todo :
        /\ \A f \in todo : Before(e, f)
        /\ EnqueueCheck("scan", e.id)
        /\ todo' = todo \ {e}
    /\ UNCHANGED <<durable, phase, serving, queue, known, active, worker>>

ScanDone(w) ==
    /\ phase = "scanning"
    /\ call["scan"].pc = "idle"
    /\ todo = {}
    /\ worker[w].pc = "none"
    /\ worker' = [worker EXCEPT ![w] = IdleWorker]
    /\ phase' = "up"
    /\ serving' = TRUE
    /\ UNCHANGED <<durable, queue, known, active, call, todo>>

\* A completed browser login stops the listener and starts the runtime again.
Relogin ==
    /\ Relogins
    /\ serving
    /\ phase \in {"up", "offline"}
    /\ phase' = "connecting"
    /\ UNCHANGED <<durable, serving, tasks>>

-----------------------------------------------------------------------------
(* The worker loop.                                                        *)

Goto(w, pc) == worker' = [worker EXCEPT ![w].pc = pc]

\* The worker awaits the answer of database.get(job_id).
Get(w, pc) == worker' = [worker EXCEPT ![w].pc = pc, ![w].snap = rows[worker[w].job]]

\* The clause `finally: self._known.discard(job_id)` and the next queue.get().
Leave(w) ==
    /\ known' = known \ {worker[w].job}
    /\ worker' = [worker EXCEPT ![w] = IdleWorker]

Take(w) ==
    /\ worker[w].pc = "idle"
    /\ queue # <<>>
    /\ queue' = Tail(queue)
    /\ worker' = [worker EXCEPT ![w] =
                    [pc |-> "check", job |-> Head(queue),
                     snap |-> rows[Head(queue)], first |-> TRUE]]
    /\ UNCHANGED <<durable, phase, serving, known, active, call, todo>>

\* Mutant: the loop is an `if`, so a job gets a single attempt.
MayProcessOnce(w) == worker[w].first /\ worker[w].snap.state \in Waiting

MayProcess(w) ==
    \/ worker[w].snap.state = "queued"
    \/ worker[w].first /\ worker[w].snap.state = "paused"

\* The while condition; process() starts by reading the row once more.
Attempt(w) ==
    /\ worker[w].pc = "check"
    /\ MayProcess(w)
    /\ active' = active + 1
    /\ worker' = [worker EXCEPT ![w].pc = "start", ![w].first = FALSE,
                                ![w].snap = rows[worker[w].job]]
    /\ UNCHANGED <<durable, phase, serving, queue, known, call, todo>>

NextItem(w) ==
    /\ worker[w].pc = "check"
    /\ ~ MayProcess(w)
    /\ Leave(w)
    /\ UNCHANGED <<durable, phase, serving, queue, active, call, todo>>

\* process() returns at once when the row does not wait any more, when a
\* handler has done its last write, and after the refresh of Jellyfin.
Returned(w) ==
    \/ worker[w].pc = "start" /\ worker[w].snap.state \notin Waiting
    \/ worker[w].pc \in {"returning", "finish"}

\* The loop reads the row again.
EndProcess(w) ==
    /\ Returned(w)
    /\ active' = active - 1
    /\ Get(w, "check")
    /\ UNCHANGED <<durable, phase, serving, queue, known, call, todo>>

-----------------------------------------------------------------------------
(* Downloader.process, one action for each way it goes on.                 *)

Startable(w) == worker[w].pc = "start" /\ worker[w].snap.state \in Waiting

\* Mutant: the state is not one of DownloadState.
CancelMisspelt(w) ==
    /\ Startable(w)
    /\ worker[w].snap.cancel
    /\ rows' = Transition(rows, worker[w].job, States, "canceled")
    /\ Goto(w, "returning")
    /\ UNCHANGED <<nextId, lastSeen, restarts, phase, serving, queue, known, active, call, todo>>

CancelBeforeStart(w) ==
    /\ Startable(w)
    /\ worker[w].snap.cancel
    /\ rows' = Transition(rows, worker[w].job, States, "cancelled")
    /\ Goto(w, "returning")
    /\ UNCHANGED <<nextId, lastSeen, restarts, phase, serving, queue, known, active, call, todo>>

PauseForDisk(w) ==
    /\ LowDisk
    /\ Startable(w)
    /\ ~ worker[w].snap.cancel
    /\ rows' = Transition(rows, worker[w].job, States, "paused")
    /\ Goto(w, "returning")
    /\ UNCHANGED <<nextId, lastSeen, restarts, phase, serving, queue, known, active, call, todo>>

BeginDownload(w) ==
    /\ Startable(w)
    /\ ~ worker[w].snap.cancel
    /\ rows' = Transition(rows, worker[w].job, Waiting, "downloading")
    /\ Goto(w, "mark")
    /\ UNCHANGED <<nextId, lastSeen, restarts, phase, serving, queue, known, active, call, todo>>

\* An error before the try block, or of the unlink in the handler of
\* CancelledDownload, is only logged by the worker loop: the row stays as it
\* is, DOWNLOADING when _resume_offset or the unlink has failed.
UnhandledError(w) ==
    /\ StorageFaults
    /\ \/ Startable(w) /\ ~ worker[w].snap.cancel
       \/ worker[w].pc = "mark"
       \/ worker[w].pc = "progress" /\ worker[w].snap.cancel
    /\ active' = active - 1
    /\ Leave(w)
    /\ UNCHANGED <<durable, phase, serving, queue, call, todo>>

\* ensure_connected, get_messages and the transfer.
Connect(w) ==
    /\ worker[w].pc = "mark"
    /\ Goto(w, "transfer")
    /\ UNCHANGED <<durable, phase, serving, queue, known, active, call, todo>>

\* The progress callback reads the row ...
Progress(w) ==
    /\ worker[w].pc = "transfer"
    /\ Get(w, "progress")
    /\ UNCHANGED <<durable, phase, serving, queue, known, active, call, todo>>

\* ... and raises CancelledDownload, or lets the transfer go on.
ProgressCancels(w) ==
    /\ worker[w].pc = "progress"
    /\ worker[w].snap.cancel
    /\ rows' = Transition(rows, worker[w].job, States, "cancelled")
    /\ Goto(w, "returning")
    /\ UNCHANGED <<nextId, lastSeen, restarts, phase, serving, queue, known, active, call, todo>>

\* Mutant: the callback does not look at the flag.
ProgressIgnores(w) ==
    /\ worker[w].pc = "progress"
    /\ Goto(w, "transfer")
    /\ UNCHANGED <<durable, phase, serving, queue, known, active, call, todo>>

ProgressContinues(w) ==
    /\ worker[w].pc = "progress"
    /\ ~ worker[w].snap.cancel
    /\ Goto(w, "transfer")
    /\ UNCHANGED <<durable, phase, serving, queue, known, active, call, todo>>

\* The file is moved and the row becomes COMPLETED; the event and the
\* Jellyfin refresh are still to come.
FinishDownload(w) ==
    /\ worker[w].pc = "transfer"
    /\ rows' = Transition(rows, worker[w].job, States, "completed")
    /\ Goto(w, "finish")
    /\ UNCHANGED <<nextId, lastSeen, restarts, phase, serving, queue, known, active, call, todo>>

\* Exceptions inside the try block reach _failure, which reads the row.
DownloadError(w) ==
    /\ \/ worker[w].pc = "transfer"
       \/ worker[w].pc = "finish" /\ RefreshMayRaise
    /\ Get(w, "failure")
    /\ UNCHANGED <<durable, phase, serving, queue, known, active, call, todo>>

\* _failure: one more attempt after a delay, or FAILED.
Failure(w) ==
    LET n == worker[w].snap.retries + 1 IN
    /\ worker[w].pc = "failure"
    /\ rows' = IF worker[w].snap.state = "absent" THEN rows
               ELSE TransitionRetry(rows, worker[w].job,
                        IF n <= MaxRetries THEN "queued" ELSE "failed", n)
    /\ Goto(w, "returning")
    /\ UNCHANGED <<nextId, lastSeen, restarts, phase, serving, queue, known, active, call, todo>>

-----------------------------------------------------------------------------
(* The dashboard's requests.                                               *)

RetryRequest(r, j) ==
    /\ UserRetries
    /\ serving
    /\ call[r].pc = "idle"
    /\ Retryable(rows, j)
    /\ rows[j].retries <= MaxRetryCount
    /\ rows' = Retry(rows, j)
    /\ call' = [call EXCEPT ![r] = [pc |-> "want", job |-> j, snap |-> AbsentRow]]
    /\ UNCHANGED <<nextId, lastSeen, restarts, phase, serving, queue, known, active, worker, todo>>

CancelRequest(j) ==
    /\ serving
    /\ Cancellable(rows, j)
    /\ rows' = RequestCancel(rows, j)
    /\ UNCHANGED <<nextId, lastSeen, restarts, phase, serving, tasks>>

ClearRequest ==
    /\ UserClears
    /\ serving
    /\ rows' = ClearHistory(rows)
    /\ UNCHANGED <<nextId, lastSeen, restarts, phase, serving, tasks>>

-----------------------------------------------------------------------------
(* The process: shutdown, crash, start.                                    *)

\* The server lets open requests finish, then queue.stop() cancels the
\* worker.  Inside the try block the job goes back to QUEUED.
Shutdown ==
    /\ Stoppable
    /\ restarts <= MaxRestarts
    /\ phase \in {"up", "offline"}
    /\ \A r \in Requests : call[r].pc = "idle"
    /\ phase' = "stopping"
    /\ serving' = FALSE
    /\ rows' = [j \in JobIds |->
                  IF /\ Exists(rows, j)
                     /\ \E w \in Workers : worker[w].pc \in TryPcs /\ worker[w].job = j
                  THEN [rows[j] EXCEPT !.state = "queued"]
                  ELSE rows[j]]
    /\ known' = known \ {worker[w].job : w \in {v \in Workers : worker[v].pc # "none"}}
    /\ active' = active - Cardinality({w \in Workers : Processing(w)})
    /\ worker' = [w \in Workers |-> NoWorker]
    /\ UNCHANGED <<nextId, lastSeen, restarts, queue, call, todo>>

\* Nothing in memory survives the process.
Halt ==
    /\ phase' = "down"
    /\ serving' = FALSE
    /\ queue' = <<>>
    /\ known' = {}
    /\ active' = 0
    /\ worker' = [w \in Workers |-> NoWorker]
    /\ call' = [c \in Callers |-> IdleCall]
    /\ todo' = {}
    /\ UNCHANGED durable

Exit == phase = "stopping" /\ Halt

Crash == Crashes /\ restarts <= MaxRestarts /\ phase # "down" /\ Halt

Boot ==
    /\ phase = "down"
    /\ restarts' = restarts + 1
    /\ rows' = Recover(rows)
    /\ phase' = "connecting"
    /\ UNCHANGED <<nextId, lastSeen, serving, tasks>>

-----------------------------------------------------------------------------
Process(w) ==
    \/ CancelBeforeStart(w) \/ PauseForDisk(w) \/ BeginDownload(w)
    \/ UnhandledError(w) \/ Connect(w) \/ Progress(w) \/ ProgressCancels(w)
    \/ ProgressContinues(w) \/ FinishDownload(w)
    \/ DownloadError(w) \/ Failure(w)

Work(w) == Take(w) \/ Attempt(w) \/ NextItem(w) \/ EndProcess(w) \/ Process(w)

Enqueuing == \E c \in Callers : Enqueue(c) \/ EnqueuePut(c)

Start ==
    \/ TelegramStart \/ TelegramStartFails \/ StartQueue \/ ScanNext
    \/ \E w \in Workers : ScanDone(w)

User ==
    \/ \E r \in Requests, j \in JobIds : RetryRequest(r, j)
    \/ \E j \in JobIds : CancelRequest(j)
    \/ ClearRequest
    \/ Relogin

Environment == Shutdown \/ Exit \/ Crash \/ Boot

Next ==
    \/ \E m \in Messages : Receive(m)
    \/ \E w \in Workers : Work(w)
    \/ Enqueuing \/ Start \/ User \/ Environment

Spec == Init /\ [][Next]_vars

(* Every coroutine that is ready is resumed by the event loop, a transfer   *)
(* does not fall silent (it reports progress, ends or fails), a start of    *)
(* Telegram succeeds or fails, and the container is restarted (`restart:    *)
(* unless-stopped`).  Nothing is assumed of the users, of new messages, of  *)
(* crashes, of which way a start goes, or of a transfer's end: it may       *)
(* report progress for ever.                                                *)
Fairness ==
    /\ \A w \in Workers : WF_vars(Work(w))
    /\ \A c \in Callers : WF_vars(Enqueue(c) \/ EnqueuePut(c))
    /\ WF_vars(Start)
    /\ WF_vars(Exit)
    /\ WF_vars(Boot)

FairSpec == Spec /\ Fairness

-----------------------------------------------------------------------------
(* Type invariant: the values each part of the state may take.             *)
CallType == [pc : CallerPcs, job : JobIds \cup {NoJob}, snap : Row]
WorkerType == [pc : WorkerPcs, job : JobIds \cup {NoJob}, snap : Row, first : BOOLEAN]

TypeOK ==
    /\ rows \in [JobIds -> Row]
    /\ nextId \in 1..(MaxJobs + 1)
    /\ lastSeen \in Nat
    /\ restarts \in Nat
    /\ phase \in Phases
    /\ serving \in BOOLEAN
    /\ queue \in Seq(JobIds)
    /\ known \subseteq JobIds
    /\ active \in Int
    /\ worker \in [Workers -> WorkerType]
    /\ call \in [Callers -> CallType]
    /\ todo \subseteq [id : JobIds, msg : Messages \cup {0}]

(* The "CONCURRENCY VIOLATION" of _worker never happens: active_downloads   *)
(* counts the workers inside process(), and there is never more than one.   *)
AtMostOneActive ==
    /\ active = Cardinality({w \in Workers : Processing(w)})
    /\ active <= 1

(* While the application runs, a row is DOWNLOADING exactly when a worker   *)
(* is transferring that job: no cancel, retry, clear, duplicate message or  *)
(* second login takes the row away from under the transfer, and no way out  *)
(* of process() leaves the row behind.  Only _failure, that reads the row   *)
(* before it writes it, still finds it DOWNLOADING.                         *)
DownloadingIsHeld ==
    /\ \A w \in Workers :
        worker[w].pc \in {"mark", "transfer", "progress"}
            => rows[worker[w].job].state = "downloading"
    /\ phase \notin {"down", "stopping"} =>
        \A j \in JobIds : rows[j].state = "downloading" =>
            \E w \in Workers :
                /\ worker[w].job = j
                /\ worker[w].pc \in {"mark", "transfer", "progress", "failure"}

(* Who will still look at a job that waits.                                 *)
Covered(j) ==
    \/ \E i \in DOMAIN queue : queue[i] = j
    \/ \E w \in Workers :
        /\ worker[w].job = j
        /\ Processing(w) \/ (worker[w].pc = "check" /\ MayProcess(w))
    \/ \E c \in Callers :
        /\ call[c].job = j
        /\ call[c].pc = "want" \/ (call[c].pc = "put" /\ call[c].snap.state \in Waiting)

(* While a worker runs, a QUEUED job is in the queue, in the worker's hands *)
(* or about to be put: it is never a row that nobody looks at.              *)
NoStrandedJob ==
    Running => \A j \in JobIds : rows[j].state = "queued" => Covered(j)

(* When start() creates the worker, every QUEUED and every PAUSED row of    *)
(* the table has been enqueued, whatever requests and messages arrived      *)
(* during the scan.                                                         *)
ScanCoversAll ==
    [][phase = "scanning" /\ phase' = "up" =>
        \A j \in JobIds : rows[j].state \in Waiting => Covered(j)]_vars

(* Two rows for one file are never both queued, downloading, paused or      *)
(* completed (the lookup of add_download).                                  *)
OneRowPerFile ==
    \A j, k \in JobIds :
        /\ rows[j].state \in Holding
        /\ rows[k].state \in Holding
        /\ SameFile(rows[j].msg, rows[k].msg)
        => j = k

(* Once process() is past the Jellyfin refresh, a completed job stays       *)
(* completed until its row is cleared: no restart, no stale queue entry and *)
(* no late cancel starts it over.  (During the refresh a shutdown or an     *)
(* exception still queues it again.)                                        *)
CompletedIsFinal ==
    [][\A j \in JobIds :
        /\ rows[j].state = "completed"
        /\ ~ \E w \in Workers : worker[w].job = j /\ worker[w].pc \in {"finish", "failure"}
        => rows'[j].state \in {"completed", "absent"}]_vars

(* "Jellyfin refresh is best-effort and never changes a successful download *)
(* to failed" (README.md): a job that was completed never becomes failed,   *)
(* at once or after further attempts.                                       *)
SuccessIsNeverFailed ==
    \A j \in JobIds :
        [](rows[j].state = "completed" => [](rows[j].state # "failed"))

(* The states in which nothing more happens to a job by itself.             *)
Settled == {"absent", "completed", "failed", "cancelled", "paused"}

(* A start of Telegram has failed in a process that has no worker yet: the  *)
(* application serves its pages and waits for a login.                      *)
NobodyToWork == phase = "offline" /\ ~ Running

InTransfer(w, j) == worker[w].job = j /\ worker[w].pc \in {"transfer", "progress"}

TransferEnds(j) == \A w \in Workers : []<> ~ InTransfer(w, j)

(* When transfers end (the file is finite, a lost connection is an error),  *)
(* every QUEUED job is eventually completed, failed, cancelled or paused,   *)
(* through any crash, shutdown, login and failed attempt, unless a process  *)
(* comes up that has nobody to work.                                        *)
EveryJobSettles ==
    (\A k \in JobIds : TransferEnds(k)) =>
        \A j \in JobIds :
            rows[j].state = "queued" ~> rows[j].state \in Settled \/ NobodyToWork

\* Accepted, and neither carried out nor made void by the job's end.
CancelPending(j) ==
    rows[j].cancel /\ rows[j].state \in {"queued", "downloading", "paused"}

(* An accepted cancel ends even a transfer that would go on for ever, and   *)
(* reaches a job wherever it is: waiting behind another (whose transfer     *)
(* ends), between two attempts, or in the hands of a process that stops.    *)
(* It stays pending only where nobody works, or on a job that process()     *)
(* pauses for the disk with a row it had read before: that one is cancelled *)
(* when the next scan enqueues it.                                          *)
CancelResolves ==
    \A j \in JobIds :
        (\A k \in JobIds \ {j} : TransferEnds(k)) =>
            (CancelPending(j) ~>
                \/ ~ CancelPending(j)
                \/ rows[j].state = "paused" /\ ~ Covered(j)
                \/ NobodyToWork)
=============================================================================
