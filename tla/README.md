# A verification project for the Telegram media downloader

This directory holds TLA+ modules that model the application under `src/app/`,
TLC configurations that check them on small instances, and proofs, checked by
TLAPS, of what holds for every value of the constants. Every definition is
translated from the code; `PROJECT.json` names the lines each one stands for
(`map`), what each run checks (`runs`), a plausible bug that each property
catches (`mutants`), what is hard to test (`hazards`) and where the code and its
documentation disagree (`findings`).

## The system

One asyncio process. A Telegram listener turns messages into rows of an SQLite
table, a queue with a single worker turns rows into files of a media library,
and a dashboard lets an administrator log in to Telegram, choose sources and
disks, and retry, cancel or clear jobs.

| component | code | state | operations |
|---|---|---|---|
| queue manager | `queue_manager.py` | `queue`, `_known`, `active_downloads`, `worker` task | `enqueue`, `start`, `stop`, `_worker` |
| downloader | `downloader.py` | the job's row, `.part` file, library file | `process`, `_download`, `_progress`, `_failure`, `_resume_offset` |
| job table | `database.py`, `models.py` | `downloads`, `app_events` | `initialize`, `add_download`, `queued_ids`, `transition`, `update_progress`, `request_cancel`, `retry`, `clear_history` |
| database thread | `database.py` | `_tasks`, `_thread`, `_closed` | `_run`, `_ensure_worker`, `_worker`, `close` |
| Telegram listener | `telegram_client.py` | client, handler, `connected`, monitor task | `start`, `stop`, `_on_message`, `_monitor_connection`, `ensure_connected` |
| lifespan | `main.py` | the services and their order | start-up, `start_telegram_runtime`, shutdown |
| Telegram login | `services/telegram_auth.py` | `_pending`, `_client`, session file | `status`, `send_code`, `verify_code`, `verify_password`, `cancel`, `close` |
| dashboard API | `api/routes.py` | none | `retry`, `cancel`, `clear_history`, reads |
| library names | `classifier.py` | none | `unique_destination`, categories |
| Jellyfin client | `jellyfin.py` | none | `refresh` |
| settings and setup | `services/settings_store.py`, `services/setup.py`, `api/setup_routes.py`, `scripts/apply-storage.sh` | `settings.json`, environment, marker file | save, test, activate disk |
| administrator login | `services/admin_auth.py`, `require_admin` in `api/routes.py` | sessions, failure windows; the account is in `settings.json` | `create_admin`, `login`, `session`, `revoke` |
| Telegram sources | `services/telegram_sources.py` | cache, selection | list, refresh, select |
| storage browser | `services/storage_browser.py` | the directories on the disk | `roots`, `prepare_disk` |
| configuration, logging, installer | `config.py`, `logging_config.py`, `install.sh`, `scripts/` | none while running | parse, install, update |

How they interact:

- the message handler writes a row (`add_download`), awaits its event, then calls
  `QueueManager.enqueue`; the retry route and the start-up scan call `enqueue` too;
- the worker takes an id, reads its row, calls `Downloader.process`, reads the row
  again and decides whether to go round once more. `process` communicates with its
  caller only through the row;
- a cancel is a flag in the row, which `process` reads before an attempt and at every
  progress callback;
- every database call is a closure handed to one thread over a FIFO queue; the
  caller polls an event;
- a completed browser login stops the listener and starts the runtime again, that is
  a new listener and `QueueManager.start`, while the worker may be busy: its attempt
  keeps the old listener, and reconnects it when it finds it disconnected;
- the routes that change something ask `require_admin` for the session of the cookie;
- a chosen disk gets its directories from the application and is mounted by a script,
  and a marker file is all the two share.

What is hard here: coroutines interleave at every `await`, so a row, a flag or a set
may have changed between the read and the use; the process may be killed between any
two writes, one to a file and one to the table; attempts, retries by hand, cancels
and restarts of one job overlap; a database thread may die while callers poll. Each
of these places is a hazard in `PROJECT.json`, at its line.

What makes each part correct:

- queue: one transfer at a time; a waiting row is never forgotten; a row that says
  DOWNLOADING is being downloaded; a job that is over stays over until someone asks;
  every job settles and every cancel is resolved;
- table: one live row per document;
- files: the library holds whole media only, nothing in it is overwritten, a COMPLETED
  job has its media there, once;
- database thread: statements take effect in call order, before the caller goes on,
  `close()` loses none, and nobody waits for an answer that cannot come;
- login: no connected client is left behind, a pending login always has its client;
- listener: one service receives messages, its `connected` is right or found out, and
  none is connected when the application has closed;
- administrator: attempts are limited per address, nobody is locked out by others, an
  ended session stays ended;
- settings: a confirmed setting survives every restart, the environment wins, the file is
  never half written, a completed setup stays whole, a chosen disk is in `.env` or waits for
  the script.

## The modules

### JobTable: the `downloads` table (`database.py`)

Operators only, one per SQL statement. A row keeps the four columns that control flow
reads: `state`, the message it came from (numbered in date order; `Uid` gives the
`file_unique_id` of its media), the cancel flag and `retry_count`. Ids are
AUTOINCREMENT: an id belongs to one row for ever, and an id without a row has
`AbsentRow`. The columns of `update_progress` are left out, since nothing branches
on them.

### DownloadQueue: queue, worker, message handler, routes, lifespan

One action is the code between two awaits. A coroutine that awaits a read keeps the
row it will see in `snap`, so decisions on stale rows are in the model.

| variable | code |
|---|---|
| `rows`, `nextId` | the table and its AUTOINCREMENT counter; all that survives a crash |
| `lastSeen` | the newest message delivered; an earlier one may be delivered again |
| `queue`, `known`, `active` | `QueueManager.queue`, `_known`, `active_downloads` |
| `worker[w]` | a `_worker` task: where it is suspended, its `job_id`, the row it read, `first` (no attempt made yet) |
| `call[c]` | a caller of `enqueue`: `intake` (message handler), `scan` (`start`) or a request |
| `todo` | the ids `start` still has to enqueue |
| `phase`, `serving` | how far `lifespan`/`start_telegram_runtime` got, and whether requests are served |

| action | code |
|---|---|
| `Receive` | `_on_message` up to the `event` it awaits after `add_download`; the handler stays registered until `telegram.stop()`, so also while the queue stops |
| `Enqueue`, `EnqueuePut` | `enqueue` before and after its read of the row |
| `TelegramStart`, `TelegramStartFails`, `StartQueue`, `ScanNext`, `ScanDone`, `Relogin` | `start_telegram_runtime` and `QueueManager.start`: the handler is registered first, then the table is scanned, then the worker is made |
| `Take`, `Attempt`, `EndProcess`, `NextItem` | `_worker`: `queue.get`, the `while` condition, the re-read after `process()`, the `finally` |
| `CancelBeforeStart`, `PauseForDisk`, `BeginDownload`, `Connect`, `Progress`, `ProgressCancels`, `ProgressContinues`, `FinishDownload`, `DownloadError`, `Failure`, `UnhandledError` | the ways through `Downloader.process` |
| `RetryRequest`, `CancelRequest`, `ClearRequest` | the routes |
| `Shutdown`, `Exit`, `Crash`, `Boot` | the end of `lifespan`, the kill, and `initialize()` of the next start |

`Workers` has two names though the code has one task (README.md speaks of a "configurable
worker pool"), so that a second worker is a state the model can reach and `AtMostOneActive`
forbids. A start of Telegram may always fail (`TelegramStartFails`), before or after the
handler is registered: the first one of a process then leaves the application without a
worker (`NobodyToWork`), a later one with the old one. The constants `LowDisk`,
`RefreshMayRaise`, `StorageFaults`, `Stoppable`, `Crashes`, `UserRetries`, `UserClears`,
`Relogins` switch faults and users on; the proofs hold for all of them.

### JobLifecycle and QueueRefinement

`JobLifecycle` is what a user is promised, one status per job: a job is begun from
QUEUED or PAUSED, completes, fails or is queued again only from DOWNLOADING, is never
begun again once it is over unless a retry asks for it, and clearing history only
removes jobs that are over. `QueueRefinement` maps a row to its status (an id not yet
given is `new`, one whose row was deleted is `cleared`) and states that `DownloadQueue`
implements it.

### MediaFiles: the files

`process()` again, with the files instead of the coroutines. A file is a sequence of
chunks `<<job, version of the media, index>>`; a library file is `<<name, n>>`, where
`n` is the number `unique_destination` appended, a part file `<<job, n>>`. `Begin`
chooses the name and the resume offset from the size the *message* announced; `Fetch`
compares with the media Telegram serves *now*; `Continue`/`CancelNoticed` are the
progress callback, `WriteChunk`/`EndTransfer` the transfer, `Replace` the rename,
`CopyStart`/`CopyChunk`/`CopyEnd` the move across devices, `Complete`/`Finish` the
UPDATE and the rest. `Pause` is a disk that is too full. `Sized` are the jobs whose size
Telegram announces; a part of any other one is continued whatever its length.

`Failure`, `Crash`, `Shutdown` interrupt it where they can. There is no await between the
move and the UPDATE, so no shutdown comes there; but a kill does, and so does an exception
of `destination.stat()` or of the UPDATE itself, which goes to `_failure` like any other and
leads to a second copy under another name. `undone` is a history variable that counts these,
and what undoes a COMPLETED job during the refresh. That process() runs for one job at a
time is `AtMostOneActive`.

### DatabaseWorker: the SQLite thread

Coroutines (`Call`, `Answer`, `Abandon`, `Close`, `Joined`) against a preemptive thread
(`Connect`, `ConnectRaises`, `Get`, `Run`, `Signal`). A thread whose `_connect` raises
dies with its tasks queued; the next call starts another one. Until then `OpenFailed`
holds: the thread that was started last, whether `close()` has taken it over or not, could
not open the database. That is the only state in which a caller polls an event nobody will
set, and the only one in which `close()` leaves calls undone.

### FifoDatabase and DatabaseRefinement

`FifoDatabase` is what the coroutines are promised, without threads, queue and events:
calls are numbered as they are made (`Call`), take effect one by one in this order
(`TakeEffect`), are answered after their effect (`Answer`), and `close()` returns when all
are answered or the database is `lost` (`Closed`). `DatabaseRefinement` maps `applied` to
the effects, the events that are set to the answers, `OpenFailed` to `lost`, and states that
`DatabaseWorker` implements it: starting threads, connecting and taking a task out of the
queue change nothing a coroutine can see. This justifies the way the other modules treat a
database call: as one step at the moment of the call.

### TelegramLogin: the browser login

The operations of `TelegramAuthService` hold one lock, so `op` is the one in progress,
with its local client. `Verify(wanted)` is the common head of `verify_code` and
`verify_password`; `Raise` is any exception no handler names, `ClearRaises` one from the
disconnection of the pending client. A disconnection may also fail silently (`Release`:
`_safe_disconnect` swallows the error) and leave the client connected. `lost` holds the
clients that were left behind in these ways. `Expire`, `Revoke`,
`ListenerDrops`, `ListenerReconnects` and `Restart` are the environment.

The login sees one listener that is absent, listening or stopped (`active_auth_client`
in `main.py`), and starts a new one with one step, `RuntimeStarts` or `RuntimeFails`. It
is the abstract specification of what `TelegramRuntime` does in many.

### TelegramRuntime: services, attempts and the shutdown around the login

Composes `TelegramLogin` with the `TelegramService` objects it starts. A service has a
flag (`connected`), a client that is online or not, a handler, a monitor task and
`_stopping`; each is a set of services. A service nobody refers to any more is reused as
a new object.

| action | code |
|---|---|
| `RuntimeBegins`, `OldDisconnects` | `start_telegram_runtime` stops the running service, up to and with the await of `disconnect` |
| `FreshConnects`, `FreshListens`, `RuntimeReplaces` | the new service connects, registers its handler when the session is authorized, and takes the place of the old one when `get_me` is answered |
| `RuntimeGivesUp` | anything raises, `current.stop()` included: the new service, if there is one already, is stopped, and the old one stays in `app.state` |
| `AttemptBegins`, `EnsureConnected`, `AttemptConnects`, `AttemptAsks`, `AttemptEnds` | an attempt of `process()` with the service it was started with, and `ensure_connected` |
| `ConnectionLost`, `MonitorNotices` | Telegram, and `_monitor_connection` |
| `CloseLogin`, `StopQueue`, `StopService`, `AppRestart` | the `finally` of `lifespan` in its order, and the next process |

`ImplementsLogin` says that this is a `TelegramLogin`: `SeenByLogin` derives its listener
from the running service, the awaits inside `start_telegram_runtime` are stutters or
`ListenerDrops`, an attempt that reconnects is `ListenerReconnects`. A stopped service that
an attempt connects again is `revived`: the code does that, since the attempt keeps its
service and `ensure_connected` does not look at `_stopping`, and its handler is still
registered. `OneListener` and `CleanShutdown` name it as the only exception.
`AttemptConnects` waits until a monitor has noticed the loss, because a connection takes
round trips and the monitor one turn of the loop.

### AdminAuth: the administrator's sessions and the limit on failures

`AdminAuthService` awaits nothing, so each of its calls is one action: `LoginLimited`,
`LoginFails`, `LoginSucceeds`, `CreateAdmin`, `Logout`, `CompleteSetup`, and `Request` for
any request that looks up its cookie. `MayChange` is `require_admin`: the session with its
CSRF token or, while there is no account, the credentials of the environment. A wrong
password sent with Basic authentication is a request that is not admitted: the code counts
it nowhere, and `AttemptsAreLimited` is about the login route alone. Time is a
clock that ticks between calls; `failures` holds the entries of each deque, numbered, with
their times. `issued`, `log` and `attempts` are history variables: the tokens ever given
out, and the wrong passwords of an address since its last success, which the deque need
not hold any more. `Restart` forgets sessions and failures, as the process does.

### Configuration: settings.json, the Settings object, the disk script

`file` is `settings.json` as a function from the keys that were ever set, `settings` the
fields of the `Settings` object they configure, `env` what the environment gives.

| action | code |
|---|---|
| `Boot`, `Effective` | `RuntimeSettings.apply_persisted` in `lifespan`: environment, then file, then default |
| `CreateAdmin`, `SaveTelegram`, `SaveJellyfin`, `SaveStorageDisk`, `SaveSources` | a route up to its first write; a refused request changes nothing and has no action |
| `SaveStorageDisk`, `PrepareFails` | `prepare_disk` makes the directories (`layout`), all of them or, on an error, some |
| `CompleteAsks`, `Complete` | `SetupService.complete` before and after the await in `validate` |
| `Save`, `Write`, `Replace` | `SettingsStore.update` and `_write`: the temporary file is opened, gets the merged values and is synced, takes the place of `settings.json` |
| `Apply`, `SaveFails` | the Settings object that follows, or an error at any step of the write, also after the replacement |
| `WriteMarker`, `MarkerFails` | the end of the route that chooses a disk |
| `ScriptStarts`, `ScriptMoves`, `ScriptRemoves`, `ScriptRecreates` | `apply-storage.sh`: read the marker and refuse a disk without its directories; replace `.env` (`dotenv`); remove the marker; make the container again with what `.env` names (`mounted`), which ends the process |
| `ScriptDies` | the script is killed, or `docker compose` fails, at any of these points |
| `Stop`, `Exit` | the process ends or is killed: what it has in memory is gone |

All routes but the one that makes the administrator are for the administrator (`Admitted`,
from `require_admin`). Routes do not await between reading the file and answering, so `op`
is the only save in progress, with the content of its temporary file: `Torn` while it is
being written, and `file` is `Torn` if such a file takes its place. The script runs beside
it. `answered` is a history variable: what the dashboard has confirmed and no later request
has begun to change.

The `MC*` modules only give constants their values; the `*Proofs` modules hold theorems only
(see "What is proved"). `DownloadQueueProofs` is about the queue's types, its one worker and
the rows that are DOWNLOADING; `QueueJobsProofs`, which extends it and `QueueRefinement`, is
about what happens to each job.

## The runs

Passing runs; all of them exhaust the state space.

| run | question | bounds |
|---|---|---|
| `QueueSafety` | one transfer at a time, DOWNLOADING rows held, no queued row forgotten, one live row per document, COMPLETED is final | 3 rows from 3 messages (a document forwarded twice, a photo), 2 worker names, 1 restart, 1 further attempt; every fault except storage errors, every user action except retry |
| `QueueLifecycle` | refinement of `JobLifecycle`; the scan of a start covers every waiting row | 2 rows, retries by hand, cleared history, logins made again, storage errors, crashes, 1 restart |
| `QueueLiveness` | every queued job settles, every cancel is resolved (see "Fairness" for what is assumed and left out) | 2 rows, 1 further attempt, crashes, shutdowns, failing starts, logins made again, low disk, cleared history |
| `MediaLibrary` | whole files, kept files, one copy, a resumed part is exact | 2 jobs with one name, one of them without an announced size, media of 2 chunks and a replacement of 1, same and different devices, 1 further attempt, 1 retry by hand, 1 kill or shutdown |
| `DatabaseCalls` | refinement of `FifoDatabase`: order, effect before answer, nothing lost by `close()`; nobody polls in vain, everybody is answered | 3 coroutines, 4 calls, 3 threads |
| `LoginFlow` | no client left behind, pending login and client together; one listener, honest flags, nothing connected after the shutdown; refinement of `TelegramLogin` | 2 client objects, 3 services |
| `AdminSessions` | attempts limited, locks have a cause, ended sessions stay ended | 2 addresses, 2 names, 2 tokens, 2 failures in 2 ticks, sessions of 3 ticks, 4 wrong passwords, 4 ticks |
| `SavedSettings` | the file is whole, confirmed settings are in force, the environment wins, a completed setup stays whole, Jellyfin is not enabled without a key, a chosen disk is not lost | 2 deployments (nothing from the environment; credentials, a password, sources, a directory and half of Jellyfin with an empty key), 1 or 2 values per key, 1 source, 1 fault (a failed save, an end of the process, an end of the script) besides the ends of the process the script brings about |

Runs that show a disagreement, each with a finding:

| run | what TLC shows |
|---|---|
| `RetryRace` | the worker reads FAILED; the retry sets QUEUED and calls `enqueue`, which finds the id in `_known` and drops it; the worker then leaves the job: QUEUED, and in nobody's hands until the next start |
| `RefreshRaises` | an exception of the refresh other than `httpx.HTTPError` sends a COMPLETED job through `_failure` |
| `CancelLeavesPart` | a cancel noticed before an attempt leaves the part file of the attempt before |
| `LoginRefused` | started while Telegram is unreachable with an authorized session, there is no listener, and `send_code` answers `already_authorized` |

Why the bounds are enough. The races of the queue are between one job and whoever else
touches it (worker, scan, handler, a request), plus one other job that keeps the worker
busy; two rows have both, and the third is there for the duplicate lookup. One restart
passes every phase of a start with a table of any content that a run can leave, and a
second one starts from the same tables. A second attempt is the first that can resume.
Suffixes up to 6 are more than 2 jobs with 3 attempts and a restart ever use, so
`MaxSuffix` never cuts a behaviour. Four calls put `close()` and two dying threads among
calls of three callers.

A service, its replacement and the one an attempt still holds are three; a login has one
client of its own, and a second is the one that would be leaked. Two failures in two
ticks, with four ticks and four attempts, let a window fill, slide by one entry and fill
again, at two addresses. A third token would be one more session like the first two.

One fault interrupts a save, the process or the script at any of its steps, and the script
ends the process as often as it runs; that a second interruption adds nothing is what
`ConfigurationProofs` shows, for any number of them and every environment. Values of a key
differ only in whether they are the default.

The bounds are `MaxJobs`, `MaxRetryCount` (retries by hand), `MaxRestarts`, `MaxSuffix`,
`MaxCalls`, `MaxFaults`, `MaxClock`, `MaxAttempts`, and the numbers of `Threads`, `Clients`,
`Services` and `Tokens`; each is a guard of the actions it limits. `CHECK_DEADLOCK FALSE` is
given where a bounded model really stops: all calls made and the database closed; all jobs
over and no retry left.

Symmetry is used for names that nothing distinguishes (workers, clients, services, tokens,
addresses, user names), never in a run with liveness.

## Fairness

- the event loop resumes every coroutine that is ready: weak fairness of the worker,
  of each caller of `enqueue`, of the steps of a start, of `Exit`;
- a transfer does not fall silent, and a start of Telegram succeeds or fails: both are
  steps of a coroutine that is ready, in the weak fairness above. Which way they go is open:
  a transfer may report progress for ever, and every start may fail;
- the container is started again (`restart: unless-stopped`, `docker-compose.yml:13`):
  weak fairness of `Boot`;
- the operating system runs the database thread, the loop its pollers.

Nothing else is assumed: users, new messages and faults may come for ever or never. Since
less is assumed than a user would hope for, the liveness properties of the queue say where
they end:

- `EveryJobSettles` has the premise that transfers end (`TransferEnds`: a file is finite, a
  lost connection is an error), in the property and not in the fairness. `CancelResolves`
  has it only of the *other* jobs: the callback that sees the flag ends the job's own
  transfer, and that is what makes a cancel work;
- both stop at `NobodyToWork`: the first start of Telegram of a process has failed
  (`main.py:93-97`). QUEUED rows then wait for a login, which no one has to make;
- a PAUSED job counts as settled: only the next scan looks at it. A cancel that was raised
  after `process()` had read the row, when the disk is too full, stays pending on the PAUSED
  row until then, and `CancelResolves` names this case;
- retries by hand and storage errors are switched off in `QueueLiveness`, because with them
  a row can be left behind until the next start (see below).

The specifications of the login, the runtime, the administrator and the settings have safety
properties only and assume no fairness.

## What is proved

Eight modules hold proofs, checked by TLAPS for every value of the constants: any number
of rows, messages, requests, callers, threads, services, sessions and faults. The
assumptions are the `ASSUME`s of the modules (counts are naturals, finitely many workers,
names that differ, a message has media, defaults and given values are of their types) and,
where a theorem needs more, a condition that its statement names. Nothing else is assumed.

| module | theorem | property | condition |
|---|---|---|---|
| `DownloadQueueProofs` | `TypeCorrect` | `TypeOK` | |
| | `NeverTwoActive` | `AtMostOneActive` | |
| | `TransferHoldsItsRow` | `DownloadingIsHeld` | no storage errors |
| `QueueJobsProofs` | `CompletedStaysCompleted` | `CompletedIsFinal` | |
| | `ScanMissesNothing` | `ScanCoversAll` | |
| | `NothingIsStranded` | `NoStrandedJob` | no retries by hand, no storage errors |
| | `NoSecondRow` | `OneRowPerFile` | no retries by hand |
| | `QueueFollowsLifecycle` | every step is one of `JobLifecycle`, or `RefreshUndoes` | |
| | `QueueImplementsLifecycle` | `ImplementsLifecycle` | no shutdowns, the refresh raises nothing unforeseen |
| `MediaFilesProofs` | `TypeCorrect` | `TypeOK` | |
| | `PartIsExact` | `PartMatchesPosition` | |
| | `LibraryIsWhole` | `LibraryHoldsWholeFiles` | |
| | `CompletedIsInLibrary` | `CompletedHasMedia` | |
| | `LibraryIsKept` | `LibraryOnlyGrows` | |
| | `CopiesAreBounded` | `CopiesAreAccounted` | |
| | `FilesFollowLifecycle` | every step is one of `JobLifecycle`, or `RefreshUndoes` | |
| `DatabaseWorkerProofs` | `EffectsAreInOrder` | `EffectsInCallOrder` | |
| | `WorkerImplementsDatabase` | `ImplementsDatabase` | |
| | `NobodyWaitsInVain` | `NobodyPollsInVain` | |
| | `CloseDrains` | `ClosedIsDrained` | |
| | `AnswersFollowEffects` | no event is set before its closure has run | |
| | `NothingBehindStop` | `_STOP` is the last task of the queue | |
| `TelegramLoginProofs` | `NoLeak` | `NoClientLeak` | |
| | `PendingIsWhole` | `PendingHasClient` | |
| | `LoginTypeCorrect` | the types of the login | |
| `TelegramRuntimeProofs` | `RuntimeImplementsLogin` | `ImplementsLogin` | |
| | `ListenerIsOne` | `OneListener` | |
| | `FlagsAreHonest` | `FlagIsHonest` | |
| | `ShutdownIsClean` | `CleanShutdown` | |
| | `RuntimeTypeCorrect` | `RuntimeTypeOK` | |
| `AdminAuthProofs` | `TypeCorrect` | `TypeOK` | |
| | `EndedSessionsStayEnded` | `EndedStaysEnded` | |
| | `FailuresAreLimited` | `AttemptsAreLimited` | |
| | `LocksHaveACause` | `LockedForACause` | |
| `ConfigurationProofs` | `TypeCorrect` | `TypeOK` | |
| | `SavesAreAtomic` | `FileIsWhole` | |
| | `AnswersAreKept` | `AnsweredIsKept` | |
| | `EnvironmentIsObeyed` | `EnvironmentWins` | |
| | `CompletedSetupStaysWhole` | `CompletedSetupIsWhole` | |
| | `JellyfinIsUsable` | `EnabledJellyfinIsUsable` | |
| | `SelectionIsKept` | `SelectionIsNotLost` | |

None of these properties is inductive as it stands. What makes each one so:

- **One worker** (`SingleWorker`). The counter says nothing of a second task that is still
  idle. At most one task exists, none while the process is down, stopping or scanning:
  `start()` tests for a running task before it scans, and nothing else makes one.
- **The row in the worker's hand** (`HeldInv`, `SteadyInv`). Between the read of a row and
  the decision that rests on it, nobody else takes the row out of the state that was read:
  a row that waited still waits, one under transfer is DOWNLOADING, one past the move is
  COMPLETED or cleared; ids not yet given have no row, so an insert never hits one in a
  hand. `HeldInv` needs storage errors to be absent, `SteadyInv` holds with every fault.
- **A step seen from the table** (`TableSteps`). Every step of the application inserts one
  row, moves one row along a named edge, clears, recovers, or moves nothing. Final rows,
  second rows and the refinement then follow edge by edge.
- **Nobody forgets a job** (`ForgetNothing`, `CheckFresh`). `enqueue` drops a job that is
  known, so whatever is known must be queued or in a hand (`KnownHeld`); during a scan what
  is not covered is still listed (`ScanHeld`); and between two attempts the state the worker
  has read is still the state of the row. A retry by hand breaks only the last, which is
  what `RetryRace` shows.
- **Files** (`MediaInv`). A part file holds the chunks of its job in order (`PartsInv`), the
  position of a transfer is its length (`PositionInv`), the destination is free until the
  move and a copy is the beginning of its part (`DestinationInv`).
- **Copies** (`CopiesInv`). The bound on copies is not inductive: it has to leave room for
  the copy the next move makes. A job that is COMPLETED, or in the worker's hand behind the
  move, is delivered (`Delivered`) and may have one copy more than attempts that were
  undone; any other job may not. Only a move adds a copy, and it finds a job that is not
  delivered; whoever takes a delivered job back counts an undone attempt.
- **Database thread** (`WorkerInv`). Only one thread is alive; the calls made are those that
  have run, then the one in hand, then the queue, each in call order, with `_STOP` last.
- **Answers** (`Served`). All that has run is answered but for a last call whose event is
  about to be set; no coroutine polls a task that was never queued; `close()` returns to a
  dead thread. With `WorkerInv` every call is thus answered, in hand or queued before a
  living thread, unless the thread failed. The refinement follows step by step: the thread
  runs the next call and no other, and a dead thread has left nothing.
- **Login** (`LoginInv`). An operation owns its client: `send_code` has no pending login
  beside it, a verification works on the client of the pending login.
- **Services** (`ServiceInv`). Where `start_telegram_runtime` is and what it has done so far,
  who has a monitor, and that the login's listener is what the running service shows. The
  refinement follows from it, then the login's invariants hold of the whole application,
  and the shutdown needs both.
- **Administrator** (`LimitInv`). The log of an address and its deque agree on everything
  younger than the window, and an entry that dropped out is too old to count.
- **Settings** (`ConfigurationInv`). The keys of a request are one of nine shapes, and a
  temporary file that is about to be put in place is complete (`RequestInv`); a request is
  disjoint from what was answered (`KeptInv`); a disk is only chosen once its directories
  are made, and its marker only removed once `.env` names it (`DiskInv`); the running
  process never knows a secret that the next start does not (`SetupInv`), which is why what
  it validates is still there then.

`RefreshUndoes` is the one step outside the lifecycle that the code has: an exception or a
shutdown during the refresh of Jellyfin sends a COMPLETED job back (run `RefreshRaises`).
`QueueFollowsLifecycle` shows, with every fault and every user action switched on, that
there is no other; `FilesFollowLifecycle` shows the same of the `process()` of `MediaFiles`,
so the two models of it agree on what a job may become.

Every safety property of the passing runs is proved. Only model-checked is liveness
(`EveryJobSettles`, `CancelResolves`, `EveryCallAnswered`, `CloseReturns`): fairness and
ENABLED are out of this prover's reach, as is induction over data, which nothing here
needs. `NobodyPollsInVain` is the part of `EveryCallAnswered` that is safety, and so proved.
No module declares a RECURSIVE operator.

## What the checks do not say

Passing runs leave some faults out because the property is then false in the code:

- with retries by hand, `NoStrandedJob` fails (`RetryRace`), and so does `OneRowPerFile`:
  `retry()` does not look for another live row of the document (hazard `database.py:289`);
- a storage error (`disk_usage`, `unique_destination`, `_resume_offset`) is outside the
  `try` of `process()`: the worker only logs it, and the row stays QUEUED or DOWNLOADING
  until the next start. `QueueLifecycle` shows that the next start repairs it;
- across devices, a kill in the middle of the copy leaves a truncated file in the
  library, so `LibraryHoldsWholeFiles` and `CopiesAreAccounted` are about one device;
- when the media of a message is replaced, a part of the old one may be continued with
  the new one, as only sizes are compared: `CompletedHasMedia` speaks of media that were
  not replaced;
- when the free name changes between attempts the part file is not resumed and stays in
  `temp_dir`; no property forbids it;
- a shutdown during the Jellyfin refresh writes QUEUED over COMPLETED, and the file is
  downloaded again under another name; so does an error or a kill between the move and the
  UPDATE. `CompletedIsFinal` starts after the refresh, and `CopiesAreAccounted` counts these
  second copies: it does not forbid them, it says that there are no others;
- a cancel may stay pending on a PAUSED row, and without a worker nothing settles (see
  "Fairness");
- a script that is killed, or whose `docker compose up` fails, after the marker is removed
  (`apply-storage.sh:20-23`) leaves the container with the old directories, and a second call
  answers "No pending storage selection.": the disk is in `.env` only, until it is selected
  again or something else makes the container again. `SelectionIsNotLost` claims no more;
- a client whose disconnection fails, or raises, stays connected (`lost` in `TelegramLogin`).

Abstractions: a database call takes effect when it is made and never fails (`DatabaseWorker`
shows the order; an SQLite error inside a coroutine is not modelled); delays, speeds, the
bandwidth limit, progress columns, events and texts are left out; a transfer that ends
without an error is whole (Telethon's promise); `DownloadQueue` has one intake, since a
second handler would only be one more caller of `add_download` and `enqueue`.

Listener: what a revived service does with the messages it receives is not followed; it
writes rows like any other, and `Duplicate` finds those of its twin. The monitor awaits
`client.disconnected`. Whether that future is done for good after a loss, so that the loop
never yields again, is up to Telethon; the model lets the monitor notice a loss once and
go on (hazard `telegram_client.py:87`).

Administrator: only the login route counts wrong passwords. `require_admin` compares the
password of Basic authentication without counting, and a restart clears the log of failures.

Settings: the loss of power is not modelled; the code syncs the temporary file but not the
directory. A request that saves a key anew makes the old value no longer `answered` when it
is accepted, so `AnsweredIsKept` says nothing of that key until it is answered. When the
`chmod` after the replacement fails, the route answers 500 though the file holds the new
values, and the running process the old ones until it starts again.
`EnabledJellyfinIsUsable` therefore speaks of what a start finds: the process itself may
enable Jellyfin with a key that only the file has. There is one disk, as
`StorageBrowser.roots` lists one.

A variable that the environment sets, but leaves empty, wins over the dashboard too:
`JELLYFIN_API_KEY=` (`.env.example:40`), copied as it is, keeps a key saved later out of
use. That is what `environment_fields` says, and `EnvironmentWins` and
`EnabledJellyfinIsUsable` are stated for it; the second deployment of `SavedSettings` has
such an empty key.

## Not modelled

- **Configuration parsing and logging** (`config.py`, `logging_config.py`): functions of the
  environment that run once and keep nothing; `Configuration` takes their result.
- **Installer and scripts** (`install.sh`, `scripts/`, except `apply-storage.sh`): commands an
  administrator runs by hand, while the application is down or restarted by Docker.
- **Dashboard API, the reads**: lists, statistics and events select rows and change none.
  `app_events` and the progress columns of `downloads` are written and never read by control flow.
- **Library names**: categories and sanitizing are rules about text. A name is a value here,
  and what two jobs with one name do to each other is in `MediaFiles`.
- **Jellyfin**: whether a test or refresh succeeds is an outcome.
- **Telegram sources**: the cached list. A request may select any source, those of an old list
  included; that a selected source belongs to the account is promised nowhere.
- **`save_storage`** of the setup service has no route that calls it.
- **Directories that change between two attempts**: `MediaFiles` has fixed directories, and
  `Configuration` has no jobs. A job in between starts over in the new ones, which no document
  says anything about.
- **Short transfers**: a transfer that ends early without an error is Telethon's to prevent.
- **Telethon, SQLite, httpx, Docker** are external and modelled by their use.

## The plan

Done: the table, the queue, its abstract lifecycle, the files, the database thread, the login
and the services around it, the administrator, the settings with the disk script, and the
proofs above.

Left, in this order:

1. `DownloadQueue` over `FifoDatabase` instead of atomic calls; then an SQLite error inside
   a coroutine.
2. Storage directories as a variable of `MediaFiles`, to compose it with `Configuration`.
