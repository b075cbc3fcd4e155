----------------------------- MODULE MediaFiles -----------------------------
(***************************************************************************)
(* The files behind Downloader.process (downloader.py): the `.part` file a *)
(* transfer writes and resumes, the choice of a free name in the library   *)
(* (classifier.unique_destination) and the move of the finished file.      *)
(*                                                                         *)
(* One worker runs process() for one job at a time (DownloadQueue shows    *)
(* it); here its choice of the next job is arbitrary, a PAUSED one         *)
(* included.  Everything between the end of a transfer and the UPDATE to   *)
(* COMPLETED runs without an await, so only an error or the death of the   *)
(* process comes between.                                                  *)
(*                                                                         *)
(* A file is the sequence of the chunks it holds, a chunk is <<job,        *)
(* version of the media, index>>: the sender of a message may replace its  *)
(* media.  A library file is named by the name of the job's media and the  *)
(* number unique_destination appended, 0 for none; a `.part` file by the   *)
(* job and that number.                                                    *)
(***************************************************************************)
EXTENDS Naturals, Sequences, FiniteSets

CONSTANTS
    Jobs,
    Names,
    Name,          \* Name[j]: the media name (and category) of job j
    Size,          \* Size[v + 1]: how many chunks version v of a media has
    MaxSuffix,     \* bound: the largest number appended to a name
    MaxRetries,    \* settings.max_retries
    MaxRestarts,   \* bound: how often the process is killed or stopped
    MaxRetryCount, \* bound: a job is not retried by hand beyond this count
    Edited,        \* the jobs whose message may get other media
    Sized,         \* the jobs whose media have a size Telegram announces
    NoFile

ASSUME FilesAssumption ==
    /\ Jobs # {}
    /\ Name \in [Jobs -> Names]
    /\ Size \in Seq(Nat \ {0})
    /\ Size # <<>>
    /\ {MaxSuffix, MaxRetries, MaxRestarts} \subseteq Nat
    /\ Edited \subseteq Jobs
    /\ Sized \subseteq Jobs
    /\ NoFile \notin Seq(Jobs \X Nat \X Nat)

VARIABLES
    state, cancel, retries,  \* columns of the downloads table
    version,                 \* the version of each media Telegram serves
    parts,                   \* the files of temp_dir
    library,                 \* the files below download_root
    crossDevice,             \* are temp_dir and download_root on different devices?
    worker,                  \* where process() is, and its local variables
    restarts,
    undone                   \* history: how often process() was interrupted,
                             \* or raised, between the move of the file and
                             \* its return

vars == <<state, cancel, retries, version, parts, library, crossDevice, worker, restarts, undone>>

Suffixes == 0..MaxSuffix
Versions == 0..(Len(Size) - 1)
Chunk == Jobs \X Versions \X Nat
JobStates == {"queued", "downloading", "completed", "failed", "cancelled", "paused"}
Pcs == {"idle", "fetch", "callback", "transfer", "move", "copy", "moved", "finish", "backoff"}

SizeOf(v) == Size[v + 1]

\* message.file.size, 0 when Telegram gives none; job.file_size is that of
\* the first version.
Announced(j, v) == IF j \in Sized THEN SizeOf(v) ELSE 0

Whole(j, v) == [i \in 1..SizeOf(v) |-> <<j, v, i>>]

Idle == [pc |-> "idle", job |-> CHOOSE j \in Jobs : TRUE, suffix |-> 0,
         pos |-> 0, version |-> 0]

Part(w) == <<w.job, w.suffix>>
Destination(w) == <<Name[w.job], w.suffix>>

Init ==
    /\ state = [j \in Jobs |-> "queued"]
    /\ cancel = [j \in Jobs |-> FALSE]
    /\ retries = [j \in Jobs |-> 0]
    /\ version = [j \in Jobs |-> 0]
    /\ parts = [p \in Jobs \X Suffixes |-> NoFile]
    /\ library = [f \in Names \X Suffixes |-> NoFile]
    /\ crossDevice \in BOOLEAN
    /\ worker = Idle
    /\ restarts = 0
    /\ undone = [j \in Jobs |-> 0]

-----------------------------------------------------------------------------
(* Starting a transfer.                                                    *)

\* Mutant: the destination is the bare name, whether it is taken or not.
BareName(name, n) == n = 0

\* unique_destination: the first of name, name (1), name (2) ... not taken.
FreeName(name, n) ==
    /\ library[<<name, n>>] = NoFile
    /\ \A m \in Suffixes : m < n => library[<<name, m>>] # NoFile

\* _resume_offset: a `.part` file that is empty or larger than the size the
\* message announced (if it did) is removed, any other one is continued.
Resumable(j, n) ==
    /\ parts[<<j, n>>] # NoFile
    /\ Len(parts[<<j, n>>]) > 0
    /\ Announced(j, 0) > 0 => Len(parts[<<j, n>>]) <= Announced(j, 0)

\* The worker takes a job, or the job whose last attempt failed again.
MayBegin(j) ==
    \/ state[j] \in {"queued", "paused"} /\ worker.pc = "idle"
    \/ state[j] = "queued" /\ worker.pc = "backoff" /\ worker.job = j

\* Mutant: the state is not one of DownloadState.
CancelMisspelt(j) ==
    /\ MayBegin(j)
    /\ cancel[j]
    /\ state' = [state EXCEPT ![j] = "canceled"]
    /\ worker' = Idle
    /\ UNCHANGED <<cancel, retries, version, parts, library, crossDevice, restarts, undone>>

CancelBeforeStart(j) ==
    /\ MayBegin(j)
    /\ cancel[j]
    /\ state' = [state EXCEPT ![j] = "cancelled"]
    /\ worker' = Idle
    /\ UNCHANGED <<cancel, retries, version, parts, library, crossDevice, restarts, undone>>

\* The disk is too full: the row is PAUSED, the part file stays.
Pause(j) ==
    /\ MayBegin(j)
    /\ ~ cancel[j]
    /\ state' = [state EXCEPT ![j] = "paused"]
    /\ worker' = Idle
    /\ UNCHANGED <<cancel, retries, version, parts, library, crossDevice, restarts, undone>>

Begin(j) ==
    /\ MayBegin(j)
    /\ ~ cancel[j]
    /\ state' = [state EXCEPT ![j] = "downloading"]
    /\ \E n \in Suffixes :
        /\ FreeName(Name[j], n)
        /\ worker' = [pc |-> "fetch", job |-> j, suffix |-> n, version |-> 0,
                      pos |-> IF Resumable(j, n) THEN Len(parts[<<j, n>>]) ELSE 0]
        /\ parts' = [parts EXCEPT ![<<j, n>>] = IF Resumable(j, n) THEN @ ELSE NoFile]
    /\ UNCHANGED <<cancel, retries, version, library, crossDevice, restarts, undone>>

-----------------------------------------------------------------------------
(* The transfer.                                                           *)

\* Mutant: the part that is larger than the media is kept.
FetchKeepsPart ==
    LET v == version[worker.job] IN
    /\ worker.pc = "fetch"
    /\ worker' = [worker EXCEPT
                     !.pc = IF worker.pos = Announced(worker.job, v) THEN "move" ELSE "transfer",
                     !.pos = IF @ > SizeOf(v) THEN 0 ELSE @,
                     !.version = v]
    /\ parts' = IF worker.pos = 0 THEN [parts EXCEPT ![Part(worker)] = <<>>] ELSE parts
    /\ UNCHANGED <<state, cancel, retries, version, library, crossDevice, restarts, undone>>

\* The message is fetched: its media may not be the one of the last attempt.
\* A part larger than the media is dropped, one of its size is taken as it
\* is, a smaller one (or any, if no size is announced) is continued; a
\* download from zero truncates the file.
Fetch ==
    LET v == version[worker.job]
        total == Announced(worker.job, v)
        fresh == worker.pos = 0 \/ (total > 0 /\ worker.pos > total)
    IN  /\ worker.pc = "fetch"
        /\ worker' = [worker EXCEPT
                         !.pc = IF fresh THEN "transfer"
                                ELSE IF worker.pos = total THEN "move" ELSE "callback",
                         !.pos = IF fresh THEN 0 ELSE @,
                         !.version = v]
        /\ parts' = IF fresh THEN [parts EXCEPT ![Part(worker)] = <<>>] ELSE parts
        /\ UNCHANGED <<state, cancel, retries, version, library, crossDevice, restarts, undone>>

\* The progress callback reads the cancel flag.
Continue ==
    /\ worker.pc = "callback"
    /\ ~ cancel[worker.job]
    /\ worker' = [worker EXCEPT !.pc = "transfer"]
    /\ UNCHANGED <<state, cancel, retries, version, parts, library, crossDevice, restarts, undone>>

CancelNoticed ==
    /\ worker.pc = "callback"
    /\ cancel[worker.job]
    /\ state' = [state EXCEPT ![worker.job] = "cancelled"]
    /\ parts' = [parts EXCEPT ![Part(worker)] = NoFile]
    /\ worker' = Idle
    /\ UNCHANGED <<cancel, retries, version, library, crossDevice, restarts, undone>>

WriteChunk ==
    /\ worker.pc = "transfer"
    /\ worker.pos < SizeOf(worker.version)
    /\ parts' = [parts EXCEPT ![Part(worker)] =
                    Append(@, <<worker.job, worker.version, worker.pos + 1>>)]
    /\ worker' = [worker EXCEPT !.pc = "callback", !.pos = @ + 1]
    /\ UNCHANGED <<state, cancel, retries, version, library, crossDevice, restarts, undone>>

\* Mutant: the transfer may end after any chunk.
EndEarly ==
    /\ worker.pc = "transfer"
    /\ worker.pos > 0
    /\ worker' = [worker EXCEPT !.pc = "move"]
    /\ UNCHANGED <<state, cancel, retries, version, parts, library, crossDevice, restarts, undone>>

\* Telegram has nothing more to send (or never had, behind the end of the
\* media).
EndTransfer ==
    /\ worker.pc = "transfer"
    /\ worker.pos >= SizeOf(worker.version)
    /\ worker' = [worker EXCEPT !.pc = "move"]
    /\ UNCHANGED <<state, cancel, retries, version, parts, library, crossDevice, restarts, undone>>

-----------------------------------------------------------------------------
(* The move into the library: os.replace, or, when temp_dir is on another  *)
(* device, copy2 (which truncates its target first) and unlink.            *)

Replace ==
    /\ ~ crossDevice
    /\ worker.pc = "move"
    /\ library' = [library EXCEPT ![Destination(worker)] = parts[Part(worker)]]
    /\ parts' = [parts EXCEPT ![Part(worker)] = NoFile]
    /\ worker' = [worker EXCEPT !.pc = "moved"]
    /\ UNCHANGED <<state, cancel, retries, version, crossDevice, restarts, undone>>

CopyStart ==
    /\ crossDevice
    /\ worker.pc = "move"
    /\ library' = [library EXCEPT ![Destination(worker)] = <<>>]
    /\ worker' = [worker EXCEPT !.pc = "copy"]
    /\ UNCHANGED <<state, cancel, retries, version, parts, crossDevice, restarts, undone>>

CopyChunk ==
    LET copied == library[Destination(worker)]
        source == parts[Part(worker)]
    IN  /\ worker.pc = "copy"
        /\ Len(copied) < Len(source)
        /\ library' = [library EXCEPT ![Destination(worker)] =
                          Append(@, source[Len(copied) + 1])]
        /\ UNCHANGED <<state, cancel, retries, version, parts, crossDevice, worker, restarts, undone>>

CopyEnd ==
    /\ worker.pc = "copy"
    /\ library[Destination(worker)] = parts[Part(worker)]
    /\ parts' = [parts EXCEPT ![Part(worker)] = NoFile]
    /\ worker' = [worker EXCEPT !.pc = "moved"]
    /\ UNCHANGED <<state, cancel, retries, version, library, crossDevice, restarts, undone>>

\* Mutant: the job is COMPLETED before its file is moved.
CompleteEarly ==
    /\ worker.pc \in {"move", "moved"}
    /\ state' = [state EXCEPT ![worker.job] = "completed"]
    /\ worker' = [worker EXCEPT !.pc = "finish"]
    /\ UNCHANGED <<cancel, retries, version, parts, library, crossDevice, restarts, undone>>

Complete ==
    /\ worker.pc = "moved"
    /\ state' = [state EXCEPT ![worker.job] = "completed"]
    /\ worker' = [worker EXCEPT !.pc = "finish"]
    /\ UNCHANGED <<cancel, retries, version, parts, library, crossDevice, restarts, undone>>

Finish ==
    /\ worker.pc = "finish"
    /\ worker' = Idle
    /\ UNCHANGED <<state, cancel, retries, version, parts, library, crossDevice, restarts, undone>>

-----------------------------------------------------------------------------
Undo(j) == undone' = [undone EXCEPT ![j] = @ + 1]

AttemptFails ==
    LET n == retries[worker.job] + 1 IN
    /\ retries' = [retries EXCEPT ![worker.job] = n]
    /\ state' = [state EXCEPT ![worker.job] = IF n <= MaxRetries THEN "queued" ELSE "failed"]
    /\ worker' = IF n <= MaxRetries THEN [worker EXCEPT !.pc = "backoff"] ELSE Idle
    /\ UNCHANGED <<cancel, version, parts, library, crossDevice, restarts>>

(* An exception in the try block: a lost connection, a deleted message, a  *)
(* full disk, or, when the file is moved, its stat() or the UPDATE, or,    *)
(* after the job was COMPLETED, the Jellyfin refresh.  The job is          *)
(* attempted again after a delay, or FAILED.  The part file stays.         *)
Failure ==
    /\ AttemptFails
    /\ \/ worker.pc \in {"fetch", "transfer", "callback", "move", "copy"}
          /\ UNCHANGED undone
       \/ worker.pc \in {"moved", "finish"} /\ Undo(worker.job)

(* The process is killed and started again, which queues the rows left     *)
(* DOWNLOADING.                                                            *)
Crash ==
    /\ restarts < MaxRestarts
    /\ restarts' = restarts + 1
    /\ state' = [j \in Jobs |-> IF state[j] = "downloading" THEN "queued" ELSE state[j]]
    /\ worker' = Idle
    /\ IF worker.pc = "moved" THEN Undo(worker.job) ELSE UNCHANGED undone
    /\ UNCHANGED <<cancel, retries, version, parts, library, crossDevice>>

(* A graceful stop cancels the worker at an await; in the try block the    *)
(* job is written QUEUED, whatever its state.                              *)
Shutdown ==
    /\ restarts < MaxRestarts
    /\ worker.pc \in {"fetch", "callback", "transfer", "finish"}
    /\ restarts' = restarts + 1
    /\ state' = [state EXCEPT ![worker.job] = "queued"]
    /\ worker' = Idle
    /\ IF worker.pc = "finish" THEN Undo(worker.job) ELSE UNCHANGED undone
    /\ UNCHANGED <<cancel, retries, version, parts, library, crossDevice>>

-----------------------------------------------------------------------------
RequestCancel(j) ==
    /\ state[j] \in {"queued", "downloading"}
    /\ cancel' = [cancel EXCEPT ![j] = TRUE]
    /\ UNCHANGED <<state, retries, version, parts, library, crossDevice, worker, restarts, undone>>

\* Mutant: a completed job may be retried too.
RetryOver(j) ==
    /\ state[j] \in {"failed", "cancelled", "completed"}
    /\ retries[j] <= MaxRetryCount
    /\ state' = [state EXCEPT ![j] = "queued"]
    /\ cancel' = [cancel EXCEPT ![j] = FALSE]
    /\ UNCHANGED <<retries, version, parts, library, crossDevice, worker, restarts, undone>>

Retry(j) ==
    /\ state[j] \in {"failed", "cancelled"}
    /\ retries[j] <= MaxRetryCount
    /\ state' = [state EXCEPT ![j] = "queued"]
    /\ cancel' = [cancel EXCEPT ![j] = FALSE]
    /\ UNCHANGED <<retries, version, parts, library, crossDevice, worker, restarts, undone>>

Edit(j) ==
    /\ j \in Edited
    /\ version[j] + 1 \in Versions
    /\ version' = [version EXCEPT ![j] = @ + 1]
    /\ UNCHANGED <<state, cancel, retries, parts, library, crossDevice, worker, restarts, undone>>

Transfer == Fetch \/ Continue \/ CancelNoticed \/ WriteChunk \/ EndTransfer
MoveFile == Replace \/ CopyStart \/ CopyChunk \/ CopyEnd

Next ==
    \/ \E j \in Jobs :
        \/ CancelBeforeStart(j) \/ Pause(j) \/ Begin(j)
        \/ RequestCancel(j) \/ Retry(j) \/ Edit(j)
    \/ Transfer \/ MoveFile \/ Complete \/ Finish \/ Failure \/ Crash \/ Shutdown

Spec == Init /\ [][Next]_vars

-----------------------------------------------------------------------------
(* Type invariant: the values each part of the state may take.             *)
TypeOK ==
    /\ state \in [Jobs -> JobStates]
    /\ cancel \in [Jobs -> BOOLEAN]
    /\ retries \in [Jobs -> Nat]
    /\ version \in [Jobs -> Versions]
    /\ parts \in [Jobs \X Suffixes -> Seq(Chunk) \cup {NoFile}]
    /\ library \in [Names \X Suffixes -> Seq(Chunk) \cup {NoFile}]
    /\ worker \in [pc : Pcs, job : Jobs, suffix : Suffixes, pos : Nat, version : Versions]
    /\ crossDevice \in BOOLEAN
    /\ restarts \in 0..MaxRestarts
    /\ undone \in [Jobs -> Nat]

(* A file of the library is never overwritten, truncated or removed: the   *)
(* name that was free when the transfer started is still free when the     *)
(* file is moved, and cancelling, failing, retrying and restarting never   *)
(* reach completed media ("never completed media", README.md).  Only the   *)
(* copy the worker is making grows.                                        *)
LibraryOnlyGrows ==
    [][\A f \in DOMAIN library :
        library[f] # NoFile =>
            \/ library'[f] = library[f]
            \/ worker.pc = "copy" /\ f = Destination(worker)]_vars

(* The chunks of the media of job j that file f holds, if it is a whole one. *)
HoldsMedia(f, j) == \E v \in Versions : library[f] = Whole(j, v)

(* Telegram still serves the media it served when the job was made.  When  *)
(* it does not, a part file of the old media may be continued with the new *)
(* one, and only the sizes are compared.                                   *)
SameMedia(j) == version[j] = 0

(* A job that is COMPLETED has its whole media in the library, under its   *)
(* own name, whatever restarts, failed copies and resumed transfers came   *)
(* before.                                                                 *)
CompletedHasMedia ==
    \A j \in Jobs : state[j] = "completed" /\ SameMedia(j) =>
        \E n \in Suffixes : HoldsMedia(<<Name[j], n>>, j)

(* On one device the library only ever holds whole files: a file appears   *)
(* there at once ("atomically moves successful downloads into media        *)
(* libraries", README.md).  Across devices the move is a copy, and a       *)
(* process killed in the middle leaves a truncated file.                   *)
LibraryHoldsWholeFiles ==
    ~ crossDevice =>
        \A f \in DOMAIN library : library[f] # NoFile =>
            /\ library[f] # <<>>
            /\ SameMedia(library[f][1][1]) => HoldsMedia(f, library[f][1][1])

(* A job puts one file into the library, and one more for every time       *)
(* process() was killed, stopped or raised between the move and its        *)
(* return, where the code does download the file again under another       *)
(* name: no other failure, cancellation, pause, retry or restart leaves a  *)
(* second copy.  (A copy across devices also leaves a truncated file for   *)
(* every failed attempt.)                                                  *)
Copies(j) ==
    {f \in DOMAIN library : library[f] # NoFile /\ library[f] # <<>> /\ library[f][1][1] = j}

CopiesAreAccounted ==
    ~ crossDevice => \A j \in Jobs : Cardinality(Copies(j)) <= 1 + undone[j]

(* The `.part` file of the current attempt holds, in order, exactly the    *)
(* chunks the transfer has passed: a resumed transfer neither skips nor    *)
(* repeats one.                                                            *)
PartMatchesPosition ==
    worker.pc \in {"transfer", "callback", "move"} =>
        /\ parts[Part(worker)] # NoFile
        /\ Len(parts[Part(worker)]) = worker.pos
        /\ \A i \in 1..worker.pos : parts[Part(worker)][i][3] = i

(* "Cancellation removes only the temporary .part" (README.md): no partial *)
(* file of a cancelled job is left.                                        *)
CancelRemovesPart ==
    \A j \in Jobs : state[j] = "cancelled" =>
        \A n \in Suffixes : parts[<<j, n>>] = NoFile
=============================================================================
