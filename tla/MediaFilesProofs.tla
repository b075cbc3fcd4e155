-------------------------- MODULE MediaFilesProofs --------------------------
(***************************************************************************)
(* Safety of MediaFiles for every number of jobs, names, versions and      *)
(* sizes of media, attempts and restarts, on one device and on two.        *)
(***************************************************************************)
EXTENDS MediaFiles, SequenceTheorems, FiniteSetTheorems, TLAPS

\* The points of process() inside its try block, up to the move.
BeforeMove == {"fetch", "callback", "transfer", "move"}

(* Every part file holds chunks of its own job, in order, of versions that *)
(* Telegram has served and that have so many; nothing can be said of which *)
(* version each one is.                                                    *)
PartsInv ==
    \A j \in Jobs, n \in Suffixes : parts[<<j, n>>] # NoFile =>
        \A i \in 1..Len(parts[<<j, n>>]) :
            /\ parts[<<j, n>>][i][1] = j
            /\ parts[<<j, n>>][i][2] <= version[j]
            /\ parts[<<j, n>>][i][3] = i
            /\ i <= SizeOf(parts[<<j, n>>][i][2])

\* The position of a transfer is the length of its part file.
PositionInv ==
    /\ (worker.pc = "fetch" /\ worker.pos > 0)
            \/ worker.pc \in {"callback", "transfer", "move", "copy"} =>
        /\ parts[Part(worker)] # NoFile
        /\ Len(parts[Part(worker)]) = worker.pos
    /\ worker.pc \in {"callback", "transfer", "move", "copy"} =>
        worker.version <= version[worker.job]
    /\ worker.pc \in {"move", "copy"} => worker.pos >= SizeOf(worker.version)

\* Until the move the destination is free; a copy is the beginning of its part.
DestinationInv ==
    /\ worker.pc \in BeforeMove => library[Destination(worker)] = NoFile
    /\ worker.pc = "copy" =>
        /\ crossDevice
        /\ library[Destination(worker)] # NoFile
        /\ Len(library[Destination(worker)]) <= Len(parts[Part(worker)])
        /\ \A i \in 1..Len(library[Destination(worker)]) :
              library[Destination(worker)][i] = parts[Part(worker)][i]
    /\ worker.pc = "moved" /\ SameMedia(worker.job) =>
        HoldsMedia(Destination(worker), worker.job)
    /\ worker.pc \in BeforeMove \cup {"copy", "moved"} => state[worker.job] = "downloading"
    /\ worker.pc = "finish" => state[worker.job] = "completed"

\* The copy a job is entitled to is in the library: it was moved, or COMPLETED.
Delivered(j) == state[j] = "completed" \/ (worker.pc = "moved" /\ worker.job = j)

(* A job that is not delivered has only the copies of its interrupted      *)
(* attempts; one that is has one more.                                     *)
CopiesInv ==
    ~ crossDevice => \A j \in Jobs :
        /\ IsFiniteSet(Copies(j))
        /\ Cardinality(Copies(j)) <= undone[j] + (IF Delivered(j) THEN 1 ELSE 0)

MediaInv ==
    /\ TypeOK /\ PartsInv /\ PositionInv /\ DestinationInv
    /\ LibraryHoldsWholeFiles /\ CompletedHasMedia /\ CopiesInv

-----------------------------------------------------------------------------
LEMMA FileFacts ==
    /\ 0 \in Versions
    /\ \A v \in Versions : SizeOf(v) \in Nat /\ SizeOf(v) > 0
    /\ \A s \in Seq(Chunk) : s # NoFile
<1>1. 0 \in Versions
  BY FilesAssumption DEF Versions
<1>2. ASSUME NEW v \in Versions PROVE SizeOf(v) \in Nat /\ SizeOf(v) > 0
  BY FilesAssumption DEF Versions, SizeOf
<1>3. ASSUME NEW s \in Seq(Chunk) PROVE s # NoFile
  <2>1. Chunk \subseteq Jobs \X Nat \X Nat
    BY FilesAssumption DEF Chunk, Versions
  <2>2. s \in Seq(Jobs \X Nat \X Nat)
    BY <2>1
  <2> QED BY <2>2, FilesAssumption
<1> QED BY <1>1, <1>2, <1>3

\* The files the worker works with exist as names, and the chosen ones are files.
LEMMA WorkerFiles ==
    ASSUME TypeOK
    PROVE  /\ worker.job \in Jobs /\ worker.suffix \in Suffixes /\ worker.pos \in Nat
           /\ worker.version \in Versions
           /\ Part(worker) \in Jobs \X Suffixes
           /\ Destination(worker) \in Names \X Suffixes
           /\ \A p \in Jobs \X Suffixes : parts[p] # NoFile => parts[p] \in Seq(Chunk)
           /\ \A f \in Names \X Suffixes : library[f] # NoFile => library[f] \in Seq(Chunk)
BY FilesAssumption DEF TypeOK, Part, Destination

(* A part file at least as long as the media it is of holds that media, if *)
(* it was never another one.                                               *)
LEMMA PartIsWhole ==
    ASSUME TypeOK, PartsInv, NEW j \in Jobs, NEW n \in Suffixes, SameMedia(j),
           parts[<<j, n>>] # NoFile, Len(parts[<<j, n>>]) >= SizeOf(0)
    PROVE  parts[<<j, n>>] = Whole(j, 0)
<1> DEFINE s == parts[<<j, n>>]
<1>1. s \in Seq(Chunk) /\ Len(s) >= SizeOf(0)
  BY DEF TypeOK
<1>2. ASSUME NEW i \in 1..Len(s) PROVE s[i] = <<j, 0, i>> /\ i <= SizeOf(0)
  <2>1. s[i] \in Chunk
    BY <1>1
  <2>2. s[i][1] = j /\ s[i][2] <= 0 /\ s[i][3] = i /\ i <= SizeOf(s[i][2])
    BY DEF PartsInv, SameMedia
  <2>3. s[i][2] = 0
    BY <2>1, <2>2, FilesAssumption DEF Chunk, Versions
  <2> QED BY <2>1, <2>2, <2>3 DEF Chunk
<1>3. s = [i \in 1..SizeOf(0) |-> <<j, 0, i>>]
  <2> HIDE DEF s
  <2>1. s \in [1..Len(s) -> Chunk]
    BY <1>1, LenProperties
  <2>2. Len(s) \in Nat /\ SizeOf(0) \in Nat /\ SizeOf(0) > 0
    BY <1>1, FileFacts
  <2>3. Len(s) = SizeOf(0)
    <3>1. Len(s) \in 1..Len(s)
      BY <1>1, <2>2
    <3> QED BY <1>1, <1>2, <2>2, <3>1
  <2> QED BY <1>1, <1>2, <2>1, <2>3
<1> QED BY <1>3 DEF Whole

-----------------------------------------------------------------------------
LEMMA InitMedia == Init => MediaInv
<1> SUFFICES ASSUME Init PROVE MediaInv
    OBVIOUS
<1>1. Idle.job \in Jobs /\ Idle.pc = "idle"
  BY FilesAssumption DEF Idle
<1>2. worker \in [pc : Pcs, job : Jobs, suffix : Suffixes, pos : Nat, version : Versions]
  BY <1>1, FileFacts, FilesAssumption DEF Init, Idle, Pcs, Suffixes
<1>3. TypeOK
  <2>1. cancel \in [Jobs -> BOOLEAN]
    BY DEF Init
  <2> QED BY <1>2, <2>1, FileFacts, FilesAssumption DEF Init, TypeOK, JobStates
<1>4. PartsInv /\ LibraryHoldsWholeFiles /\ CompletedHasMedia
  BY DEF Init, PartsInv, LibraryHoldsWholeFiles, CompletedHasMedia
<1>5. PositionInv /\ DestinationInv
  BY <1>1 DEF Init, PositionInv, DestinationInv, BeforeMove
<1>6. CopiesInv
  <2>1. ASSUME NEW j \in Jobs PROVE Copies(j) = {} /\ undone[j] = 0
    BY DEF Init, Copies
  <2> QED BY <2>1, FS_EmptySet DEF CopiesInv
<1> QED BY <1>3, <1>4, <1>5, <1>6 DEF MediaInv

-----------------------------------------------------------------------------
WorkerType == [pc : Pcs, job : Jobs, suffix : Suffixes, pos : Nat, version : Versions]

LEMMA IdleType == Idle \in WorkerType /\ Idle.pc = "idle" /\ Idle.job \in Jobs
BY FileFacts, FilesAssumption DEF Idle, WorkerType, Pcs, Suffixes

LEMMA EmptyFile == <<>> \in Seq(Chunk) /\ <<>> # NoFile
<1>1. <<>> \in Seq(Chunk)
  OBVIOUS
<1> QED BY <1>1, FileFacts

LEMMA TypeStep ==
    ASSUME TypeOK, PositionInv, DestinationInv, [Next]_vars
    PROVE  TypeOK'
<1> USE DEF WorkerType, Part, Destination
<1>1. ASSUME NEW j \in Jobs, CancelBeforeStart(j) \/ Pause(j) PROVE TypeOK'
  BY <1>1, IdleType DEF CancelBeforeStart, Pause, TypeOK, JobStates
<1>2. ASSUME NEW j \in Jobs, Begin(j) PROVE TypeOK'
  <2>1. PICK n \in Suffixes :
            /\ worker' = [pc |-> "fetch", job |-> j, suffix |-> n, version |-> 0,
                          pos |-> IF Resumable(j, n) THEN Len(parts[<<j, n>>]) ELSE 0]
            /\ parts' = [parts EXCEPT ![<<j, n>>] = IF Resumable(j, n) THEN @ ELSE NoFile]
    BY <1>2 DEF Begin
  <2>2. Resumable(j, n) => Len(parts[<<j, n>>]) \in Nat
    BY DEF Resumable, TypeOK
  <2>3. worker' \in WorkerType
    BY <2>1, <2>2, FileFacts DEF Pcs
  <2>4. parts' \in [Jobs \X Suffixes -> Seq(Chunk) \cup {NoFile}]
    BY <2>1 DEF TypeOK
  <2> QED BY <1>2, <2>3, <2>4 DEF Begin, TypeOK, JobStates
<1>3. CASE Fetch
  <2>1. version[worker.job] \in Versions
    BY DEF TypeOK
  <2>2. worker' \in WorkerType
    BY <1>3, <2>1 DEF Fetch, TypeOK, Pcs
  <2>3. parts' \in [Jobs \X Suffixes -> Seq(Chunk) \cup {NoFile}]
    BY <1>3, EmptyFile DEF Fetch, TypeOK
  <2> QED BY <1>3, <2>2, <2>3 DEF Fetch, TypeOK
<1>4. CASE Continue \/ EndTransfer
  BY <1>4 DEF Continue, EndTransfer, TypeOK, Pcs
<1>5. CASE CancelNoticed
  BY <1>5, IdleType DEF CancelNoticed, TypeOK, JobStates
<1>6. CASE WriteChunk
  <2>1. parts[Part(worker)] \in Seq(Chunk)
    BY <1>6, WorkerFiles DEF WriteChunk, PositionInv
  <2>2. <<worker.job, worker.version, worker.pos + 1>> \in Chunk
    BY WorkerFiles DEF Chunk
  <2>3. Append(parts[Part(worker)], <<worker.job, worker.version, worker.pos + 1>>) \in Seq(Chunk)
    BY <2>1, <2>2, AppendProperties
  <2>4. parts' \in [Jobs \X Suffixes -> Seq(Chunk) \cup {NoFile}]
    BY <1>6, <2>3 DEF WriteChunk, TypeOK
  <2>5. worker' = [worker EXCEPT !.pc = "callback", !.pos = worker.pos + 1]
    BY <1>6 DEF WriteChunk
  <2>6. worker' \in WorkerType
    <3>1. worker \in WorkerType /\ worker.pos + 1 \in Nat
      BY WorkerFiles DEF TypeOK
    <3> QED BY <2>5, <3>1 DEF Pcs
  <2> QED BY <1>6, <2>4, <2>6 DEF WriteChunk, TypeOK
<1>7. CASE Replace
  <2>1. parts[Part(worker)] \in Seq(Chunk) \cup {NoFile}
    BY WorkerFiles DEF TypeOK
  <2>2. /\ library' \in [Names \X Suffixes -> Seq(Chunk) \cup {NoFile}]
        /\ parts' \in [Jobs \X Suffixes -> Seq(Chunk) \cup {NoFile}]
    BY <1>7, <2>1 DEF Replace, TypeOK
  <2>3. worker' \in WorkerType
    BY <1>7 DEF Replace, TypeOK, Pcs
  <2> QED BY <1>7, <2>2, <2>3 DEF Replace, TypeOK
<1>8. CASE CopyStart
  BY <1>8, EmptyFile DEF CopyStart, TypeOK, Pcs
<1>9. CASE CopyChunk
  <2> DEFINE copied == library[Destination(worker)]
             source == parts[Part(worker)]
  <2>1. source \in Seq(Chunk) /\ copied \in Seq(Chunk)
    BY <1>9, WorkerFiles DEF CopyChunk, PositionInv, DestinationInv
  <2>2. source[Len(copied) + 1] \in Chunk
    BY <1>9, <2>1 DEF CopyChunk
  <2>3. Append(copied, source[Len(copied) + 1]) \in Seq(Chunk)
    <3> HIDE DEF copied, source
    <3> QED BY <2>1, <2>2, AppendProperties
  <2>4. library' \in [Names \X Suffixes -> Seq(Chunk) \cup {NoFile}]
    BY <1>9, <2>3 DEF CopyChunk, TypeOK
  <2> QED BY <1>9, <2>4 DEF CopyChunk, TypeOK
<1>10. CASE CopyEnd
  BY <1>10 DEF CopyEnd, TypeOK, Pcs
<1>11. CASE Complete \/ Finish
  BY <1>11, IdleType DEF Complete, Finish, TypeOK, JobStates, Pcs
<1>12. CASE Failure
  <2>1. retries[worker.job] + 1 \in Nat /\ undone[worker.job] + 1 \in Nat
    BY WorkerFiles DEF TypeOK
  <2>2. retries' \in [Jobs -> Nat] /\ state' \in [Jobs -> JobStates]
    BY <1>12, <2>1 DEF Failure, AttemptFails, TypeOK, JobStates
  <2>3. worker' \in WorkerType
    BY <1>12, IdleType DEF Failure, AttemptFails, TypeOK, Pcs
  <2>4. undone' \in [Jobs -> Nat]
    BY <1>12, <2>1 DEF Failure, Undo, TypeOK
  <2>5. UNCHANGED <<cancel, version, parts, library, crossDevice, restarts>>
    BY <1>12 DEF Failure, AttemptFails
  <2> QED BY <2>2, <2>3, <2>4, <2>5 DEF TypeOK
<1>13. CASE Crash \/ Shutdown
  <2>1. undone[worker.job] + 1 \in Nat
    BY WorkerFiles DEF TypeOK
  <2>2. undone' \in [Jobs -> Nat]
    BY <1>13, <2>1 DEF Crash, Shutdown, Undo, TypeOK
  <2>3. restarts' \in 0..MaxRestarts
    BY <1>13, FilesAssumption DEF Crash, Shutdown, TypeOK
  <2>4. state' \in [Jobs -> JobStates]
    BY <1>13 DEF Crash, Shutdown, TypeOK, JobStates
  <2>5. worker' = Idle /\ UNCHANGED <<cancel, retries, version, parts, library, crossDevice>>
    BY <1>13 DEF Crash, Shutdown
  <2> QED BY <2>2, <2>3, <2>4, <2>5, IdleType DEF TypeOK
<1>14. ASSUME NEW j \in Jobs, RequestCancel(j) \/ Retry(j) PROVE TypeOK'
  <2>1. cancel' \in [Jobs -> BOOLEAN]
    BY <1>14 DEF RequestCancel, Retry, TypeOK
  <2>2. state' \in [Jobs -> JobStates]
    BY <1>14 DEF RequestCancel, Retry, TypeOK, JobStates
  <2>3. UNCHANGED <<retries, version, parts, library, crossDevice, worker, restarts, undone>>
    BY <1>14 DEF RequestCancel, Retry
  <2> QED BY <2>1, <2>2, <2>3 DEF TypeOK
<1>15. ASSUME NEW j \in Jobs, Edit(j) PROVE TypeOK'
  BY <1>15 DEF Edit, TypeOK
<1>16. CASE UNCHANGED vars
  BY <1>16 DEF vars, TypeOK
<1> QED BY <1>1, <1>2, <1>3, <1>4, <1>5, <1>6, <1>7, <1>8, <1>9, <1>10, <1>11, <1>12, <1>13,
           <1>14, <1>15, <1>16 DEF Next, Transfer, MoveFile

-----------------------------------------------------------------------------
(* The files of a step: it may change the part of the worker, or that of   *)
(* the job it begins, and the media of an edited message only get newer.   *)
LEMMA PartsStep ==
    ASSUME TypeOK, PartsInv, PositionInv, [Next]_vars
    PROVE  PartsInv'
<1>1. CASE WriteChunk
  <2> DEFINE s == parts[Part(worker)]
             c == <<worker.job, worker.version, worker.pos + 1>>
  <2>1. s \in Seq(Chunk) /\ Len(s) = worker.pos /\ s # NoFile
    BY <1>1, WorkerFiles DEF WriteChunk, PositionInv
  <2>2. /\ Len(Append(s, c)) = Len(s) + 1
        /\ \A i \in 1..Len(s) : Append(s, c)[i] = s[i]
        /\ Append(s, c)[Len(s) + 1] = c
    <3> HIDE DEF s, c
    <3> QED BY <2>1
  <2>3. worker.version <= version[worker.job] /\ version' = version
    BY <1>1 DEF WriteChunk, PositionInv
  <2>4. \A i \in 1..Len(s) :
            /\ s[i][1] = worker.job /\ s[i][2] <= version[worker.job]
            /\ s[i][3] = i /\ i <= SizeOf(s[i][2])
    BY <2>1, WorkerFiles DEF PartsInv, Part
  <2>5. \A i \in 1..Len(Append(s, c)) :
            /\ Append(s, c)[i][1] = worker.job
            /\ Append(s, c)[i][2] <= version[worker.job]
            /\ Append(s, c)[i][3] = i
            /\ i <= SizeOf(Append(s, c)[i][2])
    <3> SUFFICES ASSUME NEW i \in 1..Len(Append(s, c))
                 PROVE  /\ Append(s, c)[i][1] = worker.job
                        /\ Append(s, c)[i][2] <= version[worker.job]
                        /\ Append(s, c)[i][3] = i
                        /\ i <= SizeOf(Append(s, c)[i][2])
        OBVIOUS
    <3>1. /\ c[1] = worker.job /\ c[2] = worker.version /\ c[3] = worker.pos + 1
          /\ worker.pos + 1 <= SizeOf(worker.version)
      BY <1>1, WorkerFiles, FileFacts DEF WriteChunk
    <3>2. i \in 1..Len(s) \/ i = Len(s) + 1
      BY <2>1, <2>2
    <3> HIDE DEF s, c
    <3> QED BY <2>1, <2>2, <2>3, <2>4, <3>1, <3>2
  <2>6. parts' = [parts EXCEPT ![Part(worker)] = Append(s, c)]
    BY <1>1 DEF WriteChunk
  <2> HIDE DEF s, c
  <2>7. ASSUME NEW j \in Jobs, NEW n \in Suffixes
        PROVE  parts'[<<j, n>>] = IF <<j, n>> = Part(worker) THEN Append(s, c) ELSE parts[<<j, n>>]
    BY <2>6 DEF TypeOK
  <2> SUFFICES ASSUME NEW j \in Jobs, NEW n \in Suffixes, parts'[<<j, n>>] # NoFile,
                      NEW i \in 1..Len(parts'[<<j, n>>])
               PROVE  /\ parts'[<<j, n>>][i][1] = j
                      /\ parts'[<<j, n>>][i][2] <= version'[j]
                      /\ parts'[<<j, n>>][i][3] = i
                      /\ i <= SizeOf(parts'[<<j, n>>][i][2])
      BY DEF PartsInv, SizeOf
  <2>8. CASE <<j, n>> = Part(worker)
    <3>1. j = worker.job
      BY <2>8 DEF Part
    <3> QED BY <2>3, <2>5, <2>7, <2>8, <3>1
  <2>9. CASE <<j, n>> # Part(worker)
    BY <2>3, <2>7, <2>9 DEF PartsInv
  <2> QED BY <2>8, <2>9
<1>2. CASE ~ WriteChunk
  <2>1. /\ \A j \in Jobs, n \in Suffixes :
              parts'[<<j, n>>] \in {parts[<<j, n>>], NoFile, <<>>}
        /\ \A j \in Jobs : version'[j] \in {version[j], version[j] + 1}
    <3> USE DEF TypeOK
    <3>1. ASSUME NEW j \in Jobs, Begin(j)
          PROVE  version' = version /\ \A p \in Jobs \X Suffixes : parts'[p] \in {parts[p], NoFile}
      BY <3>1 DEF Begin
    <3>2. CASE Fetch
      BY <3>2 DEF Fetch
    <3>3. CASE CancelNoticed \/ Replace \/ CopyEnd
      BY <3>3 DEF CancelNoticed, Replace, CopyEnd
    <3>4. ASSUME NEW j \in Jobs, Edit(j)
          PROVE  parts' = parts /\ \A k \in Jobs : version'[k] \in {version[k], version[k] + 1}
      BY <3>4 DEF Edit
    <3>5. ASSUME NEW j \in Jobs, CancelBeforeStart(j) \/ Pause(j) \/ RequestCancel(j) \/ Retry(j)
          PROVE  UNCHANGED <<parts, version>>
      BY <3>5 DEF CancelBeforeStart, Pause, RequestCancel, Retry
    <3>6. CASE \/ Continue \/ EndTransfer \/ CopyStart \/ CopyChunk \/ Complete \/ Finish
               \/ Failure \/ Crash \/ Shutdown \/ UNCHANGED vars
      BY <3>6 DEF Continue, EndTransfer, CopyStart, CopyChunk, Complete, Finish, Failure,
                  AttemptFails, Crash, Shutdown, vars
    <3> QED BY <1>2, <3>1, <3>2, <3>3, <3>4, <3>5, <3>6 DEF Next, Transfer, MoveFile
  <2>2. \A j \in Jobs, n \in Suffixes : parts[<<j, n>>] # NoFile => parts[<<j, n>>] \in Seq(Chunk)
    BY WorkerFiles
  <2>3. \A j \in Jobs : version[j] \in Nat
    BY FilesAssumption DEF TypeOK, Versions
  <2>4. \A c \in Chunk : c[2] \in Nat
    BY FilesAssumption DEF Chunk, Versions
  <2> SUFFICES ASSUME NEW j \in Jobs, NEW n \in Suffixes, parts'[<<j, n>>] # NoFile,
                      NEW i \in 1..Len(parts'[<<j, n>>])
               PROVE  /\ parts'[<<j, n>>][i][1] = j
                      /\ parts'[<<j, n>>][i][2] <= version'[j]
                      /\ parts'[<<j, n>>][i][3] = i
                      /\ i <= SizeOf(parts'[<<j, n>>][i][2])
      BY DEF PartsInv, SizeOf
  <2>5. parts'[<<j, n>>] = parts[<<j, n>>]
    BY <2>1
  <2>6. parts[<<j, n>>][i] \in Chunk
    BY <2>2, <2>5
  <2>7. version[j] <= version'[j] /\ version'[j] \in Nat
    BY <2>1, <2>3
  <2> QED BY <2>3, <2>4, <2>5, <2>6, <2>7 DEF PartsInv
<1> QED BY <1>1, <1>2

LEMMA PositionStep ==
    ASSUME TypeOK, PartsInv, PositionInv, DestinationInv, [Next]_vars
    PROVE  PositionInv'
<1> USE DEF Part
<1>1. ASSUME NEW j \in Jobs, Begin(j) PROVE PositionInv'
  <2>1. PICK n \in Suffixes :
            /\ worker' = [pc |-> "fetch", job |-> j, suffix |-> n, version |-> 0,
                          pos |-> IF Resumable(j, n) THEN Len(parts[<<j, n>>]) ELSE 0]
            /\ parts' = [parts EXCEPT ![<<j, n>>] = IF Resumable(j, n) THEN @ ELSE NoFile]
    BY <1>1 DEF Begin
  <2>2. worker'.pc = "fetch" /\ Part(worker)' = <<j, n>>
    BY <2>1
  <2>3. worker'.pos > 0 => Resumable(j, n)
    BY <2>1
  <2>4. Resumable(j, n) =>
            /\ parts'[<<j, n>>] = parts[<<j, n>>] /\ parts[<<j, n>>] # NoFile
            /\ worker'.pos = Len(parts[<<j, n>>])
    BY <2>1 DEF Resumable, TypeOK
  <2> QED BY <2>2, <2>3, <2>4 DEF PositionInv
<1>2. CASE Fetch
  <2> DEFINE v == version[worker.job]
             total == Announced(worker.job, v)
             fresh == worker.pos = 0 \/ (total > 0 /\ worker.pos > total)
  <2>1. /\ worker.pc = "fetch"
        /\ worker'.job = worker.job /\ worker'.suffix = worker.suffix /\ worker'.version = v
        /\ worker'.pos = IF fresh THEN 0 ELSE worker.pos
        /\ worker'.pc = IF fresh THEN "transfer"
                        ELSE IF worker.pos = total THEN "move" ELSE "callback"
    BY <1>2 DEF Fetch, TypeOK
  <2>2. version' = version /\ v \in Nat /\ v = version[worker.job]
    BY <1>2, FilesAssumption DEF Fetch, TypeOK, Versions
  <2>3. parts'[Part(worker)] = IF fresh THEN <<>> ELSE parts[Part(worker)]
    BY <1>2 DEF Fetch, TypeOK
  <2>4. worker.pos \in Nat
    BY DEF TypeOK
  <2>5. v \in Versions /\ SizeOf(v) \in Nat /\ total \in {0, SizeOf(v)}
    BY FileFacts DEF TypeOK, Announced
  <2> HIDE DEF v, total, fresh
  <2>6. ~ fresh => worker.pos > 0
    BY <2>4 DEF fresh
  <2>7. Part(worker)' = Part(worker) /\ worker'.version <= version'[worker'.job]
    BY <2>1, <2>2
  <2>8. CASE fresh
    <3>1. parts'[Part(worker)] # NoFile /\ Len(parts'[Part(worker)]) = worker'.pos
      BY <2>1, <2>3, <2>8, EmptyFile
    <3> QED BY <2>1, <2>7, <2>8, <3>1 DEF PositionInv
  <2>9. CASE ~ fresh
    <3>1. parts'[Part(worker)] # NoFile /\ Len(parts'[Part(worker)]) = worker'.pos
      BY <2>1, <2>3, <2>6, <2>9 DEF PositionInv
    <3>2. worker'.pc = "move" => worker'.pos >= SizeOf(worker'.version)
      BY <2>1, <2>4, <2>6, <2>9, <2>5
    <3> QED BY <2>1, <2>7, <2>9, <3>1, <3>2 DEF PositionInv
  <2> QED BY <2>8, <2>9
<1>3. CASE WriteChunk
  <2>1. /\ worker' = [worker EXCEPT !.pc = "callback", !.pos = worker.pos + 1]
        /\ version' = version
        /\ parts'[Part(worker)] =
               Append(parts[Part(worker)], <<worker.job, worker.version, worker.pos + 1>>)
    BY <1>3 DEF WriteChunk, TypeOK
  <2>2. /\ worker'.pc = "callback" /\ worker'.pos = worker.pos + 1
        /\ UNCHANGED <<worker.job, worker.suffix, worker.version>>
    BY <2>1 DEF TypeOK
  <2>3. /\ parts[Part(worker)] \in Seq(Chunk) /\ Len(parts[Part(worker)]) = worker.pos
        /\ worker.version <= version[worker.job]
    BY <1>3, WorkerFiles DEF WriteChunk, PositionInv
  <2>4. <<worker.job, worker.version, worker.pos + 1>> \in Chunk
    BY WorkerFiles DEF Chunk
  <2>5. parts'[Part(worker)] \in Seq(Chunk) /\ Len(parts'[Part(worker)]) = worker.pos + 1
    <3> DEFINE s == parts[Part(worker)]
               c == <<worker.job, worker.version, worker.pos + 1>>
    <3>1. s \in Seq(Chunk) /\ c \in Chunk
      BY <2>3, <2>4
    <3>2. Append(s, c) \in Seq(Chunk) /\ Len(Append(s, c)) = Len(s) + 1
      <4> HIDE DEF s, c
      <4> QED BY <3>1, AppendProperties
    <3> QED BY <2>1, <2>3, <3>2
  <2> QED BY <2>1, <2>2, <2>3, <2>5, FileFacts DEF PositionInv
<1>4. CASE Continue \/ EndTransfer \/ CopyStart \/ CopyChunk
  <2>1. /\ UNCHANGED <<parts, version, worker.job, worker.suffix, worker.version, worker.pos>>
        /\ worker.pc \in {"callback", "transfer", "move", "copy"}
        /\ worker'.pc \in {"transfer", "move", "copy"}
        /\ worker'.pc \in {"move", "copy"} => worker.pos >= SizeOf(worker.version)
    BY <1>4 DEF Continue, EndTransfer, CopyStart, CopyChunk, TypeOK, PositionInv
  <2> QED BY <2>1 DEF PositionInv
<1>5. ASSUME worker'.pc \notin BeforeMove \cup {"copy"} PROVE PositionInv'
  BY <1>5 DEF PositionInv, BeforeMove
<1>6. CASE \/ CancelNoticed \/ Replace \/ CopyEnd \/ Complete \/ Finish \/ Failure
           \/ Crash \/ Shutdown \/ \E j \in Jobs : CancelBeforeStart(j) \/ Pause(j)
  <2>1. worker'.pc \in {"idle", "moved", "finish", "backoff"}
    BY <1>6, IdleType DEF CancelNoticed, Replace, CopyEnd, Complete, Finish, Failure, AttemptFails,
         Crash, Shutdown, CancelBeforeStart, Pause, TypeOK
  <2> QED BY <1>5, <2>1 DEF BeforeMove
<1>7. ASSUME NEW j \in Jobs, RequestCancel(j) \/ Retry(j) PROVE PositionInv'
  BY <1>7 DEF RequestCancel, Retry, PositionInv
<1>8. ASSUME NEW j \in Jobs, Edit(j) PROVE PositionInv'
  <2>1. UNCHANGED <<parts, worker>>
    BY <1>8 DEF Edit
  <2>2. worker.version \in Nat /\ version[worker.job] \in Nat
    BY FilesAssumption DEF TypeOK, Versions
  <2>3. version'[worker.job] \in {version[worker.job], version[worker.job] + 1}
    BY <1>8 DEF Edit, TypeOK
  <2> QED BY <2>1, <2>2, <2>3 DEF PositionInv
<1>9. CASE UNCHANGED vars
  BY <1>9 DEF vars, PositionInv
<1> QED BY <1>1, <1>2, <1>3, <1>4, <1>6, <1>7, <1>8, <1>9 DEF Next, Transfer, MoveFile

-----------------------------------------------------------------------------
(* What a transfer that is ready to move has: a whole media, when the      *)
(* message has only ever had one.                                          *)
LEMMA ReadyToMove ==
    ASSUME TypeOK, PartsInv, PositionInv, worker.pc \in {"move", "copy"}
    PROVE  /\ parts[Part(worker)] \in Seq(Chunk) /\ parts[Part(worker)] # NoFile
           /\ Len(parts[Part(worker)]) > 0
           /\ parts[Part(worker)][1][1] = worker.job
           /\ SameMedia(worker.job) => parts[Part(worker)] = Whole(worker.job, 0)
<1>1. /\ parts[Part(worker)] \in Seq(Chunk) /\ parts[Part(worker)] # NoFile
      /\ Len(parts[Part(worker)]) >= SizeOf(worker.version)
      /\ worker.version <= version[worker.job]
  BY WorkerFiles DEF PositionInv
<1>2. Len(parts[Part(worker)]) > 0
  BY <1>1, WorkerFiles, FileFacts
<1>3. parts[Part(worker)][1][1] = worker.job
  BY <1>1, <1>2, WorkerFiles DEF PartsInv, Part
<1>4. ASSUME SameMedia(worker.job) PROVE parts[Part(worker)] = Whole(worker.job, 0)
  <2>1. worker.version = 0
    BY <1>1, <1>4, WorkerFiles, FilesAssumption DEF SameMedia, Versions
  <2>2. Len(parts[Part(worker)]) >= SizeOf(0)
    BY <1>1, <2>1
  <2> QED BY <1>1, <1>4, <2>2, WorkerFiles, PartIsWhole DEF Part
<1> QED BY <1>1, <1>2, <1>3, <1>4

LEMMA DestinationStep ==
    ASSUME TypeOK, PartsInv, PositionInv, DestinationInv, [Next]_vars
    PROVE  DestinationInv'
<1>1. ASSUME NEW j \in Jobs, Begin(j) PROVE DestinationInv'
  <2>1. PICK n \in Suffixes :
            /\ library[<<Name[j], n>>] = NoFile
            /\ worker' = [pc |-> "fetch", job |-> j, suffix |-> n, version |-> 0,
                          pos |-> IF Resumable(j, n) THEN Len(parts[<<j, n>>]) ELSE 0]
    BY <1>1 DEF Begin, FreeName
  <2>2. worker'.pc = "fetch" /\ worker'.job = j /\ Destination(worker)' = <<Name[j], n>>
    BY <2>1 DEF Destination
  <2>3. library' = library /\ state'[j] = "downloading"
    BY <1>1 DEF Begin, TypeOK
  <2> QED BY <2>1, <2>2, <2>3 DEF DestinationInv, BeforeMove
<1>2. CASE Transfer /\ ~ CancelNoticed
  <2>1. /\ UNCHANGED <<library, state>> /\ worker.pc \in BeforeMove
        /\ worker'.pc \in BeforeMove /\ worker'.job = worker.job /\ worker'.suffix = worker.suffix
    BY <1>2 DEF Transfer, Fetch, Continue, WriteChunk, EndTransfer, TypeOK, BeforeMove
  <2>2. Destination(worker)' = Destination(worker)
    BY <2>1 DEF Destination
  <2> QED BY <2>1, <2>2 DEF DestinationInv, BeforeMove
<1>3. CASE Replace \/ CopyEnd
  <2>1. /\ worker.pc \in {"move", "copy"} /\ UNCHANGED <<state, version>>
        /\ worker'.pc = "moved" /\ worker'.job = worker.job /\ worker'.suffix = worker.suffix
    BY <1>3 DEF Replace, CopyEnd, TypeOK
  <2>2. library'[Destination(worker)] = parts[Part(worker)]
    BY <1>3, WorkerFiles DEF Replace, CopyEnd, TypeOK
  <2>3. Destination(worker)' = Destination(worker)
    BY <2>1 DEF Destination
  <2>4. SameMedia(worker.job) => library'[Destination(worker)] = Whole(worker.job, 0)
    BY <2>1, <2>2, ReadyToMove
  <2>5. (SameMedia(worker.job) => HoldsMedia(Destination(worker), worker.job))'
    BY <2>1, <2>3, <2>4, FileFacts DEF HoldsMedia, SameMedia, Whole, SizeOf, Versions
  <2> QED BY <2>1, <2>5 DEF DestinationInv, BeforeMove
<1>4. CASE CopyStart
  <2>1. /\ crossDevice' /\ state' = state /\ parts' = parts /\ worker.pc = "move"
        /\ worker'.pc = "copy" /\ worker'.job = worker.job /\ worker'.suffix = worker.suffix
        /\ library'[Destination(worker)] = <<>>
    BY <1>4, WorkerFiles DEF CopyStart, TypeOK
  <2>2. Destination(worker)' = Destination(worker) /\ Part(worker)' = Part(worker)
    BY <2>1 DEF Destination, Part
  <2>3. Len(parts[Part(worker)]) \in Nat
    BY <2>1, ReadyToMove
  <2> QED BY <2>1, <2>2, <2>3, EmptyFile DEF DestinationInv, BeforeMove
<1>5. CASE CopyChunk
  <2> DEFINE copied == library[Destination(worker)]
             source == parts[Part(worker)]
             c == source[Len(copied) + 1]
  <2>1. /\ UNCHANGED <<crossDevice, state, parts, worker>> /\ worker.pc = "copy"
        /\ library'[Destination(worker)] = Append(copied, c)
        /\ Len(copied) < Len(source)
    BY <1>5, WorkerFiles DEF CopyChunk, TypeOK
  <2>2. /\ source \in Seq(Chunk) /\ copied \in Seq(Chunk)
        /\ \A i \in 1..Len(copied) : copied[i] = source[i]
    BY <2>1, WorkerFiles, ReadyToMove DEF DestinationInv
  <2>3. c \in Chunk
    BY <2>1, <2>2
  <2>4. /\ Append(copied, c) \in Seq(Chunk)
        /\ Len(Append(copied, c)) = Len(copied) + 1
        /\ \A i \in 1..Len(copied) : Append(copied, c)[i] = copied[i]
        /\ Append(copied, c)[Len(copied) + 1] = c
    <3> HIDE DEF copied, source, c
    <3> QED BY <2>2, <2>3, AppendProperties
  <2>5. Destination(worker)' = Destination(worker) /\ Part(worker)' = Part(worker)
    BY <2>1 DEF Destination, Part
  <2>6. \A i \in 1..Len(Append(copied, c)) : Append(copied, c)[i] = source[i]
    <3>1. c = source[Len(copied) + 1]
      OBVIOUS
    <3> HIDE DEF copied, source, c
    <3>2. \A i \in 1..Len(Append(copied, c)) : i \in 1..Len(copied) \/ i = Len(copied) + 1
      BY <2>2, <2>4
    <3> QED BY <2>2, <2>4, <3>1, <3>2
  <2>7. Len(Append(copied, c)) <= Len(source) /\ Append(copied, c) # NoFile
    <3> HIDE DEF copied, source, c
    <3> QED BY <2>1, <2>2, <2>4, FileFacts
  <2>8. library'[Destination(worker)'] = Append(copied, c) /\ parts'[Part(worker)'] = source
    BY <2>1, <2>5
  <2> HIDE DEF copied, source, c
  <2> QED BY <2>1, <2>6, <2>7, <2>8 DEF DestinationInv, BeforeMove
<1>6. CASE \/ CancelNoticed \/ Finish \/ Failure
           \/ Crash \/ Shutdown \/ \E j \in Jobs : CancelBeforeStart(j) \/ Pause(j)
  <2>1. worker'.pc \in {"idle", "backoff"}
    BY <1>6, IdleType DEF CancelNoticed, Finish, Failure, AttemptFails,
         Crash, Shutdown, CancelBeforeStart, Pause, TypeOK
  <2> QED BY <2>1 DEF DestinationInv, BeforeMove
<1>7. CASE Complete
  <2>1. worker'.pc = "finish" /\ worker'.job = worker.job /\ state'[worker.job] = "completed"
    BY <1>7 DEF Complete, TypeOK
  <2> QED BY <2>1 DEF DestinationInv, BeforeMove
<1>8. ASSUME NEW j \in Jobs, RequestCancel(j) \/ Retry(j) PROVE DestinationInv'
  <2>1. UNCHANGED <<parts, version, library, crossDevice, worker>>
    BY <1>8 DEF RequestCancel, Retry
  <2>2. state[worker.job] \in {"downloading", "completed"} => state'[worker.job] = state[worker.job]
    BY <1>8 DEF RequestCancel, Retry, TypeOK
  <2> QED BY <2>1, <2>2 DEF DestinationInv, HoldsMedia, SameMedia, Destination, Part
<1>9. ASSUME NEW j \in Jobs, Edit(j) PROVE DestinationInv'
  <2>1. UNCHANGED <<parts, library, crossDevice, worker, state>>
    BY <1>9 DEF Edit
  <2>2. version[worker.job] \in Nat
        /\ version'[worker.job] \in {version[worker.job], version[worker.job] + 1}
    BY <1>9, FilesAssumption DEF Edit, TypeOK, Versions
  <2>3. SameMedia(worker.job)' => SameMedia(worker.job)
    BY <2>1, <2>2 DEF SameMedia
  <2> QED BY <2>1, <2>3 DEF DestinationInv, HoldsMedia, Destination, Part
<1>10. CASE UNCHANGED vars
  BY <1>10 DEF vars, DestinationInv, HoldsMedia, SameMedia, Destination, Part
<1> QED BY <1>1, <1>2, <1>3, <1>4, <1>5, <1>6, <1>7, <1>8, <1>9, <1>10 DEF Next, Transfer, MoveFile

-----------------------------------------------------------------------------
\* What a step does to the library and to the media of the messages.
LEMMA LibraryChanges ==
    ASSUME TypeOK, [Next]_vars
    PROVE  /\ crossDevice' = crossDevice
           /\ \A j \in Jobs : SameMedia(j)' => SameMedia(j)
           /\ \/ library' = library
              \/ /\ Replace
                 /\ library' = [library EXCEPT ![Destination(worker)] = parts[Part(worker)]]
              \/ /\ CopyStart
                 /\ library' = [library EXCEPT ![Destination(worker)] = <<>>]
              \/ /\ CopyChunk
                 /\ \E c : library' = [library EXCEPT ![Destination(worker)] = c]
<1>1. ASSUME NEW j \in Jobs, Edit(j)
      PROVE  UNCHANGED <<library, crossDevice>> /\ \A k \in Jobs : SameMedia(k)' => SameMedia(k)
  <2>1. \A k \in Jobs : version[k] \in Nat /\ version'[k] \in {version[k], version[k] + 1}
    BY <1>1, FilesAssumption DEF Edit, TypeOK, Versions
  <2> QED BY <1>1, <2>1 DEF Edit, SameMedia
<1>2. ASSUME NEW j \in Jobs,
             CancelBeforeStart(j) \/ Pause(j) \/ Begin(j) \/ RequestCancel(j) \/ Retry(j)
      PROVE  UNCHANGED <<library, crossDevice, version>>
  BY <1>2 DEF CancelBeforeStart, Pause, Begin, RequestCancel, Retry
<1>3. CASE Transfer \/ CopyEnd \/ Complete \/ Finish \/ Failure \/ Crash \/ Shutdown \/ UNCHANGED vars
  BY <1>3 DEF Transfer, Fetch, Continue, CancelNoticed, WriteChunk, EndTransfer, CopyEnd, Complete,
              Finish, Failure, AttemptFails, Crash, Shutdown, vars, SameMedia
<1>4. CASE Replace \/ CopyStart
  BY <1>4 DEF Replace, CopyStart, SameMedia
<1>5. CASE CopyChunk
  BY <1>5 DEF CopyChunk, SameMedia
<1> QED BY <1>1, <1>2, <1>3, <1>4, <1>5 DEF Next, MoveFile, SameMedia

LEMMA WholeStep ==
    ASSUME TypeOK, PartsInv, PositionInv, DestinationInv, LibraryHoldsWholeFiles, [Next]_vars
    PROVE  LibraryHoldsWholeFiles'
<1> SUFFICES ASSUME ~ crossDevice', NEW f \in DOMAIN library', library'[f] # NoFile
             PROVE  (/\ library[f] # <<>>
                     /\ SameMedia(library[f][1][1]) => HoldsMedia(f, library[f][1][1]))'
    BY DEF LibraryHoldsWholeFiles
<1>1. ~ crossDevice /\ ~ CopyStart /\ ~ CopyChunk
  BY LibraryChanges DEF CopyStart, CopyChunk, DestinationInv
<1>2. CASE library'[f] = library[f] /\ f \in DOMAIN library
  <2>1. /\ library[f] # <<>>
        /\ SameMedia(library[f][1][1]) => HoldsMedia(f, library[f][1][1])
    BY <1>1, <1>2 DEF LibraryHoldsWholeFiles
  <2>2. library[f][1][1] \in Jobs
    <3>1. library[f] \in Seq(Chunk)
      BY <1>2, WorkerFiles DEF TypeOK
    <3>2. 1 \in 1..Len(library[f])
      BY <2>1, <3>1
    <3>3. library[f][1] \in Chunk
      BY <3>1, <3>2
    <3> QED BY <3>3 DEF Chunk
  <2>3. PICK k \in Jobs : k = library[f][1][1]
    BY <2>2
  <2>4. k = library'[f][1][1] /\ (SameMedia(k)' => SameMedia(k))
    BY <1>2, <2>3, LibraryChanges
  <2>5. HoldsMedia(f, k) => HoldsMedia(f, k)'
    BY <1>2 DEF HoldsMedia
  <2>6. SameMedia(k)' => HoldsMedia(f, k)'
    BY <2>1, <2>3, <2>4, <2>5
  <2> QED BY <1>2, <2>1, <2>4, <2>6 DEF SameMedia, HoldsMedia
<1>3. CASE Replace /\ f = Destination(worker)
  <2>1. library'[f] = parts[Part(worker)] /\ worker.pc = "move" /\ version' = version
    BY <1>3, WorkerFiles DEF Replace, TypeOK
  <2>2. /\ library'[f] # <<>> /\ library'[f][1][1] = worker.job
        /\ SameMedia(worker.job) => library'[f] = Whole(worker.job, 0)
    BY <2>1, ReadyToMove
  <2> QED BY <2>1, <2>2, FileFacts DEF HoldsMedia, SameMedia
<1> QED BY <1>1, <1>2, <1>3, LibraryChanges, WorkerFiles DEF TypeOK

LEMMA WholeIsFile ==
    ASSUME NEW j \in Jobs, NEW v \in Versions
    PROVE  Whole(j, v) # NoFile /\ Whole(j, v) # <<>> /\ Whole(j, v)[1][1] = j
<1>1. SizeOf(v) \in Nat /\ SizeOf(v) > 0
  BY FileFacts
<1>2. \A i \in 1..SizeOf(v) : <<j, v, i>> \in Chunk
  BY <1>1 DEF Chunk
<1>3. Whole(j, v) \in Seq(Chunk)
  BY <1>1, <1>2 DEF Whole
<1>4. Whole(j, v)[1] = <<j, v, 1>>
  BY <1>1 DEF Whole
<1>5. Len(Whole(j, v)) = SizeOf(v)
  BY <1>1 DEF Whole
<1> QED BY <1>1, <1>3, <1>4, <1>5, FileFacts

(* The file of a completed job is not the one a worker writes: that one is *)
(* free before the move, and holds chunks of a job that is not completed.  *)
LEMMA CompletedStep ==
    ASSUME TypeOK, PartsInv, PositionInv, DestinationInv, CompletedHasMedia, [Next]_vars
    PROVE  CompletedHasMedia'
<1> SUFFICES ASSUME NEW j \in Jobs, state'[j] = "completed", SameMedia(j)'
             PROVE  (\E n \in Suffixes : HoldsMedia(<<Name[j], n>>, j))'
    BY DEF CompletedHasMedia
<1>1. SameMedia(j)
  BY LibraryChanges
<1>2. CASE Complete /\ j = worker.job
  <2>1. HoldsMedia(Destination(worker), j) /\ library' = library
    BY <1>1, <1>2 DEF Complete, DestinationInv
  <2> QED BY <1>2, <2>1, WorkerFiles DEF HoldsMedia, Destination
<1>3. CASE ~ (Complete /\ j = worker.job)
  <2>1. state[j] = "completed"
    <3>1. ASSUME NEW k \in Jobs,
                 \/ CancelBeforeStart(k) \/ Pause(k) \/ Begin(k) \/ RequestCancel(k) \/ Retry(k) \/ Edit(k)
          PROVE  state[j] = "completed"
      BY <3>1 DEF CancelBeforeStart, Pause, Begin, MayBegin, RequestCancel, Retry, Edit, TypeOK
    <3>2. CASE Transfer \/ MoveFile \/ Finish \/ UNCHANGED vars
      BY <3>2 DEF Transfer, Fetch, Continue, CancelNoticed, WriteChunk, EndTransfer, MoveFile, Replace,
                  CopyStart, CopyChunk, CopyEnd, Finish, vars, TypeOK
    <3>3. CASE Failure \/ Crash \/ Shutdown
      BY <3>3 DEF Failure, AttemptFails, Crash, Shutdown, TypeOK
    <3>4. CASE Complete
      BY <1>3, <3>4 DEF Complete, TypeOK
    <3> QED BY <3>1, <3>2, <3>3, <3>4 DEF Next
  <2>2. PICK n \in Suffixes, v \in Versions : library[<<Name[j], n>>] = Whole(j, v)
    BY <1>1, <2>1 DEF CompletedHasMedia, HoldsMedia
  <2> DEFINE f == <<Name[j], n>>
  <2>3. f \in Names \X Suffixes
    BY FilesAssumption
  <2>4. library[f] # NoFile /\ library[f] # <<>> /\ library[f][1][1] = j
    BY <2>2, WholeIsFile
  <2>5. CASE worker.pc \in {"move", "copy"} /\ f = Destination(worker)
    <3>1. worker.pc = "copy" /\ state[worker.job] = "downloading"
      BY <2>4, <2>5 DEF DestinationInv, BeforeMove
    <3>2. 1 \in 1..Len(library[f])
      BY <2>3, <2>4, WorkerFiles
    <3>3. library[f][1] = parts[Part(worker)][1]
      BY <2>5, <3>1, <3>2 DEF DestinationInv
    <3>4. j = worker.job
      BY <2>4, <3>1, <3>3, ReadyToMove
    <3> QED BY <2>1, <3>1, <3>4
  <2>6. CASE worker.pc \notin {"move", "copy"} \/ f # Destination(worker)
    <3>1. library'[f] = library[f]
      BY <2>3, <2>6, LibraryChanges DEF Replace, CopyStart, CopyChunk, TypeOK
    <3> QED BY <2>2, <3>1 DEF HoldsMedia
  <2> QED BY <2>5, <2>6
<1> QED BY <1>2, <1>3

(* A step other than the move takes what a job is entitled to              *)
(* away only by counting an interruption.                                  *)
LEMMA DeliveredStep ==
    ASSUME TypeOK, DestinationInv, [Next]_vars, ~ Replace, NEW j \in Jobs
    PROVE  \/ undone'[j] = undone[j] /\ (Delivered(j) => Delivered(j)')
           \/ undone'[j] = undone[j] + 1
<1> USE DEF Delivered, TypeOK
<1>1. ASSUME NEW k \in Jobs,
             \/ CancelBeforeStart(k) \/ Pause(k) \/ Begin(k) \/ RequestCancel(k) \/ Retry(k) \/ Edit(k)
      PROVE  undone'[j] = undone[j] /\ (Delivered(j) => Delivered(j)')
  BY <1>1 DEF CancelBeforeStart, Pause, Begin, RequestCancel, Retry, Edit, MayBegin
<1>2. CASE Transfer
  BY <1>2 DEF Transfer, Fetch, Continue, CancelNoticed, WriteChunk, EndTransfer, DestinationInv, BeforeMove
<1>3. CASE CopyStart \/ CopyChunk \/ CopyEnd \/ Complete \/ Finish \/ UNCHANGED vars
  BY <1>3 DEF CopyStart, CopyChunk, CopyEnd, Complete, Finish, vars
<1>4. CASE Failure
  BY <1>4 DEF Failure, AttemptFails, Undo, DestinationInv, BeforeMove
<1>5. CASE Crash
  BY <1>5 DEF Crash, Undo
<1>6. CASE Shutdown
  BY <1>6 DEF Shutdown, Undo, DestinationInv, BeforeMove
<1> QED BY <1>1, <1>2, <1>3, <1>4, <1>5, <1>6 DEF Next, MoveFile

(* Only the move adds a file, to the copies of the job of the worker: its  *)
(* destination was free, and the part it moves begins with a chunk of it.  *)
LEMMA ReplaceAddsCopy ==
    ASSUME TypeOK, PartsInv, PositionInv, DestinationInv, Replace, NEW j \in Jobs
    PROVE  Copies(j)' = IF j = worker.job THEN Copies(j) \cup {Destination(worker)} ELSE Copies(j)
<1> DEFINE D == Destination(worker)
<1>1. /\ worker.pc = "move" /\ D \in DOMAIN library /\ library[D] = NoFile
      /\ library' = [library EXCEPT ![D] = parts[Part(worker)]]
  BY WorkerFiles DEF Replace, DestinationInv, BeforeMove, TypeOK
<1>2. /\ parts[Part(worker)] # NoFile /\ parts[Part(worker)] # <<>>
      /\ parts[Part(worker)][1][1] = worker.job
  BY <1>1, ReadyToMove
<1>3. /\ DOMAIN library' = DOMAIN library /\ library'[D] = parts[Part(worker)]
      /\ \A f \in DOMAIN library : f # D => library'[f] = library[f]
  BY <1>1
<1> HIDE DEF D
<1>4. D \notin Copies(j)
  BY <1>1 DEF Copies
<1>5. D \in Copies(j)' <=> j = worker.job
  BY <1>1, <1>2, <1>3 DEF Copies
<1>6. \A f : f # D => (f \in Copies(j)' <=> f \in Copies(j))
  BY <1>3 DEF Copies
<1>7. \A f : f \in Copies(j)' <=> (f \in Copies(j) \/ (f = D /\ j = worker.job))
  BY <1>4, <1>5, <1>6
<1> QED BY <1>7 DEF D

LEMMA CopiesStep ==
    ASSUME TypeOK, PartsInv, PositionInv, DestinationInv, CopiesInv, [Next]_vars
    PROVE  CopiesInv'
<1> SUFFICES ASSUME ~ crossDevice', NEW j \in Jobs
             PROVE  /\ IsFiniteSet(Copies(j)')
                    /\ Cardinality(Copies(j)') <= undone'[j] + (IF Delivered(j)' THEN 1 ELSE 0)
    BY DEF CopiesInv
<1>1. /\ ~ crossDevice /\ IsFiniteSet(Copies(j))
      /\ Cardinality(Copies(j)) <= undone[j] + (IF Delivered(j) THEN 1 ELSE 0)
  BY LibraryChanges DEF CopiesInv
<1>2. Cardinality(Copies(j)) \in Nat /\ undone[j] \in Nat
  BY <1>1, FS_CardinalityType DEF TypeOK
<1>3. CASE Replace /\ j = worker.job
  <2>1. Copies(j)' = Copies(j) \cup {Destination(worker)}
    BY <1>3, ReplaceAddsCopy
  <2>2. IsFiniteSet(Copies(j)') /\ Cardinality(Copies(j)') <= Cardinality(Copies(j)) + 1
    BY <1>1, <1>2, <2>1, FS_AddElement
  <2>3. ~ Delivered(j)
    BY <1>3 DEF Replace, Delivered, DestinationInv, BeforeMove
  <2>4. Delivered(j)' /\ undone'[j] = undone[j]
    BY <1>3 DEF Replace, Delivered, TypeOK
  <2>5. Cardinality(Copies(j)') \in Nat
    BY <2>2, FS_CardinalityType
  <2> QED BY <1>1, <1>2, <2>2, <2>3, <2>4, <2>5
<1>4. CASE Replace /\ j # worker.job
  <2>1. Copies(j)' = Copies(j)
    BY <1>4, ReplaceAddsCopy
  <2>2. (Delivered(j) => Delivered(j)') /\ undone'[j] = undone[j]
    BY <1>4 DEF Replace, Delivered
  <2> QED BY <1>1, <1>2, <2>1, <2>2
<1>5. CASE ~ Replace
  <2>1. library' = library
    BY <1>1, <1>5, LibraryChanges DEF CopyStart, CopyChunk, DestinationInv
  <2>2. Copies(j)' = Copies(j)
    BY <2>1 DEF Copies
  <2> QED BY <1>1, <1>2, <1>5, <2>2, DeliveredStep
<1> QED BY <1>3, <1>4, <1>5

-----------------------------------------------------------------------------
(* Every reachable state of every behaviour satisfies the invariant.       *)
THEOREM MediaInvariant == Spec => []MediaInv
<1>1. MediaInv /\ [Next]_vars => MediaInv'
  BY TypeStep, PartsStep, PositionStep, DestinationStep, WholeStep, CompletedStep,
     CopiesStep DEF MediaInv
<1> QED BY <1>1, InitMedia, PTL DEF Spec

(* The tables, the files and the worker keep their types.                  *)
THEOREM TypeCorrect == Spec => []TypeOK
<1>1. MediaInv => TypeOK
  BY DEF MediaInv
<1> QED BY <1>1, MediaInvariant, PTL

(* A transfer, resumed or not, neither skips nor repeats a chunk.          *)
THEOREM PartIsExact == Spec => []PartMatchesPosition
<1>1. MediaInv => PartMatchesPosition
  <2> SUFFICES ASSUME MediaInv, worker.pc \in {"transfer", "callback", "move"}
               PROVE  /\ parts[Part(worker)] # NoFile
                      /\ Len(parts[Part(worker)]) = worker.pos
                      /\ \A i \in 1..worker.pos : parts[Part(worker)][i][3] = i
      BY DEF PartMatchesPosition
  <2>1. parts[Part(worker)] # NoFile /\ Len(parts[Part(worker)]) = worker.pos
    BY DEF MediaInv, PositionInv
  <2> QED BY <2>1, WorkerFiles DEF MediaInv, PartsInv, Part
<1> QED BY <1>1, MediaInvariant, PTL

(* On one device the library never shows a file that is not whole.         *)
THEOREM LibraryIsWhole == Spec => []LibraryHoldsWholeFiles
<1>1. MediaInv => LibraryHoldsWholeFiles
  BY DEF MediaInv
<1> QED BY <1>1, MediaInvariant, PTL

(* A COMPLETED job has its whole media in the library, on one device and   *)
(* across two, for any number of failures, kills and retries.              *)
THEOREM CompletedIsInLibrary == Spec => []CompletedHasMedia
<1>1. MediaInv => CompletedHasMedia
  BY DEF MediaInv
<1> QED BY <1>1, MediaInvariant, PTL

(* On one device a job has one file in the library, and one more for each  *)
(* time process() was interrupted between the move and its return.         *)
THEOREM CopiesAreBounded == Spec => []CopiesAreAccounted
<1>1. MediaInv => CopiesAreAccounted
  <2> SUFFICES ASSUME MediaInv, ~ crossDevice, NEW j \in Jobs
               PROVE  Cardinality(Copies(j)) <= 1 + undone[j]
      BY DEF CopiesAreAccounted
  <2>1. /\ IsFiniteSet(Copies(j))
        /\ Cardinality(Copies(j)) <= undone[j] + (IF Delivered(j) THEN 1 ELSE 0)
    BY DEF MediaInv, CopiesInv
  <2>2. Cardinality(Copies(j)) \in Nat /\ undone[j] \in Nat
    BY <2>1, FS_CardinalityType DEF MediaInv, TypeOK
  <2> QED BY <2>1, <2>2
<1> QED BY <1>1, MediaInvariant, PTL

(* No step overwrites, truncates or removes a file of the library.         *)
THEOREM LibraryIsKept == Spec => LibraryOnlyGrows
<1>1. MediaInv /\ [Next]_vars =>
        [\A f \in DOMAIN library :
            library[f] # NoFile =>
                \/ library'[f] = library[f]
                \/ worker.pc = "copy" /\ f = Destination(worker)]_vars
  <2> SUFFICES ASSUME MediaInv, [Next]_vars, NEW f \in DOMAIN library, library[f] # NoFile,
                      ~ (worker.pc = "copy" /\ f = Destination(worker))
               PROVE  library'[f] = library[f]
      OBVIOUS
  <2>1. worker.pc = "move" => f # Destination(worker)
    BY DEF MediaInv, DestinationInv, BeforeMove
  <2> QED BY <2>1, LibraryChanges DEF MediaInv, TypeOK, Replace, CopyStart, CopyChunk
<1> QED BY <1>1, MediaInvariant, PTL DEF Spec, LibraryOnlyGrows

-----------------------------------------------------------------------------
(* The lifecycle of the jobs.  DownloadQueue models process() with its     *)
(* queue, this module with its files; they agree on what it does to a job. *)
Lifecycle == INSTANCE JobLifecycle WITH status <- state

RefreshUndoes ==
    /\ worker.pc = "finish"
    /\ \E to \in {"queued", "failed"} : Lifecycle!Move(worker.job, {"completed"}, to)

LEMMA LifecycleStep ==
    ASSUME TypeOK, DestinationInv, [Next]_vars
    PROVE  [Lifecycle!Next \/ RefreshUndoes]_state
<1> USE DEF Lifecycle!Move
<1>1. worker.job \in Jobs
  BY WorkerFiles
<1>2. ASSUME NEW j \in Jobs, CancelBeforeStart(j)
      PROVE  Lifecycle!Cancel(j)
  BY <1>2 DEF CancelBeforeStart, MayBegin, Lifecycle!Cancel
<1>3. ASSUME NEW j \in Jobs, Begin(j)
      PROVE  Lifecycle!Begin(j)
  BY <1>3 DEF Begin, MayBegin, Lifecycle!Begin
<1>4. ASSUME NEW j \in Jobs, Retry(j)
      PROVE  Lifecycle!Retry(j)
  BY <1>4 DEF Retry, Lifecycle!Retry
<1>5. CASE CancelNoticed
  BY <1>1, <1>5 DEF CancelNoticed, DestinationInv, BeforeMove, Lifecycle!Cancel, Lifecycle!Next
<1>6. CASE Complete
  BY <1>1, <1>6 DEF Complete, DestinationInv, BeforeMove, Lifecycle!Complete, Lifecycle!Next
<1>7. CASE Failure
  <2>1. PICK to \in {"queued", "failed"} : state' = [state EXCEPT ![worker.job] = to]
    BY <1>7 DEF Failure, AttemptFails
  <2>2. CASE worker.pc = "finish"
    BY <2>1, <2>2 DEF DestinationInv, RefreshUndoes
  <2>3. CASE worker.pc # "finish"
    <3>1. state[worker.job] = "downloading"
      BY <1>7, <2>3 DEF Failure, DestinationInv, BeforeMove
    <3> QED BY <1>1, <2>1, <3>1 DEF Lifecycle!Requeue, Lifecycle!Fail, Lifecycle!Next
  <2> QED BY <2>2, <2>3
<1>8. CASE Shutdown
  <2>1. state' = [state EXCEPT ![worker.job] = "queued"]
    BY <1>8 DEF Shutdown
  <2>2. CASE worker.pc = "finish"
    BY <2>1, <2>2 DEF DestinationInv, RefreshUndoes
  <2>3. CASE worker.pc # "finish"
    <3>1. state[worker.job] = "downloading"
      BY <1>8, <2>3 DEF Shutdown, DestinationInv, BeforeMove
    <3> QED BY <1>1, <2>1, <3>1 DEF Lifecycle!Requeue, Lifecycle!Next
  <2> QED BY <2>2, <2>3
<1>9. CASE Crash
  BY <1>9 DEF Crash, Lifecycle!Recover, Lifecycle!Next
<1>10. ASSUME NEW j \in Jobs, RequestCancel(j) \/ Edit(j)
       PROVE  state' = state
  BY <1>10 DEF RequestCancel, Edit
<1>11. CASE \/ Fetch \/ Continue \/ WriteChunk \/ EndTransfer \/ MoveFile
            \/ Finish \/ UNCHANGED vars
  BY <1>11 DEF Fetch, Continue, WriteChunk, EndTransfer, MoveFile, Replace, CopyStart, CopyChunk,
     CopyEnd, Finish, vars
<1>12. ASSUME NEW j \in Jobs, Pause(j)
       PROVE  [Lifecycle!Pause(j)]_state
  BY <1>12 DEF Pause, MayBegin, Lifecycle!Pause, TypeOK
<1> QED BY <1>2, <1>3, <1>4, <1>5, <1>6, <1>7, <1>8, <1>9, <1>10, <1>11, <1>12
        DEF Next, Transfer, Lifecycle!Next

(* Whatever happens to its files, a job only moves along its lifecycle;    *)
(* the only exception is an error or a shutdown after the UPDATE to        *)
(* COMPLETED, during the refresh of Jellyfin.                              *)
THEOREM FilesFollowLifecycle == Spec => [][Lifecycle!Next \/ RefreshUndoes]_state
<1>1. MediaInv /\ [Next]_vars => [Lifecycle!Next \/ RefreshUndoes]_state
  BY LifecycleStep DEF MediaInv
<1> QED BY <1>1, MediaInvariant, PTL DEF Spec
=============================================================================
