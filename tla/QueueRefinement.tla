--------------------------- MODULE QueueRefinement ---------------------------
(***************************************************************************)
(* DownloadQueue implements JobLifecycle: the state column of the table    *)
(* is the status of the job, an id that was given out and has no row any   *)
(* more is a job that was cleared.                                         *)
(***************************************************************************)
EXTENDS DownloadQueue

StatusOf(j) ==
    IF Exists(rows, j) THEN rows[j].state
    ELSE IF j < nextId THEN "cleared" ELSE "new"

Lifecycle == INSTANCE JobLifecycle
    WITH Jobs <- JobIds, status <- [j \in JobIds |-> StatusOf(j)]

(* Every step of the queue moves at most one job, along its lifecycle, or  *)
(* recovers after a start or clears the history: no coroutine writes over  *)
(* what another one has done.                                              *)
ImplementsLifecycle == Lifecycle!Spec
=============================================================================
