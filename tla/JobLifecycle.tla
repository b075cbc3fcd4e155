---------------------------- MODULE JobLifecycle ----------------------------
(***************************************************************************)
(* What the application promises about download jobs, without its queue,   *)
(* its coroutines or its database: the states of models.DownloadState and  *)
(* the moves between them, one job at a time.  DownloadQueue implements    *)
(* this specification.                                                     *)
(***************************************************************************)
CONSTANT Jobs

VARIABLE status     \* the state of every job, "new" before it exists

Statuses == {"new", "queued", "downloading", "completed", "failed",
             "cancelled", "paused", "cleared"}

Over == {"completed", "failed", "cancelled"}

Init == status = [j \in Jobs |-> "new"]

Move(j, from, to) ==
    /\ status[j] \in from
    /\ status' = [status EXCEPT ![j] = to]

Submit(j) == Move(j, {"new"}, "queued")

Begin(j) == Move(j, {"queued", "paused"}, "downloading")

Pause(j) == Move(j, {"queued"}, "paused")

Cancel(j) == Move(j, {"queued", "paused", "downloading"}, "cancelled")

Complete(j) == Move(j, {"downloading"}, "completed")

Fail(j) == Move(j, {"downloading"}, "failed")

\* An attempt that failed, or that a shutdown interrupted.
Requeue(j) == Move(j, {"downloading"}, "queued")

\* A start queues every transfer that was interrupted.
Recover ==
    status' = [j \in Jobs |-> IF status[j] = "downloading" THEN "queued" ELSE status[j]]

\* A retry asked for by the user.
Retry(j) == Move(j, {"failed", "cancelled"}, "queued")

\* Clearing the history forgets every job that is over, and no other.
Clear ==
    status' = [j \in Jobs |-> IF status[j] \in Over THEN "cleared" ELSE status[j]]

Next ==
    \/ \E j \in Jobs :
        \/ Submit(j) \/ Begin(j) \/ Pause(j) \/ Cancel(j) \/ Complete(j)
        \/ Fail(j) \/ Requeue(j) \/ Retry(j)
    \/ Recover
    \/ Clear

Spec == Init /\ [][Next]_status
=============================================================================
