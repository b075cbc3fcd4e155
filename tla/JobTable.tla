------------------------------ MODULE JobTable ------------------------------
(***************************************************************************)
(* The `downloads` table of app/database.py: one operator per statement    *)
(* the application runs against it.  Every operator takes the table and    *)
(* returns the table after the statement, or what the statement selects.   *)
(*                                                                         *)
(* A row keeps the four columns the control flow reads: its state, the     *)
(* Telegram message it came from (messages are numbered in the order of    *)
(* their dates), the cancel flag and the retry counter.  Row ids are       *)
(* AUTOINCREMENT, so an id is never given to a second row; an id whose row *)
(* does not exist (yet, or any more) has the row AbsentRow.                *)
(***************************************************************************)
EXTENDS Naturals

CONSTANTS
    MaxJobs,    \* bound: how many rows are ever inserted
    Messages,   \* message numbers; also their date order
    Uid,        \* the file_unique_id of the media each message carries
    NoUid       \* the unique id of media that is not a document

ASSUME TableAssumption ==
    /\ MaxJobs \in Nat \ {0}
    /\ Messages \subseteq Nat
    /\ 0 \notin Messages
    /\ Messages \subseteq DOMAIN Uid

JobIds == 1..MaxJobs

States == {"absent", "queued", "downloading", "completed", "failed",
           "cancelled", "paused"}

\* The states from which a job may be (re)started: enqueue, process and
\* queued_ids all test for these two.
Waiting == {"queued", "paused"}

\* The states in which a row blocks a second row for the same file.
Holding == {"queued", "downloading", "paused", "completed"}

Finished == {"completed", "failed", "cancelled"}

Row == [state : States, msg : Messages \cup {0}, cancel : BOOLEAN, retries : Nat]

AbsentRow == [state |-> "absent", msg |-> 0, cancel |-> FALSE, retries |-> 0]

NewRow(m) == [state |-> "queued", msg |-> m, cancel |-> FALSE, retries |-> 0]

EmptyTable == [j \in JobIds |-> AbsentRow]

Exists(rows, j) == rows[j].state # "absent"

-----------------------------------------------------------------------------
(* add_download: the lookup by unique id, then the UNIQUE constraint of    *)
(* (chat_id, message_id), decide whether the row is inserted.              *)

SameFile(m, n) == Uid[m] # NoUid /\ Uid[m] = Uid[n]

\* Mutant: only the UNIQUE constraint is left.
DuplicateMessage(rows, m) == \E j \in JobIds : Exists(rows, j) /\ rows[j].msg = m

Duplicate(rows, m) ==
    \E j \in JobIds :
        /\ Exists(rows, j)
        /\ \/ rows[j].state \in Holding /\ SameFile(rows[j].msg, m)
           \/ rows[j].msg = m

Insert(rows, j, m) == [rows EXCEPT ![j] = NewRow(m)]

-----------------------------------------------------------------------------
\* Mutants: the UPDATE is missing, or has lost its WHERE clause.
RecoverNothing(rows) == rows

RecoverAll(rows) ==
    [j \in JobIds |-> IF Exists(rows, j) THEN [rows[j] EXCEPT !.state = "queued"]
                      ELSE rows[j]]

(* initialize: rows a killed process left DOWNLOADING are queued again.    *)
Recover(rows) ==
    [j \in JobIds |-> IF rows[j].state = "downloading"
                      THEN [rows[j] EXCEPT !.state = "queued"]
                      ELSE rows[j]]

\* Mutant: PAUSED is left out of the scan.
QueuedOnly(rows) ==
    { [id |-> j, msg |-> rows[j].msg] : j \in {k \in JobIds : rows[k].state = "queued"} }

(* queued_ids: the ids the start-up scan enqueues, with the message number *)
(* they are ordered by.                                                    *)
Queued(rows) ==
    { [id |-> j, msg |-> rows[j].msg] : j \in {k \in JobIds : rows[k].state \in Waiting} }

Before(a, b) == a.msg < b.msg \/ (a.msg = b.msg /\ a.id <= b.id)

-----------------------------------------------------------------------------
(* transition: an UPDATE of one row, that touches nothing when the row is  *)
(* gone or its state is not among the allowed ones.                        *)
Transition(rows, j, allowedFrom, to) ==
    IF rows[j].state \in allowedFrom \ {"absent"}
    THEN [rows EXCEPT ![j].state = to]
    ELSE rows

TransitionRetry(rows, j, to, n) ==
    IF Exists(rows, j)
    THEN [rows EXCEPT ![j].state = to, ![j].retries = n]
    ELSE rows

(* request_cancel only raises the flag; the download notices it later.     *)
Cancellable(rows, j) == rows[j].state \in {"queued", "downloading"}

RequestCancel(rows, j) == [rows EXCEPT ![j].cancel = TRUE]

\* Mutant: a completed job may be retried too.
RetryableOver(rows, j) == rows[j].state \in Finished

(* retry: clears the cancel flag and keeps the retry counter.              *)
Retryable(rows, j) == rows[j].state \in {"failed", "cancelled"}

Retry(rows, j) == [rows EXCEPT ![j].state = "queued", ![j].cancel = FALSE]

(* clear_history deletes every row that is over.                           *)
ClearHistory(rows) ==
    [j \in JobIds |-> IF rows[j].state \in Finished THEN AbsentRow ELSE rows[j]]
=============================================================================
