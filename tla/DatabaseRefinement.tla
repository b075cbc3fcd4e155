------------------------- MODULE DatabaseRefinement -------------------------
(***************************************************************************)
(* DatabaseWorker implements FifoDatabase: a call takes effect when the    *)
(* thread runs its closure, and is answered when its event is set.         *)
(***************************************************************************)
EXTENDS DatabaseWorker

Database == INSTANCE FifoDatabase
    WITH effects <- applied, answered <- done, lost <- OpenFailed, state <- closing.pc

(* Whatever threads fail and are started anew, the coroutines see a         *)
(* database that serves their calls in order, answers no call before its    *)
(* effect and is drained by close().                                        *)
ImplementsDatabase == Database!Spec

(* Nobody polls in vain: the event of the task is set, or a living thread   *)
(* has the task in its hand or will find it in the queue (it is not behind  *)
(* _STOP).  Only when the thread could not open the database is a caller    *)
(* left waiting, until a later call starts another one.                     *)
NobodyPollsInVain ==
    \A c \in Callers : waiting[c] # 0 =>
        \/ waiting[c] \in done
        \/ \E t \in Threads :
            /\ Alive(t)
            /\ \/ thread[t].task = waiting[c]
               \/ \E i \in DOMAIN tasks : tasks[i] = waiting[c]
        \/ OpenFailed
=============================================================================
