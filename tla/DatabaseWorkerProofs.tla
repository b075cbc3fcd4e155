------------------------ MODULE DatabaseWorkerProofs ------------------------
(***************************************************************************)
(* Safety of DatabaseWorker for every set of callers and threads and every  *)
(* number of calls.                                                        *)
(***************************************************************************)
EXTENDS DatabaseRefinement, SequenceTheorems, TLAPS

Task == Nat \cup {Stop}

ThreadPcs == {"none", "connect", "get", "run", "signal", "dead", "failed"}

ThreadType == [pc : ThreadPcs, task : Nat]

TypeInv ==
    /\ closed \in BOOLEAN
    /\ handle \in Threads \cup {NoThread}
    /\ thread \in [Threads -> ThreadType]
    /\ tasks \in Seq(Task)
    /\ calls \in Nat
    /\ waiting \in [Callers -> Nat]
    /\ applied \in Seq(Nat)
    /\ closing \in [pc : {"open", "join", "closed"}, thread : Threads \cup {NoThread}]

\* The thread that works the queue off, or did.
Owner == IF closed THEN closing.thread ELSE handle

(* Only the owner is alive: a new thread is started when the last one is   *)
(* known to be dead, and close() hands its thread over to the join.        *)
OneThread ==
    /\ \A t \in Threads : Alive(t) => t = Owner
    /\ Owner \in Threads => thread[Owner].pc # "none"
    /\ closed <=> closing.pc # "open"
    /\ closed => handle = NoThread
    /\ Owner = NoThread => calls = 0 /\ tasks = <<>>

\* The call that was taken out of the queue and has not run yet.
InHand == IF Owner \in Threads /\ thread[Owner].pc = "run" THEN 1 ELSE 0

StopQueued == tasks # <<>> /\ tasks[Len(tasks)] = Stop

QueueInOrder ==
    \A i \in 1..Len(tasks) :
        \/ tasks[i] = Len(applied) + InHand + i
        \/ tasks[i] = Stop /\ i = Len(tasks)

(* The calls made are those that have run, then the one in hand, then the  *)
(* queue, each in the order of the calls, with _STOP behind them.          *)
InOrder ==
    /\ EffectsInCallOrder
    /\ Owner \in Threads /\ thread[Owner].pc = "run" => thread[Owner].task = Len(applied) + 1
    /\ Owner \in Threads /\ thread[Owner].pc = "signal" =>
           thread[Owner].task = Len(applied) /\ applied # <<>>
    /\ Owner \in Threads /\ thread[Owner].pc = "dead" =>
           closed /\ tasks = <<>> /\ calls = Len(applied)
    /\ QueueInOrder
    /\ StopQueued => closed
    /\ ~ StopQueued => calls = Len(applied) + InHand + Len(tasks)
    /\ StopQueued => calls + 1 = Len(applied) + InHand + Len(tasks)
    /\ closed /\ tasks # <<>> => StopQueued

\* A coroutine goes on only when its own call has taken effect.
AnswerAfterEffect == done \subseteq {applied[i] : i \in DOMAIN applied}

WorkerInv ==
    /\ TypeInv /\ OneThread /\ InOrder
    /\ AnswerAfterEffect /\ ClosedIsDrained

LEMMA InitWorker == Init => WorkerInv
<1> SUFFICES ASSUME Init PROVE WorkerInv
    OBVIOUS
<1>1. TypeInv
  <2>1. thread \in [Threads -> ThreadType]
    BY DEF Init, NewThread, ThreadPcs, ThreadType
  <2>2. closing \in [pc : {"open", "join", "closed"}, thread : Threads \cup {NoThread}]
    BY DEF Init
  <2>3. tasks \in Seq(Task) /\ applied \in Seq(Nat)
    BY DEF Init
  <2> QED BY <2>1, <2>2, <2>3 DEF Init, TypeInv
<1>2. Owner = NoThread /\ InHand = 0
  BY WorkerAssumption DEF Init, Owner, InHand
<1>3. OneThread
  BY <1>2, WorkerAssumption DEF Init, OneThread, Alive, NewThread
<1>4. InOrder
  BY <1>2, WorkerAssumption DEF Init, InOrder, EffectsInCallOrder, StopQueued, QueueInOrder
<1>5. AnswerAfterEffect /\ ClosedIsDrained
  BY DEF Init, AnswerAfterEffect, ClosedIsDrained
<1> QED BY <1>1, <1>3, <1>4, <1>5 DEF WorkerInv

-----------------------------------------------------------------------------
(* The types.                                                              *)

LEMMA ThreadChanges ==
    ASSUME TypeInv, NEW t \in Threads
    PROVE  /\ thread[t].task \in Nat
           /\ \A pc \in ThreadPcs : [thread EXCEPT ![t].pc = pc] \in [Threads -> ThreadType]
           /\ \A u \in ThreadType : [thread EXCEPT ![t] = u] \in [Threads -> ThreadType]
BY DEF TypeInv, ThreadType

LEMMA PcNames == {"none", "connect", "get", "run", "signal", "dead", "failed"} \subseteq ThreadPcs
BY DEF ThreadPcs

LEMMA NextTypes ==
    ASSUME TypeInv, [Next]_vars
    PROVE  TypeInv'
<1> USE DEF TypeInv
<1>1. ASSUME NEW c \in Callers, Call(c)
      PROVE  TypeInv'
  <2>1. tasks' \in Seq(Task)
    <3>1. calls + 1 \in Task
      BY DEF Task
    <3> QED BY <1>1, <3>1 DEF Call
  <2>2. handle' \in Threads \cup {NoThread} /\ thread' \in [Threads -> ThreadType]
    BY <1>1, ThreadChanges, PcNames DEF Call, EnsureWorker
  <2>3. waiting' \in [Callers -> Nat] /\ calls' \in Nat
    BY <1>1 DEF Call
  <2> QED BY <1>1, <2>1, <2>2, <2>3 DEF Call
<1>2. ASSUME NEW c \in Callers, Answer(c) \/ Abandon(c)
      PROVE  TypeInv'
  <2>1. waiting' \in [Callers -> Nat]
    BY <1>2 DEF Answer, Abandon
  <2> QED BY <1>2, <2>1 DEF Answer, Abandon
<1>3. CASE Close
  <2>1. tasks' \in Seq(Task)
    <3>1. Stop \in Task
      BY DEF Task
    <3> QED BY <1>3, <3>1 DEF Close
  <2>2. closing' \in [pc : {"open", "join", "closed"}, thread : Threads \cup {NoThread}]
    BY <1>3 DEF Close
  <2> QED BY <1>3, <2>1, <2>2 DEF Close
<1>4. CASE Joined
  BY <1>4 DEF Joined
<1>5. ASSUME NEW t \in Threads, Connect(t) \/ ConnectRaises(t)
      PROVE  TypeInv'
  <2>1. thread' \in [Threads -> ThreadType]
    BY <1>5, ThreadChanges, PcNames DEF Connect, ConnectRaises, Goto
  <2> QED BY <1>5, <2>1 DEF Connect, ConnectRaises
<1>6. ASSUME NEW t \in Threads, Get(t)
      PROVE  TypeInv'
  <2>1. tasks' \in Seq(Task) /\ Head(tasks) \in Task
    BY <1>6 DEF Get
  <2>2. thread' \in [Threads -> ThreadType]
    <3>1. \/ [pc |-> "dead", task |-> 0] \in ThreadType /\ Head(tasks) = Stop
          \/ [pc |-> "run", task |-> Head(tasks)] \in ThreadType /\ Head(tasks) # Stop
      BY <2>1 DEF Task, ThreadType, ThreadPcs
    <3> QED BY <1>6, <3>1, ThreadChanges DEF Get
  <2> QED BY <1>6, <2>1, <2>2 DEF Get
<1>7. ASSUME NEW t \in Threads, Run(t)
      PROVE  TypeInv'
  <2>1. applied' \in Seq(Nat)
    <3>1. thread[t].task \in Nat
      BY ThreadChanges
    <3>2. applied \in Seq(Nat) /\ applied' = Append(applied, thread[t].task)
      BY <1>7 DEF Run
    <3> QED BY <3>1, <3>2
  <2>2. thread' \in [Threads -> ThreadType]
    BY <1>7, ThreadChanges, PcNames DEF Run, Goto
  <2> QED BY <1>7, <2>1, <2>2 DEF Run
<1>8. ASSUME NEW t \in Threads, Signal(t)
      PROVE  TypeInv'
  <2>1. [pc |-> "get", task |-> 0] \in ThreadType
    BY DEF ThreadType, ThreadPcs
  <2>2. thread' \in [Threads -> ThreadType]
    BY <1>8, <2>1, ThreadChanges DEF Signal
  <2> QED BY <1>8, <2>2 DEF Signal
<1>9. CASE UNCHANGED vars
  BY <1>9 DEF vars
<1> QED BY <1>1, <1>2, <1>3, <1>4, <1>5, <1>6, <1>7, <1>8, <1>9 DEF Next, Thread

-----------------------------------------------------------------------------
(* Order.  One lemma per action that moves a call.                         *)

(* As long as the database is open there is no _STOP in the queue.         *)
LEMMA OpenQueue ==
    ASSUME WorkerInv, ~ closed
    PROVE  /\ calls = Len(applied) + InHand + Len(tasks)
           /\ \A i \in 1..Len(tasks) : tasks[i] = Len(applied) + InHand + i
<1>1. Len(tasks) \in Nat /\ Len(applied) \in Nat /\ InHand \in Nat
  BY DEF WorkerInv, TypeInv, InHand
<1>2. ~ StopQueued
  BY DEF WorkerInv, InOrder
<1>3. \A i \in 1..Len(tasks) : tasks[i] = Len(applied) + InHand + i
  BY <1>1, <1>2 DEF WorkerInv, InOrder, StopQueued, QueueInOrder
<1> QED BY <1>2, <1>3 DEF WorkerInv, InOrder

LEMMA CallKeeps ==
    ASSUME WorkerInv, NEW c \in Callers, Call(c)
    PROVE  OneThread' /\ InOrder'
<1>1. ~ closed /\ Owner = handle
  BY DEF Call, Owner
<1>2. /\ ~ closed' /\ calls' = calls + 1 /\ tasks' = Append(tasks, calls + 1)
      /\ applied' = applied /\ closing' = closing
  BY <1>1 DEF Call
<1>3. /\ Len(tasks) \in Nat /\ Len(applied) \in Nat /\ InHand \in Nat /\ calls \in Nat
      /\ tasks \in Seq(Task) /\ calls + 1 \in Task
  BY DEF WorkerInv, TypeInv, InHand, Task
<1>4. Owner' = handle' /\ Owner' \in Threads
  BY <1>2, WorkerAssumption DEF Owner, Call, EnsureWorker, Alive, WorkerInv, TypeInv
<1>5. OneThread'
  <2>1. CASE Alive(handle)
    BY <1>1, <1>2, <1>4, <2>1 DEF Call, EnsureWorker, OneThread, WorkerInv, TypeInv, Alive
  <2>2. CASE ~ Alive(handle)
    <3>1. \A t \in Threads : ~ Alive(t)
      BY <1>1, <2>2 DEF WorkerInv, OneThread
    <3>2. PICK t \in Threads : thread' = [thread EXCEPT ![t].pc = "connect"] /\ handle' = t
      BY <2>2 DEF Call, EnsureWorker
    <3>3. \A u \in Threads : Alive(u)' => u = t
      BY <3>1, <3>2 DEF Alive, WorkerInv, TypeInv
    <3> QED BY <1>1, <1>2, <1>4, <3>2, <3>3, WorkerAssumption DEF OneThread, WorkerInv, TypeInv
  <2> QED BY <2>1, <2>2
<1>6. InHand' = InHand /\ (thread'[Owner'].pc \in {"run", "signal", "dead"} =>
                             Owner' = Owner /\ thread' = thread)
  <2>1. CASE Alive(handle)
    BY <1>1, <1>4, <2>1 DEF Call, EnsureWorker, InHand
  <2>2. CASE ~ Alive(handle)
    <3>1. PICK t \in Threads : thread' = [thread EXCEPT ![t].pc = "connect"] /\ handle' = t
      BY <2>2 DEF Call, EnsureWorker
    <3>2. thread'[Owner'].pc = "connect"
      BY <1>4, <3>1 DEF WorkerInv, TypeInv, ThreadType
    <3>3. InHand' = 0 /\ InHand = 0
      BY <1>1, <1>4, <2>2, <3>2, WorkerAssumption DEF InHand, Alive
    <3> QED BY <3>2, <3>3
  <2> QED BY <2>1, <2>2
<1>7. Len(tasks') = Len(tasks) + 1 /\ tasks' # <<>>
      /\ \A i \in 1..Len(tasks') : tasks'[i] = IF i <= Len(tasks) THEN tasks[i] ELSE calls + 1
  <2>1. Len(tasks') = Len(tasks) + 1
    BY <1>2, <1>3
  <2>2. \A i \in 1..Len(tasks') : tasks'[i] = IF i <= Len(tasks) THEN tasks[i] ELSE calls + 1
    BY <1>2, <1>3, <2>1
  <2> QED BY <1>2, <1>3, <2>1, <2>2
<1>8. \A i \in 1..Len(tasks') : tasks'[i] = Len(applied') + InHand' + i
  <2> TAKE i \in 1..Len(tasks')
  <2>1. CASE i <= Len(tasks)
    <3>1. i \in 1..Len(tasks) /\ tasks'[i] = tasks[i]
      BY <1>3, <1>7, <2>1
    <3>2. tasks[i] = Len(applied) + InHand + i
      BY <1>1, <3>1, OpenQueue
    <3> QED BY <1>2, <1>6, <3>1, <3>2
  <2>2. CASE i = Len(tasks) + 1
    BY <1>1, <1>2, <1>3, <1>6, <1>7, <2>2, OpenQueue
  <2> QED BY <1>3, <1>7, <2>1, <2>2
<1>9. calls' = Len(applied') + InHand' + Len(tasks') /\ ~ StopQueued'
  <2>1. calls = Len(applied) + InHand + Len(tasks)
    BY <1>1, OpenQueue
  <2>2. tasks'[Len(tasks')] = calls + 1
    BY <1>3, <1>7
  <2> QED BY <1>2, <1>3, <1>6, <1>7, <2>1, <2>2, WorkerAssumption DEF StopQueued
<1>10. EffectsInCallOrder'
  BY <1>2 DEF WorkerInv, InOrder, EffectsInCallOrder
<1> QED BY <1>1, <1>2, <1>4, <1>5, <1>6, <1>8, <1>9, <1>10 DEF InOrder, WorkerInv, QueueInOrder

(* close() leaves the order as it is and puts _STOP behind it.             *)
LEMMA CloseKeeps ==
    ASSUME WorkerInv, Close
    PROVE  OneThread' /\ InOrder'
<1>1. ~ closed /\ closed' /\ Owner = handle /\ Owner' = handle
  BY DEF Close, Owner
<1>2. /\ calls' = calls /\ applied' = applied /\ thread' = thread /\ handle' = NoThread
      /\ closing'.pc # "open"
      /\ tasks' = IF handle = NoThread THEN tasks ELSE Append(tasks, Stop)
  BY DEF Close
<1>3. /\ Len(tasks) \in Nat /\ Len(applied) \in Nat /\ InHand \in Nat /\ calls \in Nat
      /\ tasks \in Seq(Task) /\ Stop \in Task
  BY DEF WorkerInv, TypeInv, InHand, Task
<1>4. InHand' = InHand
  BY <1>1, <1>2 DEF InHand
<1>5. OneThread'
  BY <1>1, <1>2 DEF OneThread, WorkerInv, Alive
<1>6. CASE handle = NoThread
  <2>1. tasks = <<>> /\ calls = 0 /\ tasks' = tasks
    BY <1>1, <1>2, <1>6 DEF WorkerInv, OneThread
  <2> QED BY <1>1, <1>2, <1>3, <1>4, <1>5, <1>6, <2>1, WorkerAssumption
          DEF WorkerInv, InOrder, EffectsInCallOrder, StopQueued, QueueInOrder
<1>7. CASE handle # NoThread
  <2>1. tasks' = Append(tasks, Stop)
    BY <1>2, <1>7
  <2>2. Len(tasks') = Len(tasks) + 1 /\ tasks' # <<>> /\ tasks'[Len(tasks')] = Stop
    BY <1>3, <2>1
  <2>3. \A i \in 1..Len(tasks') : \/ tasks'[i] = Len(applied') + InHand' + i
                                  \/ tasks'[i] = Stop /\ i = Len(tasks')
    <3> TAKE i \in 1..Len(tasks')
    <3>1. CASE i <= Len(tasks)
      <4>1. i \in 1..Len(tasks) /\ tasks'[i] = tasks[i]
        BY <1>3, <2>1, <2>2, <3>1
      <4>2. tasks[i] = Len(applied) + InHand + i
        BY <1>1, <4>1, OpenQueue
      <4> QED BY <1>2, <1>4, <4>1, <4>2
    <3>2. CASE i = Len(tasks')
      BY <1>1, <2>2, <3>2
    <3> QED BY <1>3, <2>2, <3>1, <3>2
  <2>4. calls' + 1 = Len(applied') + InHand' + Len(tasks')
    <3>1. calls = Len(applied) + InHand + Len(tasks)
      BY <1>1, OpenQueue
    <3>2. calls' = calls /\ applied' = applied
      BY <1>2
    <3> QED BY <1>3, <1>4, <2>2, <3>1, <3>2
  <2>5. EffectsInCallOrder'
    BY <1>2 DEF WorkerInv, InOrder, EffectsInCallOrder
  <2>6. ~ (Owner' \in Threads /\ thread'[Owner'].pc = "dead")
    BY <1>1, <1>2 DEF WorkerInv, InOrder
  <2> QED BY <1>1, <1>2, <1>5, <2>2, <2>3, <2>4, <2>5, <2>6 DEF InOrder, WorkerInv, StopQueued, QueueInOrder
<1> QED BY <1>6, <1>7

(* The thread takes the call that is next, or _STOP when nothing is left.  *)
LEMMA GetKeeps ==
    ASSUME WorkerInv, NEW t \in Threads, Get(t)
    PROVE  OneThread' /\ InOrder'
<1>1. t = Owner /\ InHand = 0 /\ t # NoThread
  BY WorkerAssumption DEF Get, WorkerInv, OneThread, Alive, InHand
<1>2. /\ closed' = closed /\ handle' = handle /\ closing' = closing /\ Owner' = Owner
      /\ calls' = calls /\ applied' = applied /\ tasks # <<>> /\ tasks' = Tail(tasks)
  BY DEF Get, Owner
<1>3. /\ Len(tasks) \in Nat \ {0} /\ Len(applied) \in Nat /\ calls \in Nat /\ tasks \in Seq(Task)
      /\ Head(tasks) = tasks[1]
  BY <1>2 DEF WorkerInv, TypeInv
<1>4. /\ Len(tasks') = Len(tasks) - 1
      /\ \A i \in 1..Len(tasks') : tasks'[i] = tasks[i + 1] /\ i + 1 \in 1..Len(tasks)
  BY <1>2, <1>3
<1>5. \A u \in Threads \ {t} : thread'[u] = thread[u]
  BY DEF Get, WorkerInv, TypeInv
<1>6. EffectsInCallOrder'
  BY <1>2 DEF WorkerInv, InOrder, EffectsInCallOrder
<1>10. \A i \in 1..Len(tasks) : \/ tasks[i] = Len(applied) + i
                                \/ tasks[i] = Stop /\ i = Len(tasks)
  <2>1. \A i \in 1..Len(tasks) : \/ tasks[i] = Len(applied) + InHand + i
                                 \/ tasks[i] = Stop /\ i = Len(tasks)
    <3>1. QueueInOrder
      BY DEF WorkerInv, InOrder
    <3> QED BY <3>1 DEF QueueInOrder
  <2> QED BY <1>1, <1>3, <2>1
<1>11. /\ tasks[Len(tasks)] # Stop => calls = Len(applied) + Len(tasks)
       /\ tasks[Len(tasks)] = Stop => calls + 1 = Len(applied) + Len(tasks)
  <2>1. /\ tasks[Len(tasks)] # Stop => calls = Len(applied) + InHand + Len(tasks)
        /\ tasks[Len(tasks)] = Stop => calls + 1 = Len(applied) + InHand + Len(tasks)
    BY <1>2 DEF WorkerInv, InOrder, StopQueued
  <2> QED BY <1>1, <1>3, <2>1
<1>7. CASE Head(tasks) = Stop
  <2>1. thread'[t] = [pc |-> "dead", task |-> 0]
    BY <1>7 DEF Get, WorkerInv, TypeInv
  <2>2. Len(tasks) = 1
    <3>1. 1 \in 1..Len(tasks)
      BY <1>3
    <3>2. Len(applied) + 1 \in Nat
      BY <1>3
    <3>3. tasks[1] # Len(applied) + 1
      BY <1>3, <1>7, <3>2, WorkerAssumption
    <3> QED BY <1>10, <3>1, <3>3
  <2>7. closed
    BY <1>2, <1>3, <1>7, <2>2 DEF WorkerInv, InOrder, StopQueued
  <2>3. tasks' = <<>> /\ Len(tasks') = 0
    BY <1>2, <1>3, <1>4, <2>2
  <2>4. calls = Len(applied)
    BY <1>3, <1>7, <1>11, <2>2
  <2>5. InHand' = 0
    BY <1>1, <1>2, <2>1 DEF InHand
  <2>6. OneThread'
    BY <1>1, <1>2, <1>5, <2>1 DEF WorkerInv, OneThread, Alive
  <2>8. ~ StopQueued'
    BY <2>3 DEF StopQueued
  <2>9. calls' = Len(applied') + InHand' + Len(tasks')
    <3>1. calls' = calls /\ applied' = applied
      BY <1>2
    <3> QED BY <1>3, <2>3, <2>4, <2>5, <3>1
  <2>10. thread'[Owner'].pc = "dead" /\ closed' /\ calls' = Len(applied')
    BY <1>1, <1>2, <2>1, <2>4, <2>7
  <2> QED BY <1>6, <2>3, <2>6, <2>8, <2>9, <2>10 DEF InOrder, QueueInOrder
<1>8. CASE Head(tasks) # Stop
  <2>1. thread'[t] = [pc |-> "run", task |-> tasks[1]]
    BY <1>3, <1>8 DEF Get, WorkerInv, TypeInv
  <2>2. tasks[1] = Len(applied) + 1
    <3>1. 1 \in 1..Len(tasks)
      BY <1>3
    <3> QED BY <1>3, <1>8, <1>10, <3>1
  <2>3. InHand' = 1
    BY <1>1, <1>2, <2>1 DEF InHand
  <2>4. OneThread'
    BY <1>1, <1>2, <1>5, <2>1 DEF WorkerInv, OneThread, Alive
  <2>5. \A i \in 1..Len(tasks') : \/ tasks'[i] = Len(applied') + InHand' + i
                                  \/ tasks'[i] = Stop /\ i = Len(tasks')
    <3> TAKE i \in 1..Len(tasks')
    <3>1. i + 1 \in 1..Len(tasks) /\ tasks'[i] = tasks[i + 1]
      BY <1>4
    <3>2. tasks[i + 1] = Len(applied) + (i + 1) \/ (tasks[i + 1] = Stop /\ i + 1 = Len(tasks))
      BY <1>10, <3>1
    <3>3. i \in Nat /\ Len(applied') = Len(applied)
      BY <1>2, <1>4
    <3> QED BY <1>3, <1>4, <2>3, <3>1, <3>2, <3>3
  <2>6. StopQueued' <=> tasks[Len(tasks)] = Stop
    <3>1. CASE Len(tasks) = 1
      BY <1>2, <1>3, <1>4, <1>8, <3>1 DEF StopQueued
    <3>2. CASE Len(tasks) # 1
      <4>1. Len(tasks') # 0 /\ Len(tasks') \in 1..Len(tasks')
        BY <1>3, <1>4, <3>2
      <4>2. tasks' # <<>> /\ tasks'[Len(tasks')] = tasks[Len(tasks)]
        BY <1>3, <1>4, <4>1
      <4> QED BY <4>2 DEF StopQueued
    <3> QED BY <3>1, <3>2
  <2>7. /\ ~ StopQueued' => calls' = Len(applied') + InHand' + Len(tasks')
        /\ StopQueued' => calls' + 1 = Len(applied') + InHand' + Len(tasks')
    BY <1>2, <1>3, <1>4, <1>11, <2>3, <2>6
  <2>8. (closed' /\ tasks' # <<>> => StopQueued') /\ (StopQueued' => closed')
    BY <1>2, <2>6 DEF WorkerInv, InOrder, StopQueued
  <2> QED BY <1>1, <1>2, <1>6, <2>1, <2>2, <2>4, <2>5, <2>7, <2>8 DEF InOrder, QueueInOrder
<1> QED BY <1>7, <1>8

(* What moves no call leaves the order as it is.                           *)
LEMMA QueueKeeps ==
    ASSUME WorkerInv, tasks' = tasks, calls' = calls, closed' = closed,
           Len(applied') + InHand' = Len(applied) + InHand
    PROVE  /\ QueueInOrder'
           /\ StopQueued' => closed'
           /\ ~ StopQueued' => calls' = Len(applied') + InHand' + Len(tasks')
           /\ StopQueued' => calls' + 1 = Len(applied') + InHand' + Len(tasks')
           /\ closed' /\ tasks' # <<>> => StopQueued'
<1>1. StopQueued' <=> StopQueued
  BY DEF StopQueued
<1>2. /\ ~ StopQueued => calls = Len(applied) + InHand + Len(tasks)
      /\ StopQueued => calls + 1 = Len(applied) + InHand + Len(tasks)
  BY DEF WorkerInv, InOrder
<1>3. QueueInOrder'
  <2>1. \A i \in 1..Len(tasks) : \/ tasks[i] = Len(applied) + InHand + i
                                 \/ tasks[i] = Stop /\ i = Len(tasks)
    BY DEF WorkerInv, InOrder, QueueInOrder
  <2> QED BY <2>1 DEF QueueInOrder
<1>4. (StopQueued' => closed') /\ (closed' /\ tasks' # <<>> => StopQueued')
  BY <1>1 DEF WorkerInv, InOrder
<1> QED BY <1>1, <1>2, <1>3, <1>4

(* Threads that only end, and a join, leave the owner alone.               *)
LEMMA OwnerKeeps ==
    ASSUME WorkerInv, closed' = closed, handle' = handle, tasks' = tasks, calls' = calls,
           closing'.thread = closing.thread, closing'.pc = "open" <=> closing.pc = "open",
           \A t \in Threads : Alive(t)' => Alive(t),
           Owner \in Threads => thread'[Owner].pc # "none"
    PROVE  OneThread' /\ Owner' = Owner
<1>1. Owner' = Owner
  BY DEF Owner
<1> QED BY <1>1 DEF WorkerInv, OneThread

(* A thread that is busy is the owner.                                     *)
LEMMA BusyIsOwner ==
    ASSUME WorkerInv, NEW t \in Threads, Alive(t)
    PROVE  t = Owner
BY DEF WorkerInv, OneThread

LEMMA ThreadStep ==
    ASSUME WorkerInv, NEW t \in Threads, Connect(t) \/ ConnectRaises(t) \/ Run(t) \/ Signal(t)
    PROVE  /\ OneThread' /\ Owner' = Owner /\ t = Owner /\ Alive(t)
           /\ tasks' = tasks /\ calls' = calls /\ closed' = closed /\ closing' = closing
           /\ \A u \in Threads \ {t} : thread'[u] = thread[u]
           /\ thread'[t].pc = IF thread[t].pc = "run" THEN "signal"
                              ELSE IF ConnectRaises(t) THEN "failed" ELSE "get"
           /\ thread[t].pc = "run" => thread'[t].task = thread[t].task
<1>1. Alive(t) /\ t = Owner
  <2>1. Alive(t)
    BY WorkerAssumption DEF Connect, ConnectRaises, Run, Signal, Alive
  <2> QED BY <2>1, BusyIsOwner
<1>2. tasks' = tasks /\ calls' = calls /\ closed' = closed /\ closing' = closing /\ handle' = handle
  BY DEF Connect, ConnectRaises, Run, Signal
<1>3. /\ \A u \in Threads \ {t} : thread'[u] = thread[u]
      /\ thread'[t].pc = IF thread[t].pc = "run" THEN "signal"
                         ELSE IF ConnectRaises(t) THEN "failed" ELSE "get"
      /\ thread[t].pc = "run" => thread'[t].task = thread[t].task
  BY DEF WorkerInv, TypeInv, ThreadType, Connect, ConnectRaises, Run, Signal, Goto
<1>4. \A u \in Threads : Alive(u)' => Alive(u)
  BY <1>1, <1>3 DEF Alive
<1>5. thread'[Owner].pc # "none"
  BY <1>1, <1>3
<1> QED BY <1>1, <1>2, <1>3, <1>4, <1>5, OwnerKeeps

LEMMA RunKeeps ==
    ASSUME WorkerInv, NEW t \in Threads, Run(t)
    PROVE  OneThread' /\ InOrder'
<1>1. /\ t = Owner /\ t = Owner' /\ OneThread' /\ thread[t].pc = "run"
      /\ thread'[t].pc = "signal" /\ thread'[t].task = thread[t].task
      /\ tasks' = tasks /\ calls' = calls /\ closed' = closed
  BY ThreadStep DEF Run
<1>2. thread[t].task = Len(applied) + 1
  BY <1>1 DEF WorkerInv, InOrder
<1>3. applied \in Seq(Nat) /\ Len(applied) \in Nat /\ applied' = Append(applied, Len(applied) + 1)
  BY <1>2 DEF Run, WorkerInv, TypeInv
<1>4. Len(applied') = Len(applied) + 1 /\ applied' # <<>>
  BY <1>3
<1>5. InHand = 1 /\ InHand' = 0
  BY <1>1 DEF InHand
<1>6. EffectsInCallOrder'
  <2>1. \A i \in 1..Len(applied) : applied[i] = i
    BY <1>3 DEF WorkerInv, InOrder, EffectsInCallOrder
  <2>2. \A i \in 1..Len(applied') : applied'[i] = i
    BY <1>3, <1>4, <2>1
  <2>3. DOMAIN applied' = 1..Len(applied')
    BY <1>3, <1>4
  <2> QED BY <2>2, <2>3 DEF EffectsInCallOrder
<1>7. Len(applied') + InHand' = Len(applied) + InHand
  BY <1>3, <1>4, <1>5
<1>8. thread'[Owner'].task = Len(applied')
  BY <1>1, <1>2, <1>4
<1> QED BY <1>1, <1>4, <1>6, <1>7, <1>8, QueueKeeps DEF InOrder

LEMMA OtherStepsKeep ==
    ASSUME WorkerInv, NEW t \in Threads, Connect(t) \/ ConnectRaises(t) \/ Signal(t)
    PROVE  OneThread' /\ InOrder'
<1>1. /\ t = Owner /\ t = Owner' /\ OneThread' /\ thread'[t].pc \in {"get", "failed"}
      /\ thread[t].pc # "run" /\ tasks' = tasks /\ calls' = calls /\ closed' = closed
  BY ThreadStep DEF Connect, ConnectRaises, Signal
<1>2. applied' = applied
  BY DEF Connect, ConnectRaises, Signal
<1>3. InHand = 0 /\ InHand' = 0
  BY <1>1 DEF InHand
<1>4. EffectsInCallOrder'
  BY <1>2 DEF WorkerInv, InOrder, EffectsInCallOrder
<1>5. Len(applied') + InHand' = Len(applied) + InHand
  BY <1>2, <1>3
<1> QED BY <1>1, <1>4, <1>5, QueueKeeps DEF InOrder

LEMMA OutsideKeeps ==
    ASSUME WorkerInv,
           Joined \/ (\E c \in Callers : Answer(c) \/ Abandon(c)) \/ UNCHANGED vars
    PROVE  OneThread' /\ InOrder'
<1>1. /\ tasks' = tasks /\ calls' = calls /\ closed' = closed /\ handle' = handle
      /\ thread' = thread /\ applied' = applied
  BY DEF Joined, Answer, Abandon, vars
<1>2. closing'.thread = closing.thread /\ (closing'.pc = "open" <=> closing.pc = "open")
  BY DEF Joined, Answer, Abandon, vars, WorkerInv, TypeInv
<1>3. OneThread' /\ Owner' = Owner
  BY <1>1, <1>2, OwnerKeeps DEF Alive, WorkerInv, OneThread
<1>4. InHand' = InHand
  BY <1>1, <1>3 DEF InHand
<1>5. EffectsInCallOrder' /\ Len(applied') + InHand' = Len(applied) + InHand
  BY <1>1, <1>4 DEF WorkerInv, InOrder, EffectsInCallOrder
<1>6. /\ Owner' \in Threads /\ thread'[Owner'].pc = "run" => thread'[Owner'].task = Len(applied') + 1
      /\ Owner' \in Threads /\ thread'[Owner'].pc = "signal" =>
             thread'[Owner'].task = Len(applied') /\ applied' # <<>>
      /\ Owner' \in Threads /\ thread'[Owner'].pc = "dead" =>
             closed' /\ tasks' = <<>> /\ calls' = Len(applied')
  BY <1>1, <1>3 DEF WorkerInv, InOrder
<1> QED BY <1>1, <1>3, <1>5, <1>6, QueueKeeps DEF InOrder

-----------------------------------------------------------------------------
(* Answers.  An event is set by the owner only, behind its closure.        *)
LEMMA AnswersKeep ==
    ASSUME WorkerInv, [Next]_vars
    PROVE  AnswerAfterEffect'
<1> DEFINE Effects == {applied[i] : i \in DOMAIN applied}
<1>1. done \subseteq Effects /\ applied \in Seq(Nat)
  BY DEF WorkerInv, TypeInv, AnswerAfterEffect
<1>2. ASSUME NEW t \in Threads, Run(t)
      PROVE  AnswerAfterEffect'
  <2>1. applied' = Append(applied, thread[t].task) /\ done' = done /\ thread[t].task \in Nat
    BY <1>2, ThreadChanges DEF Run, WorkerInv
  <2>2. \A i \in DOMAIN applied : i \in DOMAIN applied' /\ applied'[i] = applied[i]
    BY <1>1, <2>1
  <2>3. Effects \subseteq Effects'
    BY <2>2
  <2> QED BY <1>1, <2>1, <2>3 DEF AnswerAfterEffect
<1>3. ASSUME NEW t \in Threads, Signal(t)
      PROVE  AnswerAfterEffect'
  <2>1. t = Owner /\ thread[t].pc = "signal"
    BY <1>3, ThreadStep DEF Signal
  <2>2. thread[t].task = Len(applied) /\ applied # <<>> /\ EffectsInCallOrder
    BY <2>1 DEF WorkerInv, InOrder
  <2>3. Len(applied) \in DOMAIN applied
    BY <1>1, <2>2
  <2>4. thread[t].task = applied[Len(applied)]
    BY <2>2, <2>3 DEF EffectsInCallOrder
  <2>5. thread[t].task \in Effects
    BY <2>3, <2>4
  <2>6. done' = done \cup {thread[t].task} /\ applied' = applied
    BY <1>3 DEF Signal
  <2> QED BY <1>1, <2>5, <2>6 DEF AnswerAfterEffect
<1>4. CASE UNCHANGED <<done, applied>>
  BY <1>1, <1>4 DEF AnswerAfterEffect
<1>5. \/ \E t \in Threads : Run(t) \/ Signal(t)
      \/ UNCHANGED <<done, applied>>
  BY DEF Next, Thread, Call, Answer, Abandon, Close, Joined, Connect, ConnectRaises, Get, vars
<1> QED BY <1>2, <1>3, <1>4, <1>5

-----------------------------------------------------------------------------
(* Nothing is left undone when close() returns.                            *)

(* A thread that is done, or was never started, has left nothing.          *)
LEMMA NothingLeft ==
    ASSUME WorkerInv, closed, ~ Alive(Owner)
    PROVE  Len(applied) = calls \/ OpenFailed
<1>1. /\ Len(tasks) \in Nat /\ Len(applied) \in Nat /\ calls \in Nat
      /\ Owner \in Threads \cup {NoThread}
  BY DEF WorkerInv, TypeInv, Owner
<1>2. CASE Owner = NoThread
  <2>1. calls = 0 /\ tasks = <<>> /\ InHand = 0
    BY <1>2, WorkerAssumption DEF WorkerInv, OneThread, InHand
  <2>2. calls = Len(applied) + InHand + Len(tasks) /\ Len(tasks) = 0
    BY <2>1 DEF WorkerInv, InOrder, StopQueued
  <2> QED BY <1>1, <2>1, <2>2
<1>3. CASE Owner \in Threads
  <2>1. thread[Owner].pc \in {"dead", "failed"}
    BY <1>3, WorkerAssumption DEF WorkerInv, OneThread, TypeInv, ThreadType, ThreadPcs, Alive
  <2>2. CASE thread[Owner].pc = "dead"
    BY <1>3, <2>2 DEF WorkerInv, InOrder
  <2>3. CASE thread[Owner].pc = "failed"
    BY <1>3, <2>3, WorkerAssumption DEF OpenFailed, Owner
  <2> QED BY <2>1, <2>2, <2>3
<1> QED BY <1>1, <1>2, <1>3

(* When all calls have run there is none in hand.                          *)
LEMMA NothingInHand ==
    ASSUME WorkerInv, Len(applied) = calls
    PROVE  InHand = 0
<1>1. Len(tasks) \in Nat /\ Len(applied) \in Nat /\ InHand \in {0, 1}
  BY DEF WorkerInv, TypeInv, InHand
<1>2. CASE StopQueued
  <2>1. Len(tasks) >= 1
    BY <1>1, <1>2 DEF StopQueued, WorkerInv, TypeInv
  <2>2. calls + 1 = Len(applied) + InHand + Len(tasks)
    BY <1>2 DEF WorkerInv, InOrder
  <2> QED BY <1>1, <2>1, <2>2
<1>3. CASE ~ StopQueued
  <2>1. calls = Len(applied) + InHand + Len(tasks)
    BY <1>3 DEF WorkerInv, InOrder
  <2> QED BY <1>1, <2>1
<1> QED BY <1>2, <1>3

LEMMA DrainKeeps ==
    ASSUME WorkerInv, [Next]_vars
    PROVE  ClosedIsDrained'
<1>1. CASE Close
  <2>1. CASE handle = NoThread
    <3>1. calls = 0 /\ tasks = <<>> /\ InHand = 0 /\ Len(applied) \in Nat
      BY <1>1, <2>1, WorkerAssumption DEF Close, WorkerInv, OneThread, InHand, Owner, TypeInv
    <3>2. calls = Len(applied) + InHand + Len(tasks) /\ Len(tasks) = 0
      BY <3>1 DEF WorkerInv, InOrder, StopQueued
    <3>3. calls' = calls /\ applied' = applied
      BY <1>1 DEF Close
    <3> QED BY <3>1, <3>2, <3>3 DEF ClosedIsDrained
  <2>2. CASE handle # NoThread
    BY <1>1, <2>2 DEF Close, ClosedIsDrained
  <2> QED BY <2>1, <2>2
<1>2. CASE Joined
  <2>1. closed /\ Owner = closing.thread /\ ~ Alive(Owner)
    BY <1>2 DEF Joined, Owner, WorkerInv, OneThread
  <2>2. /\ calls' = calls /\ applied' = applied /\ thread' = thread /\ handle' = handle
        /\ closing'.thread = closing.thread
    BY <1>2 DEF Joined, WorkerInv, TypeInv
  <2>3. OpenFailed' <=> OpenFailed
    BY <2>2 DEF OpenFailed
  <2> QED BY <2>1, <2>2, <2>3, NothingLeft DEF ClosedIsDrained
<1>3. CASE closing' = closing /\ closing.pc = "closed"
  <2>1. closed /\ (Len(applied) = calls \/ OpenFailed)
    BY <1>3 DEF WorkerInv, OneThread, ClosedIsDrained
  <2>2. calls' = calls
    BY <1>3, <2>1 DEF Next, Thread, Call, Answer, Abandon, Close, Joined, Connect,
       ConnectRaises, Get, Run, Signal, vars
  <2>3. OpenFailed => OpenFailed'
    <3>1. handle' = handle
      BY <2>1 DEF Next, Thread, Call, Answer, Abandon, Close, Joined, Connect, ConnectRaises,
         Get, Run, Signal, vars
    <3>2. \A t \in Threads : thread[t].pc = "failed" => thread'[t].pc = "failed"
      BY <2>1 DEF WorkerInv, TypeInv, ThreadType, Next, Thread, Call, Answer, Abandon,
         Close, Joined, Connect, ConnectRaises, Get, Run, Signal, Goto, vars
    <3> QED BY <1>3, <3>1, <3>2 DEF OpenFailed, WorkerInv, TypeInv
  <2>4. Len(applied) = calls => applied' = applied
    <3>1. SUFFICES ASSUME Len(applied) = calls, NEW t \in Threads, Run(t)
                   PROVE  FALSE
      BY DEF Next, Thread, Call, Answer, Abandon, Close, Joined, Connect, ConnectRaises, Get,
         Signal, vars
    <3>2. t = Owner /\ thread[t].pc = "run"
      BY <3>1, ThreadStep DEF Run
    <3>3. InHand = 1
      BY <3>2 DEF InHand
    <3> QED BY <3>1, <3>3, NothingInHand
  <2> QED BY <2>1, <2>2, <2>3, <2>4 DEF ClosedIsDrained
<1>4. CASE closing' = closing /\ closing.pc # "closed"
  BY <1>4 DEF ClosedIsDrained
<1>5. Close \/ Joined \/ closing' = closing
  BY DEF Next, Thread, Call, Answer, Abandon, Connect, ConnectRaises, Get, Run, Signal, vars
<1> QED BY <1>1, <1>2, <1>3, <1>4, <1>5

-----------------------------------------------------------------------------
LEMMA NextWorker == WorkerInv /\ [Next]_vars => WorkerInv'
<1> SUFFICES ASSUME WorkerInv, [Next]_vars PROVE WorkerInv'
    OBVIOUS
<1>1. TypeInv' /\ AnswerAfterEffect' /\ ClosedIsDrained'
  BY NextTypes, AnswersKeep, DrainKeeps DEF WorkerInv
<1>2. OneThread' /\ InOrder'
  <2>1. ASSUME NEW c \in Callers, Call(c)
        PROVE  OneThread' /\ InOrder'
    BY <2>1, CallKeeps
  <2>2. ASSUME NEW t \in Threads, Thread(t)
        PROVE  OneThread' /\ InOrder'
    BY <2>2, GetKeeps, RunKeeps, OtherStepsKeep DEF Thread
  <2> QED BY <2>1, <2>2, CloseKeeps, OutsideKeeps DEF Next
<1> QED BY <1>1, <1>2 DEF WorkerInv

(* The inductive invariant: one thread, and the calls made are those that  *)
(* ran, the one in hand and the queue, in this order.                      *)
THEOREM WorkerInvariant == Spec => []WorkerInv
BY InitWorker, NextWorker, PTL DEF Spec

(* Effects come in the order of the calls, whatever threads failed and     *)
(* were started anew: the other modules may take a call as one step.       *)
THEOREM EffectsAreInOrder == Spec => []EffectsInCallOrder
<1>1. WorkerInv => EffectsInCallOrder
  BY DEF WorkerInv, InOrder
<1> QED BY <1>1, WorkerInvariant, PTL

(* No coroutine goes on before its own call took effect.                   *)
THEOREM AnswersFollowEffects == Spec => []AnswerAfterEffect
<1>1. WorkerInv => AnswerAfterEffect
  BY DEF WorkerInv
<1> QED BY <1>1, WorkerInvariant, PTL

StopIsLast == \A i \in DOMAIN tasks : tasks[i] = Stop => i = Len(tasks)

(* Nothing is ever put behind _STOP, where it would never run and its      *)
(* caller would poll for ever.                                             *)
THEOREM NothingBehindStop == Spec => []StopIsLast
<1>1. ASSUME WorkerInv
      PROVE  StopIsLast
  <2>1. tasks \in Seq(Task) /\ QueueInOrder /\ Len(applied) \in Nat /\ InHand \in Nat
    BY <1>1 DEF WorkerInv, TypeInv, InOrder, InHand
  <2>2. DOMAIN tasks = 1..Len(tasks)
    BY <2>1
  <2>3. \A i \in 1..Len(tasks) : Len(applied) + InHand + i \in Nat
    BY <2>1
  <2> QED BY <2>1, <2>2, <2>3, WorkerAssumption DEF StopIsLast, QueueInOrder
<1> QED BY <1>1, WorkerInvariant, PTL

(* What was asked before close() is in the database when close() returns,  *)
(* unless its last thread could not open it.                               *)
THEOREM CloseDrains == Spec => []ClosedIsDrained
<1>1. WorkerInv => ClosedIsDrained
  BY DEF WorkerInv
<1> QED BY <1>1, WorkerInvariant, PTL
-----------------------------------------------------------------------------
(* Who is answered, and who can still hope for an answer.                  *)

\* The call that has run and whose event is not set yet.
InSignal == IF Owner \in Threads /\ thread[Owner].pc = "signal" THEN 1 ELSE 0

(* All that has run is answered but for the last call, no coroutine polls  *)
(* a task that was not queued, and close() returns to a dead thread.       *)
Served ==
    /\ ~ closed => closing.thread = NoThread
    /\ closing.pc = "closed" => ~ Alive(Owner)
    /\ done = 1..(Len(applied) - InSignal)
    /\ \A c \in Callers : waiting[c] \in 0..calls

LEMMA InitServed == Init => Served
<1> SUFFICES ASSUME Init PROVE Served
    OBVIOUS
<1>1. InSignal = 0 /\ Len(applied) = 0
  BY WorkerAssumption DEF Init, Owner, InSignal
<1> QED BY <1>1 DEF Init, Served

\* A thread that was started last and failed is the owner.
LEMMA FailedOwner ==
    ASSUME WorkerInv, Served
    PROVE  OpenFailed <=> (Owner \in Threads /\ thread[Owner].pc = "failed")
<1>1. {handle, closing.thread} \ {NoThread} = {Owner} \ {NoThread}
  BY DEF WorkerInv, OneThread, Served, Owner
<1>2. Owner \in Threads \cup {NoThread}
  BY DEF WorkerInv, TypeInv, Owner
<1> QED BY <1>1, <1>2, WorkerAssumption DEF OpenFailed

LEMMA CallServes ==
    ASSUME WorkerInv, Served, NEW c \in Callers, Call(c)
    PROVE  Served' /\ ~ OpenFailed'
<1>1. /\ ~ closed /\ Owner = handle /\ ~ closed' /\ Owner' = handle' /\ closing' = closing
      /\ done' = done /\ applied' = applied /\ calls' = calls + 1 /\ calls \in Nat
  BY DEF Call, Owner, WorkerInv, TypeInv
<1>2. closing.pc = "open" /\ closing.thread = NoThread
  BY <1>1 DEF WorkerInv, OneThread, Served
<1>3. \A d \in Callers : waiting'[d] \in 0..calls'
  BY <1>1 DEF Call, Served, WorkerInv, TypeInv
<1>4. CASE Alive(handle)
  <2>1. handle' = handle /\ thread' = thread /\ handle \in Threads
    BY <1>4 DEF Call, EnsureWorker, Alive, WorkerInv, TypeInv
  <2>2. InSignal' = InSignal
    BY <1>1, <2>1 DEF InSignal
  <2>3. ~ OpenFailed'
    BY <1>1, <1>2, <1>4, <2>1 DEF OpenFailed, Alive
  <2> QED BY <1>1, <1>2, <1>3, <2>2, <2>3 DEF Served
<1>5. CASE ~ Alive(handle)
  <2>1. PICK t \in Threads : thread' = [thread EXCEPT ![t].pc = "connect"] /\ handle' = t
    BY <1>5 DEF Call, EnsureWorker
  <2>2. thread'[t].pc = "connect"
    BY <2>1 DEF WorkerInv, TypeInv, ThreadType
  <2>3. InSignal' = 0 /\ InSignal = 0
    BY <1>1, <1>5, <2>1, <2>2, WorkerAssumption DEF InSignal, Alive
  <2>4. ~ OpenFailed'
    BY <1>1, <1>2, <2>1, <2>2 DEF OpenFailed
  <2> QED BY <1>1, <1>2, <1>3, <2>3, <2>4 DEF Served
<1> QED BY <1>4, <1>5

LEMMA ThreadServes ==
    ASSUME WorkerInv, Served, NEW t \in Threads, Thread(t)
    PROVE  Served'
<1>1. /\ waiting' = waiting /\ calls' = calls /\ closed' = closed /\ closing' = closing
      /\ handle' = handle /\ Owner' = Owner
  BY DEF Thread, Connect, ConnectRaises, Get, Run, Signal, Owner
<1>2. t = Owner /\ Alive(t)
  <2>1. Alive(t)
    BY WorkerAssumption DEF Thread, Connect, ConnectRaises, Get, Run, Signal, Alive
  <2> QED BY <2>1, BusyIsOwner
<1>3. closing.pc # "closed"
  BY <1>2 DEF Served
<1>4. Len(applied) \in Nat /\ applied \in Seq(Nat)
  BY DEF WorkerInv, TypeInv
<1>5. done' = 1..(Len(applied') - InSignal')
  <2>1. CASE Connect(t) \/ ConnectRaises(t) \/ Get(t)
    <3>1. thread[t].pc # "signal" /\ thread'[t].pc # "signal"
      BY <2>1 DEF Connect, ConnectRaises, Get, Goto, WorkerInv, TypeInv, ThreadType
    <3>2. InSignal = 0 /\ InSignal' = 0
      BY <1>1, <1>2, <3>1 DEF InSignal
    <3>3. done' = done /\ applied' = applied
      BY <2>1 DEF Connect, ConnectRaises, Get
    <3> QED BY <3>2, <3>3 DEF Served
  <2>2. CASE Run(t)
    <3>1. thread[t].pc = "run" /\ thread'[t].pc = "signal"
      BY <2>2, ThreadStep DEF Run
    <3>2. InSignal = 0 /\ InSignal' = 1
      BY <1>1, <1>2, <3>1 DEF InSignal
    <3>3. done' = done /\ applied' = Append(applied, thread[t].task) /\ thread[t].task \in Nat
      BY <2>2, ThreadChanges DEF Run, WorkerInv
    <3>4. Len(applied') = Len(applied) + 1
      BY <1>4, <3>3
    <3> QED BY <1>4, <3>2, <3>3, <3>4 DEF Served
  <2>3. CASE Signal(t)
    <3>1. thread[t].pc = "signal" /\ thread'[t].pc = "get"
      BY <2>3 DEF Signal, WorkerInv, TypeInv
    <3>2. InSignal = 1 /\ InSignal' = 0
      BY <1>1, <1>2, <3>1 DEF InSignal
    <3>3. thread[t].task = Len(applied) /\ applied # <<>>
      BY <1>2, <3>1 DEF WorkerInv, InOrder
    <3>4. Len(applied) \in Nat \ {0}
      BY <1>4, <3>3
    <3>5. done' = done \cup {Len(applied)} /\ applied' = applied
      BY <2>3, <3>3 DEF Signal
    <3>6. done = 1..(Len(applied) - 1)
      BY <3>2 DEF Served
    <3>7. 1..Len(applied) = (1..(Len(applied) - 1)) \cup {Len(applied)}
      BY <3>4
    <3> QED BY <1>4, <3>2, <3>5, <3>6, <3>7
  <2> QED BY <2>1, <2>2, <2>3 DEF Thread
<1> QED BY <1>1, <1>3, <1>5 DEF Served

LEMMA ServedStep ==
    ASSUME WorkerInv, Served, [Next]_vars
    PROVE  Served'
<1>1. ASSUME NEW c \in Callers, Answer(c) \/ Abandon(c)
      PROVE  Served'
  <2>1. /\ UNCHANGED <<closed, handle, thread, calls, done, applied, closing>>
        /\ waiting' = [waiting EXCEPT ![c] = 0]
    BY <1>1 DEF Answer, Abandon
  <2>2. Owner' = Owner /\ InSignal' = InSignal /\ (Alive(Owner)' <=> Alive(Owner))
    BY <2>1 DEF Owner, InSignal, Alive
  <2>3. \A d \in Callers : waiting'[d] \in 0..calls'
    BY <2>1 DEF Served, WorkerInv, TypeInv
  <2> QED BY <2>1, <2>2, <2>3 DEF Served
<1>2. CASE Close
  <2>1. UNCHANGED <<thread, calls, waiting, done, applied>> /\ closed' /\ ~ closed
    BY <1>2 DEF Close
  <2>2. Owner = handle /\ Owner' = handle
    BY <1>2, <2>1 DEF Close, Owner
  <2>3. InSignal' = InSignal
    BY <2>1, <2>2 DEF InSignal
  <2>4. closing'.pc = "closed" => ~ Alive(Owner)'
    BY <1>2, <2>2 DEF Close, Alive
  <2> QED BY <2>1, <2>3, <2>4 DEF Served
<1>3. CASE Joined
  <2>1. UNCHANGED <<closed, handle, thread, calls, waiting, done, applied>> /\ closed
    BY <1>3 DEF Joined, WorkerInv, OneThread
  <2>2. closing'.thread = closing.thread
    BY <1>3 DEF Joined, WorkerInv, TypeInv
  <2>3. Owner' = Owner /\ Owner = closing.thread
    BY <2>1, <2>2 DEF Owner
  <2>4. InSignal' = InSignal /\ ~ Alive(Owner)'
    BY <1>3, <2>1, <2>3 DEF InSignal, Joined, Alive
  <2> QED BY <2>1, <2>4 DEF Served
<1>4. CASE UNCHANGED vars
  <2>1. Owner' = Owner /\ InSignal' = InSignal /\ (Alive(Owner)' <=> Alive(Owner))
    BY <1>4 DEF vars, Owner, InSignal, Alive
  <2> QED BY <1>4, <2>1 DEF Served, vars
<1> QED BY <1>1, <1>2, <1>3, <1>4, CallServes, ThreadServes DEF Next

(* The invariant of the worker, and who is served.                         *)
THEOREM ServedInvariant == Spec => [](WorkerInv /\ Served)
BY InitWorker, InitServed, NextWorker, ServedStep, PTL DEF Spec

(* A call that is polled was answered, or is in the hand of the owner, or  *)
(* is in the queue and the owner lives to take it, or could not open the   *)
(* database.                                                               *)
LEMMA PolledIsServed ==
    ASSUME WorkerInv, Served, NEW c \in Callers, waiting[c] # 0, waiting[c] \notin done, ~ OpenFailed
    PROVE  /\ Owner \in Threads /\ Alive(Owner)
           /\ \/ thread[Owner].task = waiting[c]
              \/ \E i \in DOMAIN tasks : tasks[i] = waiting[c]
<1> DEFINE n == waiting[c]
<1>1. /\ n \in 1..calls /\ calls \in Nat /\ Len(applied) \in Nat /\ Len(tasks) \in Nat
      /\ InHand \in {0, 1} /\ InSignal \in {0, 1}
  BY DEF Served, WorkerInv, TypeInv, InHand, InSignal
<1>2. n > Len(applied) - InSignal
  BY <1>1 DEF Served
<1>3. Owner \in Threads
  <2>1. Owner \in Threads \cup {NoThread} /\ calls # 0
    BY <1>1 DEF WorkerInv, TypeInv, Owner
  <2> QED BY <2>1 DEF WorkerInv, OneThread
<1>4. Alive(Owner)
  <2>1. thread[Owner].pc \notin {"none", "failed"}
    BY <1>3, FailedOwner DEF WorkerInv, OneThread
  <2>2. thread[Owner].pc # "dead"
    <3>1. SUFFICES ASSUME thread[Owner].pc = "dead" PROVE FALSE
      OBVIOUS
    <3>2. calls = Len(applied) /\ InSignal = 0
      BY <1>3, <3>1 DEF WorkerInv, InOrder, InSignal
    <3> QED BY <1>1, <1>2, <3>2
  <2> QED BY <1>3, <2>1, <2>2, WorkerAssumption DEF Alive, WorkerInv, TypeInv, ThreadType, ThreadPcs
<1>5. CASE n = Len(applied)
  <2>1. InSignal = 1
    BY <1>1, <1>2, <1>5
  <2>2. thread[Owner].pc = "signal"
    BY <2>1 DEF InSignal
  <2> QED BY <1>3, <1>4, <1>5, <2>2 DEF WorkerInv, InOrder
<1>6. CASE n = Len(applied) + 1 /\ InHand = 1
  <2>1. thread[Owner].pc = "run"
    BY <1>6 DEF InHand
  <2> QED BY <1>3, <1>4, <1>6, <2>1 DEF WorkerInv, InOrder
<1>7. CASE n > Len(applied) + InHand
  <2> DEFINE i == n - Len(applied) - InHand
  <2>1. Len(applied) + InHand + Len(tasks) >= calls
    BY <1>1 DEF WorkerInv, InOrder
  <2>2. i \in 1..Len(tasks) /\ Len(applied) + InHand + i = n
    BY <1>1, <1>7, <2>1
  <2>3. ~ (tasks[i] = Stop /\ i = Len(tasks))
    <3>1. SUFFICES ASSUME tasks[i] = Stop, i = Len(tasks) PROVE FALSE
      OBVIOUS
    <3>2. StopQueued
      BY <2>2, <3>1, <1>1 DEF StopQueued, WorkerInv, TypeInv
    <3>3. calls + 1 = Len(applied) + InHand + Len(tasks)
      BY <3>2 DEF WorkerInv, InOrder
    <3> QED BY <1>1, <2>2, <3>1, <3>3
  <2>4. tasks[i] = Len(applied) + InHand + i
    BY <2>2, <2>3 DEF WorkerInv, InOrder, QueueInOrder
  <2>5. i \in DOMAIN tasks
    BY <2>2 DEF WorkerInv, TypeInv
  <2> QED BY <1>3, <1>4, <2>2, <2>4, <2>5
<1> QED BY <1>1, <1>2, <1>5, <1>6, <1>7

(* No coroutine is left polling an event nobody will set, unless the       *)
(* database could not be opened: the code of _run has no time limit.       *)
THEOREM NobodyWaitsInVain == Spec => []NobodyPollsInVain
<1>1. WorkerInv /\ Served => NobodyPollsInVain
  BY PolledIsServed DEF NobodyPollsInVain
<1> QED BY <1>1, ServedInvariant, PTL

-----------------------------------------------------------------------------
(* The refinement.                                                         *)

LEMMA DatabaseInit == Init => Database!Init
BY WorkerAssumption DEF Init, Database!Init, OpenFailed

\* What does not start a thread or end one keeps OpenFailed as it is.
LEMMA FailedKeeps ==
    ASSUME WorkerInv, Served, Served', WorkerInv', Owner' = Owner,
           Owner \in Threads => (thread'[Owner].pc = "failed" <=> thread[Owner].pc = "failed")
    PROVE  OpenFailed' <=> OpenFailed
<1>1. OpenFailed <=> (Owner \in Threads /\ thread[Owner].pc = "failed")
  BY FailedOwner
<1>2. OpenFailed' <=> (Owner' \in Threads /\ thread'[Owner'].pc = "failed")
  <2>1. {handle', closing'.thread} \ {NoThread} = {Owner'} \ {NoThread}
    BY DEF WorkerInv, OneThread, Served, Owner
  <2>2. Owner' \in Threads \cup {NoThread}
    BY DEF WorkerInv, TypeInv, Owner
  <2> QED BY <2>1, <2>2, WorkerAssumption DEF OpenFailed
<1> QED BY <1>1, <1>2

LEMMA OutsideImplements ==
    ASSUME WorkerInv, Served, Served', WorkerInv',
           Close \/ Joined \/ (\E c \in Callers : Answer(c) \/ Abandon(c)) \/ UNCHANGED vars
    PROVE  [Database!Next]_(Database!vars)
<1>1. UNCHANGED <<thread, calls, done, applied>>
  BY DEF Close, Joined, Answer, Abandon, vars
<1>2. Owner' = Owner
  BY DEF Close, Joined, Answer, Abandon, vars, Owner, WorkerInv, TypeInv, OneThread
<1>3. OpenFailed' <=> OpenFailed
  BY <1>1, <1>2, FailedKeeps
<1>4. OpenFailed' = OpenFailed
  BY <1>3 DEF OpenFailed
<1>5. Len(applied) = calls /\ InSignal = 0 => done = 1..calls
  BY DEF Served, WorkerInv, TypeInv
<1>6. CASE Close /\ handle = NoThread
  <2>1. ~ closed /\ closing.pc = "open" /\ closing'.pc = "closed" /\ Owner = NoThread
    BY <1>6 DEF Close, WorkerInv, OneThread, Owner
  <2>2. calls = 0 /\ tasks = <<>> /\ InHand = 0 /\ InSignal = 0
    BY <2>1, WorkerAssumption DEF WorkerInv, OneThread, InHand, InSignal
  <2>3. Len(applied) = 0
    <3>1. calls = Len(applied) + InHand + Len(tasks)
      BY <2>1, OpenQueue, <1>6 DEF Close
    <3> QED BY <2>2, <3>1 DEF WorkerInv, TypeInv
  <2>4. done = 1..calls
    BY <1>5, <2>2, <2>3
  <2>5. Database!Closed
    BY <1>1, <1>4, <2>1, <2>4 DEF Database!Closed
  <2> QED BY <2>5 DEF Database!Next
<1>7. CASE Close /\ handle # NoThread
  <2>1. closing.pc = "open" /\ closing'.pc = "join"
    BY <1>7 DEF Close, WorkerInv, OneThread
  <2>2. Database!Close
    BY <1>1, <1>4, <2>1 DEF Database!Close
  <2> QED BY <2>2 DEF Database!Next
<1>8. CASE Joined
  <2>1. closing.pc = "join" /\ closing'.pc = "closed" /\ closed /\ ~ Alive(Owner)
    BY <1>8 DEF Joined, WorkerInv, OneThread, TypeInv, Owner
  <2>2. InSignal = 0
    BY <2>1, WorkerAssumption DEF InSignal, Alive
  <2>3. done = 1..calls \/ OpenFailed
    BY <1>5, <2>1, <2>2, NothingLeft
  <2>4. Database!Closed
    BY <1>1, <1>4, <2>1, <2>3 DEF Database!Closed
  <2> QED BY <2>4 DEF Database!Next
<1>9. CASE closing' = closing
  BY <1>1, <1>4, <1>9 DEF Database!vars
<1> QED BY <1>6, <1>7, <1>8, <1>9 DEF Answer, Abandon, vars

LEMMA ThreadImplements ==
    ASSUME WorkerInv, Served, Served', WorkerInv', NEW t \in Threads, Thread(t)
    PROVE  [Database!Next]_(Database!vars)
<1>1. /\ calls' = calls /\ closed' = closed /\ closing' = closing /\ Owner' = Owner
  BY DEF Thread, Connect, ConnectRaises, Get, Run, Signal, Owner
<1>2. t = Owner /\ Alive(t)
  <2>1. Alive(t)
    BY WorkerAssumption DEF Thread, Connect, ConnectRaises, Get, Run, Signal, Alive
  <2> QED BY <2>1, BusyIsOwner
<1>3. closing.pc # "closed" /\ ~ OpenFailed
  BY <1>2, FailedOwner DEF Served, Alive
<1>4. CASE ConnectRaises(t)
  <2>1. thread'[t].pc = "failed"
    BY <1>4 DEF ConnectRaises, Goto, WorkerInv, TypeInv, ThreadType
  <2>2. OpenFailed' = TRUE
    <3>1. t \in {handle', closing'.thread} \ {NoThread}
      BY <1>1, <1>2, WorkerAssumption DEF Owner, ConnectRaises, Thread
    <3>2. OpenFailed'
      BY <2>1, <3>1 DEF OpenFailed
    <3> QED BY <3>2 DEF OpenFailed
  <2>3. Database!Fail
    BY <1>1, <1>3, <1>4, <2>2 DEF Database!Fail, ConnectRaises
  <2> QED BY <2>3 DEF Database!Next
<1>5. CASE ~ ConnectRaises(t)
  <2>1. thread'[t].pc # "failed" /\ thread[t].pc # "failed"
    BY <1>5 DEF Thread, Connect, Get, Run, Signal, Goto, WorkerInv, TypeInv, ThreadType
  <2>2. OpenFailed' <=> OpenFailed
    BY <1>1, <1>2, <2>1, FailedKeeps
  <2>3. OpenFailed' = OpenFailed /\ OpenFailed = FALSE
    BY <1>3, <2>2 DEF OpenFailed
  <2>4. CASE Connect(t) \/ Get(t)
    <3>1. done' = done /\ applied' = applied
      BY <2>4 DEF Connect, Get
    <3> QED BY <1>1, <2>3, <3>1 DEF Database!vars
  <2>5. CASE Run(t)
    <3>1. thread[t].pc = "run" /\ applied' = Append(applied, thread[t].task) /\ done' = done
      BY <2>5 DEF Run
    <3>2. thread[t].task = Len(applied) + 1 /\ InHand = 1
      BY <1>2, <3>1 DEF WorkerInv, InOrder, InHand
    <3>3. Len(applied) < calls
      <4>1. Len(applied) \in Nat /\ calls \in Nat
        BY DEF WorkerInv, TypeInv
      <4>2. Len(applied) + InHand <= calls
        <5>1. ~ StopQueued => calls = Len(applied) + InHand + Len(tasks)
          BY DEF WorkerInv, InOrder
        <5>2. StopQueued => calls + 1 = Len(applied) + InHand + Len(tasks) /\ Len(tasks) >= 1
          BY DEF WorkerInv, InOrder, StopQueued, TypeInv
        <5>3. Len(tasks) \in Nat
          BY DEF WorkerInv, TypeInv
        <5> QED BY <3>2, <4>1, <5>1, <5>2, <5>3
      <4> QED BY <3>2, <4>1, <4>2
    <3>4. Database!TakeEffect
      BY <1>1, <1>3, <2>3, <3>1, <3>2, <3>3 DEF Database!TakeEffect
    <3> QED BY <3>4 DEF Database!Next
  <2>6. CASE Signal(t)
    <3>1. thread[t].pc = "signal" /\ done' = done \cup {thread[t].task} /\ applied' = applied
      BY <2>6 DEF Signal
    <3>2. thread[t].task = Len(applied) /\ applied # <<>>
      BY <1>2, <3>1 DEF WorkerInv, InOrder
    <3>3. Len(applied) \in 1..Len(applied)
      BY <3>2 DEF WorkerInv, TypeInv
    <3>4. Database!Answer
      BY <1>1, <1>3, <2>3, <3>1, <3>2, <3>3 DEF Database!Answer
    <3> QED BY <3>4 DEF Database!Next
  <2> QED BY <1>5, <2>4, <2>5, <2>6 DEF Thread
<1> QED BY <1>4, <1>5

LEMMA DatabaseStep ==
    ASSUME WorkerInv, Served, Served', WorkerInv', [Next]_vars
    PROVE  [Database!Next]_(Database!vars)
<1>1. ASSUME NEW c \in Callers, Call(c)
      PROVE  [Database!Next]_(Database!vars)
  <2>1. ~ OpenFailed'
    BY <1>1, CallServes
  <2>2. OpenFailed' = FALSE
    BY <2>1 DEF OpenFailed
  <2>3. /\ closing.pc = "open" /\ closing' = closing /\ calls' = calls + 1
        /\ applied' = applied /\ done' = done
    BY <1>1 DEF Call, WorkerInv, OneThread
  <2>4. Database!Call
    BY <2>2, <2>3 DEF Database!Call
  <2> QED BY <2>4 DEF Database!Next
<1> QED BY <1>1, OutsideImplements, ThreadImplements DEF Next

(* The database the other modules rely on: calls take effect one by one in *)
(* the order they are made, are answered after their effect, and are all   *)
(* answered when close() returns, whatever threads fail and are started.   *)
THEOREM WorkerImplementsDatabase == Spec => ImplementsDatabase
<1>1. Init => Database!Init
  BY DatabaseInit
<1>2. (WorkerInv /\ Served) /\ (WorkerInv /\ Served)' /\ [Next]_vars
          => [Database!Next]_(Database!vars)
  BY DatabaseStep
<1> QED BY <1>1, <1>2, ServedInvariant, PTL DEF Spec, ImplementsDatabase, Database!Spec
=============================================================================
