------------------------ MODULE TelegramRuntimeProofs ------------------------
(***************************************************************************)
(* TelegramRuntime implements TelegramLogin and keeps one listener, for    *)
(* every set of client and service objects.  The services' invariant needs *)
(* nothing of the login but where start_telegram_runtime is called; the    *)
(* refinement follows from it, then the login's invariants hold of the     *)
(* whole application, and the shutdown needs both.                         *)
(***************************************************************************)
EXTENDS TelegramRuntime, TelegramLoginProofs

ServiceTypes ==
    /\ phase \in {"up", "closing", "stopping", "closed"}
    /\ running \in Services \cup {NoService}
    /\ fresh \in Services \cup {NoService}
    /\ starting \in {"no", "stopping", "replacing", "asking", "greeting"}
    /\ flagged \subseteq Services /\ online \subseteq Services
    /\ handling \subseteq Services /\ watched \subseteq Services
    /\ stopped \subseteq Services /\ revived \subseteq Services
    /\ attempt \in [pc : {"none", "begun", "connecting", "asking", "transfer"},
                    service : Services \cup {NoService}]

(* Where start_telegram_runtime is, and what it has done so far.           *)
StartOK ==
    /\ starting # "no" => op.pc = "start" /\ phase = "up"
    /\ phase # "up" => op.pc = "idle"
    /\ fresh = NoService <=> starting \notin {"asking", "greeting"}
    /\ fresh # NoService => fresh # running /\ fresh # attempt.service
    /\ starting = "stopping" => running # NoService
    /\ starting # "no" /\ running # NoService => running \in stopped
    /\ starting \in {"replacing", "asking", "greeting"} /\ running \in online => running \in revived
    /\ starting = "greeting" => fresh \in flagged

(* Only the running service has a monitor, and it has one until it is      *)
(* stopped; an attempt uses the running service or one that was stopped.   *)
WatchOK ==
    /\ watched \subseteq {running}
    /\ watched \cap stopped = {} /\ fresh \notin stopped
    /\ running # NoService => running \in watched \cup stopped
    /\ flagged \subseteq watched \cup {fresh} \cup stopped
    /\ attempt.pc = "none" <=> attempt.service = NoService
    /\ attempt.service # NoService => attempt.service \in {running} \cup stopped
    /\ phase \in {"stopping", "closed"} => attempt.pc = "none"
    /\ phase = "closed" => running \notin online

ListenerSeen == listener = ListenerOf(running, flagged)

ServiceInv == ServiceTypes /\ StartOK /\ WatchOK /\ OneListener /\ ListenerSeen

-----------------------------------------------------------------------------
(* No login operation is in progress while the runtime is started.         *)
LEMMA LoginNotStarting ==
    ASSUME LoginStep
    PROVE  op.pc # "start" /\ phase = "up"
BY DEF LoginStep, Status, StatusDone, SendingCode, SendCode, CheckSession, CodeSent,
       CodeNotSent, Verifying, Verify, SignInRefused, PasswordNeeded, SignedIn, Authorized,
       NotAuthorized, Cancel, Raise, ClearRaises

LEMMA LoginKeepsListener ==
    ASSUME LoginStep \/ LoginEnvironment
    PROVE  UNCHANGED <<runtime, listener>>
BY DEF LoginStep, LoginEnvironment, Status, StatusDone, SendingCode, SendCode, CheckSession,
       CodeSent, CodeNotSent, Verifying, Verify, SignInRefused, PasswordNeeded, SignedIn,
       Authorized, NotAuthorized, Cancel, Raise, ClearRaises, Expire, Revoke, runtime

LEMMA InitServices == AppInit => ServiceInv
BY RuntimeAssumption
   DEF AppInit, Init, NoAttempt, ServiceInv, ServiceTypes, StartOK, WatchOK, OneListener,
       ListenerSeen, ListenerOf

LEMMA LoginKeepsServices ==
    ASSUME ServiceInv, LoginStep \/ LoginEnvironment
    PROVE  ServiceInv'
<1>1. UNCHANGED <<runtime, listener>>
  BY LoginKeepsListener
<1>2. CASE LoginStep
  <2>1. op.pc # "start" /\ phase = "up" /\ starting = "no"
    BY <1>2, LoginNotStarting DEF ServiceInv, StartOK
  <2> QED BY <1>1, <2>1
       DEF runtime, service, ServiceInv, ServiceTypes, StartOK, WatchOK, OneListener, ListenerSeen
<1>3. CASE LoginEnvironment
  <2>1. op' = op
    BY <1>3 DEF LoginEnvironment, Expire, Revoke
  <2> QED BY <1>1, <2>1
       DEF runtime, service, ServiceInv, ServiceTypes, StartOK, WatchOK, OneListener, ListenerSeen
<1> QED BY <1>2, <1>3

LEMMA StartingKeeps ==
    ASSUME ServiceInv, Starting
    PROVE  ServiceInv'
<1> USE RuntimeAssumption DEF ServiceInv
<1>1. CASE RuntimeBegins
  <2>1. ServiceTypes'
    BY <1>1 DEF RuntimeBegins, StopBegins, login, vars, service, SeenByLogin, ServiceTypes, StartOK, WatchOK
  <2>2. StartOK'
    BY <1>1 DEF RuntimeBegins, StopBegins, login, vars, service, SeenByLogin, ServiceTypes, StartOK, WatchOK
  <2>3. WatchOK'
    BY <1>1 DEF RuntimeBegins, StopBegins, login, vars, service, SeenByLogin, ServiceTypes, StartOK, WatchOK
  <2>4. OneListener'
    BY <1>1 DEF RuntimeBegins, StopBegins, login, vars, service, SeenByLogin, ServiceTypes, StartOK, WatchOK, OneListener
  <2>5. ListenerSeen'
    BY <1>1 DEF RuntimeBegins, StopBegins, login, vars, service, SeenByLogin, ServiceTypes, StartOK, WatchOK, ListenerSeen, ListenerOf
  <2> QED BY <2>1, <2>2, <2>3, <2>4, <2>5
<1>2. CASE OldDisconnects
  <2>1. ServiceTypes'
    BY <1>2 DEF OldDisconnects, Disconnect, login, vars, service, SeenByLogin, ServiceTypes, StartOK, WatchOK
  <2>2. StartOK'
    BY <1>2 DEF OldDisconnects, Disconnect, login, vars, service, SeenByLogin, ServiceTypes, StartOK, WatchOK
  <2>3. WatchOK'
    BY <1>2 DEF OldDisconnects, Disconnect, login, vars, service, SeenByLogin, ServiceTypes, StartOK, WatchOK
  <2>4. OneListener'
    BY <1>2 DEF OldDisconnects, Disconnect, login, vars, service, SeenByLogin, ServiceTypes, StartOK, WatchOK, OneListener
  <2>5. ListenerSeen'
    BY <1>2 DEF OldDisconnects, Disconnect, login, vars, service, SeenByLogin, ServiceTypes, StartOK, WatchOK, ListenerSeen, ListenerOf
  <2> QED BY <2>1, <2>2, <2>3, <2>4, <2>5
<1>3. CASE FreshConnects
  <2>1. ServiceTypes'
    BY <1>3 DEF FreshConnects, login, vars, service, SeenByLogin, ServiceTypes, StartOK, WatchOK
  <2>2. StartOK'
    BY <1>3 DEF FreshConnects, login, vars, service, SeenByLogin, ServiceTypes, StartOK, WatchOK
  <2>3. WatchOK'
    BY <1>3 DEF FreshConnects, login, vars, service, SeenByLogin, ServiceTypes, StartOK, WatchOK
  <2>4. OneListener'
    BY <1>3 DEF FreshConnects, login, vars, service, SeenByLogin, ServiceTypes, StartOK, WatchOK, OneListener
  <2>5. ListenerSeen'
    BY <1>3 DEF FreshConnects, login, vars, service, SeenByLogin, ServiceTypes, StartOK, WatchOK, ListenerSeen, ListenerOf
  <2> QED BY <2>1, <2>2, <2>3, <2>4, <2>5
<1>4. CASE FreshListens
  <2>1. ServiceTypes'
    BY <1>4 DEF FreshListens, login, vars, service, SeenByLogin, ServiceTypes, StartOK, WatchOK
  <2>2. StartOK'
    BY <1>4 DEF FreshListens, login, vars, service, SeenByLogin, ServiceTypes, StartOK, WatchOK
  <2>3. WatchOK'
    BY <1>4 DEF FreshListens, login, vars, service, SeenByLogin, ServiceTypes, StartOK, WatchOK
  <2>4. OneListener'
    BY <1>4 DEF FreshListens, login, vars, service, SeenByLogin, ServiceTypes, StartOK, WatchOK, OneListener
  <2>5. ListenerSeen'
    BY <1>4 DEF FreshListens, login, vars, service, SeenByLogin, ServiceTypes, StartOK, WatchOK, ListenerSeen, ListenerOf
  <2> QED BY <2>1, <2>2, <2>3, <2>4, <2>5
<1>5. CASE RuntimeReplaces
  <2>1. ServiceTypes'
    BY <1>5 DEF RuntimeReplaces, Answer, NoOp, login, vars, service, SeenByLogin, ServiceTypes, StartOK, WatchOK
  <2>2. StartOK'
    BY <1>5 DEF RuntimeReplaces, Answer, NoOp, login, vars, service, SeenByLogin, ServiceTypes, StartOK, WatchOK
  <2>3. WatchOK'
    BY <1>5 DEF RuntimeReplaces, Answer, NoOp, login, vars, service, SeenByLogin, ServiceTypes, StartOK, WatchOK
  <2>4. OneListener'
    BY <1>5 DEF RuntimeReplaces, Answer, NoOp, login, vars, service, SeenByLogin, ServiceTypes, StartOK, WatchOK, OneListener
  <2>5. ListenerSeen'
    BY <1>5 DEF RuntimeReplaces, Answer, NoOp, login, vars, service, SeenByLogin, ServiceTypes, StartOK, WatchOK, ListenerSeen, ListenerOf
  <2> QED BY <2>1, <2>2, <2>3, <2>4, <2>5
<1>6. CASE RuntimeGivesUp
  <2>1. ServiceTypes'
    BY <1>6 DEF RuntimeGivesUp, StopBegins, Disconnect, Answer, NoOp, login, vars, service, SeenByLogin, ServiceTypes, StartOK, WatchOK
  <2>2. StartOK'
    BY <1>6 DEF RuntimeGivesUp, StopBegins, Disconnect, Answer, NoOp, login, vars, service, SeenByLogin, ServiceTypes, StartOK, WatchOK
  <2>3. WatchOK'
    BY <1>6 DEF RuntimeGivesUp, StopBegins, Disconnect, Answer, NoOp, login, vars, service, SeenByLogin, ServiceTypes, StartOK, WatchOK
  <2>4. OneListener'
    BY <1>6 DEF RuntimeGivesUp, StopBegins, Disconnect, Answer, NoOp, login, vars, service, SeenByLogin, ServiceTypes, StartOK, WatchOK, OneListener
  <2>5. ListenerSeen'
    BY <1>6 DEF RuntimeGivesUp, StopBegins, Disconnect, Answer, NoOp, login, vars, service, SeenByLogin, ServiceTypes, StartOK, WatchOK, ListenerSeen, ListenerOf
  <2> QED BY <2>1, <2>2, <2>3, <2>4, <2>5
<1> QED BY <1>1, <1>2, <1>3, <1>4, <1>5, <1>6 DEF Starting

LEMMA DownloadingKeeps ==
    ASSUME ServiceInv, Downloading
    PROVE  ServiceInv'
<1> USE RuntimeAssumption DEF ServiceInv
<1>1. CASE AttemptBegins
  <2>1. ServiceTypes'
    BY <1>1 DEF AttemptBegins, login, vars, service, SeenByLogin, ServiceTypes, StartOK, WatchOK
  <2>2. StartOK'
    BY <1>1 DEF AttemptBegins, login, vars, service, SeenByLogin, ServiceTypes, StartOK, WatchOK
  <2>3. WatchOK'
    BY <1>1 DEF AttemptBegins, login, vars, service, SeenByLogin, ServiceTypes, StartOK, WatchOK
  <2>4. OneListener'
    BY <1>1 DEF AttemptBegins, login, vars, service, SeenByLogin, ServiceTypes, StartOK, WatchOK, OneListener
  <2>5. ListenerSeen'
    BY <1>1 DEF AttemptBegins, login, vars, service, SeenByLogin, ServiceTypes, StartOK, WatchOK, ListenerSeen, ListenerOf
  <2> QED BY <2>1, <2>2, <2>3, <2>4, <2>5
<1>2. CASE EnsureConnected
  <2>1. ServiceTypes'
    BY <1>2 DEF EnsureConnected, Attempting, login, vars, service, SeenByLogin, ServiceTypes, StartOK, WatchOK
  <2>2. StartOK'
    BY <1>2 DEF EnsureConnected, Attempting, login, vars, service, SeenByLogin, ServiceTypes, StartOK, WatchOK
  <2>3. WatchOK'
    BY <1>2 DEF EnsureConnected, Attempting, login, vars, service, SeenByLogin, ServiceTypes, StartOK, WatchOK
  <2>4. OneListener'
    BY <1>2 DEF EnsureConnected, Attempting, login, vars, service, SeenByLogin, ServiceTypes, StartOK, WatchOK, OneListener
  <2>5. ListenerSeen'
    BY <1>2 DEF EnsureConnected, Attempting, login, vars, service, SeenByLogin, ServiceTypes, StartOK, WatchOK, ListenerSeen, ListenerOf
  <2> QED BY <2>1, <2>2, <2>3, <2>4, <2>5
<1>3. CASE AttemptConnects
  <2>1. ServiceTypes'
    BY <1>3 DEF AttemptConnects, Attempting, login, vars, service, SeenByLogin, ServiceTypes, StartOK, WatchOK
  <2>2. StartOK'
    BY <1>3 DEF AttemptConnects, Attempting, login, vars, service, SeenByLogin, ServiceTypes, StartOK, WatchOK
  <2>3. WatchOK'
    BY <1>3 DEF AttemptConnects, Attempting, login, vars, service, SeenByLogin, ServiceTypes, StartOK, WatchOK
  <2>4. OneListener'
    BY <1>3 DEF AttemptConnects, Attempting, login, vars, service, SeenByLogin, ServiceTypes, StartOK, WatchOK, OneListener
  <2>5. ListenerSeen'
    BY <1>3 DEF AttemptConnects, Attempting, login, vars, service, SeenByLogin, ServiceTypes, StartOK, WatchOK, ListenerSeen, ListenerOf
  <2> QED BY <2>1, <2>2, <2>3, <2>4, <2>5
<1>4. CASE AttemptAsks
  <2>1. ServiceTypes'
    BY <1>4 DEF AttemptAsks, Attempting, NoAttempt, login, vars, service, SeenByLogin, ServiceTypes, StartOK, WatchOK
  <2>2. StartOK'
    BY <1>4 DEF AttemptAsks, Attempting, NoAttempt, login, vars, service, SeenByLogin, ServiceTypes, StartOK, WatchOK
  <2>3. WatchOK'
    BY <1>4 DEF AttemptAsks, Attempting, NoAttempt, login, vars, service, SeenByLogin, ServiceTypes, StartOK, WatchOK
  <2>4. OneListener'
    BY <1>4 DEF AttemptAsks, Attempting, NoAttempt, login, vars, service, SeenByLogin, ServiceTypes, StartOK, WatchOK, OneListener
  <2>5. ListenerSeen'
    BY <1>4 DEF AttemptAsks, Attempting, NoAttempt, login, vars, service, SeenByLogin, ServiceTypes, StartOK, WatchOK, ListenerSeen, ListenerOf
  <2> QED BY <2>1, <2>2, <2>3, <2>4, <2>5
<1>5. CASE AttemptEnds
  <2>1. ServiceTypes'
    BY <1>5 DEF AttemptEnds, NoAttempt, login, vars, service, SeenByLogin, ServiceTypes, StartOK, WatchOK
  <2>2. StartOK'
    BY <1>5 DEF AttemptEnds, NoAttempt, login, vars, service, SeenByLogin, ServiceTypes, StartOK, WatchOK
  <2>3. WatchOK'
    BY <1>5 DEF AttemptEnds, NoAttempt, login, vars, service, SeenByLogin, ServiceTypes, StartOK, WatchOK
  <2>4. OneListener'
    BY <1>5 DEF AttemptEnds, NoAttempt, login, vars, service, SeenByLogin, ServiceTypes, StartOK, WatchOK, OneListener
  <2>5. ListenerSeen'
    BY <1>5 DEF AttemptEnds, NoAttempt, login, vars, service, SeenByLogin, ServiceTypes, StartOK, WatchOK, ListenerSeen, ListenerOf
  <2> QED BY <2>1, <2>2, <2>3, <2>4, <2>5
<1> QED BY <1>1, <1>2, <1>3, <1>4, <1>5 DEF Downloading

LEMMA OthersKeepServices ==
    ASSUME ServiceInv, ConnectionLost \/ MonitorNotices \/ Ending
    PROVE  ServiceInv'
<1> USE RuntimeAssumption DEF ServiceInv
<1>1. CASE ConnectionLost
  <2>1. ServiceTypes'
    BY <1>1 DEF ConnectionLost, Disconnect, login, vars, service, SeenByLogin, ServiceTypes, StartOK, WatchOK
  <2>2. StartOK'
    BY <1>1 DEF ConnectionLost, Disconnect, login, vars, service, SeenByLogin, ServiceTypes, StartOK, WatchOK
  <2>3. WatchOK'
    BY <1>1 DEF ConnectionLost, Disconnect, login, vars, service, SeenByLogin, ServiceTypes, StartOK, WatchOK
  <2>4. OneListener'
    BY <1>1 DEF ConnectionLost, Disconnect, login, vars, service, SeenByLogin, ServiceTypes, StartOK, WatchOK, OneListener
  <2>5. ListenerSeen'
    BY <1>1 DEF ConnectionLost, Disconnect, login, vars, service, SeenByLogin, ServiceTypes, StartOK, WatchOK, ListenerSeen, ListenerOf
  <2> QED BY <2>1, <2>2, <2>3, <2>4, <2>5
<1>2. CASE MonitorNotices
  <2>1. ServiceTypes'
    BY <1>2 DEF MonitorNotices, login, vars, service, SeenByLogin, ServiceTypes, StartOK, WatchOK
  <2>2. StartOK'
    BY <1>2 DEF MonitorNotices, login, vars, service, SeenByLogin, ServiceTypes, StartOK, WatchOK
  <2>3. WatchOK'
    BY <1>2 DEF MonitorNotices, login, vars, service, SeenByLogin, ServiceTypes, StartOK, WatchOK
  <2>4. OneListener'
    BY <1>2 DEF MonitorNotices, login, vars, service, SeenByLogin, ServiceTypes, StartOK, WatchOK, OneListener
  <2>5. ListenerSeen'
    BY <1>2 DEF MonitorNotices, login, vars, service, SeenByLogin, ServiceTypes, StartOK, WatchOK, ListenerSeen, ListenerOf
  <2> QED BY <2>1, <2>2, <2>3, <2>4, <2>5
<1>3. CASE CloseLogin
  <2>1. ServiceTypes'
    BY <1>3 DEF CloseLogin, Cancel, Answer, NoOp, login, vars, service, SeenByLogin, ServiceTypes, StartOK, WatchOK
  <2>2. StartOK'
    BY <1>3 DEF CloseLogin, Cancel, Answer, NoOp, login, vars, service, SeenByLogin, ServiceTypes, StartOK, WatchOK
  <2>3. WatchOK'
    BY <1>3 DEF CloseLogin, Cancel, Answer, NoOp, login, vars, service, SeenByLogin, ServiceTypes, StartOK, WatchOK
  <2>4. OneListener'
    BY <1>3 DEF CloseLogin, Cancel, Answer, NoOp, login, vars, service, SeenByLogin, ServiceTypes, StartOK, WatchOK, OneListener
  <2>5. ListenerSeen'
    BY <1>3 DEF CloseLogin, Cancel, Answer, NoOp, login, vars, service, SeenByLogin, ServiceTypes, StartOK, WatchOK, ListenerSeen, ListenerOf
  <2> QED BY <2>1, <2>2, <2>3, <2>4, <2>5
<1>4. CASE StopQueue
  <2>1. ServiceTypes'
    BY <1>4 DEF StopQueue, StopBegins, NoAttempt, login, vars, service, SeenByLogin, ServiceTypes, StartOK, WatchOK
  <2>2. StartOK'
    BY <1>4 DEF StopQueue, StopBegins, NoAttempt, login, vars, service, SeenByLogin, ServiceTypes, StartOK, WatchOK
  <2>3. WatchOK'
    BY <1>4 DEF StopQueue, StopBegins, NoAttempt, login, vars, service, SeenByLogin, ServiceTypes, StartOK, WatchOK
  <2>4. OneListener'
    BY <1>4 DEF StopQueue, StopBegins, NoAttempt, login, vars, service, SeenByLogin, ServiceTypes, StartOK, WatchOK, OneListener
  <2>5. ListenerSeen'
    BY <1>4 DEF StopQueue, StopBegins, NoAttempt, login, vars, service, SeenByLogin, ServiceTypes, StartOK, WatchOK, ListenerSeen, ListenerOf
  <2> QED BY <2>1, <2>2, <2>3, <2>4, <2>5
<1>5. CASE StopService
  <2>1. ServiceTypes'
    BY <1>5 DEF StopService, Disconnect, login, vars, service, SeenByLogin, ServiceTypes, StartOK, WatchOK
  <2>2. StartOK'
    BY <1>5 DEF StopService, Disconnect, login, vars, service, SeenByLogin, ServiceTypes, StartOK, WatchOK
  <2>3. WatchOK'
    BY <1>5 DEF StopService, Disconnect, login, vars, service, SeenByLogin, ServiceTypes, StartOK, WatchOK
  <2>4. OneListener'
    BY <1>5 DEF StopService, Disconnect, login, vars, service, SeenByLogin, ServiceTypes, StartOK, WatchOK, OneListener
  <2>5. ListenerSeen'
    BY <1>5 DEF StopService, Disconnect, login, vars, service, SeenByLogin, ServiceTypes, StartOK, WatchOK, ListenerSeen, ListenerOf
  <2> QED BY <2>1, <2>2, <2>3, <2>4, <2>5
<1>6. CASE AppRestart
  <2>1. ServiceTypes'
    BY <1>6 DEF AppRestart, Restart, NoAttempt, login, vars, service, SeenByLogin, ServiceTypes, StartOK, WatchOK
  <2>2. StartOK'
    BY <1>6 DEF AppRestart, Restart, NoAttempt, login, vars, service, SeenByLogin, ServiceTypes, StartOK, WatchOK
  <2>3. WatchOK'
    BY <1>6 DEF AppRestart, Restart, NoAttempt, login, vars, service, SeenByLogin, ServiceTypes, StartOK, WatchOK
  <2>4. OneListener'
    BY <1>6 DEF AppRestart, Restart, NoAttempt, login, vars, service, SeenByLogin, ServiceTypes, StartOK, WatchOK, OneListener
  <2>5. ListenerSeen'
    BY <1>6 DEF AppRestart, Restart, NoAttempt, login, vars, service, SeenByLogin, ServiceTypes, StartOK, WatchOK, ListenerSeen, ListenerOf
  <2> QED BY <2>1, <2>2, <2>3, <2>4, <2>5
<1> QED BY <1>1, <1>2, <1>3, <1>4, <1>5, <1>6 DEF Ending
LEMMA NextServices == ServiceInv /\ [AppNext]_appVars => ServiceInv'
<1> SUFFICES ASSUME ServiceInv, [AppNext]_appVars
             PROVE  ServiceInv'
    OBVIOUS
<1>1. CASE AppNext
  BY <1>1, LoginKeepsServices, StartingKeeps, DownloadingKeeps, OthersKeepServices DEF AppNext
<1>2. CASE UNCHANGED appVars
  BY <1>2 DEF appVars, vars, runtime, service, ServiceInv, ServiceTypes, StartOK, WatchOK,
              OneListener, ListenerSeen
<1> QED BY <1>1, <1>2

THEOREM ServiceInvariant == AppSpec => []ServiceInv
BY InitServices, NextServices, PTL DEF AppSpec

(* However logins, starts that fail, lost connections and attempts         *)
(* interleave (main.py, telegram_client.py), only the running service and   *)
(* the one that starts are connected, but for those an attempt revived.     *)
THEOREM ListenerIsOne == AppSpec => []OneListener
BY ServiceInvariant, PTL DEF ServiceInv

(* A wrong `connected` flag is found out by a monitor or belongs to a       *)
(* service that is starting or was stopped.                                *)
THEOREM FlagsAreHonest == AppSpec => []FlagIsHonest
<1>1. ServiceInv => FlagIsHonest
  BY DEF ServiceInv, WatchOK, FlagIsHonest
<1> QED BY <1>1, ServiceInvariant, PTL

-----------------------------------------------------------------------------
(* The refinement.  A step of the services is one the login calls            *)
(* ListenerDrops, ListenerReconnects, RuntimeStarts or RuntimeFails, or one  *)
(* it does not see.                                                         *)

(* When only flags change, the listener drops, is reconnected, or is as it  *)
(* was.                                                                     *)
LEMMA FlagStep ==
    ASSUME ServiceInv, UNCHANGED <<login, running>>, SeenByLogin
    PROVE  [Next]_vars
<1>1. listener = "none" <=> listener' = "none"
  BY DEF ServiceInv, ListenerSeen, SeenByLogin, ListenerOf
<1>2. {listener, listener'} \subseteq {"none", "listening", "stopped"}
  BY DEF ServiceInv, ListenerSeen, SeenByLogin, ListenerOf
<1>3. CASE listener' = listener
  BY <1>3 DEF vars, login
<1>4. CASE listener = "listening" /\ listener' = "stopped"
  BY <1>4 DEF login, Next, ListenerDrops
<1>5. CASE listener = "stopped" /\ listener' = "listening"
  BY <1>5 DEF login, Next, ListenerReconnects
<1> QED BY <1>1, <1>2, <1>3, <1>4, <1>5

LEMMA StartingRefines ==
    ASSUME ServiceInv, Starting
    PROVE  [Next]_vars
<1>1. CASE RuntimeBegins
  BY <1>1, FlagStep DEF RuntimeBegins
<1>2. CASE OldDisconnects \/ FreshConnects \/ FreshListens
  BY <1>2 DEF OldDisconnects, FreshConnects, FreshListens
<1>3. CASE RuntimeReplaces
  <2>1. op.pc = "start" /\ running' = fresh /\ fresh # NoService /\ fresh \in flagged
    BY <1>3 DEF RuntimeReplaces, ServiceInv, StartOK
  <2>2. listener' = "listening"
    BY <1>3, <2>1 DEF RuntimeReplaces, service, SeenByLogin, ListenerOf
  <2> QED BY <1>3, <2>1, <2>2 DEF RuntimeReplaces, RuntimeStarts, Next
<1>4. CASE RuntimeGivesUp
  <2>1. op.pc = "start" /\ (fresh = NoService \/ fresh # running)
    BY <1>4 DEF RuntimeGivesUp, ServiceInv, StartOK
  <2>2. listener' = listener
    BY <1>4, <2>1 DEF RuntimeGivesUp, StopBegins, SeenByLogin, ListenerOf, ServiceInv, ListenerSeen
  <2> QED BY <1>4, <2>1, <2>2 DEF RuntimeGivesUp, RuntimeFails, Next
<1> QED BY <1>1, <1>2, <1>3, <1>4 DEF Starting

LEMMA StepRefines == ServiceInv /\ [AppNext]_appVars => [Next]_vars
<1> SUFFICES ASSUME ServiceInv, [AppNext]_appVars
             PROVE  [Next]_vars
    OBVIOUS
<1>1. CASE LoginStep \/ LoginEnvironment
  BY <1>1 DEF LoginStep, LoginEnvironment, Next
<1>2. CASE Starting
  BY <1>2, StartingRefines
<1>3. CASE AttemptBegins \/ AttemptConnects \/ AttemptEnds \/ ConnectionLost \/ StopService
  BY <1>3 DEF AttemptBegins, AttemptConnects, AttemptEnds, ConnectionLost, StopService
<1>4. CASE EnsureConnected \/ AttemptAsks \/ MonitorNotices \/ StopQueue
  BY <1>4, FlagStep DEF EnsureConnected, AttemptAsks, MonitorNotices, StopQueue
<1>5. CASE CloseLogin \/ AppRestart
  BY <1>5 DEF CloseLogin, AppRestart, Next
<1>6. CASE UNCHANGED appVars
  BY <1>6 DEF appVars
<1> QED BY <1>1, <1>2, <1>3, <1>4, <1>5, <1>6 DEF AppNext, Downloading, Ending

(* The services and their starts, attempts, monitors and shutdown do with  *)
(* the login's state and its listener only what TelegramLogin says: the    *)
(* whole application implements the login.                                 *)
THEOREM RuntimeImplementsLogin == AppSpec => ImplementsLogin
<1>1. AppInit => Init
  BY DEF AppInit
<1> QED BY <1>1, StepRefines, ServiceInvariant, PTL DEF AppSpec, Spec, ImplementsLogin

-----------------------------------------------------------------------------
(* The shutdown.                                                           *)

THEOREM LoginInApplication == AppSpec => []LoginInv
BY RuntimeImplementsLogin, LoginInvariant DEF ImplementsLogin

(* The parts of the state of login and services keep their types.          *)
THEOREM RuntimeTypeCorrect == AppSpec => []RuntimeTypeOK
<1>1. ServiceInv /\ LoginInv => RuntimeTypeOK
  BY DEF ServiceInv, ServiceTypes, LoginInv, RuntimeTypeOK
<1> QED BY <1>1, ServiceInvariant, LoginInApplication, PTL

(* Once the login is closed no login is pending, and none begins.          *)
LoginClosed == phase # "up" => client = NoClient /\ step = "none"

LEMMA NextClosed ==
    ASSUME ServiceInv, LoginInv, LoginClosed, [AppNext]_appVars
    PROVE  LoginClosed'
<1>1. CASE LoginStep
  <2>1. phase = "up" /\ phase' = phase
    BY <1>1 DEF LoginStep, runtime
  <2> QED BY <2>1 DEF LoginClosed
<1>2. CASE LoginEnvironment
  BY <1>2 DEF LoginEnvironment, Expire, Revoke, runtime, LoginClosed
<1>3. CASE Starting
  <2>1. phase = "up" /\ phase' = phase
    BY <1>3 DEF Starting, RuntimeBegins, OldDisconnects, FreshConnects, FreshListens,
                RuntimeReplaces, RuntimeGivesUp, ServiceInv, StartOK
  <2> QED BY <2>1 DEF LoginClosed
<1>4. CASE Downloading \/ ConnectionLost \/ MonitorNotices
  BY <1>4 DEF Downloading, AttemptBegins, EnsureConnected, AttemptConnects, AttemptAsks,
              AttemptEnds, ConnectionLost, MonitorNotices, vars, login, LoginClosed
<1>5. CASE CloseLogin
  BY <1>5 DEF CloseLogin, Cancel, ClearPending, ClearAndOpen, LoginClosed
<1>6. CASE StopQueue \/ StopService
  BY <1>6 DEF StopQueue, StopService, vars, login, LoginClosed
<1>7. CASE AppRestart
  BY <1>7 DEF AppRestart, LoginClosed
<1>8. CASE UNCHANGED appVars
  BY <1>8 DEF appVars, vars, runtime, LoginClosed
<1> QED BY <1>1, <1>2, <1>3, <1>4, <1>5, <1>6, <1>7, <1>8 DEF AppNext, Ending

THEOREM ClosedInvariant == AppSpec => []LoginClosed
<1>1. AppInit => LoginClosed
  BY DEF AppInit, LoginClosed
<1> QED BY <1>1, NextClosed, ServiceInvariant, LoginInApplication, PTL DEF AppSpec

(* When the lifespan (main.py) has ended, no client of a login, a listener  *)
(* or a start that failed is connected, wherever the shutdown met the      *)
(* login, the attempt and the start of the runtime.                        *)
THEOREM ShutdownIsClean == AppSpec => []CleanShutdown
<1>1. ServiceInv /\ LoginInv /\ LoginClosed => CleanShutdown
  <2> SUFFICES ASSUME ServiceInv, LoginInv, LoginClosed, phase = "closed"
               PROVE  online \subseteq revived \ {running} /\ connected \subseteq lost
      BY DEF CleanShutdown
  <2>1. fresh = NoService /\ running \notin online /\ op.pc = "idle" /\ client = NoClient
    BY DEF ServiceInv, StartOK, WatchOK, LoginClosed
  <2>2. online \subseteq revived \ {running}
    BY <2>1, RuntimeAssumption DEF ServiceInv, ServiceTypes, OneListener
  <2>3. op.client = NoClient
    BY <2>1 DEF LoginInv, Owned, OpOwnsClient
  <2>4. connected \subseteq lost
    BY <2>1, <2>3, LoginAssumption DEF LoginInv, TypeOK, Owned, NoClientLeak
  <2> QED BY <2>2, <2>4
<1> QED BY <1>1, ServiceInvariant, LoginInApplication, ClosedInvariant, PTL
=============================================================================
