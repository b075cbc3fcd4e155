--------------------------- MODULE TelegramRuntime ---------------------------
(***************************************************************************)
(* The application around the login: the TelegramService objects           *)
(* (telegram_client.py), start_telegram_runtime and the shutdown (main.py) *)
(* and the download attempts that reconnect (ensure_connected, called by   *)
(* downloader.py).  The login is that of TelegramLogin; here its listener  *)
(* is a service, its client, its monitor task and its message handler.     *)
(*                                                                         *)
(* A service is replaced when a login succeeds.  An attempt keeps the      *)
(* service of the Downloader it was started with.                          *)
(***************************************************************************)
EXTENDS TelegramLogin

CONSTANTS
    Services,     \* TelegramService objects; one that nobody refers to is reused
    NoService

ASSUME RuntimeAssumption == NoService \notin Services

VARIABLES
    phase,    \* of the application: "up", "closing", "stopping", "closed"
    running,  \* app.state.telegram, and the service of queue.downloader
    fresh,    \* the service that start_telegram_runtime is starting
    starting, \* where start_telegram_runtime is
    flagged,  \* the services whose `connected` is set
    online,   \* the services whose client is connected
    handling, \* those whose message handler is registered with the client
    watched,  \* those whose monitor task runs
    stopped,  \* those whose `_stopping` is set
    attempt,  \* where the download attempt is, and its service
    revived   \* history: services connected again after they were stopped

service == <<flagged, online, handling, watched, stopped, revived>>
runtime == <<phase, running, fresh, starting, service, attempt>>
login == <<session, step, expired, client, connected, op, outcome, lost>>
appVars == <<vars, runtime>>

NoAttempt == [pc |-> "none", service |-> NoService]

\* What the login sees of the listener.
ListenerOf(s, flags) ==
    IF s = NoService THEN "none" ELSE IF s \in flags THEN "listening" ELSE "stopped"

SeenByLogin == listener' = ListenerOf(running', flagged')

AppInit ==
    /\ Init
    /\ phase = "up"
    /\ running = NoService
    /\ fresh = NoService
    /\ starting = "no"
    /\ flagged = {} /\ online = {} /\ handling = {} /\ watched = {}
    /\ stopped = {} /\ revived = {}
    /\ attempt = NoAttempt

-----------------------------------------------------------------------------
(* TelegramService.stop, up to its last await, and that await.             *)

StopBegins(s) ==
    /\ stopped' = stopped \cup {s}
    /\ flagged' = flagged \ {s}
    /\ watched' = watched \ {s}

Disconnect(s) == online' = online \ {s}

-----------------------------------------------------------------------------
(* start_telegram_runtime, while the login holds its lock.                 *)

\* Mutant: the old service is left alone.
RuntimeKeepsOld ==
    /\ op.pc = "start" /\ starting = "no"
    /\ UNCHANGED <<stopped, flagged, watched>>
    /\ starting' = "replacing"
    /\ UNCHANGED <<login, phase, running, fresh, online, handling, revived, attempt>>
    /\ SeenByLogin

RuntimeBegins ==
    /\ op.pc = "start" /\ starting = "no"
    /\ IF running = NoService THEN UNCHANGED <<stopped, flagged, watched>>
       ELSE StopBegins(running)
    /\ starting' = IF running = NoService THEN "replacing" ELSE "stopping"
    /\ UNCHANGED <<login, phase, running, fresh, online, handling, revived, attempt>>
    /\ SeenByLogin

OldDisconnects ==
    /\ starting = "stopping"
    /\ Disconnect(running)
    /\ starting' = "replacing"
    /\ UNCHANGED <<vars, phase, running, fresh, attempt>>
    /\ UNCHANGED <<flagged, handling, watched, stopped, revived>>

\* A new service object, and the connection of its client.
FreshConnects ==
    /\ starting = "replacing"
    /\ \E s \in Services \ ({running, attempt.service} \cup online) :
        /\ fresh' = s
        /\ online' = online \cup {s}
        /\ flagged' = flagged \ {s}
        /\ handling' = handling \ {s}
        /\ stopped' = stopped \ {s}
        /\ revived' = revived \ {s}
    /\ starting' = "asking"
    /\ UNCHANGED <<vars, phase, running, watched, attempt>>

\* start(): the handler is registered once the session is authorized.
FreshListens ==
    /\ starting = "asking"
    /\ session = "authorized"
    /\ fresh \in online
    /\ handling' = handling \cup {fresh}
    /\ flagged' = flagged \cup {fresh}
    /\ starting' = "greeting"
    /\ UNCHANGED <<vars, phase, running, fresh, online, watched, stopped, revived, attempt>>

\* Mutant: there is no monitor.
RuntimeUnwatched ==
    /\ starting = "greeting"
    /\ session = "authorized"
    /\ fresh \in online
    /\ running' = fresh
    /\ fresh' = NoService
    /\ starting' = "no"
    /\ Answer("authorized") /\ KeepPending
    /\ UNCHANGED <<session, lost, phase, service, attempt>>
    /\ SeenByLogin

\* get_me() is answered: the monitor starts, and application and queue take
\* the new service.  (What queue.start does then is in DownloadQueue.)
RuntimeReplaces ==
    /\ starting = "greeting"
    /\ session = "authorized"
    /\ fresh \in online
    /\ watched' = watched \cup {fresh}
    /\ running' = fresh
    /\ fresh' = NoService
    /\ starting' = "no"
    /\ Answer("authorized") /\ KeepPending
    /\ UNCHANGED <<session, lost, phase, flagged, online, handling, stopped, revived, attempt>>
    /\ SeenByLogin

\* Mutant: the application takes the service before it has started.
RuntimeTakesFailed ==
    /\ starting \in {"asking", "greeting"}
    /\ StopBegins(fresh)
    /\ Disconnect(fresh)
    /\ running' = fresh
    /\ fresh' = NoService
    /\ starting' = "no"
    /\ Answer("authorized") /\ KeepPending
    /\ UNCHANGED <<session, lost, phase, handling, revived, attempt>>
    /\ SeenByLogin

\* A service that does not start is stopped; the old one, which is stopped
\* too, stays where it is, connected when its stop() has raised.
RuntimeGivesUp ==
    /\ starting \in {"stopping", "replacing", "asking", "greeting"}
    /\ IF fresh = NoService THEN UNCHANGED <<stopped, flagged, watched, online>>
       ELSE StopBegins(fresh) /\ Disconnect(fresh)
    /\ fresh' = NoService
    /\ starting' = "no"
    /\ Answer("authorized") /\ KeepPending
    /\ UNCHANGED <<session, lost, phase, running, handling, revived, attempt>>
    /\ SeenByLogin

Starting ==
    \/ RuntimeBegins \/ OldDisconnects \/ FreshConnects \/ FreshListens
    \/ RuntimeReplaces \/ RuntimeGivesUp

-----------------------------------------------------------------------------
(* A download attempt: process() reads its job, ensures the connection and *)
(* transfers.                                                              *)

Attempting(pc) == attempt' = [attempt EXCEPT !.pc = pc]

AttemptBegins ==
    /\ phase \in {"up", "closing"}
    /\ running # NoService
    /\ attempt.pc = "none"
    /\ attempt' = [pc |-> "begun", service |-> running]
    /\ UNCHANGED <<vars, phase, running, fresh, starting, service>>

\* ensure_connected: a connected client is not asked anything.
EnsureConnected ==
    /\ attempt.pc = "begun"
    /\ IF attempt.service \in online
       THEN /\ flagged' = flagged \cup {attempt.service}
            /\ Attempting("transfer")
       ELSE /\ Attempting("connecting")
            /\ UNCHANGED flagged
    /\ UNCHANGED <<login, phase, running, fresh, starting>>
    /\ UNCHANGED <<online, handling, watched, stopped, revived>>
    /\ SeenByLogin

\* The connection takes longer than the monitor needs to see the old one lost.
AttemptConnects ==
    /\ attempt.pc = "connecting"
    /\ attempt.service \notin watched \cap flagged
    /\ online' = online \cup {attempt.service}
    /\ revived' = revived \cup ({attempt.service} \cap stopped)
    /\ Attempting("asking")
    /\ UNCHANGED <<vars, phase, running, fresh, starting, flagged, handling, watched, stopped>>

AttemptAsks ==
    /\ attempt.pc = "asking"
    /\ IF session = "authorized"
       THEN /\ flagged' = flagged \cup {attempt.service}
            /\ Attempting("transfer")
       ELSE /\ flagged' = flagged \ {attempt.service}
            /\ attempt' = NoAttempt
    /\ UNCHANGED <<login, phase, running, fresh, starting>>
    /\ UNCHANGED <<online, handling, watched, stopped, revived>>
    /\ SeenByLogin

\* The file is complete, or any await has raised.
AttemptEnds ==
    /\ attempt.pc # "none"
    /\ attempt' = NoAttempt
    /\ UNCHANGED <<vars, phase, running, fresh, starting, service>>

Downloading ==
    AttemptBegins \/ EnsureConnected \/ AttemptConnects \/ AttemptAsks \/ AttemptEnds

-----------------------------------------------------------------------------
(* Telegram, and the monitor tasks.                                        *)

ConnectionLost ==
    /\ \E s \in online : Disconnect(s)
    /\ UNCHANGED <<vars, phase, running, fresh, starting, attempt>>
    /\ UNCHANGED <<flagged, handling, watched, stopped, revived>>

MonitorNotices ==
    /\ \E s \in (watched \cap flagged) \ online : flagged' = flagged \ {s}
    /\ UNCHANGED <<login, phase, running, fresh, starting, attempt>>
    /\ UNCHANGED <<online, handling, watched, stopped, revived>>
    /\ SeenByLogin

-----------------------------------------------------------------------------
(* The end of the lifespan: the login is closed, the worker is stopped,    *)
(* then the service, then the database.                                    *)

CloseLogin ==
    /\ phase = "up"
    /\ Cancel
    /\ phase' = "closing"
    /\ UNCHANGED <<running, fresh, starting, service, attempt>>

\* Mutant: the service is stopped while the worker still runs.
StopServiceFirst ==
    /\ phase = "closing"
    /\ IF running = NoService THEN UNCHANGED <<stopped, flagged, watched>>
       ELSE StopBegins(running)
    /\ phase' = "stopping"
    /\ UNCHANGED <<login, running, fresh, starting, online, handling, revived, attempt>>
    /\ SeenByLogin

StopQueue ==
    /\ phase = "closing"
    /\ attempt' = NoAttempt
    /\ IF running = NoService THEN UNCHANGED <<stopped, flagged, watched>>
       ELSE StopBegins(running)
    /\ phase' = "stopping"
    /\ UNCHANGED <<login, running, fresh, starting, online, handling, revived>>
    /\ SeenByLogin

StopService ==
    /\ phase = "stopping"
    /\ Disconnect(running)
    /\ phase' = "closed"
    /\ UNCHANGED <<vars, running, fresh, starting, attempt>>
    /\ UNCHANGED <<flagged, handling, watched, stopped, revived>>

\* The process ends, by itself or killed, and starts again.
AppRestart ==
    /\ Restart
    /\ phase' = "up"
    /\ running' = NoService
    /\ fresh' = NoService
    /\ starting' = "no"
    /\ flagged' = {} /\ online' = {} /\ handling' = {} /\ watched' = {}
    /\ stopped' = {} /\ revived' = {}
    /\ attempt' = NoAttempt

Ending == CloseLogin \/ StopQueue \/ StopService \/ AppRestart

-----------------------------------------------------------------------------
LoginStep ==
    /\ phase = "up"
    /\ Status \/ StatusDone \/ SendingCode \/ Verifying \/ Cancel \/ Raise \/ ClearRaises
    /\ UNCHANGED runtime

LoginEnvironment == (Expire \/ Revoke) /\ UNCHANGED runtime

AppNext ==
    \/ LoginStep \/ LoginEnvironment
    \/ Starting \/ Downloading \/ ConnectionLost \/ MonitorNotices \/ Ending

AppSpec == AppInit /\ [][AppNext]_appVars

-----------------------------------------------------------------------------
(* Type invariant: the values each part of the state may take.             *)
RuntimeTypeOK ==
    /\ TypeOK
    /\ phase \in {"up", "closing", "stopping", "closed"}
    /\ running \in Services \cup {NoService}
    /\ fresh \in Services \cup {NoService}
    /\ starting \in {"no", "stopping", "replacing", "asking", "greeting"}
    /\ flagged \subseteq Services /\ online \subseteq Services
    /\ handling \subseteq Services /\ watched \subseteq Services
    /\ stopped \subseteq Services /\ revived \subseteq Services
    /\ attempt.pc \in {"none", "begun", "connecting", "asking", "transfer"}
    /\ attempt.service \in Services \cup {NoService}

(* What the application does with its services is what TelegramLogin says   *)
(* of the listener: connected, stopped or absent, never absent again once   *)
(* it was there, and changed by a login only when the new one has started.  *)
ImplementsLogin == Spec

(* Only one service receives messages: a client that is connected belongs   *)
(* to the running service or to the one being started, unless an attempt    *)
(* that was made with a stopped service has connected it again.             *)
OneListener == online \subseteq {running, fresh} \cup revived

(* A service that calls itself connected and is not is found out: by its    *)
(* monitor, or, while it starts, by the next request.  Only a service that  *)
(* was stopped, and has no monitor any more, may keep a wrong flag.         *)
FlagIsHonest == flagged \ online \subseteq watched \cup {fresh} \cup stopped

(* "Graceful shutdown" (main.py): when the application has closed, no       *)
(* client is left connected to the session file: neither the running        *)
(* service's, that a download would reconnect, nor one of a login or of a   *)
(* start that failed; only those that were lost or revived before.          *)
CleanShutdown ==
    phase = "closed" =>
        /\ online \subseteq revived \ {running}
        /\ connected \subseteq lost
=============================================================================
