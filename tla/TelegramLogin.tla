---------------------------- MODULE TelegramLogin ----------------------------
(***************************************************************************)
(* The browser login: TelegramAuthService (services/telegram_auth.py).      *)
(* The listener it starts when it succeeds (start_telegram_runtime in       *)
(* main.py) is seen as the login sees it; TelegramRuntime has its steps.    *)
(*                                                                         *)
(* Every operation holds one asyncio.Lock from beginning to end, so        *)
(* operations do not overlap; between the awaits of one of them time       *)
(* passes, Telegram may revoke the session and the process may die.        *)
(***************************************************************************)
EXTENDS FiniteSets

CONSTANTS
    Clients,      \* TelegramClient objects of login flows
    NoClient

ASSUME LoginAssumption == NoClient \notin Clients

VARIABLES
    session,   \* the session file: is it authorized with Telegram?
    listener,  \* app.state.telegram: "none", "listening", "stopped"
    step,      \* self._pending: "none", "code" or "password"
    expired,   \* has the pending login outlived its ten minutes?
    client,    \* self._client
    connected, \* the clients that hold a connection
    op,        \* the operation that holds the lock, and its local client
    outcome,   \* what the last operation answered
    lost       \* history: the clients left behind by an unforeseen exception,
               \* or by a disconnection that failed

vars == <<session, listener, step, expired, client, connected, op, outcome, lost>>

Outcomes == {"none", "ok", "code_sent", "password_required", "authorized",
             "already_authorized", "login_in_progress", "no_pending_login",
             "code_expired", "rejected", "telegram_unavailable", "crashed"}

OpPcs == {"idle", "status", "send", "request", "code", "password", "complete", "start"}

NoOp == [pc |-> "idle", client |-> NoClient]

Init ==
    /\ session \in {"unauthorized", "authorized"}
    /\ listener = "none"
    /\ step = "none"
    /\ expired = FALSE
    /\ client = NoClient
    /\ connected = {}
    /\ op = [pc |-> "start", client |-> NoClient]
    /\ outcome = "none"
    /\ lost = {}

-----------------------------------------------------------------------------
(* The pending login.                                                      *)

\* _safe_disconnect swallows what Telegram raises: the client may then stay
\* connected.  opened is what the operation connects next.
Release(c, opened) ==
    \E kept \in SUBSET ({c} \cap connected) :
        /\ connected' = (connected \ {c}) \cup kept \cup opened
        /\ lost' = lost \cup kept

\* _clear_pending, and then the connection of a new client, if any.
ClearAndOpen(opened) ==
    /\ client' = NoClient
    /\ step' = "none"
    /\ expired' = FALSE
    /\ Release(client, opened)

ClearPending == ClearAndOpen({})

KeepPending == UNCHANGED <<client, step, expired, connected, lost>>

\* Any operation but cancel and close drops a login that has expired.
ExpirePending == IF step # "none" /\ expired THEN ClearPending ELSE KeepPending

Answer(answer) ==
    /\ op' = NoOp
    /\ outcome' = answer

Begin(pc, c) ==
    /\ op' = [pc |-> pc, client |-> c]
    /\ UNCHANGED outcome

-----------------------------------------------------------------------------
(* status(): with no listener it borrows the pending client or connects a  *)
(* temporary one, and disconnects only the latter.                         *)
Borrowed == IF step # "none" /\ ~ expired THEN client ELSE NoClient

Status ==
    /\ op.pc = "idle"
    /\ IF listener = "listening"
       THEN ExpirePending /\ Answer("ok")
       ELSE \/ /\ Borrowed # NoClient
               /\ KeepPending
               /\ Begin("status", client)
            \/ /\ Borrowed = NoClient
               /\ \E c \in Clients \ connected :
                    ClearAndOpen({c}) /\ Begin("status", c)
    /\ UNCHANGED <<session, listener>>

StatusDone ==
    /\ op.pc = "status"
    /\ IF op.client = client THEN UNCHANGED <<connected, lost>> ELSE Release(op.client, {})
    /\ Answer("ok")
    /\ UNCHANGED <<session, listener, step, expired, client>>

(* send_code.                                                              *)

\* Mutant: a second flow may start while one is pending.
SendCodeAgain ==
    /\ op.pc = "idle"
    /\ \E c \in Clients \ connected :
        /\ connected' = connected \cup {c}
        /\ Begin("send", c)
    /\ UNCHANGED <<session, listener, client, step, expired, lost>>

SendCode ==
    /\ op.pc = "idle"
    /\ IF step # "none" /\ ~ expired
       THEN Answer("login_in_progress") /\ KeepPending
       ELSE \E c \in Clients \ connected : ClearAndOpen({c}) /\ Begin("send", c)
    /\ UNCHANGED <<session, listener>>

\* The new client is connected and asked whether the session is authorized.
CheckSession ==
    /\ op.pc = "send"
    /\ IF session = "authorized"
       THEN Release(op.client, {}) /\ Answer("already_authorized")
       ELSE Begin("request", op.client) /\ UNCHANGED <<connected, lost>>
    /\ UNCHANGED <<session, listener, client, step, expired>>

CodeSent ==
    /\ op.pc = "request"
    /\ client' = op.client
    /\ step' = "code"
    /\ expired' = FALSE
    /\ Answer("code_sent")
    /\ UNCHANGED <<session, listener, connected, lost>>

\* An invalid number or a flood wait, or Telegram is unreachable.
CodeNotSent ==
    /\ op.pc \in {"send", "request"}
    /\ \/ op.pc = "request" /\ Answer("rejected")
       \/ Answer("telegram_unavailable")
    /\ Release(op.client, {})
    /\ UNCHANGED <<session, listener, client, step, expired>>

(* verify_code and verify_password.                                        *)

Verify(wanted) ==
    /\ op.pc = "idle"
    /\ IF step = "none" THEN Answer("no_pending_login") /\ KeepPending
       ELSE IF expired THEN ClearPending /\ Answer("code_expired")
       ELSE IF step # wanted THEN Answer("rejected") /\ KeepPending
       ELSE Begin(wanted, client) /\ KeepPending
    /\ UNCHANGED <<session, listener>>

\* sign_in: refused, unreachable, expired, or a password is needed.
SignInRefused ==
    /\ op.pc \in {"code", "password"}
    /\ \/ Answer("rejected") /\ KeepPending
       \/ Answer("telegram_unavailable") /\ KeepPending
       \/ op.pc = "code" /\ ClearPending /\ Answer("code_expired")
    /\ UNCHANGED <<session, listener>>

\* Mutant: the step has a name that no other operation knows.
PasswordMisspelt ==
    /\ op.pc = "code"
    /\ step' = "two_factor"
    /\ Answer("password_required")
    /\ UNCHANGED <<session, listener, expired, client, connected, lost>>

PasswordNeeded ==
    /\ op.pc = "code"
    /\ step' = "password"
    /\ Answer("password_required")
    /\ UNCHANGED <<session, listener, expired, client, connected, lost>>

SignedIn ==
    /\ op.pc \in {"code", "password"}
    /\ session' = "authorized"
    /\ Begin("complete", op.client)
    /\ UNCHANGED <<listener, step, expired, client, connected, lost>>

\* Mutant: the login client is disconnected, the pending login is kept.
AuthorizedKeepsPending ==
    /\ op.pc = "complete"
    /\ session = "authorized"
    /\ connected' = connected \ {client}
    /\ Begin("start", NoClient)
    /\ UNCHANGED <<session, listener, step, expired, client, lost>>

\* _complete_authorization: the session is asked for once more, the login
\* client is released, and the runtime is started on the session file.
Authorized ==
    /\ op.pc = "complete"
    /\ session = "authorized"
    /\ ClearPending
    /\ Begin("start", NoClient)
    /\ UNCHANGED <<session, listener>>

NotAuthorized ==
    /\ op.pc = "complete"
    /\ session = "unauthorized"
    /\ Answer("rejected")
    /\ KeepPending
    /\ UNCHANGED <<session, listener>>

(* start_telegram_runtime, in detail in TelegramRuntime: the old listener   *)
(* is stopped first (ListenerDrops); when the new one cannot start, the     *)
(* error is only logged.                                                   *)
RuntimeStarts ==
    /\ op.pc = "start"
    /\ session = "authorized"
    /\ listener' = "listening"
    /\ Answer("authorized")
    /\ KeepPending
    /\ UNCHANGED session

RuntimeFails ==
    /\ op.pc = "start"
    /\ Answer("authorized")
    /\ KeepPending
    /\ UNCHANGED <<session, listener>>

(* cancel, and close when the application stops.                           *)
Cancel ==
    /\ op.pc = "idle"
    /\ ClearPending
    /\ Answer("ok")
    /\ UNCHANGED <<session, listener>>

\* An exception no handler names leaves the operation where it is; the
\* client of send_code, which is not pending yet, stays connected.
Raise ==
    /\ op.pc \in {"send", "request", "code", "password", "complete"}
    /\ Answer("crashed")
    /\ lost' = lost \cup ({op.client} \ {client})
    /\ UNCHANGED <<session, listener, client, step, expired, connected>>

\* It may also come from the disconnection of the pending client, in any
\* operation that clears the pending login.
ClearRaises ==
    /\ op.pc \in {"idle", "code", "complete"}
    /\ client # NoClient
    /\ client' = NoClient
    /\ step' = "none"
    /\ expired' = FALSE
    /\ lost' = lost \cup {client}
    /\ Answer("crashed")
    /\ UNCHANGED <<session, listener, connected>>

-----------------------------------------------------------------------------
(* The environment.                                                        *)
Expire ==
    /\ step # "none"
    /\ expired' = TRUE
    /\ UNCHANGED <<session, listener, step, client, connected, op, outcome, lost>>

\* A listener may stay connected without its authorization.
Revoke ==
    /\ session = "authorized"
    /\ session' = "unauthorized"
    /\ UNCHANGED <<listener, step, expired, client, connected, op, outcome, lost>>

\* The monitor finds the connection lost, or the listener is stopped; the
\* next download attempt makes the connection again (ensure_connected).
ListenerDrops ==
    /\ listener = "listening"
    /\ listener' = "stopped"
    /\ UNCHANGED <<session, step, expired, client, connected, op, outcome, lost>>

ListenerReconnects ==
    /\ listener = "stopped"
    /\ listener' = "listening"
    /\ UNCHANGED <<session, step, expired, client, connected, op, outcome, lost>>

Restart ==
    /\ listener' = "none"
    /\ step' = "none"
    /\ expired' = FALSE
    /\ client' = NoClient
    /\ connected' = {}
    /\ op' = [pc |-> "start", client |-> NoClient]
    /\ outcome' = "none"
    /\ lost' = {}
    /\ UNCHANGED session

SendingCode == SendCode \/ CheckSession \/ CodeSent \/ CodeNotSent
Verifying ==
    \/ Verify("code") \/ Verify("password")
    \/ SignInRefused \/ PasswordNeeded \/ SignedIn \/ Authorized \/ NotAuthorized

Next ==
    \/ Status \/ StatusDone \/ SendingCode \/ Verifying
    \/ RuntimeStarts \/ RuntimeFails \/ Cancel \/ Raise \/ ClearRaises
    \/ Expire \/ Revoke \/ ListenerDrops \/ ListenerReconnects \/ Restart

Spec == Init /\ [][Next]_vars

-----------------------------------------------------------------------------
(* Type invariant: the values each part of the state may take.             *)
TypeOK ==
    /\ session \in {"unauthorized", "authorized"}
    /\ listener \in {"none", "listening", "stopped"}
    /\ step \in {"none", "code", "password"}
    /\ expired \in BOOLEAN
    /\ client \in Clients \cup {NoClient}
    /\ connected \subseteq Clients
    /\ op \in [pc : OpPcs, client : Clients \cup {NoClient}]
    /\ outcome \in Outcomes
    /\ lost \subseteq Clients

(* Every connection is owned: it is the one of the pending login or of the *)
(* operation in progress.  No way out of send_code, status, verify_code,   *)
(* verify_password, cancel or an expiry leaves a client connected to the   *)
(* session file that nobody will ever disconnect, except an exception that *)
(* is neither an OSError nor an RPCError, and a disconnection that fails.   *)
NoClientLeak == connected \subseteq {client, op.client} \cup lost

(* A pending login and its client come and go together, and the client is  *)
(* connected: no operation finds one without the other.                    *)
PendingHasClient ==
    /\ step = "none" <=> client = NoClient
    /\ client # NoClient => client \in connected

(* "Telegram listener is not ready; browser login is available" (main.py): *)
(* a browser login is refused as already authorized only when there is a   *)
(* listener, that runs or is going to be reconnected.                      *)
LoginAvailable == outcome = "already_authorized" => listener # "none"
=============================================================================
